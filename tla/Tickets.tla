------------------------------- MODULE Tickets -------------------------------
(***************************************************************************)
(* tickets.service and its SLA scheduler: customers, masters and staff act  *)
(* on tickets while a periodic scan escalates the late ones from a list it  *)
(* read before, one update and one note per ticket.                         *)
(***************************************************************************)
EXTENDS Naturals

CONSTANTS
  TicketIds, Staff,
  NoOne,           \* assigneeId = null
  Leads,           \* what findLead may return: an administrator, or null
  Scans,           \* scans that may be under way at once
  MaxDeaths        \* bound: how many scans die on a failing call

ASSUME NoOneAssumption == NoOne \notin Staff
ASSUME LeadsAssumption == Leads \subseteq Staff \cup {NoOne} /\ Leads # {}
ASSUME DeathsAssumption == MaxDeaths \in Nat

VARIABLES
  ticket,          \* the rows of Ticket
  notes,           \* internal notes "SLA escalated" of a ticket
  late,            \* which of its deadlines have passed: 0, the first, both
  scan,            \* the scans under way
  deaths           \* scans that died

vars == <<ticket, notes, late, scan, deaths>>

Low == 1
Normal == 2
High == 3
Urgent == 4
Priority == Low..Urgent

Active == {"open", "processing", "pendingUser"}
TicketStatus == Active \cup {"resolved", "rejected", "closed"}

Row ==
  [ status : TicketStatus \cup {"absent"}, priority : Priority,
    firstEscalated : BOOLEAN, resolveEscalated : BOOLEAN,
    level : Nat, assignee : Staff \cup {NoOne} ]

NoRow ==
  [ status |-> "absent", priority |-> Normal, firstEscalated |-> FALSE,
    resolveEscalated |-> FALSE, level |-> 0, assignee |-> NoOne ]

\* A scan: the lateness at the time it began, the rows it read, the tickets it has
\* still to look at and the one it is escalating.
Scan ==
  [ pc : {"idle", "list", "loop", "update", "note"},
    now : [TicketIds -> 0..2], rows : [TicketIds -> Row],
    todo : SUBSET TicketIds, cur : SUBSET TicketIds ]

NoRows == [t \in TicketIds |-> NoRow]

NoScan ==
  [ pc |-> "idle", now |-> [t \in TicketIds |-> 0], rows |-> NoRows,
    todo |-> {}, cur |-> {} ]

Exists(t) == ticket[t].status # "absent"

-----------------------------------------------------------------------------
(* Customers, masters and staff. Each handler ends in one update that does  *)
(* not depend on what it read, so it is one step.                           *)

\* createTicket: the priority a complaint, its reason or the caller gives it.
CreateTicket(t, p) ==
  /\ ~Exists(t)
  /\ ticket' = [ticket EXCEPT ![t] = [NoRow EXCEPT !.status = "open",
                                                   !.priority = p]]
  /\ UNCHANGED <<notes, late, scan, deaths>>

\* addComment and appeal, visible outside: the ticket is being processed, also one
\* that was resolved, rejected or closed.
AddComment(t) ==
  /\ Exists(t)
  /\ ticket' = [ticket EXCEPT ![t].status = "processing"]
  /\ UNCHANGED <<notes, late, scan, deaths>>

assign(t, a) ==
  /\ Exists(t)
  /\ ticket' = [ticket EXCEPT ![t].status = "processing", ![t].assignee = a]
  /\ UNCHANGED <<notes, late, scan, deaths>>

\* changeStatus: from any status to any; resolveComplaint ends in it as well.
changeStatus(t, to) ==
  /\ Exists(t)
  /\ to \in TicketStatus
  /\ ticket' = [ticket EXCEPT ![t].status = to]
  /\ UNCHANGED <<notes, late, scan, deaths>>

\* A deadline passes; the one of the first response is the earlier one.
Deadline(t) ==
  /\ Exists(t)
  /\ late[t] < 2
  /\ late' = [late EXCEPT ![t] = @ + 1]
  /\ UNCHANGED <<ticket, notes, scan, deaths>>

-----------------------------------------------------------------------------
(* escalateDue.                                                             *)

bumpPriority(p) == IF p = Urgent THEN Urgent ELSE p + 1

\* The timer fires, whether or not an earlier scan has ended.
ScanStart(s) ==
  /\ scan[s] = NoScan
  /\ scan' = [scan EXCEPT ![s] = [NoScan EXCEPT !.pc = "list", !.now = late]]
  /\ UNCHANGED <<ticket, notes, late, deaths>>

\* findMany of the active tickets.
ScanList(s) ==
  /\ scan[s].pc = "list"
  /\ scan' = [scan EXCEPT ![s].pc = "loop", ![s].rows = ticket,
                ![s].todo = {t \in TicketIds : ticket[t].status \in Active}]
  /\ UNCHANGED <<ticket, notes, late, deaths>>

\* Mutant: the ticket is escalated again at every scan.
FirstDueAgain(s, t) ==
  /\ scan[s].now[t] >= 1
  /\ scan[s].rows[t].status = "open"

FirstDue(s, t) ==
  /\ ~scan[s].rows[t].firstEscalated
  /\ scan[s].now[t] >= 1
  /\ scan[s].rows[t].status = "open"

\* Mutant: only tickets nobody has taken up.
ResolveDueOpen(s, t) ==
  /\ ~scan[s].rows[t].resolveEscalated
  /\ scan[s].now[t] = 2
  /\ scan[s].rows[t].status = "open"

ResolveDue(s, t) ==
  /\ ~scan[s].rows[t].resolveEscalated
  /\ scan[s].now[t] = 2

Due(s, t) == FirstDue(s, t) \/ ResolveDue(s, t)

\* The next row of the list, decided as it was read.
ScanTicket(s, t) ==
  /\ scan[s].pc = "loop"
  /\ t \in scan[s].todo
  /\ scan' = [scan EXCEPT ![s].todo = @ \ {t},
                ![s].pc = IF Due(s, t) THEN "update" ELSE "loop",
                ![s].cur = IF Due(s, t) THEN {t} ELSE {}]
  /\ UNCHANGED <<ticket, notes, late, deaths>>

\* Mutant: the columns of the first response are set last.
EscalatedFirstLast(s, t, lead) ==
  LET row == scan[s].rows[t] IN
  [ ticket[t] EXCEPT
      !.priority = IF FirstDue(s, t) THEN bumpPriority(row.priority) ELSE Urgent,
      !.firstEscalated = @ \/ FirstDue(s, t),
      !.resolveEscalated = @ \/ ResolveDue(s, t),
      !.level = IF ResolveDue(s, t) THEN row.level + 1 ELSE @,
      !.assignee = IF ResolveDue(s, t) \/ row.priority \in {High, Urgent}
                   THEN lead ELSE @ ]

\* Mutant: the whole row is written back as it was read.
EscalatedRow(s, t, lead) ==
  LET row == scan[s].rows[t] IN
  [ row EXCEPT
      !.priority = IF ResolveDue(s, t) THEN Urgent ELSE bumpPriority(row.priority),
      !.firstEscalated = @ \/ FirstDue(s, t),
      !.resolveEscalated = @ \/ ResolveDue(s, t),
      !.level = IF ResolveDue(s, t) THEN row.level + 1 ELSE @,
      !.assignee = IF ResolveDue(s, t) \/ row.priority \in {High, Urgent}
                   THEN lead ELSE @ ]

\* The row after the update: values computed from the row as it was read, written
\* over the row as it is; status is not among them.
Escalated(s, t, lead) ==
  LET row == scan[s].rows[t] IN
  [ ticket[t] EXCEPT
      !.priority = IF ResolveDue(s, t) THEN Urgent ELSE bumpPriority(row.priority),
      !.firstEscalated = @ \/ FirstDue(s, t),
      !.resolveEscalated = @ \/ ResolveDue(s, t),
      !.level = IF ResolveDue(s, t) THEN row.level + 1 ELSE @,
      !.assignee = IF ResolveDue(s, t) \/ row.priority \in {High, Urgent}
                   THEN lead ELSE @ ]

\* findLead has returned, the update is made.
ScanUpdate(s) ==
  /\ scan[s].pc = "update"
  /\ \E t \in scan[s].cur, lead \in Leads :
       ticket' = [ticket EXCEPT ![t] = Escalated(s, t, lead)]
  /\ scan' = [scan EXCEPT ![s].pc = "note"]
  /\ UNCHANGED <<notes, late, deaths>>

ScanNote(s) ==
  /\ scan[s].pc = "note"
  /\ \E t \in scan[s].cur : notes' = [notes EXCEPT ![t] = @ + 1]
  /\ scan' = [scan EXCEPT ![s].pc = "loop", ![s].cur = {}]
  /\ UNCHANGED <<ticket, late, deaths>>

ScanEnd(s) ==
  /\ scan[s].pc = "loop"
  /\ scan[s].todo = {}
  /\ scan' = [scan EXCEPT ![s] = NoScan]
  /\ UNCHANGED <<ticket, notes, late, deaths>>

\* A call throws or the process ends: the rest of the list is left.
ScanDies(s) ==
  /\ scan[s] # NoScan
  /\ deaths < MaxDeaths                                   \* bound
  /\ deaths' = deaths + 1
  /\ scan' = [scan EXCEPT ![s] = NoScan]
  /\ UNCHANGED <<ticket, notes, late>>

-----------------------------------------------------------------------------
Init ==
  /\ ticket = NoRows
  /\ notes = [t \in TicketIds |-> 0]
  /\ late = [t \in TicketIds |-> 0]
  /\ scan = [s \in Scans |-> NoScan]
  /\ deaths = 0

People(t) ==
  \/ \E p \in Priority : CreateTicket(t, p)
  \/ AddComment(t)
  \/ \E a \in Staff : assign(t, a)
  \/ \E to \in TicketStatus : changeStatus(t, to)

ScanStep(s) ==
  \/ ScanList(s)
  \/ \E t \in TicketIds : ScanTicket(s, t)
  \/ ScanUpdate(s)
  \/ ScanNote(s)
  \/ ScanEnd(s)

Next ==
  \/ \E t \in TicketIds : People(t) \/ Deadline(t)
  \/ \E s \in Scans : ScanStart(s) \/ ScanStep(s) \/ ScanDies(s)

Spec == Init /\ [][Next]_vars

\* The interval timer fires again and again, and a scan goes on; nobody is obliged
\* to answer a ticket.
Fairness == \A s \in Scans : WF_vars(ScanStart(s)) /\ WF_vars(ScanStep(s))

FairSpec == Spec /\ Fairness

-----------------------------------------------------------------------------
(* Properties with one scan at a time: it ends before the timer fires.      *)

\* The types of the rows, the notes, the deadlines and the scans.
TypeOK ==
  /\ ticket \in [TicketIds -> Row]
  /\ notes \in [TicketIds -> Nat]
  /\ late \in [TicketIds -> 0..2]
  /\ scan \in [Scans -> Scan]
  /\ deaths \in Nat

\* An escalation for a late resolution is never lost again: the ticket is urgent
\* and stays so, whatever an escalation for the first response does.
EscalatedIsUrgent ==
  \A t \in TicketIds : ticket[t].resolveEscalated => ticket[t].priority = Urgent

\* One escalation per deadline, whatever scans die: the level is counted once, and
\* there are no more notes than deadlines that were escalated.
EscalatedOnce ==
  \A t \in TicketIds :
    LET first == IF ticket[t].firstEscalated THEN 1 ELSE 0
        resolve == IF ticket[t].resolveEscalated THEN 1 ELSE 0
    IN  ticket[t].level = resolve /\ notes[t] <= first + resolve

\* Escalating never touches how far staff are with a ticket: a ticket they closed
\* or took up during the scan is not put back to the status the scan has read.
EscalationKeepsStatus ==
  [][\A t \in TicketIds :
       /\ ticket[t].status # "absent"
       /\ \/ ticket'[t].firstEscalated # ticket[t].firstEscalated
          \/ ticket'[t].resolveEscalated # ticket[t].resolveEscalated
       => ticket'[t].status = ticket[t].status]_vars

\* No ticket is forgotten: past its second deadline it is escalated, unless it is
\* resolved, rejected or closed at some time before.
LateIsEscalated ==
  \A t \in TicketIds :
    late[t] = 2 /\ Exists(t) ~>
      ticket[t].resolveEscalated \/ ticket[t].status \notin Active

\* Why EscalatedIsUrgent and EscalatedOnce hold: what a scan has read of the
\* columns only scans write is still so until its own update of that ticket.
ScanUpToDate ==
  \A s \in Scans :
    /\ scan[s].pc \in {"update", "note"} => \E t \in TicketIds : scan[s].cur = {t}
    /\ scan[s].pc \notin {"update", "note"} => scan[s].cur = {}
    /\ scan[s].cur \cap scan[s].todo = {}
    /\ \A t \in scan[s].todo \cup scan[s].cur :
         (scan[s].pc = "note" => t \notin scan[s].cur) =>
           /\ ticket[t].priority = scan[s].rows[t].priority
           /\ ticket[t].firstEscalated = scan[s].rows[t].firstEscalated
           /\ ticket[t].resolveEscalated = scan[s].rows[t].resolveEscalated
           /\ ticket[t].level = scan[s].rows[t].level

=============================================================================
