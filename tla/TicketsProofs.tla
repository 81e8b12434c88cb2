---------------------------- MODULE TicketsProofs ----------------------------
(***************************************************************************)
(* Types of Tickets, and what escalation keeps when scans do not overlap,   *)
(* for any number of tickets and staff and whatever dies.                   *)
(***************************************************************************)
EXTENDS Tickets, TLAPS

Alone == \A s1, s2 \in Scans : s1 = s2

LEMMA RowType ==
  ASSUME TypeOK, NEW t \in TicketIds
  PROVE  /\ ticket[t] \in Row
         /\ NoRow \in Row
         /\ NoRow.status = "absent"
BY NoOneAssumption DEF TypeOK, Row, NoRow, Priority, Low, Normal, Urgent, TicketStatus

LEMMA NoScanType == NoScan \in Scan
BY NoOneAssumption
DEF NoScan, NoRows, NoRow, Scan, Row, Priority, Low, Normal, Urgent, TicketStatus

LEMMA ScanType ==
  ASSUME TypeOK, NEW s \in Scans
  PROVE  /\ scan[s] \in Scan
         /\ scan[s].now \in [TicketIds -> 0..2]
         /\ scan[s].rows \in [TicketIds -> Row]
         /\ scan[s].todo \in SUBSET TicketIds
         /\ scan[s].cur \in SUBSET TicketIds
BY DEF TypeOK, Scan

LEMMA BumpType ==
  ASSUME NEW p \in Priority
  PROVE  bumpPriority(p) \in Priority /\ bumpPriority(Urgent) = Urgent
BY DEF bumpPriority, Priority, Low, Urgent

LEMMA EscalatedType ==
  ASSUME TypeOK, NEW s \in Scans, NEW t \in TicketIds, NEW lead \in Leads
  PROVE  Escalated(s, t, lead) \in Row
<1>1. scan[s].rows[t] \in Row  /\ ticket[t] \in Row
  BY ScanType, RowType
<1>2. scan[s].rows[t].priority \in Priority /\ scan[s].rows[t].level \in Nat
  BY <1>1 DEF Row
<1>3. bumpPriority(scan[s].rows[t].priority) \in Priority
  BY <1>2, BumpType
<1>4. Urgent \in Priority /\ lead \in Staff \cup {NoOne}
  BY LeadsAssumption DEF Priority, Low, Urgent
<1>5. FirstDue(s, t) \in BOOLEAN /\ ResolveDue(s, t) \in BOOLEAN
  BY DEF FirstDue, ResolveDue
<1> DEFINE first == ticket[t].firstEscalated \/ FirstDue(s, t)
           resolve == ticket[t].resolveEscalated \/ ResolveDue(s, t)
           p == IF ResolveDue(s, t) THEN Urgent ELSE bumpPriority(scan[s].rows[t].priority)
           l == IF ResolveDue(s, t) THEN scan[s].rows[t].level + 1 ELSE ticket[t].level
           a == IF ResolveDue(s, t) \/ scan[s].rows[t].priority \in {High, Urgent}
                THEN lead ELSE ticket[t].assignee
<1>6. Escalated(s, t, lead) =
        [ticket[t] EXCEPT !.priority = p, !.firstEscalated = first,
                          !.resolveEscalated = resolve, !.level = l, !.assignee = a]
  BY DEF Escalated
<1>7. first \in BOOLEAN /\ resolve \in BOOLEAN
  BY Zenon
<1>8. p \in Priority /\ l \in Nat /\ a \in Staff \cup {NoOne}
  BY <1>1, <1>2, <1>3, <1>4 DEF Row
<1> HIDE DEF first, resolve, p, l, a
<1> QED BY <1>1, <1>6, <1>7, <1>8 DEF Row

\* The actions of Next, one by one.
LEMMA NextCases ==
  ASSUME NEW P, Next,
         \A t \in TicketIds : (\E p \in Priority : CreateTicket(t, p)) => P,
         \A t \in TicketIds : AddComment(t) => P,
         \A t \in TicketIds : (\E a \in Staff : assign(t, a)) => P,
         \A t \in TicketIds : (\E to \in TicketStatus : changeStatus(t, to)) => P,
         \A t \in TicketIds : Deadline(t) => P,
         \A s \in Scans : ScanStart(s) => P,
         \A s \in Scans : ScanList(s) => P,
         \A s \in Scans : (\E t \in TicketIds : ScanTicket(s, t)) => P,
         \A s \in Scans : ScanUpdate(s) => P,
         \A s \in Scans : ScanNote(s) => P,
         \A s \in Scans : ScanEnd(s) \/ ScanDies(s) => P
  PROVE  P
BY DEF Next, People, ScanStep

\* Tickets and scans keep their types, whatever people and scans do at once.
THEOREM TypeCorrect == Spec => []TypeOK
<1>1. Init => TypeOK
  BY NoScanType, NoOneAssumption
  DEF Init, TypeOK, NoRows, NoRow, Row, Priority, Low, Normal, Urgent, TicketStatus
<1>2. ASSUME TypeOK, [Next]_vars PROVE TypeOK'
  <2> USE <1>2 DEF TypeOK
  <2>1. CASE UNCHANGED vars
    BY <2>1 DEF vars
  <2>2. CASE Next
    <3> DEFINE Goal == TypeOK'
    <3>1. ASSUME NEW t \in TicketIds, NEW p \in Priority, CreateTicket(t, p) PROVE Goal
      <4>1. [NoRow EXCEPT !.status = "open", !.priority = p] \in Row
        BY RowType DEF Row, TicketStatus, Active, NoRow
      <4> QED BY <3>1, <4>1 DEF CreateTicket
    <3>2. ASSUME NEW t \in TicketIds, AddComment(t) PROVE Goal
      <4>1. [ticket[t] EXCEPT !.status = "processing"] \in Row
        BY RowType DEF Row, TicketStatus, Active
      <4> QED BY <3>2, <4>1 DEF AddComment
    <3>3. ASSUME NEW t \in TicketIds, NEW a \in Staff, assign(t, a) PROVE Goal
      <4>1. [ticket[t] EXCEPT !.status = "processing", !.assignee = a] \in Row
        BY RowType DEF Row, TicketStatus, Active
      <4>2. ticket' = [ticket EXCEPT ![t] = [ticket[t] EXCEPT !.status = "processing", !.assignee = a]]
        BY <3>3 DEF assign
      <4> QED BY <3>3, <4>1, <4>2 DEF assign
    <3>4. ASSUME NEW t \in TicketIds, NEW to \in TicketStatus, changeStatus(t, to) PROVE Goal
      <4>1. [ticket[t] EXCEPT !.status = to] \in Row
        BY RowType DEF Row
      <4> QED BY <3>4, <4>1 DEF changeStatus
    <3>5. ASSUME NEW t \in TicketIds, Deadline(t) PROVE Goal
      BY <3>5 DEF Deadline
    <3>6. ASSUME NEW s \in Scans, ScanStart(s) PROVE Goal
      <4>1. [NoScan EXCEPT !.pc = "list", !.now = late] \in Scan
        BY NoScanType DEF Scan
      <4> QED BY <3>6, <4>1 DEF ScanStart
    <3>7. ASSUME NEW s \in Scans, ScanList(s) PROVE Goal
      <4> DEFINE active == {t \in TicketIds : ticket[t].status \in Active}
      <4>1. [scan[s] EXCEPT !.pc = "loop", !.rows = ticket, !.todo = active] \in Scan
        BY ScanType DEF Scan
      <4>2. scan' = [scan EXCEPT ![s] = [scan[s] EXCEPT !.pc = "loop", !.rows = ticket, !.todo = active]]
        BY <3>7 DEF ScanList
      <4> HIDE DEF active
      <4>3. scan' \in [Scans -> Scan]
        BY <4>1, <4>2 DEF TypeOK
      <4> QED BY <3>7, <4>3 DEF ScanList
    <3>8. ASSUME NEW s \in Scans, NEW t \in TicketIds, ScanTicket(s, t) PROVE Goal
      <4> DEFINE pc == IF Due(s, t) THEN "update" ELSE "loop"
                 cur == IF Due(s, t) THEN {t} ELSE {}
      <4>0. pc \in {"update", "loop"} /\ cur \in SUBSET TicketIds
        OBVIOUS
      <4>1. [scan[s] EXCEPT !.todo = @ \ {t}, !.pc = pc, !.cur = cur] \in Scan
        <5> HIDE DEF pc, cur
        <5> QED BY <4>0, ScanType DEF Scan
      <4>2. scan' = [scan EXCEPT ![s] = [scan[s] EXCEPT !.todo = @ \ {t}, !.pc = pc, !.cur = cur]]
        BY <3>8 DEF ScanTicket
      <4> HIDE DEF pc, cur
      <4>3. scan' \in [Scans -> Scan]
        BY <4>1, <4>2 DEF TypeOK
      <4> QED BY <3>8, <4>3 DEF ScanTicket
    <3>9. ASSUME NEW s \in Scans, ScanUpdate(s) PROVE Goal
      <4>1. [scan[s] EXCEPT !.pc = "note"] \in Scan
        BY ScanType DEF Scan
      <4>2. PICK t \in scan[s].cur, lead \in Leads : ticket' = [ticket EXCEPT ![t] = Escalated(s, t, lead)]
        BY <3>9 DEF ScanUpdate
      <4>3. t \in TicketIds
        BY ScanType
      <4>4. Escalated(s, t, lead) \in Row
        BY <4>3, EscalatedType
      <4> QED BY <3>9, <4>1, <4>2, <4>4 DEF ScanUpdate
    <3>10. ASSUME NEW s \in Scans, ScanNote(s) PROVE Goal
      <4>1. [scan[s] EXCEPT !.pc = "loop", !.cur = {}] \in Scan
        BY ScanType DEF Scan
      <4>2. scan' = [scan EXCEPT ![s] = [scan[s] EXCEPT !.pc = "loop", !.cur = {}]]
        BY <3>10 DEF ScanNote
      <4>3. PICK t \in scan[s].cur : notes' = [notes EXCEPT ![t] = @ + 1]
        BY <3>10 DEF ScanNote
      <4>4. t \in TicketIds /\ notes' \in [TicketIds -> Nat]
        BY <4>3, ScanType
      <4> QED BY <3>10, <4>1, <4>2, <4>4 DEF ScanNote
    <3>11. ASSUME NEW s \in Scans, ScanEnd(s) \/ ScanDies(s) PROVE Goal
      BY <3>11, NoScanType DEF ScanEnd, ScanDies
    <3> HIDE DEF Goal
    <3>12. Goal
      BY ONLY <2>2, <3>1, <3>2, <3>3, <3>4, <3>5, <3>6, <3>7, <3>8, <3>9, <3>10, <3>11, NextCases
    <3> QED BY <3>12 DEF Goal
  <2> QED BY <2>1, <2>2
<1> QED BY <1>1, <1>2, PTL DEF Spec

-----------------------------------------------------------------------------
(* Escalation, scans one at a time. EscalatedIsUrgent and EscalatedOnce are  *)
(* not inductive: an update writes what was computed from a row read before. *)
(* ScanUpToDate says that row is still so, Counted what the scan has still   *)
(* to do for the ticket it is at, Present that it is there.                  *)

Count(t) ==
  (IF ticket[t].firstEscalated THEN 1 ELSE 0) + (IF ticket[t].resolveEscalated THEN 1 ELSE 0)

Counted ==
  \A s \in Scans : \A t \in scan[s].cur :
    /\ scan[s].pc = "update" => Due(s, t)
    /\ scan[s].pc = "note" => notes[t] + 1 <= Count(t)

Present ==
  /\ \A t \in TicketIds : ~Exists(t) => ticket[t] = NoRow
  /\ \A s \in Scans : \A t \in scan[s].todo \cup scan[s].cur : Exists(t)

EscalationInv ==
  /\ ScanUpToDate
  /\ Counted
  /\ Present
  /\ EscalatedIsUrgent
  /\ EscalatedOnce

\* What people do to the columns a scan writes: nothing, but for a new ticket.
Touched(t) ==
  /\ UNCHANGED <<notes, scan>>
  /\ \A u \in TicketIds \ {t} : ticket'[u] = ticket[u]
  /\ ticket'[t].status # "absent"
  /\ ticket'[t].firstEscalated = ticket[t].firstEscalated
  /\ ticket'[t].resolveEscalated = ticket[t].resolveEscalated
  /\ ticket'[t].level = ticket[t].level
  /\ Exists(t) => ticket'[t].priority = ticket[t].priority

LEMMA PeopleTouch ==
  ASSUME TypeOK, Present, NEW t \in TicketIds,
         \/ \E p \in Priority : CreateTicket(t, p)
         \/ AddComment(t)
         \/ \E a \in Staff : assign(t, a)
         \/ \E to \in TicketStatus : changeStatus(t, to)
  PROVE  Touched(t)
<1>1. CASE \E p \in Priority : CreateTicket(t, p)
  <2>1. PICK p \in Priority : CreateTicket(t, p)
    BY <1>1
  <2>2. ~Exists(t) /\ ticket[t] = NoRow
    BY <2>1 DEF CreateTicket, Present
  <2>3. ticket'[t] = [NoRow EXCEPT !.status = "open", !.priority = p]
    BY <2>1 DEF CreateTicket, TypeOK
  <2> QED BY <2>1, <2>2, <2>3 DEF CreateTicket, Touched, TypeOK, NoRow
<1>2. CASE AddComment(t)
  BY <1>2, RowType DEF AddComment, Touched, TypeOK, Row
<1>3. CASE \E a \in Staff : assign(t, a)
  <2>1. PICK a \in Staff : assign(t, a)
    BY <1>3
  <2>2. ticket'[t] = [ticket[t] EXCEPT !.status = "processing", !.assignee = a]
    BY <2>1 DEF assign, TypeOK
  <2> QED BY <2>1, <2>2, RowType DEF assign, Touched, TypeOK, Row
<1>4. CASE \E to \in TicketStatus : changeStatus(t, to)
  BY <1>4, RowType DEF changeStatus, Touched, TypeOK, Row, TicketStatus, Active
<1> QED BY <1>1, <1>2, <1>3, <1>4

LEMMA TouchedKeeps ==
  ASSUME TypeOK, TypeOK', EscalationInv, NEW t \in TicketIds, Touched(t)
  PROVE  EscalationInv'
<1> USE DEF EscalationInv, Touched
<1>1. ScanUpToDate'
  <2>1. ASSUME NEW s \in Scans, NEW u \in scan[s].todo \cup scan[s].cur
        PROVE  /\ ticket'[u].priority = ticket[u].priority
               /\ ticket'[u].firstEscalated = ticket[u].firstEscalated
               /\ ticket'[u].resolveEscalated = ticket[u].resolveEscalated
               /\ ticket'[u].level = ticket[u].level
    BY <2>1, ScanType DEF Present
  <2> QED BY <2>1 DEF ScanUpToDate
<1>2. \A u \in TicketIds : Count(u)' = Count(u)
  BY DEF Count
<1>3. Counted'
  <2>1. \A s \in Scans : \A u \in TicketIds : Due(s, u)' = Due(s, u)
    BY DEF Due, FirstDue, ResolveDue
  <2> QED BY <1>2, <2>1, ScanType DEF Counted
<1>4. Present'
  BY ScanType DEF Present, Exists
<1>5. EscalatedIsUrgent'
  BY DEF EscalatedIsUrgent, Present, NoRow
<1>6. EscalatedOnce'
  BY DEF EscalatedOnce
<1> QED BY <1>1, <1>3, <1>4, <1>5, <1>6

\* Steps that only choose what the scan does next.
LEMMA ScanOnlyKeeps ==
  ASSUME TypeOK, TypeOK', EscalationInv, UNCHANGED <<ticket, notes>>,
         ScanUpToDate', Counted', \A s \in Scans : \A t \in scan'[s].todo \cup scan'[s].cur : Exists(t)
  PROVE  EscalationInv'
BY DEF EscalationInv, Present, EscalatedIsUrgent, EscalatedOnce, Exists

LEMMA ScanTicketKeeps ==
  ASSUME TypeOK, TypeOK', EscalationInv, Alone, NEW s \in Scans, NEW t \in TicketIds, ScanTicket(s, t)
  PROVE  EscalationInv'
<1> USE DEF EscalationInv
<1>1. \A x \in Scans : x = s
  BY DEF Alone
<1>2. /\ scan'[s].todo = scan[s].todo \ {t}
      /\ scan'[s].pc = IF Due(s, t) THEN "update" ELSE "loop"
      /\ scan'[s].cur = IF Due(s, t) THEN {t} ELSE {}
      /\ scan'[s].rows = scan[s].rows
      /\ scan'[s].now = scan[s].now
      /\ UNCHANGED <<ticket, notes, late, deaths>>
      /\ scan[s].pc = "loop" /\ t \in scan[s].todo
  BY ScanType DEF ScanTicket, TypeOK, Scan
<1>3. Due(s, t)' = Due(s, t)
  BY <1>2 DEF Due, FirstDue, ResolveDue
<1>4. ScanUpToDate'
  BY <1>1, <1>2 DEF ScanUpToDate
<1>5. Counted'
  BY <1>1, <1>2, <1>3 DEF Counted
<1>6. \A x \in Scans : \A u \in scan'[x].todo \cup scan'[x].cur : Exists(u)
  BY <1>1, <1>2 DEF Present
<1> QED BY <1>2, <1>4, <1>5, <1>6, ScanOnlyKeeps

LEMMA ScanListKeeps ==
  ASSUME TypeOK, TypeOK', EscalationInv, Alone, NEW s \in Scans, ScanList(s)
  PROVE  EscalationInv'
<1> USE DEF EscalationInv
<1>1. \A x \in Scans : x = s
  BY DEF Alone
<1>2. /\ scan'[s].todo = {t \in TicketIds : ticket[t].status \in Active}
      /\ scan'[s].pc = "loop"
      /\ scan'[s].cur = scan[s].cur
      /\ scan'[s].rows = ticket
      /\ UNCHANGED <<ticket, notes, late, deaths>>
      /\ scan[s].pc = "list"
  BY ScanType DEF ScanList, TypeOK, Scan
<1>3. scan[s].cur = {}
  BY <1>2 DEF ScanUpToDate
<1>4. ScanUpToDate'
  BY <1>1, <1>2, <1>3 DEF ScanUpToDate
<1>5. Counted'
  BY <1>1, <1>2, <1>3 DEF Counted
<1>6. \A x \in Scans : \A u \in scan'[x].todo \cup scan'[x].cur : Exists(u)
  BY <1>1, <1>2, <1>3 DEF Exists, Active
<1> QED BY <1>2, <1>4, <1>5, <1>6, ScanOnlyKeeps

\* A scan begins, ends or dies.
LEMMA ScanResetKeeps ==
  ASSUME TypeOK, TypeOK', EscalationInv, Alone, NEW s \in Scans,
         ScanStart(s) \/ ScanEnd(s) \/ ScanDies(s)
  PROVE  EscalationInv'
<1> USE DEF EscalationInv
<1>1. \A x \in Scans : x = s
  BY DEF Alone
<1>2. /\ scan'[s].todo = {} /\ scan'[s].cur = {}
      /\ scan'[s].pc \in {"idle", "list"}
      /\ UNCHANGED <<ticket, notes, late>>
  <2>1. CASE ScanStart(s)
    <3>1. scan'[s] = [NoScan EXCEPT !.pc = "list", !.now = late]
      BY <2>1 DEF ScanStart, TypeOK
    <3> QED BY <2>1, <3>1 DEF ScanStart, NoScan
  <2>2. CASE ScanEnd(s) \/ ScanDies(s)
    <3>1. scan'[s] = NoScan
      BY <2>2 DEF ScanEnd, ScanDies, TypeOK
    <3> QED BY <2>2, <3>1 DEF ScanEnd, ScanDies, NoScan
  <2> QED BY <2>1, <2>2
<1>3. ScanUpToDate'
  BY <1>1, <1>2 DEF ScanUpToDate
<1>4. Counted'
  BY <1>1, <1>2 DEF Counted
<1> QED BY <1>1, <1>2, <1>3, <1>4, ScanOnlyKeeps

LEMMA ScanUpdateKeeps ==
  ASSUME TypeOK, TypeOK', EscalationInv, Alone, NEW s \in Scans, ScanUpdate(s)
  PROVE  EscalationInv'
<1> USE DEF EscalationInv
<1>1. \A x \in Scans : x = s
  BY DEF Alone
<1>2. PICK t \in scan[s].cur, lead \in Leads : ticket' = [ticket EXCEPT ![t] = Escalated(s, t, lead)]
  BY DEF ScanUpdate
<1>3. /\ t \in TicketIds /\ scan[s].pc = "update"
      /\ scan[s].cur = {t} /\ t \notin scan[s].todo
      /\ UNCHANGED <<notes, late, deaths>>
  BY <1>2, ScanType DEF ScanUpdate, ScanUpToDate
<1>4. /\ scan'[s].pc = "note" /\ scan'[s].todo = scan[s].todo
      /\ scan'[s].cur = {t} /\ scan'[s].rows = scan[s].rows
  BY <1>3, ScanType DEF ScanUpdate, TypeOK, Scan
<1> DEFINE row == scan[s].rows[t]
<1>5. /\ ticket[t].priority = row.priority
      /\ ticket[t].firstEscalated = row.firstEscalated
      /\ ticket[t].resolveEscalated = row.resolveEscalated
      /\ ticket[t].level = row.level
      /\ Due(s, t) /\ Exists(t)
  BY <1>3 DEF ScanUpToDate, Counted, Present
<1>6. /\ ticket[t] \in Row /\ row \in Row /\ ticket'[t] \in Row
      /\ \A u \in TicketIds \ {t} : ticket'[u] = ticket[u]
  BY <1>2, <1>3, ScanType DEF TypeOK
<1>7. ticket'[t] = Escalated(s, t, lead)
  BY <1>2, <1>3 DEF TypeOK
<1>8. /\ ticket'[t].status = ticket[t].status
      /\ ticket'[t].priority = IF ResolveDue(s, t) THEN Urgent ELSE bumpPriority(row.priority)
      /\ ticket'[t].firstEscalated = (ticket[t].firstEscalated \/ FirstDue(s, t))
      /\ ticket'[t].resolveEscalated = (ticket[t].resolveEscalated \/ ResolveDue(s, t))
      /\ ticket'[t].level = IF ResolveDue(s, t) THEN row.level + 1 ELSE ticket[t].level
  BY <1>6, <1>7, Zenon DEF Escalated, Row
<1>9. Count(t)' >= Count(t) + 1 /\ Count(t) \in Nat
  <2>1. /\ ticket[t].firstEscalated => ticket'[t].firstEscalated
        /\ ticket[t].resolveEscalated => ticket'[t].resolveEscalated
        /\ FirstDue(s, t) => ticket'[t].firstEscalated
        /\ ResolveDue(s, t) => ticket'[t].resolveEscalated
        /\ FirstDue(s, t) \/ ResolveDue(s, t)
    BY <1>5, <1>8, Zenon DEF Due
  <2>2. /\ FirstDue(s, t) => ~ticket[t].firstEscalated
        /\ ResolveDue(s, t) => ~ticket[t].resolveEscalated
    BY <1>5, Zenon DEF FirstDue, ResolveDue
  <2> HIDE DEF row
  <2> QED BY ONLY <2>1, <2>2 DEF Count
<1>10. ScanUpToDate'
  <2>1. \A u \in scan[s].todo : ticket'[u] = ticket[u]
    BY <1>3, <1>6, ScanType
  <2>2. \A u \in scan[s].todo :
          /\ ticket[u].priority = scan[s].rows[u].priority
          /\ ticket[u].firstEscalated = scan[s].rows[u].firstEscalated
          /\ ticket[u].resolveEscalated = scan[s].rows[u].resolveEscalated
          /\ ticket[u].level = scan[s].rows[u].level
    BY <1>3 DEF ScanUpToDate
  <2> HIDE DEF row
  <2> QED BY ONLY <1>1, <1>3, <1>4, <2>1, <2>2 DEF ScanUpToDate
<1>11. EscalatedOnce'
  <2>1. notes[t] <= Count(t) /\ notes[t] \in Nat
    BY <1>3 DEF EscalatedOnce, Count, TypeOK
  <2>2. notes'[t] <= Count(t)' /\ Count(t)' \in Nat
    BY <1>3, <1>6, <1>9, <2>1 DEF Count, Row
  <2>3. ticket'[t].level = IF ticket'[t].resolveEscalated THEN 1 ELSE 0
    BY <1>3, <1>5, <1>6, <1>8 DEF EscalatedOnce, ResolveDue, Row
  <2> QED BY <1>3, <1>6, <2>2, <2>3 DEF EscalatedOnce, Count
<1>12. EscalatedIsUrgent'
  <2>1. ticket'[t].resolveEscalated => ticket'[t].priority = Urgent
    BY <1>3, <1>5, <1>6, <1>8 DEF EscalatedIsUrgent, bumpPriority, Row
  <2> QED BY <1>3, <1>6, <2>1 DEF EscalatedIsUrgent
<1>13. Counted'
  <2>1. notes'[t] + 1 <= Count(t)'
    BY <1>3, <1>6, <1>9 DEF EscalatedOnce, Count, TypeOK, Row
  <2> QED BY <1>1, <1>4, <2>1 DEF Counted
<1>14. Present'
  <2>1. ticket'[t].status = ticket[t].status /\ ticket[t].status # "absent"
    BY <1>5, <1>8 DEF Exists
  <2>2. \A u \in scan[s].todo : ticket'[u] = ticket[u] /\ Exists(u)
    BY <1>3, <1>6, ScanType DEF Present
  <2>3. \A u \in TicketIds : ~Exists(u)' => ticket'[u] = NoRow
    BY <1>6, <2>1 DEF Present, Exists
  <2>4. \A x \in Scans : \A u \in scan'[x].todo \cup scan'[x].cur : Exists(u)'
    BY ONLY <1>1, <1>4, <2>1, <2>2 DEF Exists
  <2> QED BY <2>3, <2>4 DEF Present
<1> QED BY <1>10, <1>11, <1>12, <1>13, <1>14

LEMMA ScanNoteKeeps ==
  ASSUME TypeOK, TypeOK', EscalationInv, Alone, NEW s \in Scans, ScanNote(s)
  PROVE  EscalationInv'
<1> USE DEF EscalationInv
<1>1. \A x \in Scans : x = s
  BY DEF Alone
<1>2. PICK t \in scan[s].cur : notes' = [notes EXCEPT ![t] = @ + 1]
  BY DEF ScanNote
<1>3. /\ t \in TicketIds /\ scan[s].pc = "note"
      /\ UNCHANGED <<ticket, late, deaths>>
      /\ notes'[t] = notes[t] + 1
      /\ \A u \in TicketIds \ {t} : notes'[u] = notes[u]
  BY <1>2, ScanType DEF ScanNote, TypeOK
<1>4. /\ scan'[s].pc = "loop" /\ scan'[s].todo = scan[s].todo
      /\ scan'[s].cur = {} /\ scan'[s].rows = scan[s].rows
  BY <1>3, ScanType DEF ScanNote, TypeOK, Scan
<1>5. notes[t] + 1 <= Count(t)
  BY <1>3 DEF Counted
<1>6. EscalatedOnce'
  BY <1>3, <1>5 DEF EscalatedOnce, Count
<1>7. ScanUpToDate'
  <2>1. scan[s].cur = {t}
    BY <1>2, <1>3 DEF ScanUpToDate
  <2> QED BY <1>1, <1>3, <1>4, <2>1 DEF ScanUpToDate
<1>8. Counted' /\ Present' /\ EscalatedIsUrgent'
  BY <1>1, <1>3, <1>4 DEF Counted, Present, EscalatedIsUrgent, Exists
<1> QED BY <1>6, <1>7, <1>8

\* One scan at a time: what it read is still so, a late ticket is urgent once noted, and
\* there is one note a deadline.
THEOREM EscalationInvariant == Alone => (Spec => []EscalationInv)
<1> SUFFICES ASSUME Alone PROVE Spec => []EscalationInv
  OBVIOUS
<1>1. Init => EscalationInv
  <2> SUFFICES ASSUME Init PROVE EscalationInv
    OBVIOUS
  <2>1. /\ \A t \in TicketIds : ticket[t] = NoRow /\ notes[t] = 0
        /\ \A s \in Scans : scan[s].pc = "idle" /\ scan[s].todo = {} /\ scan[s].cur = {}
    BY DEF Init, NoRows, NoScan
  <2>2. ScanUpToDate /\ Counted /\ Present
    BY <2>1 DEF ScanUpToDate, Counted, Present
  <2>3. EscalatedIsUrgent /\ EscalatedOnce
    BY <2>1 DEF EscalatedIsUrgent, EscalatedOnce, NoRow
  <2> QED BY <2>2, <2>3 DEF EscalationInv
<1>2. TypeOK /\ TypeOK' /\ EscalationInv /\ [Next]_vars => EscalationInv'
  <2> SUFFICES ASSUME TypeOK, TypeOK', EscalationInv, [Next]_vars PROVE EscalationInv'
    OBVIOUS
  <2>1. CASE UNCHANGED vars
    BY <2>1 DEF vars, EscalationInv, ScanUpToDate, Counted, Present, EscalatedIsUrgent,
         EscalatedOnce, Exists, Due, FirstDue, ResolveDue, Count
  <2>2. CASE Next
    <3> DEFINE Goal == EscalationInv'
    <3>1. ASSUME NEW t \in TicketIds,
                 \/ \E p \in Priority : CreateTicket(t, p)
                 \/ AddComment(t)
                 \/ \E a \in Staff : assign(t, a)
                 \/ \E to \in TicketStatus : changeStatus(t, to)
          PROVE  Goal
      BY <3>1, PeopleTouch, TouchedKeeps DEF EscalationInv
    <3>2. ASSUME NEW t \in TicketIds, Deadline(t) PROVE Goal
      BY <3>2 DEF Deadline, EscalationInv, ScanUpToDate, Counted, Present, EscalatedIsUrgent,
           EscalatedOnce, Exists, Due, FirstDue, ResolveDue, Count
    <3>3. ASSUME NEW s \in Scans, ScanStart(s) PROVE Goal
      BY <3>3, ScanResetKeeps
    <3>4. ASSUME NEW s \in Scans, ScanList(s) PROVE Goal
      BY <3>4, ScanListKeeps
    <3>5. ASSUME NEW s \in Scans, \E t \in TicketIds : ScanTicket(s, t) PROVE Goal
      BY <3>5, ScanTicketKeeps
    <3>6. ASSUME NEW s \in Scans, ScanUpdate(s) PROVE Goal
      BY <3>6, ScanUpdateKeeps
    <3>7. ASSUME NEW s \in Scans, ScanNote(s) PROVE Goal
      BY <3>7, ScanNoteKeeps
    <3>8. ASSUME NEW s \in Scans, ScanEnd(s) \/ ScanDies(s) PROVE Goal
      BY <3>8, ScanResetKeeps
    <3> HIDE DEF Goal
    <3>9. Goal
      BY ONLY <2>2, <3>1, <3>2, <3>3, <3>4, <3>5, <3>6, <3>7, <3>8, NextCases
    <3> QED BY <3>9 DEF Goal
  <2> QED BY <2>1, <2>2
<1> QED BY <1>1, <1>2, TypeCorrect, PTL DEF Spec

\* Once escalated for a late resolution a ticket stays urgent: the escalation for the
\* first response computes its priority from a row read before.
THEOREM EscalatedStaysUrgent == Alone => (Spec => []EscalatedIsUrgent)
BY EscalationInvariant, PTL DEF EscalationInv

\* One escalation per deadline, whatever scans die.
THEOREM EscalatedOncePerDeadline == Alone => (Spec => []EscalatedOnce)
BY EscalationInvariant, PTL DEF EscalationInv

\* An escalation leaves the status alone, however scans overlap.
THEOREM StatusIsKept == Spec => EscalationKeepsStatus
<1>1. TypeOK /\ [Next]_vars =>
        [\A t \in TicketIds :
           /\ ticket[t].status # "absent"
           /\ \/ ticket'[t].firstEscalated # ticket[t].firstEscalated
              \/ ticket'[t].resolveEscalated # ticket[t].resolveEscalated
           => ticket'[t].status = ticket[t].status]_vars
  <2> SUFFICES ASSUME TypeOK, [Next]_vars, vars' # vars, NEW t \in TicketIds, ticket[t].status # "absent",
                      \/ ticket'[t].firstEscalated # ticket[t].firstEscalated
                      \/ ticket'[t].resolveEscalated # ticket[t].resolveEscalated
               PROVE  ticket'[t].status = ticket[t].status
    OBVIOUS
  <2> DEFINE Goal == ticket'[t].status = ticket[t].status
  <2>1. ASSUME NEW u \in TicketIds, \E p \in Priority : CreateTicket(u, p) PROVE Goal
    BY <2>1 DEF CreateTicket, Exists, TypeOK
  <2>2. ASSUME NEW u \in TicketIds, AddComment(u) PROVE Goal
    BY <2>2, RowType DEF AddComment, TypeOK, Row
  <2>3. ASSUME NEW u \in TicketIds, \E a \in Staff : assign(u, a) PROVE Goal
    <3>1. PICK a \in Staff : assign(u, a)
      BY <2>3
    <3>2. ticket' = [ticket EXCEPT ![u] = [ticket[u] EXCEPT !.status = "processing", !.assignee = a]]
      BY <3>1 DEF assign
    <3> QED BY <3>2, RowType DEF TypeOK, Row
  <2>4. ASSUME NEW u \in TicketIds, \E to \in TicketStatus : changeStatus(u, to) PROVE Goal
    BY <2>4, RowType DEF changeStatus, TypeOK, Row
  <2>5. ASSUME NEW s \in Scans, ScanUpdate(s) PROVE Goal
    <3>1. PICK u \in scan[s].cur, lead \in Leads : ticket' = [ticket EXCEPT ![u] = Escalated(s, u, lead)]
      BY <2>5 DEF ScanUpdate
    <3>2. u \in TicketIds /\ ticket[u] \in Row
      BY <3>1, ScanType, RowType
    <3>3. Escalated(s, u, lead).status = ticket[u].status
      BY <3>2, Zenon DEF Escalated, Row
    <3> QED BY <3>1, <3>2, <3>3 DEF TypeOK
  <2>6. ASSUME UNCHANGED ticket PROVE Goal
    BY <2>6
  <2>7. \A u \in TicketIds : Deadline(u) => Goal
    BY <2>6 DEF Deadline
  <2>8. \A s \in Scans :
          ScanStart(s) \/ ScanList(s) \/ (\E u \in TicketIds : ScanTicket(s, u))
          \/ ScanNote(s) \/ ScanEnd(s) \/ ScanDies(s) => Goal
    BY <2>6 DEF ScanStart, ScanList, ScanTicket, ScanNote, ScanEnd, ScanDies
  <2>9. Next
    BY DEF vars
  <2> HIDE DEF Goal
  <2>10. Goal
    BY ONLY <2>9, <2>1, <2>2, <2>3, <2>4, <2>5, <2>7, <2>8, NextCases
  <2> QED BY <2>10 DEF Goal
<1> QED BY <1>1, TypeCorrect, PTL DEF Spec, EscalationKeepsStatus
=============================================================================
