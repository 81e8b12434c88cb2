------------------------------ MODULE Aftersale ------------------------------
(***************************************************************************)
(* Refund requests and complaints on top of the platform: an administrator  *)
(* or the resolution of a complaint asks for a refund, a reviewer rejects   *)
(* it or approves it, and approving runs refund() for completed orders too. *)
(*                                                                         *)
(* A request that works at the desk holds desk[r]; while it is inside       *)
(* refund() it moves on with the steps of Platform. Any number of operators  *)
(* and reviewers are at the desk at once.                                   *)
(***************************************************************************)
EXTENDS Platform

CONSTANTS
  Rows,          \* bound: rows the refund table can hold, refund numbers are 1..n
  Complaints,    \* complaint tickets
  ComplaintOf    \* the order of a complaint

ASSUME DeskAssumption == IsFiniteSet(Requests)
ASSUME RowsAssumption == Rows \in Nat
ASSUME ComplaintAssumption == ComplaintOf \in [Complaints -> Orders]

VARIABLES
  refunds,       \* rows of Refund, in the order of their insertion
  complaint,     \* per ticket: resolved, and the result of its Complaint row
  desk           \* what a request at the desk is doing

books == <<refunds, complaint, desk>>
aftersaleVars == <<vars, books>>

\* compensate stands for redispatch and no_fault as well: none of the three does
\* more than set the result.
Results == {"refund", "compensate"}

RefundRow ==
  [ no : 1..Rows, o : Orders, ticket : Complaints \cup {"none"},
    status : {"pending_review", "approved", "rejected"},
    refundedAmount : Nat, linked : BOOLEAN ]

Complaint ==
  [ filed : BOOLEAN, resolved : BOOLEAN, result : Results \cup {"none"} ]

\* pc is the call made next: count and insert of a new request, the update of a
\* verdict, the two updates of a resolution. ticket and result are those of the
\* complaint that is resolved, paid what refund() returned.
AtRest ==
  [ pc |-> "idle", row |-> 0, o |-> NoOrder, no |-> 0, ticket |-> "none",
    result |-> "none", paid |-> 0 ]

Works(r, pc) == desk[r].pc = pc

Enter(r, work) == desk' = [desk EXCEPT ![r] = work]

Leave(r) == desk' = [desk EXCEPT ![r] = AtRest]

Free(r) == desk[r] = AtRest /\ req[r] = Idle

-----------------------------------------------------------------------------
(* Asking for a refund: createRefundRequest.                                *)

Open(i) == refunds[i].status \in {"pending_review", "approved"}

\* Mutant: a pending request does not count as a duplicate.
HasApproved(o) ==
  \E i \in DOMAIN refunds : refunds[i].o = o /\ refunds[i].status = "approved"

\* findFirst of a request of the order that is pending or approved.
HasOpen(o) == \E i \in DOMAIN refunds : refunds[i].o = o /\ Open(i)

\* An operator names the order (createRefundByOrderNo).
AskStart(r, o) ==
  /\ Free(r)
  /\ ~HasOpen(o)
  /\ Enter(r, [AtRest EXCEPT !.pc = "count", !.o = o])
  /\ UNCHANGED <<vars, refunds, complaint>>

\* nextRefundNo: the number is the count of the day's rows plus one.
AskCount(r) ==
  /\ Works(r, "count")
  /\ Len(refunds) < Rows                                  \* bound
  /\ Enter(r, [desk[r] EXCEPT !.pc = "insert", !.no = Len(refunds) + 1])
  /\ UNCHANGED <<vars, refunds, complaint>>

NumberTaken(no) == \E i \in DOMAIN refunds : refunds[i].no = no

\* refundNo is unique: an insert with a number used meanwhile throws, and the
\* resolution of the complaint, if it was one, ends there.
AskInsert(r) ==
  /\ Works(r, "insert")
  /\ IF NumberTaken(desk[r].no)
     THEN Leave(r) /\ UNCHANGED refunds
     ELSE /\ refunds' = Append(refunds,
               [ no |-> desk[r].no, o |-> desk[r].o, ticket |-> desk[r].ticket,
                 status |-> "pending_review", refundedAmount |-> 0,
                 linked |-> FALSE ])
          /\ IF desk[r].result = "none" THEN Leave(r)
             ELSE Enter(r, [desk[r] EXCEPT !.pc = "resolve"])
  /\ UNCHANGED <<vars, complaint>>

-----------------------------------------------------------------------------
(* Complaints: createTicket and resolveComplaint of tickets.service.        *)

File(c) ==
  /\ ~complaint[c].filed
  /\ status[ComplaintOf[c]] \in CompletedStates
  /\ complaint' = [complaint EXCEPT ![c].filed = TRUE]
  /\ UNCHANGED <<vars, refunds, desk>>

\* Mutant: a refused refund request does not stop the resolution.
ResolveRegardless(r, c, result) ==
  /\ Free(r)
  /\ complaint[c].filed
  /\ Enter(r, [AtRest EXCEPT
       !.pc = IF result = "refund" /\ ~HasOpen(ComplaintOf[c]) THEN "count"
              ELSE "resolve",
       !.o = ComplaintOf[c], !.ticket = c, !.result = result])
  /\ UNCHANGED <<vars, refunds, complaint>>

\* A result is chosen, also for a complaint resolved before. refund asks for a
\* refund first and fails with it; compensate calls createCompensation with an
\* amount of 0, which returns null: nothing is paid, no settlement is made.
Resolve(r, c, result) ==
  /\ Free(r)
  /\ complaint[c].filed
  /\ result = "refund" => ~HasOpen(ComplaintOf[c])
  /\ Enter(r, [AtRest EXCEPT
       !.pc = IF result = "refund" THEN "count" ELSE "resolve",
       !.o = ComplaintOf[c], !.ticket = c, !.result = result])
  /\ UNCHANGED <<vars, refunds, complaint>>

ResolveTicket(r) ==
  /\ Works(r, "resolve")
  /\ complaint' = [complaint EXCEPT ![desk[r].ticket].resolved = TRUE]
  /\ Enter(r, [desk[r] EXCEPT !.pc = "result"])
  /\ UNCHANGED <<vars, refunds>>

ResolveResult(r) ==
  /\ Works(r, "result")
  /\ complaint' = [complaint EXCEPT ![desk[r].ticket].result = desk[r].result]
  /\ Leave(r)
  /\ UNCHANGED <<vars, refunds>>

-----------------------------------------------------------------------------
(* Reviewing: reviewRefund.                                                 *)

\* Mutant: a request that was judged before is judged again.
AnyRow(i) == i \in DOMAIN refunds

Reviewable(i) == i \in DOMAIN refunds /\ refunds[i].status = "pending_review"

RejectStart(r, i) ==
  /\ Free(r)
  /\ Reviewable(i)
  /\ Enter(r, [AtRest EXCEPT !.pc = "reject", !.row = i])
  /\ UNCHANGED <<vars, refunds, complaint>>

\* update by id, whatever the row has become.
RejectWrite(r) ==
  /\ Works(r, "reject")
  /\ refunds' = [refunds EXCEPT ![desk[r].row].status = "rejected"]
  /\ Leave(r)
  /\ UNCHANGED <<vars, complaint>>

\* The request and its order are read together; refund() starts with the status
\* of the order as its stage.
ApproveStart(r, i) ==
  LET o == refunds[i].o IN
  /\ Free(r)
  /\ Reviewable(i)
  /\ returned[o] <= MaxReturned                         \* bound
  /\ Enter(r, [AtRest EXCEPT !.pc = "refund", !.row = i, !.o = o])
  /\ TakeUp(r, "refund", o, "enter", status[o])
  /\ UNCHANGED <<orderRow, tables, channel, refunds, complaint>>

\* refund() with allowCompleted reads the order.
ApproveEnter(r) ==
  LET o == req[r].o IN
  /\ Works(r, "refund")
  /\ req[r].pc = "enter"
  /\ status[o] \in RefundableStates \cup CompletedStates
  /\ req' = [req EXCEPT ![r].pc = "guard", ![r].seen = status[o],
                        ![r].hadMaster = Owned(o)]
  /\ UNCHANGED <<orderRow, tables, channel, books>>

ApproveRefused(r) ==
  /\ Works(r, "refund")
  /\ req[r].pc = "enter"
  /\ status[req[r].o] \notin RefundableStates \cup CompletedStates
  /\ Done(r)
  /\ Leave(r)
  /\ UNCHANGED <<orderRow, tables, channel, refunds, complaint>>

\* refund() goes on: to its guard, the channel and the transaction.
ApproveGoesOn(r) ==
  /\ Works(r, "refund")
  /\ \/ RefundGuard(r) /\ ~AlreadyRefunded(req[r].o)
     \/ ProviderRefund(r)
     \/ TransitionLoad(r)
  /\ UNCHANGED books

\* Mutant: an error of refund() is swallowed and the request is recorded.
ApproveSwallows(r) ==
  /\ Works(r, "refund")
  /\ \/ RefundGuard(r) /\ AlreadyRefunded(req[r].o)
     \/ TransitionRefused(r)
     \/ TransitionConflict(r)
     \/ ProviderFails(r)
  /\ Enter(r, [desk[r] EXCEPT !.pc = "record", !.paid = Split(req[r]).refundAmount])
  /\ UNCHANGED <<refunds, complaint>>

\* refund() throws; the request stays pending.
ApproveFails(r) ==
  /\ Works(r, "refund")
  /\ \/ RefundGuard(r) /\ AlreadyRefunded(req[r].o)
     \/ TransitionRefused(r)
     \/ TransitionConflict(r)
     \/ ProviderFails(r)
  /\ Leave(r)
  /\ UNCHANGED <<refunds, complaint>>

ApproveCommits(r) ==
  /\ Works(r, "refund")
  /\ RefundCommit(r)
  /\ Enter(r, [desk[r] EXCEPT !.pc = "record", !.paid = Split(req[r]).refundAmount])
  /\ UNCHANGED <<refunds, complaint>>

\* The compensation the row will be linked to, and the row that has it already:
\* settlementId is unique.
LinkedElsewhere(o, i) ==
  \E j \in DOMAIN refunds \ {i} : refunds[j].o = o /\ refunds[j].linked

\* update by id: approved, with what was paid back and the compensation.
ApproveRecord(r) ==
  LET o == desk[r].o
      i == desk[r].row
      comp == settlement[o].type = "compensation"
  IN
  /\ Works(r, "record")
  /\ refunds' = IF comp /\ LinkedElsewhere(o, i) THEN refunds
                ELSE [refunds EXCEPT ![i] =
                        [@ EXCEPT !.status = "approved", !.linked = comp,
                                  !.refundedAmount = desk[r].paid]]
  /\ Leave(r)
  /\ UNCHANGED <<vars, complaint>>

\* The request dies between two calls.
DeskCrash(r) ==
  /\ Crashes
  /\ desk[r] # AtRest
  /\ Done(r)
  /\ Leave(r)
  /\ UNCHANGED <<orderRow, tables, channel, refunds, complaint>>

-----------------------------------------------------------------------------
DeskInit ==
  /\ refunds = <<>>
  /\ complaint = [c \in Complaints |->
                    [filed |-> FALSE, resolved |-> FALSE, result |-> "none"]]
  /\ desk = [r \in Requests |-> AtRest]

AftersaleInit == Init /\ DeskInit

DeskStart(r) ==
  \/ \E o \in Orders : AskStart(r, o)
  \/ \E c \in Complaints, result \in Results : Resolve(r, c, result)
  \/ \E i \in DOMAIN refunds : RejectStart(r, i) \/ ApproveStart(r, i)

DeskStep(r) ==
  \/ AskCount(r) \/ AskInsert(r)
  \/ ResolveTicket(r) \/ ResolveResult(r)
  \/ RejectWrite(r)
  \/ ApproveEnter(r) \/ ApproveRefused(r) \/ ApproveGoesOn(r)
  \/ ApproveFails(r) \/ ApproveCommits(r) \/ ApproveRecord(r)

\* A request that is not at the desk is one of Platform.
Elsewhere(r) ==
  /\ desk[r] = AtRest
  /\ Step(r) \/ Crash(r) \/ \E o \in Orders : Start(r, o)
  /\ UNCHANGED books

AftersaleNext ==
  \/ \E r \in Requests : DeskStart(r) \/ DeskStep(r) \/ DeskCrash(r) \/ Elsewhere(r)
  \/ \E c \in Complaints : File(c)
  \/ \E o \in Orders : Capture(o) /\ UNCHANGED books

AftersaleSpec == AftersaleInit /\ [][AftersaleNext]_aftersaleVars

-----------------------------------------------------------------------------
(* Properties for any number of reviewers at once, and crashes.             *)

\* The refunds the ledger and the reports count were paid: an approved request
\* belongs to a refunded order and the channel paid back at least the amount the
\* row shows, whatever else happened to the order meanwhile.
ApprovedWasReturned ==
  \A i \in DOMAIN refunds :
    refunds[i].status = "approved" =>
      /\ status[refunds[i].o] = "refunded"
      /\ returned[refunds[i].o] >= refunds[i].refundedAmount

\* A customer who is told that the complaint ends in a refund has a refund request
\* made for this complaint, not merely one of the order: the result is never
\* written without it, however often the complaint is resolved.
RefundResultBacked ==
  \A c \in Complaints :
    complaint[c].result = "refund" =>
      \E i \in DOMAIN refunds :
        refunds[i].ticket = c /\ refunds[i].o = ComplaintOf[c]

-----------------------------------------------------------------------------
(* The checks that are not repeated when the row is written: what is left of *)
(* them when several operators are at the desk at once.                     *)

OpenRequests(o) == {i \in DOMAIN refunds : refunds[i].o = o /\ Open(i)}

\* Requests that passed the duplicate check and have not inserted their row yet.
Asking(o) == {r \in Requests : desk[r].pc \in {"count", "insert"} /\ desk[r].o = o}

\* The duplicate check is a read: operators who pass it together all insert, and a
\* row that was rejected is open again when a second reviewer approves it. Even
\* so an order never has more refund requests open, those that are being asked for
\* counted in, than there are operators: nobody asks while one is open.
OpenRequestsBounded ==
  \A o \in Orders :
    Cardinality(OpenRequests(o)) + Cardinality(Asking(o)) <= Cardinality(Requests)

\* Who has row i in hand to judge it.
Judging(i) == {r \in Requests : desk[r].row = i}

\* A verdict is an update by id, whatever the row has become. But a row changes
\* only when somebody who has it in hand puts it down, and once it is judged
\* nobody takes it up: a verdict is replaced only by a reviewer who read the row as
\* pending before, and by each of them once. No row disappears.
ReviewCloses ==
  [][\A i \in DOMAIN refunds :
       /\ i \in DOMAIN refunds'
       /\ refunds'[i] # refunds[i] => \E r \in Judging(i) : r \notin Judging(i)'
       /\ refunds[i].status # "pending_review" => Judging(i)' \subseteq Judging(i)
    ]_aftersaleVars

=============================================================================
