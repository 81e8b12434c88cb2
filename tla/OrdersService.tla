---------------------------- MODULE OrdersService ----------------------------
(***************************************************************************)
(* orders.service: a master takes the order, travels, works; the customer   *)
(* confirms; anyone concerned cancels.                                      *)
(***************************************************************************)
EXTENDS SettlementsService

-----------------------------------------------------------------------------
(* A master takes the order: grab, and assign with autoDispatchOverdue.     *)

\* Mutant: an accepted order may be assigned again.
Reassignable(o) == status[o] \in {"pending_accept", "accepted"}

\* updateMany where pending_accept and masterId is null, then the transition, in
\* one transaction whose first call locks the row.
Claimable(o) == status[o] = "pending_accept" /\ masterId[o] = NoOne

Claim(r, o, m) ==
  /\ req[r] = Idle
  /\ "claim" \in Ops
  /\ Claimable(o)
  /\ masterId' = [masterId EXCEPT ![o] = m]
  /\ SetStatus(o, "pending_accept", "accepted")
  /\ UNCHANGED <<arriveCode, tables, channel, req>>

-----------------------------------------------------------------------------
(* The master's visit.                                                      *)

\* depart, startService, complete: only the owner is checked before transition().
MoveStart(r, o, op) ==
  /\ op \in {"depart", "startService", "complete"}
  /\ Owned(o)
  /\ Begin(r, op, o, "load", NoStatus)
  /\ UNCHANGED <<orderRow, tables, channel>>

Travelling(o) == status[o] = "departing"

\* generateArriveCode: checked against the status read, written unconditionally.
ArriveCodeStart(r, o) ==
  /\ Travelling(o)
  /\ Begin(r, "arriveCode", o, "write", NoStatus)
  /\ UNCHANGED <<orderRow, tables, channel>>

ArriveCodeWrite(r) ==
  /\ At(r, "write", {"arriveCode"})
  /\ arriveCode' = [arriveCode EXCEPT ![req[r].o] = TRUE]
  /\ Done(r)
  /\ UNCHANGED <<status, masterId, refundFrom, tables, channel>>

\* arrive: the master enters the code the customer shows.
ArriveStart(r, o) ==
  /\ Owned(o)
  /\ Travelling(o)
  /\ arriveCode[o]
  /\ Begin(r, "arrive", o, "load", NoStatus)
  /\ UNCHANGED <<orderRow, tables, channel>>

ArriveCodeClear(r) ==
  /\ At(r, "write", {"arrive"})
  /\ arriveCode' = [arriveCode EXCEPT ![req[r].o] = FALSE]
  /\ Done(r)
  /\ UNCHANGED <<status, masterId, refundFrom, tables, channel>>

-----------------------------------------------------------------------------
(* The customer accepts the work.                                           *)

ConfirmStart(r, o) ==
  /\ Begin(r, "confirm", o, "load", NoStatus)
  /\ UNCHANGED <<orderRow, tables, channel>>

\* The transaction of confirm from its first write: status and settlement.
\* An order without master makes releaseToMaster throw and rolls back.
ConfirmCommit(r) ==
  LET o == req[r].o IN
  /\ At(r, "store", {"confirm"})
  /\ RowMatches(r)
  /\ Owned(o)
  /\ SetStatus(o, req[r].from, "reviewed")
  /\ settlement' = [settlement EXCEPT ![o] = Released(o)]
  /\ Done(r)
  /\ UNCHANGED <<masterId, arriveCode, payment, review, channel>>

-----------------------------------------------------------------------------
(* Cancellation by the customer, the master or an administrator.            *)

\* The status read decides whether money goes back and at which stage.
StageToRefund(o) == IF status[o] \in PostPayStates THEN status[o] ELSE NoStatus

CancelStart(r, o) ==
  /\ Begin(r, "cancel", o, "load", StageToRefund(o))
  /\ UNCHANGED <<orderRow, tables, channel>>

\* The update of a transition() outside a transaction, and the call after it.
MoveCommit(r) ==
  LET o == req[r].o IN
  /\ At(r, "store", {"depart", "arrive", "startService", "complete",
                     "cancel", "review"})
  /\ RowMatches(r)
  /\ SetStatus(o, req[r].from, Target(req[r]))
  /\ \/ /\ req[r].op = "arrive"                  \* to clear the code
        /\ Goto(r, "write")
     \/ /\ req[r].op = "cancel" /\ req[r].stage # NoStatus
        /\ req' = [req EXCEPT ![r].op = "refund", ![r].pc = "enter"]
     \/ /\ req[r].op # "arrive"
        /\ req[r].op = "cancel" => req[r].stage = NoStatus
        /\ Done(r)
  /\ UNCHANGED <<masterId, arriveCode, tables, channel>>

-----------------------------------------------------------------------------
OrdersStart(r, o) ==
  \/ \E m \in Masters : Claim(r, o, m)
  \/ \E op \in Handlers : MoveStart(r, o, op)
  \/ ArriveCodeStart(r, o)
  \/ ArriveStart(r, o)
  \/ ConfirmStart(r, o)
  \/ CancelStart(r, o)

OrdersStep(r) ==
  \/ ArriveCodeWrite(r)
  \/ ArriveCodeClear(r)
  \/ ConfirmCommit(r)
  \/ MoveCommit(r)

=============================================================================
