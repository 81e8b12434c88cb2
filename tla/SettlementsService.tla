-------------------------- MODULE SettlementsService --------------------------
(***************************************************************************)
(* settlements.service: the settlement row of an order, created when the    *)
(* escrow is released or a refund leaves the master something; review of a  *)
(* pending compensation; syncForPaidOrders; the checks of reconcile.        *)
(***************************************************************************)
EXTENDS OrderStore

\* Mutant: the settlement gets a status the review does not know.
ReleasedWrongStatus(o) ==
  LET split == splitNormal(Amount[o], Snapshot[o])
  IN  IF settlement[o] # NoSettlement THEN settlement[o]
      ELSE [ type |-> "normal", status |-> "released",
             masterId |-> masterId[o], platformFee |-> split.platformFee,
             masterAmount |-> split.masterAmount ]

\* Mutant: earnings only while the payment row says paid.
ReleasedIfPaid(o) ==
  LET split == splitNormal(Amount[o], Snapshot[o])
  IN  IF settlement[o] # NoSettlement \/ payment[o] # "paid" THEN settlement[o]
      ELSE [ type |-> "normal", status |-> "credited",
             masterId |-> masterId[o], platformFee |-> split.platformFee,
             masterAmount |-> split.masterAmount ]

\* releaseToMaster: the settlement of an accepted order, credited at once, unless
\* the order has a settlement already.
Released(o) ==
  LET split == splitNormal(Amount[o], Snapshot[o])
  IN  IF settlement[o] # NoSettlement THEN settlement[o]
      ELSE [ type |-> "normal", status |-> "credited",
             masterId |-> masterId[o], platformFee |-> split.platformFee,
             masterAmount |-> split.masterAmount ]

\* Mutant: the settlement the order may have already is replaced.
CompensatedAgain(o, split) ==
  IF split.masterCompensation <= 0 \/ ~Owned(o) THEN settlement[o]
  ELSE [ type |-> "compensation", status |-> "pending",
         masterId |-> masterId[o], platformFee |-> split.platformKeep,
         masterAmount |-> split.masterCompensation ]

\* Mutant: the master is promised the whole rest, commission included.
CompensatedGross(o, split) ==
  IF \/ split.masterCompensation <= 0 \/ ~Owned(o)
     \/ settlement[o] # NoSettlement
  THEN settlement[o]
  ELSE [ type |-> "compensation", status |-> "pending",
         masterId |-> masterId[o], platformFee |-> split.platformKeep,
         masterAmount |-> split.masterCompensation + split.platformKeep ]

\* createCompensation for the split of a refund: pending until reviewed, nothing
\* without a compensation or without a master, at most one settlement per order.
Compensated(o, split) ==
  IF \/ split.masterCompensation <= 0 \/ ~Owned(o)
     \/ settlement[o] # NoSettlement
  THEN settlement[o]
  ELSE [ type |-> "compensation", status |-> "pending",
         masterId |-> masterId[o], platformFee |-> split.platformKeep,
         masterAmount |-> split.masterCompensation ]

-----------------------------------------------------------------------------
(* An administrator credits or rejects a compensation.                      *)

IsPending(o) == settlement[o].status = "pending"

\* credit and reject read the settlement and refuse one that is not pending.
VerdictStart(r, o, op) ==
  /\ op \in {"credit", "reject"}
  /\ IsPending(o)
  /\ Begin(r, op, o, "write", NoStatus)
  /\ UNCHANGED <<orderRow, tables, channel>>

\* Mutant: update by id, whatever the settlement has become.
VerdictRowById(o) == TRUE

\* updateMany where the settlement is still pending.
VerdictRowMatches(o) == IsPending(o)

VerdictWrite(r) ==
  LET o == req[r].o
      verdict == IF req[r].op = "credit" THEN "credited" ELSE "rejected"
  IN
  /\ At(r, "write", {"credit", "reject"})
  /\ VerdictRowMatches(o)
  /\ settlement' = [settlement EXCEPT ![o].status = verdict]
  /\ Done(r)
  /\ UNCHANGED <<orderRow, payment, review, channel>>

VerdictConflict(r) ==
  /\ At(r, "write", {"credit", "reject"})
  /\ ~VerdictRowMatches(req[r].o)
  /\ Done(r)
  /\ UNCHANGED <<orderRow, tables, channel>>

-----------------------------------------------------------------------------
(* syncForPaidOrders, for one of the completed orders it lists.             *)

SyncStart(r, o) ==
  /\ status[o] \in CompletedStates
  /\ Begin(r, "sync", o, "write", NoStatus)
  /\ UNCHANGED <<orderRow, tables, channel>>

SyncWrite(r) ==
  LET o == req[r].o IN
  /\ At(r, "write", {"sync"})
  /\ settlement' = [settlement EXCEPT ![o] = Released(o)]
  /\ Done(r)
  /\ UNCHANGED <<orderRow, payment, review, channel>>

-----------------------------------------------------------------------------
(* The first two checks of reconcile(), the platform's own statement of     *)
(* what consistent rows are.                                                *)

OrphanOrder(o) ==
  status[o] \in CompletedStates /\ settlement[o] = NoSettlement

InconsistentSettlement(o) ==
  /\ settlement[o] # NoSettlement
  /\ status[o] \notin CompletedStates \cup {"refunded", "refunding"}

-----------------------------------------------------------------------------
SettlementsStart(r, o) ==
  \/ \E op \in Handlers : VerdictStart(r, o, op)
  \/ SyncStart(r, o)

SettlementsStep(r) ==
  \/ VerdictWrite(r)
  \/ VerdictConflict(r)
  \/ SyncWrite(r)

=============================================================================
