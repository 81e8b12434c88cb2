------------------------------ MODULE OrderStore ------------------------------
(***************************************************************************)
(* What the services share: the rows of an order in the data base, what the *)
(* payment channel has done, and the requests the server is working on.     *)
(*                                                                         *)
(* The server is one Node process: between two awaits a handler runs alone, *)
(* so a step of a request is one data base or channel call. A transaction   *)
(* reads a snapshot, but its first write locks the order row until the      *)
(* commit: everything from that write on is one step.                       *)
(***************************************************************************)
EXTENDS CommissionSplit

CONSTANTS
  Orders, Masters, Requests,   \* orders, masters, concurrent requests
  NoOne, NoOrder,              \* masterId = null, an idle request's order
  Amount, Snapshot,            \* per order: the price and commissionSnapshot
  Ops,                         \* the handlers the environment calls
  Channels,                    \* what getProvider() may find configured at a call
  Crashes,                     \* may a request die between two steps
  MaxReturned                  \* bound: no refund is asked for once more was returned

ASSUME OrdersAssumption == NoOrder \notin Orders /\ NoOne \notin Masters
ASSUME AmountAssumption == Amount \in [Orders -> Nat]
ASSUME SnapshotAssumption == \A o \in Orders : IsSnapshot(Snapshot[o])
ASSUME ChannelsAssumption ==
  Channels # {} /\ Channels \subseteq {"mock", "wechat", "alipay"}
ASSUME BoundsAssumption == Crashes \in BOOLEAN /\ MaxReturned \in Nat

VARIABLES
  status, masterId, arriveCode, \* columns of Order
  refundFrom,                   \* fromStatus of the orderLog row to refunding
  payment,                      \* status of the order's Payment row
  settlement,                   \* the order's Settlement row, orderId is unique
  review,                       \* is there a Review row
  payable, captured,            \* at a real channel: charge open, money taken
  returned,                     \* what provider.refund has acknowledged
  req                           \* the requests being worked on

orderRow == <<status, masterId, arriveCode, refundFrom>>
tables   == <<payment, settlement, review>>
channel  == <<payable, captured, returned>>
vars     == <<orderRow, tables, channel, req>>

\* Channels out of the server's hands: a call of them may throw.
RealChannels == Channels \ {"mock"}

PaymentStatus == {"none", "pending", "paid", "refunded"}

Settlement ==
  [ type : {"none", "normal", "compensation"},
    status : {"none", "pending", "credited", "rejected"},
    masterId : Masters \cup {NoOne},
    platformFee : Int, masterAmount : Int ]

NoSettlement ==
  [ type |-> "none", status |-> "none", masterId |-> NoOne,
    platformFee |-> 0, masterAmount |-> 0 ]

-----------------------------------------------------------------------------
(***************************************************************************)
(* A request: the handler, the call it makes next and the values it holds   *)
(* across awaits. seen is the status the handler read itself, from the one  *)
(* transition() read, stage the status a refund is computed from.           *)
(***************************************************************************)
Handlers ==
  { "charge", "notify", "handleNotify", "claim", "depart", "arriveCode", "arrive",
    "startService", "complete", "confirm", "cancel", "refund", "review", "credit",
    "reject", "sync" }

NoStatus == "none"

Request ==
  [ op : Handlers \cup {"none"},
    pc : {"idle", "load", "store", "write", "enter", "guard", "provider",
         "lookup"},
    o : Orders \cup {NoOrder},
    seen : OrderStatus \cup {NoStatus},
    from : OrderStatus \cup {NoStatus},
    stage : OrderStatus \cup {NoStatus},
    hadMaster : BOOLEAN ]

Idle ==
  [ op |-> "none", pc |-> "idle", o |-> NoOrder, seen |-> NoStatus,
    from |-> NoStatus, stage |-> NoStatus, hadMaster |-> FALSE ]

\* Request r enters the handler op for order o; pc is the call after its reads.
TakeUp(r, op, o, pc, stage) ==
  /\ req[r] = Idle
  /\ req' = [req EXCEPT ![r] = [Idle EXCEPT !.op = op, !.o = o, !.pc = pc,
                                            !.stage = stage]]

\* A handler the environment calls.
Begin(r, op, o, pc, stage) == op \in Ops /\ TakeUp(r, op, o, pc, stage)

At(r, pc, ops) == req[r].pc = pc /\ req[r].op \in ops

Goto(r, pc) == req' = [req EXCEPT ![r].pc = pc]

\* The handler answers, with a result or an error.
Done(r) == req' = [req EXCEPT ![r] = Idle]

Owned(o) == masterId[o] # NoOne

-----------------------------------------------------------------------------
(***************************************************************************)
(* transition(): read the order, check the flow, update the row where the   *)
(* status is still the one read. Target is the status a handler asks for.   *)
(***************************************************************************)
Target(q) ==
  CASE q.op = "notify"       -> "pending_accept"
    [] q.op = "depart"       -> "departing"
    [] q.op = "arrive"       -> "arrived"
    [] q.op = "startService" -> "servicing"
    [] q.op = "complete"     -> "pending_confirm"
    [] q.op = "confirm"      -> "reviewed"
    [] q.op = "review"       -> "evaluated"
    [] q.op = "cancel"       -> IF q.stage = NoStatus THEN "cancelled"
                                ELSE "refunding"
    [] OTHER                 -> IF q.seen = "refunding" THEN "refunded"
                                ELSE "refunding"

TransitionLoad(r) ==
  /\ req[r].pc = "load"
  /\ canTransition(status[req[r].o], Target(req[r]))
  /\ req' = [req EXCEPT ![r].pc = "store", ![r].from = status[req[r].o]]
  /\ UNCHANGED <<orderRow, tables, channel>>

TransitionRefused(r) ==
  /\ req[r].pc = "load"
  /\ ~canTransition(status[req[r].o], Target(req[r]))
  /\ Done(r)
  /\ UNCHANGED <<orderRow, tables, channel>>

\* Mutant: update by id, without the status in the where clause.
RowById(r) == TRUE

\* updateMany where id and status = the one read matches the row.
RowMatches(r) == status[req[r].o] = req[r].from

TransitionConflict(r) ==
  /\ req[r].pc = "store"
  /\ ~RowMatches(r)
  /\ Done(r)
  /\ UNCHANGED <<orderRow, tables, channel>>

\* The write of a successful transition: the row and its orderLog entry.
SetStatus(o, from, to) ==
  /\ status' = [status EXCEPT ![o] = to]
  /\ refundFrom' = IF to = "refunding" THEN [refundFrom EXCEPT ![o] = from]
                   ELSE refundFrom

\* An exception, a timeout or a server crash ends the request between two calls;
\* an open transaction is rolled back.
Crash(r) ==
  /\ Crashes
  /\ req[r] # Idle
  /\ Done(r)
  /\ UNCHANGED <<orderRow, tables, channel>>

=============================================================================
