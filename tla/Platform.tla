------------------------------- MODULE Platform -------------------------------
(***************************************************************************)
(* The services on one order store: every request interleaves with every    *)
(* other one, with the payment channel, and may die between two calls.      *)
(***************************************************************************)
EXTENDS OrdersService, PaymentsService, ReviewsService

Init ==
  /\ status     = [o \in Orders |-> "pending_payment"]
  /\ masterId   = [o \in Orders |-> NoOne]
  /\ arriveCode = [o \in Orders |-> FALSE]
  /\ refundFrom = [o \in Orders |-> NoStatus]
  /\ payment    = [o \in Orders |-> "none"]
  /\ settlement = [o \in Orders |-> NoSettlement]
  /\ review     = [o \in Orders |-> FALSE]
  /\ payable    = [o \in Orders |-> FALSE]
  /\ captured   = [o \in Orders |-> 0]
  /\ returned   = [o \in Orders |-> 0]
  /\ req        = [r \in Requests |-> Idle]

Start(r, o) ==
  \/ OrdersStart(r, o)
  \/ PaymentsStart(r, o)
  \/ SettlementsStart(r, o)
  \/ ReviewStart(r, o)

\* The next call of a request under way.
Step(r) ==
  \/ TransitionLoad(r) \/ TransitionRefused(r) \/ TransitionConflict(r)
  \/ OrdersStep(r)
  \/ PaymentsStep(r)
  \/ SettlementsStep(r)
  \/ ReviewsStep(r)

Next ==
  \/ \E r \in Requests : Step(r) \/ Crash(r) \/ \E o \in Orders : Start(r, o)
  \/ \E o \in Orders : Capture(o)

Spec == Init /\ [][Next]_vars

(***************************************************************************)
(* Fairness. A call of the server returns or throws, so a request under way *)
(* goes on. Users promise nothing, nor do the pages and the channels that   *)
(* report a payment.                                                        *)
(***************************************************************************)
Fairness == \A r \in Requests : WF_vars(Step(r))

FairSpec == Spec /\ Fairness

\* The kindest channel: it reports a payment again and again and is heard.
Reported(o) == \E r \in Requests : HandleNotifyStart(r, o)

ReportingSpec == FairSpec /\ \A o \in Orders : SF_vars(Reported(o))

-----------------------------------------------------------------------------
\* The types of the tables, the channel and the requests; a request under way is
\* about an order.
TypeOK ==
  /\ status     \in [Orders -> OrderStatus]
  /\ masterId   \in [Orders -> Masters \cup {NoOne}]
  /\ arriveCode \in [Orders -> BOOLEAN]
  /\ refundFrom \in [Orders -> OrderStatus \cup {NoStatus}]
  /\ payment    \in [Orders -> PaymentStatus]
  /\ settlement \in [Orders -> Settlement]
  /\ review     \in [Orders -> BOOLEAN]
  /\ payable    \in [Orders -> BOOLEAN]
  /\ captured   \in [Orders -> Nat]
  /\ returned   \in [Orders -> Nat]
  /\ req        \in [Requests -> Request]
  /\ \A r \in Requests : req[r].pc # "idle" => req[r].o \in Orders

-----------------------------------------------------------------------------
(* Properties that hold whatever interleaves and whatever dies.             *)

\* The first two checks of reconcile() never report anything: a completed order
\* has its settlement and a settlement belongs to a completed or refunded order,
\* and it names the master of the order.
LedgerConsistent ==
  \A o \in Orders :
    /\ ~OrphanOrder(o)
    /\ ~InconsistentSettlement(o)
    /\ settlement[o] # NoSettlement =>
         settlement[o].masterId = masterId[o] /\ Owned(o)

\* An order is marked refunded only after the channel paid back at least what the
\* split gives the customer for some stage refund() accepts: a refund that did not
\* happen at the channel never appears in the data base.
RefundedWasReturned ==
  \A o \in Orders :
    status[o] = "refunded" =>
      \E s \in RefundableStates :
        returned[o] >= splitRefund(Amount[o], s, Snapshot[o]).refundAmount

\* Every change of a status is a transition of the flow, or refund()'s
\* transaction, which makes two of them at once; in particular the ends are
\* final, in spite of handlers that act on a status they read earlier.
StatusFollowsFlow ==
  [][\A o \in Orders :
       status'[o] # status[o] =>
         \/ canTransition(status[o], status'[o])
         \/ /\ status'[o] = "refunded"
            /\ canTransition(status[o], "refunding")]_vars

\* Two masters never hold the same order: once taken, it keeps its master.
MasterKept ==
  [][\A o \in Orders : masterId[o] # NoOne => masterId'[o] = masterId[o]]_vars

\* A settlement never changes its kind, master or amounts, and is reviewed once:
\* what a master was told is never credited after a rejection, nor twice.
SettlementFinal ==
  [][\A o \in Orders :
       settlement[o] # NoSettlement =>
         /\ [settlement'[o] EXCEPT !.status = "pending"]
              = [settlement[o] EXCEPT !.status = "pending"]
         /\ settlement'[o] # settlement[o] => settlement[o].status = "pending"
    ]_vars

-----------------------------------------------------------------------------
(* Why they hold: the inductive invariant.                                  *)

\* What is true of the rows of an order between any two steps.
OrderOK(o) ==
  /\ status[o] \in {"pending_payment", "pending_accept", "cancelled"} => ~Owned(o)
  /\ status[o] \in (PostPayStates \ {"pending_accept"}) \cup CompletedStates =>
       Owned(o)
  /\ status[o] \in CompletedStates => settlement[o] # NoSettlement
  /\ settlement[o] # NoSettlement =>
       /\ Owned(o)
       /\ settlement[o].masterId = masterId[o]
       /\ status[o] \in CompletedStates \cup {"refunding", "refunded"}
  /\ status[o] = "refunded" =>
       \E s \in RefundableStates :
         returned[o] >= splitRefund(Amount[o], s, Snapshot[o]).refundAmount

\* What a request q may rely on of what it read earlier, where back and ledger are
\* returned and settlement: the move it is about to write is a move of the flow;
\* a refund on its way to the data base was paid back at the channel.
RequestOK(q, back, ledger) ==
  /\ q.pc = "store" => canTransition(q.from, Target(q))
  /\ q.pc \in {"enter", "guard", "provider"} => q.op = "refund"
  /\ q.stage \in RefundableStates \cup {NoStatus}
  /\ q.op = "refund" /\ q.pc # "enter" => q.stage \in RefundableStates
  /\ q.op = "refund" /\ q.pc \in {"load", "store"} =>
       back[q.o] >= splitRefund(Amount[q.o], q.stage, Snapshot[q.o]).refundAmount
  /\ q.op = "sync" /\ q.pc = "write" => ledger[q.o] # NoSettlement

\* The inductive invariant behind the properties above: rows and requests agree.
\* It says in particular that syncForPaidOrders never has anything to create, and
\* that no request holds a stale move in its hands.
Inductive ==
  /\ TypeOK
  /\ \A o \in Orders : OrderOK(o)
  /\ \A r \in Requests : RequestOK(req[r], returned, settlement)

-----------------------------------------------------------------------------
(* The escrow contract, implemented by the tables.                          *)

Phase(s) ==
  CASE s = "pending_payment"    -> "unpaid"
    [] s = "cancelled"          -> "void"
    [] s \in PostPayStates      -> "held"
    [] s \in CompletedStates    -> "released"
    [] s = "refunding"          -> "returning"
    [] OTHER                    -> "returned"

Payout(s) ==
  CASE s.type = "normal"       -> "earnings"
    [] s.type = "compensation" -> "compensation"
    [] OTHER                   -> "none"

Contract == INSTANCE EscrowContract WITH
  phase  <- [o \in Orders |-> Phase(status[o])],
  server <- masterId,
  payout <- [o \in Orders |-> Payout(settlement[o])]

\* The services implement the contract: one master, one payout, released and
\* recorded in one step, under every interleaving and crash.
ContractSpec == Contract!Spec

-----------------------------------------------------------------------------
(* Properties of the money that need requests on an order not to overlap;   *)
(* the runs that expect a violation show what overlapping and crashing do.  *)

\* Never more is paid back than the price of the order.
ReturnedAtMostPrice == \A o \in Orders : returned[o] <= Amount[o]

\* A refunded customer got the share of the stage the order was in when it left
\* for refunding, as orderLog records that stage.
RefundMatchesStage ==
  \A o \in Orders :
    status[o] = "refunded" =>
      returned[o] =
        splitRefund(Amount[o], refundFrom[o], Snapshot[o]).refundAmount

\* The refund a settlement row shows, orderAmount - platformFee - masterAmount,
\* is what the channel paid back, for an earning as for a compensation.
ShownRefundIsReal ==
  \A o \in Orders :
    settlement[o] # NoSettlement =>
      returned[o] =
        Amount[o] - settlement[o].platformFee - settlement[o].masterAmount

\* The Payment row of an order in escrow, if a charge made one, is marked paid: no
\* later charge sets it back, no refund that did not go through has marked it.
EscrowRowIsPaid ==
  \A o \in Orders :
    status[o] \in PostPayStates => payment[o] \in {"none", "paid"}

\* Escrow released to the master is not returned to the customer as well: an order
\* with earnings is completed and stays so as far as customer and master go.
ReleasedNotReturned ==
  \A o \in Orders :
    settlement[o].type = "normal" => status[o] \in CompletedStates

\* Once no request is at work on it, an order with a review is not left waiting
\* for one.
ReviewedIsEvaluated ==
  \A o \in Orders :
    review[o] /\ (\A r \in Requests : req[r].o # o) => status[o] # "reviewed"

\* A cancelled order, cancelled before payment, leaves no money at the platform.
CancelledWithoutMoney ==
  \A o \in Orders : status[o] = "cancelled" => captured[o] = returned[o]

-----------------------------------------------------------------------------
(* Which handlers must not overlap on an order for the money to add up: the *)
(* runs that expect a violation let such a pair overlap.                    *)

\* While a request is in a handler of as, no other one on its order is in one of bs.
Apart(as, bs) ==
  \A r, s \in Requests :
    r # s /\ req[r].o = req[s].o /\ req[r].op \in as => req[s].op \notin bs

Visits   == {"depart", "arrive", "startService", "complete", "confirm"}
Repayers == {"cancel", "refund"}

PaymentsApart == []Apart({"charge"}, {"notify"})

ReleasesApart == []Apart({"confirm"}, Repayers)

\* Neither the visit nor another refund nor the claim of the order, a single
\* transaction, comes between the calls of a cancellation or refund.
RefundsApart ==
  /\ []Apart(Repayers, Visits)
  /\ []Apart({"refund"}, {"refund"})
  /\ [][\A o \in Orders, r \in Requests :
          req[r].o = o /\ req[r].op \in Repayers => masterId'[o] = masterId[o]]_vars

-----------------------------------------------------------------------------
(* Why the money adds up, in three inductive invariants of the rows of an    *)
(* order o and of what a request q holds of its order.                      *)

\* The payment row, under PaymentsApart: a charge is of an order that is not paid.
ChargeHeld(q) == q.op = "charge" => status[q.o] \in {"pending_payment", "cancelled"}

EscrowInvariant ==
  /\ EscrowRowIsPaid
  /\ \A r \in Requests : ChargeHeld(req[r])

\* The settlement, under ReleasesApart: earnings for a completed order, compensation
\* for a refunded one, and no refund goes on of an order that was completed.
PayoutInvariant ==
  /\ \A o \in Orders :
       settlement[o] # NoSettlement =>
         \/ status[o] \in CompletedStates /\ settlement[o].type = "normal"
         \/ status[o] = "refunded" /\ settlement[o].type = "compensation"
  /\ \A r \in Requests :
       LET q == req[r] IN
         \/ q.op = "cancel" /\ q.stage # NoStatus
         \/ q.op = "refund" /\ q.pc # "enter"
         => status[q.o] \notin CompletedStates

\* Paying back, under RefundsApart, without crashes and real channels: what was
\* returned, and what is left for master and platform, is what the split gives for the
\* stage the order was left at. A refund holds that stage, and the row it has read has
\* not changed.
Repaying(o) ==
  \E r \in Requests :
    req[r].o = o /\ req[r].op = "refund" /\ req[r].pc \in {"load", "store"}

PaidBack(o) ==
  /\ status[o] = "refunding" => refundFrom[o] \in PostPayStates
  /\ status[o] # "refunded" /\ ~Repaying(o) => returned[o] = 0
  /\ status[o] = "refunded" =>
       returned[o] = splitRefund(Amount[o], refundFrom[o], Snapshot[o]).refundAmount
  /\ settlement[o] # NoSettlement =>
       settlement[o].platformFee + settlement[o].masterAmount
         = IF status[o] = "refunded" THEN Amount[o] - returned[o] ELSE Amount[o]

RefundHeld(q) ==
  LET o    == q.o
      left == IF status[o] = "refunding" THEN refundFrom[o] ELSE status[o]
  IN
  /\ q.op = "cancel" /\ q.stage # NoStatus =>
       status[o] \in {q.stage, "refunding", "refunded"}
  /\ q.op = "refund" /\ q.pc = "enter" =>
       q.stage = IF status[o] = "refunding" THEN refundFrom[o] ELSE NoStatus
  /\ q.op = "refund" /\ q.pc # "enter" =>
       status[o] \in RefundableStates /\ q.seen = status[o] /\ q.stage = left
  /\ q.op = "refund" /\ q.pc = "store" => q.from = status[o]
  /\ q.op = "refund" /\ q.pc \in {"load", "store"} =>
       returned[o] = Split(q).refundAmount

RefundInvariant ==
  /\ \A o \in Orders : PaidBack(o)
  /\ \A r \in Requests : RefundHeld(req[r])

-----------------------------------------------------------------------------
(* What was begun is carried through, unless a request dies: why an order   *)
(* nobody is at work on waits for one of the buttons of its pages.          *)

\* Request q is the one that will refund an order o in refunding, or evaluate it.
Refunds(q, o) == q.o = o /\ q.op = "refund" /\ (q.pc = "enter" \/ q.seen = "refunding")
Reviews(q, o) == q.o = o /\ q.op = "review" /\ q.pc \in {"load", "store"}

AfterReview == CompletedStates \cup {"refunding", "refunded"}

FollowedUp(o) ==
  /\ status[o] = "refunding" =>
       \/ Crashes \/ RealChannels # {}
       \/ \E r \in Requests : Refunds(req[r], o)
  /\ status[o] = "reviewed" /\ review[o] =>
       Crashes \/ \E r \in Requests : Reviews(req[r], o)
  /\ status[o] = "evaluated" => review[o]
  /\ review[o] => status[o] \in AfterReview
  /\ payment[o] = "refunded" => status[o] = "refunded"

ReviewHeld(q) ==
  q.op = "review" =>
    status[q.o] \in AfterReview /\ (q.pc \in {"load", "store"} => review[q.o])

FollowUpInvariant ==
  /\ \A o \in Orders : FollowedUp(o)
  /\ \A r \in Requests : ReviewHeld(req[r])

-----------------------------------------------------------------------------
(* Liveness, under FairSpec and without crashes.                            *)

\* A refund that was begun is finished, as long as no call of the channel throws.
RefundCompletes ==
  \A o \in Orders : status[o] = "refunding" ~> status[o] = "refunded"

\* A review moves its order out of "reviewed", to evaluated or to a refund.
ReviewEvaluates ==
  \A o \in Orders : review[o] ~> status[o] # "reviewed"

\* Under ReportingSpec: "the callback is identical to the notification of a real
\* channel" (orders-sop), so an order a real channel took the money for does not stay
\* in pending_payment.
CapturedEntersPool ==
  \A o \in Orders : captured[o] > 0 ~> status[o] # "pending_payment"

=============================================================================
