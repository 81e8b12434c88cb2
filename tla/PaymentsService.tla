--------------------------- MODULE PaymentsService ---------------------------
(***************************************************************************)
(* payments.service: charge, the payment notification, and the refund with  *)
(* its call of the payment channel.                                         *)
(***************************************************************************)
EXTENDS SettlementsService

-----------------------------------------------------------------------------
(* Paying.                                                                  *)

\* Mutant: charge without looking at the status.
ChargeAnytime(r, o) ==
  /\ Begin(r, "charge", o, "write", NoStatus)
  /\ UNCHANGED <<orderRow, tables, channel>>

AwaitsPayment(o) == status[o] = "pending_payment"

ChargeStart(r, o) ==
  /\ AwaitsPayment(o)
  /\ Begin(r, "charge", o, "write", NoStatus)
  /\ UNCHANGED <<orderRow, tables, channel>>

\* createCharge has returned; ensurePayment creates the Payment row or sets the
\* existing one back to pending. At a real channel the customer can pay from now on.
ChargeWrite(r) ==
  LET o == req[r].o IN
  /\ At(r, "write", {"charge"})
  /\ payment' = [payment EXCEPT ![o] = "pending"]
  /\ \E c \in Channels :
       payable' = IF c = "mock" THEN payable ELSE [payable EXCEPT ![o] = TRUE]
  /\ Done(r)
  /\ UNCHANGED <<orderRow, settlement, review, captured, returned>>

\* createCharge of a real channel throws; no row is written.
ChargeFails(r) ==
  /\ At(r, "write", {"charge"})
  /\ RealChannels # {}
  /\ Done(r)
  /\ UNCHANGED <<orderRow, tables, channel>>

\* A real channel takes the money of an open charge, once per order number.
Capture(o) ==
  /\ payable[o]
  /\ captured[o] = 0
  /\ captured' = [captured EXCEPT ![o] = Amount[o]]
  /\ UNCHANGED <<orderRow, tables, payable, returned, req>>

\* A real channel reports the payment, possibly late and again and again.
HandleNotifyStart(r, o) ==
  /\ captured[o] > 0
  /\ Begin(r, "handleNotify", o, "lookup", NoStatus)
  /\ UNCHANGED <<orderRow, tables, channel>>

\* handleNotify ends without effect under every configuration. WeChat reports the
\* number createCharge passed as out_trade_no, the orderNo, and applyPaid looks for
\* an order with that id: NotFound. What Alipay sends is not under raw, where its
\* verifyNotify looks; and neither the mock nor the other channel verifies it.
HandleNotifyEnds(r) ==
  /\ At(r, "lookup", {"handleNotify"})
  /\ Done(r)
  /\ UNCHANGED <<orderRow, tables, channel>>

\* mockNotify, whatever channel is configured: the page reports the payment of any
\* order, charged or not. applyPaid returns at once unless the order it reads
\* awaits payment.
NotifyStart(r, o) ==
  /\ AwaitsPayment(o)
  /\ Begin(r, "notify", o, "load", NoStatus)
  /\ UNCHANGED <<orderRow, tables, channel>>

\* The transaction of applyPaid from its first write.
PaidCommit(r) ==
  LET o == req[r].o IN
  /\ At(r, "store", {"notify"})
  /\ RowMatches(r)
  /\ SetStatus(o, req[r].from, "pending_accept")
  /\ payment' = IF payment[o] = "none" THEN payment   \* updateMany, no row
                ELSE [payment EXCEPT ![o] = "paid"]
  /\ Done(r)
  /\ UNCHANGED <<masterId, arriveCode, settlement, review, channel>>

-----------------------------------------------------------------------------
(* Refunding: called by POST /payments/refund and by cancel.                *)

\* Mutants: a completed order is refundable; one that cancel has moved to refunding
\* is not.
RefundableCompleted == PostPayStates \cup CompletedStates \cup {"refunding"}
RefundablePostPay   == PostPayStates

RefundableStates == PostPayStates \cup {"refunding"}

\* The customer asks for a refund directly: no stage is passed.
RefundStart(r, o) ==
  /\ returned[o] <= MaxReturned                         \* bound
  /\ Begin(r, "refund", o, "enter", NoStatus)
  /\ UNCHANGED <<orderRow, tables, channel>>

\* Mutant: the stage cancel hands over is ignored.
StageNow(q) == status[q.o]

\* The stage the split is computed from: the caller's, or else the status read.
StageOf(q) == IF q.stage = NoStatus THEN status[q.o] ELSE q.stage

\* refund() reads the order: refundable, and what later steps need of it.
RefundEnter(r) ==
  LET o == req[r].o IN
  /\ req[r].pc = "enter"
  /\ status[o] \in RefundableStates
  /\ req' = [req EXCEPT ![r].pc = "guard", ![r].seen = status[o],
                        ![r].stage = StageOf(req[r]), ![r].hadMaster = Owned(o)]
  /\ UNCHANGED <<orderRow, tables, channel>>

RefundRefused(r) ==
  /\ req[r].pc = "enter"
  /\ status[req[r].o] \notin RefundableStates
  /\ Done(r)
  /\ UNCHANGED <<orderRow, tables, channel>>

\* The guard against a second refund: is there a payment marked refunded.
AlreadyRefunded(o) == payment[o] = "refunded"

\* Mutant: the transaction comes before the call of the channel.
RefundGuardRecords(r) ==
  /\ req[r].pc = "guard"
  /\ IF AlreadyRefunded(req[r].o) THEN Done(r) ELSE Goto(r, "load")
  /\ UNCHANGED <<orderRow, tables, channel>>

RefundGuard(r) ==
  /\ req[r].pc = "guard"
  /\ IF AlreadyRefunded(req[r].o) THEN Done(r) ELSE Goto(r, "provider")
  /\ UNCHANGED <<orderRow, tables, channel>>

Split(q) == splitRefund(Amount[q.o], q.stage, Snapshot[q.o])

\* provider.refund: the mock acknowledges at once, irrevocably.
ProviderRefund(r) ==
  LET o == req[r].o IN
  /\ req[r].pc = "provider"
  /\ "mock" \in Channels
  /\ returned' = [returned EXCEPT ![o] = @ + Split(req[r]).refundAmount]
  /\ Goto(r, "load")
  /\ UNCHANGED <<orderRow, tables, payable, captured>>

\* A real channel refuses: refund() names the trade by the id of the Payment row or
\* of the order, the channel knows it by the orderNo. The call throws.
ProviderFails(r) ==
  /\ req[r].pc = "provider"
  /\ RealChannels # {}
  /\ Done(r)
  /\ UNCHANGED <<orderRow, tables, channel>>

\* The transaction of refund() from its first write on the order row: refunding
\* unless the order was there already, payment, refunded, and a compensation for
\* the master the order had when refund() read it.
RefundCommit(r) ==
  LET o == req[r].o IN
  /\ At(r, "store", {"refund"})
  /\ RowMatches(r)
  /\ status' = [status EXCEPT ![o] = "refunded"]
  /\ refundFrom' = IF req[r].from = "refunding" THEN refundFrom
                   ELSE [refundFrom EXCEPT ![o] = req[r].from]
  /\ payment' = IF payment[o] = "none" THEN payment
                ELSE [payment EXCEPT ![o] = "refunded"]
  /\ settlement' = IF req[r].hadMaster
                   THEN [settlement EXCEPT ![o] = Compensated(o, Split(req[r]))]
                   ELSE settlement
  /\ Done(r)
  /\ UNCHANGED <<masterId, arriveCode, review, channel>>

-----------------------------------------------------------------------------
PaymentsStart(r, o) ==
  \/ ChargeStart(r, o)
  \/ NotifyStart(r, o)
  \/ HandleNotifyStart(r, o)
  \/ RefundStart(r, o)

PaymentsStep(r) ==
  \/ ChargeWrite(r) \/ ChargeFails(r)
  \/ HandleNotifyEnds(r)
  \/ PaidCommit(r)
  \/ RefundEnter(r)
  \/ RefundRefused(r)
  \/ RefundGuard(r)
  \/ ProviderRefund(r) \/ ProviderFails(r)
  \/ RefundCommit(r)

=============================================================================
