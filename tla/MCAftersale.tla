----------------------------- MODULE MCAftersale -----------------------------
(* One order and two requests, each an operator's, a reviewer's, the        *)
(* customer's or the master's.                                              *)
EXTENDS Aftersale, TLC

CONSTANTS o1, c1

MCSymmetry == Permutations(Requests)

MCAmount == [o \in Orders |-> 101]

MCSnapshot ==
  [o \in Orders |->
     [platformRate |-> 2000, refundPolicy |-> "tiered", refundTiers |-> <<>>]]

MCComplaintOf == [c \in Complaints |-> o1]

\* What is asked of an order that is unpaid, accepted or in service.
MCOps == {"charge", "handleNotify", "complete", "confirm", "cancel"}

\* An order accepted or in service, paid by mockNotify, with a charge that is open at
\* the other channel.
Underway ==
  /\ status \in [Orders -> {"accepted", "servicing"}]
  /\ masterId \in [Orders -> Masters]
  /\ arriveCode = [o \in Orders |-> FALSE]
  /\ refundFrom = [o \in Orders |-> NoStatus]
  /\ payment = [o \in Orders |-> "paid"]
  /\ settlement = [o \in Orders |-> NoSettlement]
  /\ review = [o \in Orders |-> FALSE]
  /\ payable = [o \in Orders |-> TRUE]
  /\ captured = [o \in Orders |-> 0]
  /\ returned = [o \in Orders |-> 0]
  /\ req = [r \in Requests |-> Idle]

MCInit == (Init \/ Underway) /\ DeskInit

MCSpec == MCInit /\ [][AftersaleNext]_aftersaleVars

=============================================================================
