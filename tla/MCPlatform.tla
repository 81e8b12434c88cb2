------------------------------ MODULE MCPlatform ------------------------------
(* Instances of Platform and its pages for TLC.                            *)
EXTENDS OrderPages, TLC

CONSTANT o2

\* 1.01 yuan, so that every share of it is rounded.
MCAmount == [o \in Orders |-> 101]

\* Default tiers (80 % back from departing on, 50 % from arrived on) with 20 %
\* commission; and an order whose commission of 15 % is never given back.
Tiered == [platformRate |-> 2000, refundPolicy |-> "tiered", refundTiers |-> <<>>]

KeepCommission ==
  [ platformRate |-> 1500, refundPolicy |-> "keep_commission",
    refundTiers |-> [s \in {"accepted", "servicing"} |->
                       IF s = "accepted" THEN 9050 ELSE 3333] ]

MCSnapshot == [o \in Orders |-> IF o = o2 THEN KeepCommission ELSE Tiered]

MCSymmetry == Permutations(Masters) \cup Permutations(Requests)

AllOps == Handlers

\* An order with a charge open at a real channel is not paid by mockNotify as well: what
\* the channel does from then on is of no effect.
Unmixed ==
  \A o \in Orders : payable[o] => status[o] \in {"pending_payment", "cancelled"}

\* Requests overlap, except as PaymentsApart and RefundsApart exclude, the hypotheses
\* of the theorems about the money.
AllApart ==
  /\ Apart({"charge"}, {"notify"})'
  /\ Apart(Repayers, Visits)' /\ Apart({"refund"}, {"refund"})'
  /\ \A o \in Orders, r \in Requests :
       req[r].o = o /\ req[r].op \in Repayers => masterId'[o] = masterId[o]

\* One order at a time, with either rule: no step of Platform touches two.
OneOrder ==
  \E o \in Orders : \A p \in Orders \ {o} :
    status[p] = "pending_payment" /\ payment[p] = "none" /\ \A r \in Requests : req[r].o # p

ApartSpec == Init /\ [][Next /\ AllApart /\ OneOrder']_vars

=============================================================================
