---------------------------- MODULE EscrowContract ----------------------------
(***************************************************************************)
(* What the platform promises about the money of an order, without the      *)
(* requests, the locks and the steps of a visit: it is held from payment on, *)
(* at most one master serves the order, for ever the same one, and the      *)
(* escrow ends either released, with earnings for that master, or returned, *)
(* at most with a compensation for that master.                             *)
(***************************************************************************)
CONSTANTS Orders, Masters, NoOne

VARIABLES phase, server, payout

cvars == <<phase, server, payout>>

Init ==
  /\ phase = [o \in Orders |-> "unpaid"]
  /\ server = [o \in Orders |-> NoOne]
  /\ payout = [o \in Orders |-> "none"]

Pay(o) ==
  /\ phase[o] = "unpaid"
  /\ phase' = [phase EXCEPT ![o] = "held"]
  /\ UNCHANGED <<server, payout>>

Void(o) ==
  /\ phase[o] = "unpaid"
  /\ phase' = [phase EXCEPT ![o] = "void"]
  /\ UNCHANGED <<server, payout>>

Serve(o, m) ==
  /\ phase[o] = "held"
  /\ server[o] = NoOne
  /\ server' = [server EXCEPT ![o] = m]
  /\ UNCHANGED <<phase, payout>>

\* Earnings are recorded in the very step that releases the escrow.
Release(o) ==
  /\ phase[o] = "held"
  /\ server[o] # NoOne
  /\ payout[o] = "none"
  /\ phase' = [phase EXCEPT ![o] = "released"]
  /\ payout' = [payout EXCEPT ![o] = "earnings"]
  /\ UNCHANGED server

Recall(o) ==
  /\ phase[o] \in {"held", "released"}
  /\ phase' = [phase EXCEPT ![o] = "returning"]
  /\ UNCHANGED <<server, payout>>

\* A return may pass through "returning" or happen in one step.
Return(o) ==
  /\ phase[o] \in {"held", "released", "returning"}
  /\ phase' = [phase EXCEPT ![o] = "returned"]
  /\ \/ UNCHANGED payout
     \/ /\ payout[o] = "none"
        /\ server[o] # NoOne
        /\ payout' = [payout EXCEPT ![o] = "compensation"]
  /\ UNCHANGED server

Next ==
  \E o \in Orders :
    \/ Pay(o) \/ Void(o) \/ Release(o) \/ Recall(o) \/ Return(o)
    \/ \E m \in Masters : Serve(o, m)

Spec == Init /\ [][Next]_cvars

=============================================================================
