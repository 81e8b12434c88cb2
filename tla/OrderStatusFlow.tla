--------------------------- MODULE OrderStatusFlow ---------------------------
(***************************************************************************)
(* The order state machine shared by back end and front end: the statuses  *)
(* of an order, the transitions ORDER_STATUS_FLOW allows and the subsets of *)
(* statuses the services test for.                                         *)
(***************************************************************************)

OrderStatus ==
  { "pending_payment", "pending_accept", "accepted", "departing", "arrived",
    "servicing", "pending_confirm", "reviewed", "evaluated", "refunding",
    "refunded", "cancelled" }

\* The states in which the platform holds the money and a cancellation refunds.
PostPayStates ==
  { "pending_accept", "accepted", "departing", "arrived", "servicing",
    "pending_confirm" }

\* Accepted by the customer: the escrow has been released to the master.
CompletedStates == {"reviewed", "evaluated"}

\* ORDER_STATUS_FLOW as a relation: the service line, the exit to a refund that
\* every paid state has, and the two ends.
Flow ==
  { <<"pending_payment", "pending_accept">>, <<"pending_payment", "cancelled">>,
    <<"pending_accept", "accepted">>, <<"accepted", "departing">>,
    <<"departing", "arrived">>, <<"arrived", "servicing">>,
    <<"servicing", "pending_confirm">>, <<"pending_confirm", "reviewed">>,
    <<"reviewed", "evaluated">>, <<"refunding", "refunded">> }
  \cup ((PostPayStates \cup CompletedStates) \X {"refunding"})

canTransition(from, to) == <<from, to>> \in Flow

=============================================================================
