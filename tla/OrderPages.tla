------------------------------ MODULE OrderPages ------------------------------
(***************************************************************************)
(* The buttons the pages show for an order, computed from the rows they      *)
(* fetched: the two order pages of customer and master, the settlement list  *)
(* of an administrator. A button is named by the handler it calls.           *)
(***************************************************************************)
EXTENDS Platform

CANCELABLE == PostPayStates \cup {"pending_payment"}

\* Mutant: cancelling is offered while the order waits for its review.
ClientButtonsAfterwards(o) ==
  { op \in {"charge", "arriveCode", "confirm", "review", "cancel"} :
      \/ op = "charge"     /\ status[o] = "pending_payment"
      \/ op = "arriveCode" /\ status[o] = "departing"
      \/ op = "confirm"    /\ status[o] = "pending_confirm"
      \/ op = "review"     /\ status[o] \in CompletedStates /\ ~review[o]
      \/ op = "cancel"     /\ status[o] \in CANCELABLE \cup {"reviewed"} }

\* Pay (charge, then notify), show the arrival code, accept, review, cancel.
ClientButtons(o) ==
  { op \in {"charge", "arriveCode", "confirm", "review", "cancel"} :
      \/ op = "charge"     /\ status[o] = "pending_payment"
      \/ op = "arriveCode" /\ status[o] = "departing"
      \/ op = "confirm"    /\ status[o] = "pending_confirm"
      \/ op = "review"     /\ status[o] \in CompletedStates /\ ~review[o]
      \/ op = "cancel"     /\ status[o] \in CANCELABLE }

isPoolOrder(o) == status[o] = "pending_accept" /\ ~Owned(o)

MasterButtons(o) ==
  { op \in {"claim", "depart", "arrive", "startService", "complete"} :
      \/ op = "claim"        /\ isPoolOrder(o)
      \/ op = "depart"       /\ status[o] = "accepted"
      \/ op = "arrive"       /\ status[o] = "departing"
      \/ op = "startService" /\ status[o] = "arrived"
      \/ op = "complete"     /\ status[o] = "servicing" }

SettlementButtons(o) ==
  {op \in {"credit", "reject"} : settlement[o].status = "pending"}

-----------------------------------------------------------------------------
Buttons(o) == ClientButtons(o) \cup MasterButtons(o) \cup SettlementButtons(o)

\* What the handler behind a button asks of the order it reads; the arrival code the
\* master has to type is the one the customer's button shows.
LetIn(o, op) ==
  CASE op = "charge"           -> AwaitsPayment(o)
    [] op = "claim"            -> Claimable(o)
    [] op \in {"depart", "startService", "complete"} -> Owned(o)
    [] op = "arriveCode"       -> Travelling(o)
    [] op = "arrive"           -> Owned(o) /\ Travelling(o)
    [] op = "confirm"          -> Owned(o)
    [] op = "review"           -> AwaitsReview(o)
    [] op \in {"credit", "reject"} -> IsPending(o)
    [] OTHER                   -> TRUE

\* Handlers that end in transition(), which refuses a move that is not in the flow.
Moving ==
  { "depart", "arrive", "startService", "complete", "confirm", "cancel", "review" }

\* The transition the handler would ask for.
MoveAsked(o, op) ==
  Target([Idle EXCEPT !.op = op,
                      !.stage = IF op = "cancel" THEN StageToRefund(o) ELSE NoStatus])

Accepted(o, op) ==
  LetIn(o, op) /\ (op \in Moving => canTransition(status[o], MoveAsked(o, op)))

Ended == {"evaluated", "refunded", "cancelled"}

\* While nobody is at work on an order, its pages show what the server does: every
\* button is accepted, and until the order has come to an end somebody has a button
\* that moves it on. Flow, handlers and pages each have their own list of statuses;
\* the review button even is offered in a status reviews.service refuses.
PagesLeadOn ==
  \A o \in Orders :
    (\A r \in Requests : req[r].o # o) =>
      /\ \A op \in Buttons(o) : Accepted(o, op)
      /\ status[o] \notin Ended => ClientButtons(o) \cup MasterButtons(o) # {}

=============================================================================
