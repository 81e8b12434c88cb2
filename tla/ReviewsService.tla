---------------------------- MODULE ReviewsService ----------------------------
(***************************************************************************)
(* reviews.service create: insert the review, then move the order on. The   *)
(* transition is MoveCommit of OrdersService.                               *)
(***************************************************************************)
EXTENDS OrderStore

\* Mutant: a review before the customer has confirmed.
ReviewEarly(r, o) ==
  /\ status[o] \in {"pending_confirm", "reviewed"}
  /\ ~review[o]
  /\ Begin(r, "review", o, "write", NoStatus)
  /\ UNCHANGED <<orderRow, tables, channel>>

AwaitsReview(o) == status[o] = "reviewed" /\ ~review[o]

ReviewStart(r, o) ==
  /\ AwaitsReview(o)
  /\ Begin(r, "review", o, "write", NoStatus)
  /\ UNCHANGED <<orderRow, tables, channel>>

\* Insert; orderId is unique, so a second insert throws.
ReviewInsert(r) ==
  /\ At(r, "write", {"review"})
  /\ ~review[req[r].o]
  /\ review' = [review EXCEPT ![req[r].o] = TRUE]
  /\ Goto(r, "load")
  /\ UNCHANGED <<orderRow, payment, settlement, channel>>

ReviewDuplicate(r) ==
  /\ At(r, "write", {"review"})
  /\ review[req[r].o]
  /\ Done(r)
  /\ UNCHANGED <<orderRow, tables, channel>>

ReviewsStep(r) == ReviewInsert(r) \/ ReviewDuplicate(r)

=============================================================================
