------------------------------ MODULE MCAccounts ------------------------------
EXTENDS Accounts

CONSTANTS new, old, r1, r2, good

MCCodes == 1..2

\* One phone has an account with a password, the other none.
MCInitial == [p \in Phones |->
  IF p = old THEN [role |-> "customer", hash |-> good, failures |-> 0, locked |-> FALSE]
  ELSE NoUser]

MCSymmetry == Permutations(Requests)
===============================================================================
