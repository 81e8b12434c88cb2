--------------------------------- MODULE Sums ---------------------------------
(* The _sum of an aggregate query over rows numbered 1..n, as a recursive   *)
(* function, so that facts about it can be proved (WithdrawalProofs).       *)
EXTENDS Integers

\* running[i] is the sum of the first i amounts.
Total(amount, n) ==
  LET running[i \in 0..n] == IF i = 0 THEN 0 ELSE running[i - 1] + amount[i]
  IN  running[n]

=============================================================================
