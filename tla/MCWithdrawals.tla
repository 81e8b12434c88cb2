---------------------------- MODULE MCWithdrawals ----------------------------
(* Instances of Withdrawals for TLC.                                        *)
EXTENDS Withdrawals

\* -1 and 0.4 cents, which are refused; 0.5 and 1.6 cents, which are rounded up.
MCAsked == {-10, 4, 5, 16}

=============================================================================
