--------------------------- MODULE MCRunnerOrders ---------------------------
(* Instances of RunnerOrders.                                               *)
EXTENDS RunnerOrders

OffAndTwo == {0, 2}
One       == {1}
ZeroOrOne == {0, 1}
=============================================================================
