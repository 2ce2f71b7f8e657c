---------------------------- MODULE MCRefundSaga ----------------------------
(* RefundSaga on small instances.                                          *)
EXTENDS RefundSaga, TLC

Symmetry == Permutations(Requests)
=============================================================================
