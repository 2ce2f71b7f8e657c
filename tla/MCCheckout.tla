------------------------------ MODULE MCCheckout ------------------------------
(* Checkout for TLC: one channel that redirects, one with a code, and one the            *)
(* application may not use.                                                             *)
EXTENDS Checkout

MCLists == {{}, {"redirect"}, {"other"}}
=============================================================================
