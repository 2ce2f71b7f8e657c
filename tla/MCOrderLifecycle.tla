-------------------------- MODULE MCOrderLifecycle --------------------------
(***************************************************************************)
(* Small instances of OrderLifecycle for TLC.                              *)
(***************************************************************************)
EXTENDS OrderLifecycle, TLC

\* Handlers are interchangeable; so are they in every safety property.
Symmetry == Permutations(Requests)
=============================================================================
