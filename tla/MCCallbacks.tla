----------------------------- MODULE MCCallbacks -----------------------------
(***************************************************************************)
(* Symmetry of Callbacks for TLC: Member objects are interchangeable.       *)
(***************************************************************************)
EXTENDS Callbacks, TLC

Symmetry == Permutations(Members)
=============================================================================
