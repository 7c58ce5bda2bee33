------------------------------ MODULE MCAvatar ------------------------------
(***************************************************************************)
(* Avatar for TLC: an empty image file, one of a chunk and a half and one   *)
(* of two chunks.                                                           *)
(***************************************************************************)
EXTENDS Avatar, TLC

CONSTANTS empty, small, large, u1, u2

MCImages == {empty, small, large}
MCSize == (empty :> 0) @@ (small :> 3) @@ (large :> 4)
MCUsers == {u1, u2}
Symmetry == Permutations(MCUsers)
=============================================================================
