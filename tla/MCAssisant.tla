----------------------------- MODULE MCAssisant -----------------------------
(***************************************************************************)
(* Values of Assisant's constants for TLC, and the mapping under which it   *)
(* implements Directory.                                                    *)
(***************************************************************************)
EXTENDS Assisant, FiniteSets, TLC

(* Friends and Member objects are interchangeable. *)
Symmetry == Permutations(Users) \cup Permutations(Members)

(* The refinement mapping: authorized is the table, present what toxcore    *)
(* reported, told the last answer to /get.                                  *)
Directory == INSTANCE Directory WITH
  authorized <- DOMAIN db,
  present    <- {p \in Users : conn[p] # Offline},
  told       <- CASE out.desc = "get"      -> [to |-> out.to, who |-> out.about.pk]
                  [] out.desc = "get_none" -> [to |-> out.to, who |-> NULL]
                  [] OTHER                 -> [to |-> NULL, who |-> NULL]

(* The bot keeps the promises of Directory: cache, pool, table, callbacks   *)
(* and crashes together give exactly the recommendations that the set of    *)
(* authorized friends and the set of connected friends call for.            *)
ImplementsDirectory == Directory!Spec
=============================================================================
