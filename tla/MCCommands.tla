----------------------------- MODULE MCCommands -----------------------------
(***************************************************************************)
(* Commands for TLC: the command words, one of them in capitals, and a word *)
(* that is none.                                                            *)
(***************************************************************************)
EXTENDS Commands

MCWords == CommandWords \cup {"START", "id", "ID"}

MCLower == [w \in MCWords |-> CASE w = "START" -> "start" [] w = "ID" -> "id"
                                [] OTHER -> w]

MCUpper == [w \in MCWords |-> CASE w = "start" -> "START" [] w = "id" -> "ID"
                                [] OTHER -> w]
=============================================================================
