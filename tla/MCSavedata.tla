----------------------------- MODULE MCSavedata -----------------------------
(***************************************************************************)
(* Config files for TLC: a complete one, one with a misspelt setting, one   *)
(* that lacks a setting, and one that is not there.                         *)
(***************************************************************************)
EXTENDS Savedata, TLC

CONSTANTS good, misspelt, short, missing

MCFiles == {good, misspelt, short, missing}

MCContent ==
  (good     :> [given |-> Settings, refused |-> FALSE]) @@
  (misspelt :> [given |-> Settings \ {"max_conn"}, refused |-> TRUE]) @@
  (short    :> [given |-> Settings \ {"max_conn"}, refused |-> FALSE]) @@
  (missing  :> [given |-> {}, refused |-> FALSE])
=============================================================================
