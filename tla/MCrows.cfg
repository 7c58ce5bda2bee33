SPECIFICATION Spec
CONSTANTS
  Users = {u1, u2}
  Members = {m1, m2}
  NULL = NULL
  MAX_POOL_SIZE = 0
  Faults = {"connect", "kill"}
  TokIds = {"t1"}
  Names = {"n1"}
  Bios = {"b1"}
  Signatures = {}
  Conns = {"UDP"}
  MaxTime = 1
  NameStoredFirst = FALSE
  AvatarReads = {FALSE}
SYMMETRY Symmetry
INVARIANTS
  SavedOneBehind
PROPERTIES
  RowsGoStaleByDeath
