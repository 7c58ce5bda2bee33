SPECIFICATION CallSpec
CONSTANTS
  Users = {u1}
  Members = {m1, m2}
  NULL = NULL
  MAX_POOL_SIZE = 0
  Faults = {"prepare", "execute", "kill", "send", "rename"}
  TokIds = {"t1"}
  Names = {"n1"}
  Bios = {}
  Signatures = {"s1"}
  Conns = {"UDP"}
  MaxTime = 1
  NameStoredFirst = FALSE
  AvatarReads = {TRUE}
SYMMETRY Symmetry
INVARIANTS
  CallTypeOK
PROPERTIES
  ImplementsAssisant
