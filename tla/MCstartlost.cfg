SPECIFICATION Spec
CONSTANTS
  Users = {u1, u2}
  Members = {m1, m2, m3}
  NULL = NULL
  MAX_POOL_SIZE = 0
  Faults = {"execute"}
  TokIds = {"t1"}
  Names = {}
  Bios = {}
  Signatures = {"s1"}
  Conns = {"UDP"}
  MaxTime = 0
  NameStoredFirst = FALSE
  AvatarReads = {FALSE}
INVARIANTS
  StartedIsRecommended
