SPECIFICATION Spec
CONSTANTS
  Users = {u1, u2}
  Members = {m1, m2, m3}
  NULL = NULL
  MAX_POOL_SIZE = 0
  Faults = {"kill"}
  TokIds = {"t1"}
  Names = {"n1"}
  Bios = {}
  Signatures = {"s1"}
  Conns = {"TCP", "UDP"}
  MaxTime = 0
  NameStoredFirst = TRUE
  AvatarReads = {FALSE}
SYMMETRY Symmetry
INVARIANTS
  ListedExactly
  AckedSignatureShown
PROPERTIES
  OneFriendAtATime
  CacheStaysExact
  OnlyReaddingLeaks
  ImplementsDirectory
