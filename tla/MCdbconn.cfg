SPECIFICATION Spec
CONSTANTS
  Users = {u1}
  Members = {m1}
  NULL = NULL
  MAX_POOL_SIZE = 0
  TokIds = {"t1"}
  Names = {}
  Bios = {}
  Signatures = {"s1"}
  Faults = {"connect", "prepare", "execute", "lost", "kill", "fetch"}
  Connections = {c1, c2, c3}
  max_conn = 1
  MaxUndeleted = 2
INVARIANTS
  TypeOK
  OneConnection
  ConnectionsReturned
  DeletedOnce
  UpdateIsAtomic
  FindIsAtomic
