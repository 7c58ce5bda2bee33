SPECIFICATION Spec
CONSTANTS
  empty = empty
  small = small
  large = large
  u1 = u1
  u2 = u2
  Users <- MCUsers
  Images <- MCImages
  Garbage = Garbage
  NULL = NULL
  Size <- MCSize
  Chunk = 2
  MaxTransfers = 2
  SendFails = TRUE
SYMMETRY Symmetry
INVARIANTS
  TypeOK
  SizeIsOfBuffer
  SentAsOffered
  NothingRefused
