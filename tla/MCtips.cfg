SPECIFICATION FairSpec
CONSTANTS
  Friends = {f1, f2}
  NoFriend = NoFriend
  Buffers = {b1, b2}
  RESEND_TIME_BASE = 1
  RESEND_TIME_MAX = 2
  MaxLate = 1
  AddFails = TRUE
  RepeatRequests = TRUE
  Refusals = TRUE
INVARIANTS
  TypeOK
  BufferOwnership
  TriedSoonEnough
PROPERTIES
  GivesUpLate
  WelcomeSettles
