SPECIFICATION FairSpec
CONSTANTS
  good = good
  misspelt = misspelt
  short = short
  missing = missing
  Files <- MCFiles
  Content <- MCContent
  Ids = {i1, i2, i3}
  Friends = {f1, f2}
  NULL = NULL
  Faults = {"fopen", "fread", "fwrite", "rename"}
INVARIANTS
  TypeOK
  ServesAsBefore
  ServesConfigured
PROPERTIES
  SavedFileWhole
  
  AcceptedIsSaved
