SPECIFICATION Spec
CONSTANTS
  Words <- MCWords
  Lower <- MCLower
  Upper <- MCUpper
  MaxLength = 4
  SIZE_MAX = 65535
INVARIANTS
  NeverThrows
  RunsOnlyWhatIsMeant
  RunsWhatIsTyped
