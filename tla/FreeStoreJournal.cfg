SPECIFICATION Spec
CONSTANTS
  Blocks = {b1, b2}
  MaxAttempts = 5
  MaxCrashes = 2
  CrashMixes = {{"machine"}, {"process"}}
  UnprotectedCrashes = FALSE
INVARIANTS
  TypeOK
  AllOrNothing
PROPERTY RecoveryCorrect
