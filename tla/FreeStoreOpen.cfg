SPECIFICATION Spec
CONSTANTS
  Readers = {r1}
  Writers = {}
  ExclusiveWriters = {x1}
  TryExclusive = {t1}
  Systems = {"posix", "windows"}
  MaxCommits = 2
  MaxDeaths = 2
INVARIANTS
  TypeOK
  StoreProtected
PROPERTY RecoveryEnds
