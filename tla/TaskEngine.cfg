SPECIFICATION Spec
CONSTANTS
  Workers = {w1, w2}
  Main = main
  Output = out
  WorkSize = 1
  OutputSize = 2
  MaxTasks = 3
  MaxOutputs = 2
INVARIANTS
  TypeOK
  WorkExact
PROPERTY CallsReturn
