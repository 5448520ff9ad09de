CONSTANTS
  Threads = {worker, param}
  Fields = {freq, power}
  Values = {v0, v1}
  Default = v0
  Nothing = Nothing
  NoFile = NoFile
  Broken = Broken
  MaxChanges = 3
  MaxReboots = 2
  MaxFailures = 1
  worker = worker
  param = param
  freq = freq
  power = power
  v0 = v0
  v1 = v1
SPECIFICATION FairSpec
INVARIANTS CleanPersistRepairs
PROPERTIES RestartRestores StartsAgain
CHECK_DEADLOCK FALSE
