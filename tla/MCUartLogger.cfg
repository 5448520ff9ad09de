SPECIFICATION MonitorSpec
CONSTANTS
  Keys <- MCKeys
  Lens = {7}
  Fields <- MCFields
  Generated = {1200}
  Options <- MCOptions
  Udp = TRUE
  Timeout = 1
  Heights = {5, 6, 14}
  MaxPings = 2
  MaxReads = 3
INVARIANTS MonitorConsistent
PROPERTY PingsSettle
CHECK_DEADLOCK FALSE
