CONSTANTS
  Hosts <- MCHosts
  CameraChoices <- MCChoices
  Nodes <- MCNodes
  Sensors = {0, 2}
  Mbits = {0, 4, 50, 51}
  Kbits = {500, 2501}
  Formats <- MCFormats
  SliceCounts = {8, 100}
  Intervals = {0, 5}
  IntraTypes <- MCIntraTypes
  DefaultFormat <- MCDefaultFormat
  MaxUpdates = 3
SPECIFICATION CameraSpec
INVARIANTS  CamerasAsChosen
CHECK_DEADLOCK FALSE
