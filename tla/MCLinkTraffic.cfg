CONSTANTS
    Paths <- MCPaths
    QueueSize = 2
    FragmentLimit = 4
    Shapes <- MCShapes
    Positions = {"left", "right"}
    Mappings = {"default", "swapped", "short"}
    ValidMapping = {"default", "swapped"}
    TeleQueue = 2
    MaxStick = 4
    Changes <- MCChanges
    Packets = {0, 100, 1000}
    MinMs = 10
    MaxMs = 100
    MinSize = 2
    MaxSize = 40
    MaxSets = 3
SPECIFICATION Spec
INVARIANTS VideoIntact InEffectAsStored
PROPERTIES VideoForwarded LiveStreams HistorySettles
CHECK_DEADLOCK FALSE
