CONSTANTS
  Cameras = {0}
  Dynamic = {0}
  Codecs = {"h264", "h265"}
  Rates = {500}
  UserRates = {4000}
  MinRate = 1000
  PrimaryPerc = 60
  Spaces = {300, 301}
  MinSpace = 300
  MaxChanges = 2
  MaxRequests = 1
  MaxFaults = 1
SPECIFICATION FairSpec
INVARIANTS PipelineFollowsSettings
PROPERTIES StreamRecovers LowSpaceStopsRecording
