CONSTANTS
  X20 = {TRUE, FALSE}
  Temps = {0, 70, 71, 84, 85, 95}
  LimitsFile = {TRUE, FALSE}
  Spaces = {"2G", "5G"}
  Widths = {40}
  Mcs = {0, 31}
  Fecs = {1, 400}
  Percents = {6, 1000}
  Hold = 3
  MaxChanges = 2
SPECIFICATION FairSpec
INVARIANTS RateFitsChannel
PROPERTIES Protection EncoderFollowsConfig
