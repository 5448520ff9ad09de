CONSTANTS
  Units <- MCUnits
  NSlots = 2
  AuCards = {0}
  Powers = {20, 60}
  Levels = {3}
  CardInfo <- MCCardInfo
  Capable <- MCCapable
  Mcs = {0, 3, 32}
  Pwms = {1300}
  MaxArmings = 1
  MaxRc = 1
SPECIFICATION FairSpec
INVARIANTS PowerAsSet ReducedPowerAt40
PROPERTIES PowerSettles RcChannelWins
