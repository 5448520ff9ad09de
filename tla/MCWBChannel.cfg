CONSTANTS
  Freqs = {5180, 5745}
  AirCard <- MCAirCard
  GndCards <- MCGndCards
  FirstCard <- MCGndCard
  Widths = {20, 40}
  MaxEvents = 2
SPECIFICATION FairSpec
INVARIANTS AirSettled GroundSettled InjectionAsWanted
PROPERTIES AcceptedItemFinishes GroundFollows
