SPECIFICATION ProgramSpec
CONSTANTS
  CommandLines <- MCCommandLines
  Hardware <- MCHardware
  EnableAir = TRUE
  MaxBoots = 2
  MaxClients = 1
  MaxChanges = 2
  Plans <- MCPlans
  Backlog = 1
  MaxChunks = 2
INVARIANTS ModulesThere
PROPERTIES ProgramEnds ResetIsCarriedOut SaidAndDone
CHECK_DEADLOCK FALSE
