CONSTANTS
  Tools = {p1, p2, p3}
  Handlers = {h1, h2}
  NotesCap = 1
  MaxSteps = 2
  MaxRounds = 2
  Budgets <- AllBudgets
  Runners = {p1, p2, p3}
  Cleaners = {c1}
  Nobody = Nobody
  MaxCrashes = 1
  MaxAges = 1
SPECIFICATION FilesSpec
SYMMETRY Interchangeable
INVARIANTS NotesKept CallsNumbered AbortWithinOneRound SharedOnlyAfterSweep
CHECK_DEADLOCK FALSE
