SPECIFICATION Spec
CONSTANTS
  Erased = Erased
  Mixed = Mixed
  Zero = Zero
  SectorPages = 2
  BlockSectors = 2
  FlashPages = 24
  Pages <- MCPages
  Stage <- MCStage
  App <- MCApp
  LastUpdate = 3
  Length <- MCLength
  Exact <- MCExact
  MaxTries = 2
  MaxLate = 1
INVARIANTS WholeProgram PushedIsStaged
PROPERTIES RewritesExactly
CHECK_DEADLOCK FALSE
