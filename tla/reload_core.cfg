CONSTANTS
  r1 = r1
  h1 = h1
  Requests <- OneRequest
  Handlers <- OneHandler
  Generations <- TwoGenerations
  First = 1
  MaxBuilds = 3
  Torn = FALSE
SPECIFICATION FairSpec
CHECK_DEADLOCK FALSE
INVARIANTS TypeOK PinnedIsAlive ServesCommitted
PROPERTIES ServesAgain RetiredIsDisposed
