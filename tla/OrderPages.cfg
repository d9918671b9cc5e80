CONSTANTS
  Orders = {1, 2}
  Logged = {1, 2}
  Earlier = {1}
  MaxMoves = 3
  MaxFaults = 1
SPECIFICATION FairSpec
INVARIANTS
  ShowsItsOrder
  ContextFollowsPath
  VerdictBacked
  AnswersHold
  TimelineTrue
PROPERTIES
  ShownIsFinal
  VerdictShown
CHECK_DEADLOCK FALSE
