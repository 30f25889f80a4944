\* A stream that has ended, a tab that is gone, or one whose subscriptions are
\* used up does nothing more.
CHECK_DEADLOCK FALSE
SPECIFICATION LogsSpec
CONSTANTS
  MaxLines = 4
  MaxWire = 2
  Lines = 2
  MaxLogged = 3
  MaxSubs = 2
  MaxLogLines = 2
  Filters = {all, errors}
INVARIANTS
  InOrder
  EndIsHonest
  NoGapsNoDuplicates
  NeverSilentlyStopped
PROPERTIES
  HandlerEnds
  RelayedLinesArrive
  TabCatchesUp
