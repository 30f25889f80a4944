\* Sessions that have all ended leave nothing to do but reconnect.
CHECK_DEADLOCK FALSE
SPECIFICATION Spec
CONSTANTS
  MaxSockets = 2
  MaxQueue = 1
INVARIANTS
  ExitIsTrue
  NoSilentEnd
  NoOrphanSession
PROPERTIES
  GoroutinesEnd
  EndIsShown
