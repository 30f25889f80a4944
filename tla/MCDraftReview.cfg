\* A review that has used up its changes and decisions only polls.
CHECK_DEADLOCK FALSE
SPECIFICATION Spec
CONSTANTS
  Chunks = {c1}
  Filters = {"pending"}
  MaxRev = 3
  MaxRequests = 1
INVARIANTS
  ApprovesWhatWasRead
  DecisionIsShown
PROPERTY OwnSaveCloses
