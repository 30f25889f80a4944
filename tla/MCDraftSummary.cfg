\* The handler ends once it has answered; that it gets there is Answers.
CHECK_DEADLOCK FALSE
SPECIFICATION Spec
CONSTANTS
  N = 3
  Concurrency = 2
  MaxPending = 1
  team = team
  Workspaces = {team}
  NoWorkspace = noWorkspace
  Listings <- MCListings
INVARIANTS
  AnswerIsTrue
  NoSharedSlot
PROPERTY Answers
