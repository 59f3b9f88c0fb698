SPECIFICATION FairSpec
CONSTANTS
  Seqs = {s1, s2}
  Bound = {s1}
  Shared = {s2}
  Period = 3
  Timeouts = {1}
  MaxLag = 1
  MaxEvents = 2
  Racing = FALSE
CHECK_DEADLOCK FALSE
INVARIANTS TimersAreSound CheckWsiIsRight
PROPERTY EventsAreHandled
