SPECIFICATION FairSpec
CONSTANTS
  MaxChanges = 2
  MaxCuts = 1
  MaxFlaps = 2
CHECK_DEADLOCK FALSE
INVARIANT AckedDurable SettledAgrees LinkKnown
PROPERTY LinkFollows
