SPECIFICATION FairSpec
CONSTANTS
 Interval <- MCInterval Undecorated = {2} MaxLag = 8 Horizon = 30 MaxStops = 0
PROPERTY EveryEntryRuns
CHECK_DEADLOCK FALSE
