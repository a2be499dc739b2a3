CONSTANTS
  alice = alice
  demo = demo
  nothing = nothing
  Callers <- Alone
  Names <- OneName
  Nothing = nothing
  Ops <- AllOps
  MaxItems = 2
SPECIFICATION FairSpec
INVARIANT TypeOK
INVARIANT ListedAsTold
INVARIANT RunsItsOwn
INVARIANT RunsOverlapOnlyWhenOutlived
PROPERTY StopReachesBegun
PROPERTY ToldWatchEnds
CHECK_DEADLOCK FALSE
