CONSTANTS
  console = console
  watcher = watcher
  nothing = nothing
  Sourced <- Console
  Held <- Watcher
  Targets <- TwoTargets
  Files <- TwoFiles
  Kind <- AKind
  Dirs <- DirWithSolution
  Symbols <- ASymbols
  Template <- ATemplate
  Nothing = nothing
  MaxChanges = 1
  MaxRuns = 2
SPECIFICATION Spec
INVARIANT TypeOK
INVARIANT CurrentAfterRun
INVARIANT SecondRunWritesNothing
INVARIANT ExactlyNeeded
PROPERTY GuardedFilesStay
CHECK_DEADLOCK FALSE
