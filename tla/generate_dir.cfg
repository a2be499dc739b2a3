CONSTANTS
  console = console
  watcher = watcher
  nothing = nothing
  Sourced <- Console
  Held <- None
  Targets <- DirTarget
  Files <- ThreeFiles
  Kind <- AKind
  Dirs <- DirWithBoth
  Symbols <- ASymbols
  Template <- ATemplate
  Nothing = nothing
  MaxChanges = 1
  MaxRuns = 2
SPECIFICATION Spec
INVARIANT DirectoryIsParsed
CHECK_DEADLOCK FALSE
