CONSTANTS
  loop = loop
  reader = reader
  nobody = nobody
  Loop = loop
  Reader = reader
  Nobody = nobody
  Ops <- AllOps
  ListenerUses = TRUE
  ListenerCalls = TRUE
  MaxOps = 4
  MaxChanges = 4
SPECIFICATION Spec
INVARIANT TypeOK
INVARIANT UpToDate
INVARIANT HangsOnlyAsNamed
PROPERTY NeverBackwards
PROPERTY CallsSeeTheirEffects
CHECK_DEADLOCK FALSE
