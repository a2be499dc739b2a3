CONSTANTS
  c1 = c1
  c2 = c2
  loop = loop
  nobody = nobody
  count = count
  Conns <- TwoConns
  Loop = loop
  Nobody = nobody
  Props <- OneProp
  MaxValue = 2
  Limit = 1
  Assigned <- AnyValue
  Mutators <- LoopAndConn
  ListenerDoes <- AssignsOrAdds
SPECIFICATION Spec
INVARIANT LocksAccounted
INVARIANT StuckOnlyByNesting
CHECK_DEADLOCK FALSE
