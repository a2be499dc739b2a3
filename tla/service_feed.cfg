CONSTANTS
  c1 = c1
  c2 = c2
  loop = loop
  nobody = nobody
  count = count
  Conns <- TwoConns
  Loop = loop
  Nobody = nobody
  Props <- OneProp
  MaxValue = 1
  Limit = 1
  Assigned <- AnyValue
  Mutators <- LoopOnly
  ListenerDoes <- Nothing
SPECIFICATION FairSpec
INVARIANT TypeOK
INVARIANT Converged
PROPERTY ImplementsFeed
PROPERTY Responsive
