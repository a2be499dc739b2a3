SPECIFICATION FairSpec
CONSTANTS
  c1 = c1
  c2 = c2
  Clients = {c1, c2}
  MaxEvents = 2
  Nil = Nil
INVARIANTS
  TypeOK
  AnswerTellsAll
PROPERTIES
  NothingAfterStop
  StopReturns
CHECK_DEADLOCK FALSE
