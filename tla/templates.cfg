SPECIFICATION FairSpec
CONSTANTS
  p1 = p1
  p2 = p2
  a = a
  Processes = {p1, p2}
  Names = {a}
  MaxCommit = 2
  MaxCalls = 2
  NoDir = NoDir
  NoFile = NoFile
  Empty = Empty
  Nil = Nil
  Absent = Absent
  Cloning = Cloning
INVARIANTS
  TypeOK
  VersionIsItsTag
  UpdateIsComplete
PROPERTY
  CallsEnd
