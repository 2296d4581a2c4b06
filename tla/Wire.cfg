CONSTANTS
  None = None
  MaxFresh = 5
  MaxTries = 1
  MaxAttempts = 2
  Parts <- SomeParts
  BlockSizes = {5}
  MaxText = 23
  MaxAhead = 5
  Absent = Absent
  Failed = Failed
  MaxChunk = 3
  MinMtu = 27
  Jobs <- SomeJobs
  Unset = Unset
  Illegal = Illegal
  Known <- Tables
  Base = 4
  Width <- Widths
  Prec = 3
  k1 = k1
  k2 = k2
  Chars = {1, 2}
  Readable = {1, 2}
  Lists <- TwoLists
  Callers = {k1, k2}
  MaxValue = 2
SYMMETRY Symmetry
CONSTRAINTS
  LongIfChunked
  BothWithValues
SPECIFICATION WireSpec
\* Everything may be used up.
CHECK_DEADLOCK FALSE
INVARIANTS
  PairedTogether
  KeysAgree
  CutAnywhere
  
  
  ViewFollows
