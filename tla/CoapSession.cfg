\* Two callers; a second context is there for what may be cut loose.
SPECIFICATION FairSpec
\* Both contexts may be cut loose for good.
CHECK_DEADLOCK FALSE
CONSTANTS
  Callers = {c1, c2}
  Contexts = {k1, k2}
  None = none
  Calls = {"subscribe", "close"}
  Window = 1
  MaxSend = 4
INVARIANTS
  TypeOK
  OneConnector
  CountersMeet
  NoContextLost
  
PROPERTY EveryCallEnds
