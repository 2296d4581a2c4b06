\* Three callers and the connector share two permits.
SPECIFICATION FairSpec
CONSTANTS
  Callers = {c1, c2, c3}
  Verify = verify
  Permits = 2
  MaxEvents = 1
INVARIANTS
  TypeOK
  SemaphoreConserved
  NothingOwed
PROPERTY Implements
