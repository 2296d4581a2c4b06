\* As BleStates.cfg.
SPECIFICATION Spec
SYMMETRY CharSymmetry
CONSTANTS
  Chars = {i, j}
  None = none
  MaxGsn = 3
  MaxCn = 2
  Window = 3
  MaxAttempts = 2
  MaxLine = 2
INVARIANT NoEventMissed
