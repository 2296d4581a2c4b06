\* Two characteristics, so that one can overtake the other; three numbers, so
\* that they roll over; two configurations.
SPECIFICATION Spec
SYMMETRY CharSymmetry
CONSTANTS
  Chars = {i, j}
  None = none
  MaxGsn = 3
  MaxCn = 2
  Window = 3
  MaxAttempts = 2
  MaxLine = 2
INVARIANTS
  TypeOK
  
  LabelNotAhead
  
