\* One caller beside the pairing's own tasks; a link that was abandoned may
\* still be up while the next is used.
SPECIFICATION Spec
SYMMETRY Symmetry
CONSTANTS
  Callers = {c1}
  Chars = {i}
  Links = {l1, l2}
  None = none
  MaxAttempts = 2
INVARIANTS
  TypeOK
  CountersInStep
  NeverInTheClear
  
  NoLinkLost
  ShutdownIsFinal
