\* close() after pair-verify was refused.
SPECIFICATION Spec
CONSTANTS
  Hosts = {h1, h2}
  RightHosts = {h1}
  Transports = {t1, t2}
  Callers = {c1}
  SlowFlush = TRUE
  Advertised <- SomeHosts
  Misbehaviours <- AnyMisbehaviour
  NoTransport = NoTransport
  NoHost = NoHost
SYMMETRY Symmetry
INVARIANT CloseDropsTransport
