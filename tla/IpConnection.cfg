\* Two addresses, one of them another accessory's; two transports at a time.
SPECIFICATION Spec
CONSTANTS
  Hosts = {h1, h2}
  RightHosts = {h1}
  Transports = {t1, t2}
  Callers = {c1}
  SlowFlush = TRUE
  Advertised <- BothOrRight
  Misbehaviours <- AnyMisbehaviour
  NoTransport = NoTransport
  NoHost = NoHost
SYMMETRY Symmetry
CONSTRAINT QuietAfterCrash
INVARIANTS
  TypeOK
  NoDeadTransport
  ConnectedIsVerified
  ClosedStaysDown
  ShutdownIsFinal
  NoSessionLeak
  NoTightRetry
