\* Liveness: both addresses always advertised; answers are right, late or lost.
SPECIFICATION FairSpec
CONSTANTS
  Hosts = {h1, h2}
  RightHosts = {h1}
  Transports = {t1, t2}
  Callers = {c1}
  SlowFlush = FALSE
  Advertised <- AllHostsAtOnce
  Misbehaviours = {}
  NoTransport = NoTransport
  NoHost = NoHost
PROPERTIES
  Converges
  CallersAnswered
