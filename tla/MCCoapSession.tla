--------------------------- MODULE MCCoapSession ---------------------------
(* Model checking of CoapSession on small instances.  The callers and the    *)
(* contexts are interchangeable, but CHOOSE and liveness rule out symmetry.  *)
EXTENDS CoapSession
=============================================================================
