-------------------------- MODULE MCHttpPipeline --------------------------
(* Model checking of HttpPipeline on small instances.  The callers are       *)
(* interchangeable, but the run checks liveness, so without symmetry.        *)
EXTENDS HttpPipeline
=============================================================================
