---------------------------- MODULE MCBleSession ----------------------------
(* Model checking of BleSession on small instances.  The links are           *)
(* interchangeable: it is a link of which nothing is left that is CHOOSEn,   *)
(* and all such links are alike.                                             *)
EXTENDS BleSession, TLC

Symmetry == Permutations(Links)
=============================================================================
