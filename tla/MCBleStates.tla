---------------------------- MODULE MCBleStates ----------------------------
(* Model checking of BleStates on small instances.                           *)
EXTENDS BleStates, TLC

(* The characteristics are interchangeable.                                  *)
CharSymmetry == Permutations(Chars)
=============================================================================
