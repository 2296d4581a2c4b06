---------------------------- MODULE MCDiscovery ----------------------------
(* Calls and aliases are alike.  Calls of async_find do not depend on the    *)
(* tables of pairings, nor these on them: either may be in use, not both.    *)
EXTENDS Discovery, TLC
Symmetry == Permutations(Calls) \cup Permutations(Aliases)
OneAtATime ==
  \/ \A c \in Calls : find[c].out = "none"
  \/ pairing = [a \in Aliases |-> NoPairing] /\ unsaved = {} /\ botched = {}
=============================================================================
