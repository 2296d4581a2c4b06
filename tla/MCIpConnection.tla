--------------------------- MODULE MCIpConnection ---------------------------
(* Model checking of IpConnection on small instances.                        *)
EXTENDS IpConnection, TLC

AnyMisbehaviour == WrongAnswers
BothOrRight == {Hosts, RightHosts}
SomeHosts == {{}, Hosts, RightHosts}
AllHostsAtOnce == {Hosts}

(* Transports and callers are interchangeable; only safety runs use this.    *)
Symmetry == Permutations(Transports) \cup Permutations(Callers)

(* Bound: once connection_made(True) has raised, which only weakens what     *)
(* NoSessionLeak says, no caller waits and the addresses stay the same.      *)
QuietAfterCrash ==
  crashed => hosts = Hosts /\ \A c \in Callers : caller[c] = "idle"
=============================================================================
