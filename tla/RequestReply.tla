---------------------------- MODULE RequestReply ----------------------------
(***************************************************************************)
(* What HomeKitConnection.request promises its callers: a request that has  *)
(* been made ends, in the accessory's answer to this very request or in an  *)
(* exception, and it ends once.                                             *)
(***************************************************************************)
CONSTANT Requests

VARIABLE reply

States == {"idle", "pending", "answered", "failed"}

Init == reply = [r \in Requests |-> "idle"]

Ask(r) ==
  /\ reply[r] # "pending"
  /\ reply' = [reply EXCEPT ![r] = "pending"]

(* A request that cannot even be sent fails in the same step.                *)
Refuse(r) ==
  /\ reply[r] # "pending"
  /\ reply' = [reply EXCEPT ![r] = "failed"]

Finish(r) ==
  /\ reply[r] = "pending"
  /\ \E result \in {"answered", "failed"} : reply' = [reply EXCEPT ![r] = result]

Next == \E r \in Requests : Ask(r) \/ Refuse(r) \/ Finish(r)

Spec == /\ Init /\ [][Next]_reply
        /\ \A r \in Requests : WF_reply(Finish(r))
=============================================================================
