---------------------------- MODULE HttpPipeline ----------------------------
(***************************************************************************)
(* The requests of one connection (controller/ip/connection.py): the        *)
(* semaphore of HomeKitConnection.request, the FIFO of futures of the HTTP  *)
(* protocol, the timeout and the cancellation of a request, and the loss of *)
(* the transport and its replacement, pair-verify included.                 *)
(*                                                                          *)
(* A request's task is in one of these phases:                              *)
(*   idle      not made yet                                                 *)
(*   queued    waiting in the semaphore                                     *)
(*   woken     granted the semaphore, but the task has not run yet          *)
(*   waiting   sent, holding the semaphore, awaiting its future             *)
(*   done      ended, with "outcome"                                        *)
(*                                                                          *)
(* One transport at a time: that two may overlap is IpConnection's matter.  *)
(***************************************************************************)
EXTENDS Integers, FiniteSets, SequencesExt

CONSTANTS
  Callers,      \* the users of the pairing, one request at a time each
  Verify,       \* the connector's pair-verify requests, one at a time
  Permits,      \* concurrency_limit
  MaxEvents     \* bound: messages under way from the accessory when it adds
                \* an event

ASSUME RequestsAssumption == Verify \notin Callers /\ IsFiniteSet(Callers)
ASSUME PermitsAssumption == Permits \in Nat \ {0}
ASSUME MaxEventsAssumption == MaxEvents \in Nat

Requests == Callers \cup {Verify}
Event == "event"
Unanswered == {"none", "pending", "failed"}

ASSUME NamesAssumption == Requests \cap (Unanswered \cup {Event}) = {}

VARIABLES
  link,     \* the transport: "down" once connection_lost has been delivered
  protocol, \* HomeKitConnection.protocol: its kind
  step,     \* the pair-verify request the connector is at
  permits, queue,  \* the semaphore: its value and those who wait
  phase, outcome,  \* of every request
  future,   \* of every request: its future, while awaited; an answer is
            \* represented by the request it answers
  current,  \* the requests awaited on the present transport
  cbs,      \* result_cbs of the present protocol
  atPeer,   \* the requests the accessory has not answered
  inbound   \* the answers and events under way from it, in order

netVars == <<link, protocol, step>>
semVars == <<permits, queue, phase>>
wireVars == <<cbs, atPeer, inbound>>
vars == <<netVars, semVars, outcome, future, current, wireVars>>

Pending == {"queued", "woken", "waiting"}
Holding == {"woken", "waiting"}

TypeOK ==
  /\ link \in {"down", "open", "closing"}
  /\ protocol \in {"none", "insecure", "secure"} /\ step \in {"m1", "m3"}
  /\ permits \in 0..Permits /\ queue \in Seq(Requests)
  /\ phase \in [Requests -> {"idle", "done"} \cup Pending]
  /\ outcome \in [Requests -> Requests \cup {"none", "failed"}]
  /\ future \in [Requests -> Requests \cup Unanswered]
  /\ current \in SUBSET Requests
  /\ cbs \in Seq(Requests) /\ atPeer \in Seq(Requests)
  /\ inbound \in Seq(Requests \cup {Event})

Init ==
  /\ link = "down" /\ protocol = "none" /\ step = "m1"
  /\ permits = Permits /\ queue = <<>>
  /\ phase = [r \in Requests |-> "idle"]
  /\ outcome = [r \in Requests |-> "none"]
  /\ future = [r \in Requests |-> "none"]
  /\ current = {}
  /\ cbs = <<>> /\ atPeer = <<>> /\ inbound = <<>>

-----------------------------------------------------------------------------
(* The semaphore (asyncio.Semaphore), as a function of its state and of the  *)
(* phases of the requests.                                                   *)

Semaphore == [permits |-> permits, queue |-> queue, phase |-> phase]

SetSemaphore(s) ==
  permits' = s.permits /\ queue' = s.queue /\ phase' = s.phase

(* It is locked for newcomers while somebody it was granted to has not run.  *)
Locked(s) ==
  s.permits = 0 \/ s.queue # <<>> \/ \E r \in Requests : s.phase[r] = "woken"

Smaller(m, n) == IF m < n THEN m ELSE n

(* The first n of the queue are granted it.                                  *)
Wake(s, n) ==
  [permits |-> s.permits - n,
   queue   |-> SubSeq(s.queue, n + 1, Len(s.queue)),
   phase   |-> [r \in Requests |-> IF \E i \in 1..n : s.queue[i] = r
                                   THEN "woken" ELSE s.phase[r]]]

WakeAll(s) == Wake(s, Smaller(s.permits, Len(s.queue)))

(* r ends, giving back what it held; in Leave, to the first of the queue.    *)
GiveBack(s, r) == [s EXCEPT !.phase[r] = "done", !.permits = @ + 1]

LeaveKeeping(s, r) == [s EXCEPT !.phase[r] = "done"]  \* mutant
LeaveTwice(s, r) == [s EXCEPT !.phase[r] = "done", !.permits = @ + 2]  \* mutant
Leave(s, r) ==
  Wake(GiveBack(s, r), Smaller(1, Len(s.queue)))

-----------------------------------------------------------------------------
(* Sending.                                                                  *)

(* send_bytes by r, which holds the semaphore in s: the request goes out, or *)
(* the transport or the protocol is gone and the request fails at once.      *)
Send(s, r) ==
  IF protocol' # "none" /\ link' = "open"
  THEN /\ SetSemaphore([s EXCEPT !.phase[r] = "waiting"])
       /\ future' = [future EXCEPT ![r] = "pending"]
       /\ current' = current \cup {r}
       /\ cbs' = Append(cbs, r) /\ atPeer' = Append(atPeer, r)
       /\ UNCHANGED outcome
  ELSE /\ SetSemaphore(Leave(s, r))
       /\ outcome' = [outcome EXCEPT ![r] = "failed"]
       /\ UNCHANGED <<future, current, cbs, atPeer>>

(* request up to its first await, on a connection that has a protocol.       *)
Enter(s, r) ==
  IF Locked(s)
  THEN /\ SetSemaphore([s EXCEPT !.queue = Append(@, r), !.phase[r] = "queued"])
       /\ UNCHANGED <<outcome, future, current, cbs, atPeer>>
  ELSE Send([s EXCEPT !.permits = @ - 1], r)

(* A user's request: _ensure_connected has just found the session secure.    *)
Request(c) ==
  /\ phase[c] \notin Pending
  /\ protocol = "secure" /\ link # "down"
  /\ UNCHANGED <<netVars, inbound>>
  /\ Enter(Semaphore, c)

(* The semaphore reaches a waiting task; others may go with it.              *)
Granted(r) ==
  /\ phase[r] = "woken"
  /\ UNCHANGED <<netVars, inbound>>
  /\ Send(WakeAll(Semaphore), r)

-----------------------------------------------------------------------------
(* The end of a request.                                                     *)

(* A request that ends in an exception closes the transport it was sent on,  *)
(* which is out of step with it.                                             *)
LinkKept(r) == UNCHANGED link  \* mutant
LinkAfterFailure(r) ==
  link' = IF link = "open" /\ r \in current THEN "closing" ELSE link

(* The task of r resumes with its future.                                    *)
Answered(r) == phase[r] = "waiting" /\ future[r] \notin Unanswered

Fail(r) ==
  /\ phase[r] = "waiting" /\ future[r] = "failed"
  /\ LinkAfterFailure(r)
  /\ SetSemaphore(Leave(Semaphore, r))
  /\ outcome' = [outcome EXCEPT ![r] = "failed"]
  /\ future' = [future EXCEPT ![r] = "none"]
  /\ current' = current \ {r}
  /\ UNCHANGED <<protocol, step, wireVars>>

Succeed(c) ==
  /\ Answered(c)
  /\ SetSemaphore(Leave(Semaphore, c))
  /\ outcome' = [outcome EXCEPT ![c] = future[c]]
  /\ future' = [future EXCEPT ![c] = "none"]
  /\ current' = current \ {c}
  /\ UNCHANGED <<netVars, wireVars>>

(* _handle_timeout, thirty seconds after the request was sent.               *)
TimeoutUnqueues(r) ==  \* mutant
  /\ phase[r] = "waiting" /\ future[r] = "pending"
  /\ future' = [future EXCEPT ![r] = "failed"]
  /\ cbs' = SelectSeq(cbs, LAMBDA q : q # r)
  /\ UNCHANGED <<netVars, semVars, outcome, current, atPeer, inbound>>

Timeout(r) ==
  /\ phase[r] = "waiting" /\ future[r] = "pending"
  /\ future' = [future EXCEPT ![r] = "failed"]
  /\ UNCHANGED <<netVars, semVars, outcome, current, wireVars>>

(* The task is cancelled while it waits for an answer, whether or not its    *)
(* future is already done.                                                   *)
CancelAwait(r) ==
  /\ phase[r] = "waiting"
  /\ future' = [future EXCEPT ![r] = "failed"]
  /\ UNCHANGED <<netVars, semVars, outcome, current, wireVars>>

(* The task is cancelled in the semaphore, before or after it was granted.   *)
CancelQueued(r) ==
  /\ \/ \E i \in 1..Len(queue) :
          /\ queue[i] = r
          /\ SetSemaphore(WakeAll([Semaphore EXCEPT !.queue = RemoveAt(@, i),
                                                    !.phase[r] = "done"]))
     \/ /\ phase[r] = "woken"
        /\ SetSemaphore(WakeAll(GiveBack(Semaphore, r)))
  /\ outcome' = [outcome EXCEPT ![r] = "failed"]
  /\ UNCHANGED <<netVars, future, current, wireVars>>

-----------------------------------------------------------------------------
(* The connector: a transport, two pair-verify requests, a secure protocol.  *)

Idle(r) == phase[r] \notin Pending

(* create_connection returns and M1 is made, in one step.  The tasks that    *)
(* the loss of the last transport has woken have run by then: each takes one *)
(* turn of the event loop, the connect a round trip to the accessory.        *)
Connect ==
  /\ link = "down" /\ Idle(Verify)
  /\ \A c \in Callers : Idle(c)
  /\ link' = "open" /\ protocol' = "insecure" /\ step' = "m1"
  /\ Enter(Semaphore, Verify)
  /\ UNCHANGED inbound

(* M1 is answered: the semaphore is given back, and asked for again by M3,   *)
(* unless the connection has no protocol any more.                           *)
VerifyGoesOn ==
  /\ Answered(Verify) /\ step = "m1"
  /\ step' = "m3"
  /\ UNCHANGED <<link, protocol, inbound>>
  /\ IF protocol # "none"
     THEN Enter(Leave(Semaphore, Verify), Verify)
     ELSE /\ SetSemaphore(Leave(Semaphore, Verify))
          /\ outcome' = [outcome EXCEPT ![Verify] = "failed"]
          /\ future' = [future EXCEPT ![Verify] = "none"]
          /\ current' = current \ {Verify}
          /\ UNCHANGED <<cbs, atPeer>>

(* M3 is answered: a protocol object with an empty FIFO takes over.  Without *)
(* a transport any more, it stays until the next attempt, fit for nothing.   *)
VerifySucceeds ==
  /\ Answered(Verify) /\ step = "m3"
  /\ SetSemaphore(Leave(Semaphore, Verify))
  /\ outcome' = [outcome EXCEPT ![Verify] = future[Verify]]
  /\ future' = [future EXCEPT ![Verify] = "none"]
  /\ current' = current \ {Verify}
  /\ protocol' = "secure" /\ cbs' = <<>>
  /\ UNCHANGED <<link, step, atPeer, inbound>>

-----------------------------------------------------------------------------
(* The transport.                                                            *)

(* _cancel_pending_requests, on the futures fs.                              *)
CancelPending(fs) ==
  [r \in Requests |-> IF fs[r] = "pending" /\ \E i \in 1..Len(cbs) : cbs[i] = r
                      THEN "failed" ELSE fs[r]]

(* The accessory answers requests in the order in which they reach it.       *)
PeerAnswers ==
  /\ link = "open" /\ atPeer # <<>>
  /\ inbound' = Append(inbound, Head(atPeer)) /\ atPeer' = Tail(atPeer)
  /\ UNCHANGED <<netVars, semVars, outcome, future, current, cbs>>

(* It may send events at any time once the session is secure.                *)
PeerNotifies ==
  /\ link = "open" /\ protocol = "secure" /\ Len(inbound) < MaxEvents
  /\ inbound' = Append(inbound, Event)
  /\ UNCHANGED <<netVars, semVars, outcome, future, current, cbs,
                 atPeer>>

(* data_received has a complete message: an answer is for the first of the   *)
(* FIFO, done or not.  An answer nobody asked for is an IndexError, which    *)
(* closes the transport.                                                     *)
DataReceived ==
  /\ link = "open" /\ inbound # <<>>
  /\ inbound' = Tail(inbound)
  /\ \/ /\ Head(inbound) = Event
        /\ UNCHANGED <<link, future, cbs>>
     \/ /\ Head(inbound) # Event /\ cbs # <<>>
        /\ cbs' = Tail(cbs)
        /\ future' = IF future[Head(cbs)] = "pending"
                     THEN [future EXCEPT ![Head(cbs)] = Head(inbound)]
                     ELSE future
        /\ UNCHANGED link
     \/ /\ Head(inbound) # Event /\ cbs = <<>>
        /\ link' = "closing"
        /\ UNCHANGED <<future, cbs>>
  /\ UNCHANGED <<protocol, step, semVars, outcome, current, atPeer>>

(* The transport is closed by the peer (an end of file cancels the pending   *)
(* requests at once) or by an error: a reset, or data that cannot be parsed  *)
(* or decrypted.                                                             *)
TransportCloses ==
  /\ link = "open"
  /\ link' = "closing"
  /\ \/ UNCHANGED <<future, cbs>>
     \/ future' = CancelPending(future) /\ cbs' = <<>>
  /\ UNCHANGED <<protocol, step, semVars, outcome, current, atPeer,
                 inbound>>

(* close() drops the transport and the protocol; the connector has ended.    *)
Close ==
  /\ Idle(Verify) /\ protocol # "none"
  /\ protocol' = "none"
  /\ link' = IF link = "open" THEN "closing" ELSE link
  /\ UNCHANGED <<step, semVars, outcome, future, current, wireVars>>

(* connection_lost: the connection forgets the transport, and what is still  *)
(* pending fails.                                                            *)
ConnectionLost ==
  /\ link = "closing"
  /\ link' = "down" /\ protocol' = "none"
  /\ future' = CancelPending(future)
  /\ cbs' = <<>> /\ atPeer' = <<>> /\ inbound' = <<>>
  /\ UNCHANGED <<step, semVars, outcome, current>>

-----------------------------------------------------------------------------
Task ==
  \/ \E r \in Requests : Granted(r) \/ Fail(r)
  \/ \E c \in Callers : Succeed(c)
  \/ VerifyGoesOn \/ VerifySucceeds

User ==
  \/ \E c \in Callers : Request(c)
  \/ \E r \in Requests : CancelAwait(r) \/ CancelQueued(r)
  \/ Close

Network ==
  \/ Connect \/ PeerAnswers \/ PeerNotifies \/ DataReceived
  \/ TransportCloses \/ ConnectionLost
  \/ \E r \in Requests : Timeout(r)

Next == Task \/ User \/ Network

Spec == Init /\ [][Next]_vars

(* Tasks that are ready run, and timers fire.  Nothing is assumed of the     *)
(* accessory or of the network.                                              *)
Fairness ==
  /\ \A r \in Requests : WF_vars(Granted(r)) /\ WF_vars(Fail(r)) /\ WF_vars(Timeout(r))
  /\ \A c \in Callers : WF_vars(Succeed(c))
  /\ WF_vars(VerifyGoesOn) /\ WF_vars(VerifySucceeds)

FairSpec == Spec /\ Fairness

-----------------------------------------------------------------------------
(* The semaphore is given back exactly once on every path out of a request:  *)
(* an answer, a timeout, a cancellation before or after it was granted, a    *)
(* transport that has gone.  Otherwise, with the default limit of one, the   *)
(* pairing would be stuck for good.                                          *)
SemaphoreConserved ==
  permits + Cardinality({r \in Requests : phase[r] \in Holding}) = Permits

(* On an open transport no answer is owed, or under way, to a request that   *)
(* has given up: its transport has been closed, so that the answers that     *)
(* follow cannot be taken for those of other requests.                       *)
NothingOwed ==
  link = "open" =>
    /\ \A i \in 1..Len(atPeer) : phase[atPeer[i]] = "waiting"
    /\ \A i \in 1..Len(inbound) :
         inbound[i] # Event => phase[inbound[i]] = "waiting"

(* Each caller's request ends once, and with its own answer if with any.     *)
Reply == [c \in Callers |->
            IF phase[c] \in Pending THEN "pending"
            ELSE IF phase[c] = "idle" THEN "idle"
            ELSE IF outcome[c] = "failed" THEN "failed"
            ELSE IF outcome[c] = c THEN "answered" ELSE "wrong"]

Abstract == INSTANCE RequestReply WITH Requests <- Callers, reply <- Reply

Implements == Abstract!Spec
=============================================================================
