---------------------------- MODULE CoapSession ----------------------------
(***************************************************************************)
(* The CoAP transport: CoAPPairing._ensure_connected and its operations     *)
(* (controller/coap/pairing.py), CoAPHomeKitConnection and the             *)
(* EncryptionContext whose counters number the messages                     *)
(* (controller/coap/connection.py).                                         *)
(*                                                                          *)
(* A caller's task is in one of these phases:                               *)
(*   idle     not called, or ended                                          *)
(*   wait     on the condition, until the caller that connects is done      *)
(*   woken    notified, not run yet                                         *)
(*   verify   in do_pair_verify                                             *)
(*   lock     in line for the lock of an encryption context                 *)
(*   await    its request is out, it holds the lock                         *)
(*   ending   awaits the shutdown of the CoAP context, holding the lock     *)
(*                                                                          *)
(* The condition's own lock and CoAPHomeKitConnection.connection_lock are   *)
(* never held across an await that another task could contend, and have no  *)
(* state here.  A step is what a task does from one await to the next: it   *)
(* is a function of the State, composed of the functions it calls.          *)
(***************************************************************************)
EXTENDS Integers, SequencesExt

CONSTANTS
  Callers,    \* the tasks that use the pairing
  Contexts,   \* CoAP contexts; one that nobody refers to is used again
  None,       \* no context
  Calls,      \* the operations they call
  Window,     \* how far _decrypt_response looks for the counter: five
  MaxSend     \* bound: a call is made on a session that has sent less

Operations == {"read", "write", "list", "subscribe", "unsubscribe", "close"}

ASSUME ContextsAssumption == None \notin Contexts
ASSUME CallsAssumption == Calls \subseteq Operations
ASSUME WindowAssumption == Window \in Nat
ASSUME MaxSendAssumption == MaxSend \in Nat

VARIABLES
  enc,      \* CoAPHomeKitConnection.enc_ctx
  session,  \* of each context: see Blank
  task,     \* of each caller: see Ended
  info,     \* the accessory database has been read once
  subs,     \* something is in AbstractPairing.subscriptions
  future,   \* connection_future is not None
  shutdown, \* AbstractPairing._shutdown
  mover,    \* the context that reconnect_soon is shutting down
  orphans   \* history: contexts cut loose by a cancellation or by mover

vars == <<enc, session, task, info, subs, future, shutdown, mover, orphans>>

Posts == {"gatt", "values", "resubscribe", "operation"}
Phases == {"idle", "wait", "woken", "verify", "lock", "await", "ending"}
Posting == {"lock", "await", "ending"}

(* An encryption context and the accessory's side of its session.            *)
Blank ==
  [net  |-> "free",   \* the CoAP context: "open", or "shut" for good
   held |-> FALSE,    \* coap_ctx is not None
   send |-> 0, recv |-> 0,
   line |-> <<>>,     \* the lock: its holder, then those who wait for it
   got  |-> 0,        \* the accessory: requests accepted, and answered,
   subscribed |-> FALSE,
   lag  |-> 0,        \* history: answers given to cancelled requests since
                      \*   the last one that was read
   hurt |-> FALSE]    \* history: a task has failed here, the session open

SessionType ==
  [net : {"free", "open", "shut"}, held : BOOLEAN, send : Nat, recv : Nat,
   line : Seq(Callers), got : Nat,
   subscribed : BOOLEAN, lag : Nat, hurt : BOOLEAN]

Ended == [phase |-> "idle", ctx |-> None, op |-> "read", post |-> "operation",
          connecting |-> FALSE]

TaskType ==
  [phase : Phases, ctx : Contexts \cup {None}, op : Operations, post : Posts,
   connecting : BOOLEAN]

TypeOK ==
  /\ enc \in Contexts \cup {None} /\ mover \in Contexts \cup {None}
  /\ session \in [Contexts -> SessionType]
  /\ task \in [Callers -> TaskType]
  /\ info \in BOOLEAN /\ subs \in BOOLEAN /\ future \in BOOLEAN
  /\ shutdown \in BOOLEAN /\ orphans \in SUBSET Contexts

Init ==
  /\ enc = None /\ mover = None
  /\ session = [k \in Contexts |-> Blank]
  /\ task = [c \in Callers |-> Ended]
  /\ info = FALSE /\ subs = FALSE /\ future = FALSE
  /\ shutdown = FALSE /\ orphans = {}

-----------------------------------------------------------------------------
(* The state as a value, and the steps as functions of it.                   *)

State == [enc |-> enc, session |-> session, task |-> task, info |-> info,
          subs |-> subs, future |-> future, shutdown |-> shutdown,
          mover |-> mover, orphans |-> orphans]

(* Nobody refers to context k any more, or nobody can.                       *)
Garbage(s, k) ==
  /\ s.session[k].net # "open" /\ k \notin {s.enc, s.mover}
  /\ \A c \in Callers : s.task[c].ctx # k

(* Of a context that is shut only the references to it matter any more.      *)
Tidy(s, k) ==
  LET x == s.session[k]
  IN  IF Garbage(s, k) THEN Blank
      ELSE IF x.net = "shut"
      THEN [Blank EXCEPT !.net = "shut", !.held = x.held, !.line = x.line]
      ELSE x

(* (The quantifier has TLC compute the new state once.)                      *)
Become(new) == \E s \in {new} :
  /\ enc' = s.enc /\ task' = s.task
  /\ info' = s.info /\ subs' = s.subs /\ future' = s.future
  /\ shutdown' = s.shutdown /\ mover' = s.mover
  /\ session' = [k \in Contexts |-> Tidy(s, k)]
  /\ orphans' = s.orphans \ {k \in Contexts : Garbage(s, k)}

Connected(s) == s.enc # None /\ s.session[s.enc].held

(* The finally of _ensure_connected by the caller that connects: it clears   *)
(* the future and notifies those who wait.                                   *)
ReleaseNobody(s, c) ==  \* mutant
  [s EXCEPT !.future = s.future /\ ~s.task[c].connecting,
            !.task[c].connecting = FALSE]

ReleaseWaiters(s, c) ==
  IF ~s.task[c].connecting THEN s ELSE
  [s EXCEPT !.future = FALSE,
     !.task = [d \in Callers |->
       IF d = c THEN [@[d] EXCEPT !.connecting = FALSE]
       ELSE IF @[d].phase = "wait" THEN [@[d] EXCEPT !.phase = "woken"]
       ELSE @[d]]]

(* The call returns, or raises.                                              *)
Return(s, c) == [ReleaseWaiters(s, c) EXCEPT !.task[c] = Ended]

Raise(s, c) ==
  LET k == s.task[c].ctx
  IN  IF k # None /\ s.session[k].net = "open"
      THEN Return([s EXCEPT !.session[k].hurt = TRUE], c)
      ELSE Return(s, c)

-----------------------------------------------------------------------------
(* EncryptionContext.post_bytes.                                             *)

(* Leaving the lock.                                                         *)
Unlock(s, c) ==
  [s EXCEPT !.session[s.task[c].ctx].line = RemoveFirst(@, c)]

(* With the lock: the request takes the next number, and goes out unless the *)
(* session has been ended by whoever had the lock before.                    *)
Send(s, c) ==
  LET k == s.task[c].ctx
      t == [s EXCEPT !.session[k].send = @ + 1]
  IN  IF s.session[k].held
      THEN [t EXCEPT !.task[c].phase = "await"]
      ELSE Raise(Unlock(t, c), c)

Post(s, c, what) ==
  LET k == s.enc
      t == [s EXCEPT !.task[c] = [@ EXCEPT !.ctx = k, !.post = what, !.phase = "lock"],
                     !.session[k].line = Append(@, c)]
  IN  IF k = None THEN Raise(s, c)
      ELSE IF s.session[k].line = <<>> THEN Send(t, c) ELSE t

(* The shutdown of context k begins.  It goes on if its caller is cancelled. *)
ShutNet(s, k) == [s EXCEPT !.session[k].net = "shut"]

EndSession(s, c) ==
  [ShutNet(s, s.task[c].ctx) EXCEPT !.task[c].phase = "ending"]

(* _decrypt_response of a message with number n: the counter that is tried   *)
(* and found, looking back, then forward, then at zero.                      *)
Readable(s, k, n) ==
  \/ n = 0
  \/ s.session[k].recv - Window <= n /\ n <= s.session[k].recv + Window

UnreadableKept(s, c) ==  \* mutant
  LET k == s.task[c].ctx
      t == [s EXCEPT !.session[k] = [@ EXCEPT !.recv = 0, !.send = 0]]
  IN  Raise(Unlock(t, c), c)

(* Nothing helped: both counters are left at zero and the session is ended.  *)
Unreadable(s, c) ==
  EndSession([s EXCEPT !.session[s.task[c].ctx] = [@ EXCEPT !.recv = 0, !.send = 0]], c)

-----------------------------------------------------------------------------
(* The operations, once _ensure_connected has returned.                      *)

Operate(s, c) ==
  LET op == s.task[c].op
  IN  CASE op = "read" -> Post(s, c, "operation")
        [] op = "write" -> IF s.info THEN Post(s, c, "operation") ELSE Raise(s, c)
        [] op = "list" -> Post(s, c, "gatt")
        [] op = "subscribe" -> IF s.subs THEN Return(s, c)
                               ELSE Post([s EXCEPT !.subs = TRUE], c, "operation")
        [] op = "unsubscribe" -> Post([s EXCEPT !.subs = FALSE], c, "operation")
        [] op = "close" -> IF s.subs
                           THEN Post([s EXCEPT !.subs = FALSE], c, "operation")
                           ELSE Return(s, c)

(* connect has returned: subscribe again, then let the others go on.         *)
ConnectedNoResubscribe(s, c) == Operate(ReleaseWaiters(s, c), c)  \* mutant
AfterConnect(s, c) ==
  IF s.subs THEN Post(s, c, "resubscribe") ELSE Operate(ReleaseWaiters(s, c), c)

(* A request of c has been answered.  get_accessory_info makes several: the  *)
(* database, then the values.                                                *)
Proceed(s, c) ==
  LET what == s.task[c].post
  IN  CASE what = "gatt" -> Post([s EXCEPT !.info = TRUE], c, "values")
        [] what = "values" -> IF s.task[c].connecting THEN AfterConnect(s, c)
                              ELSE Return(s, c)
        [] what = "resubscribe" -> Operate(ReleaseWaiters(s, c), c)
        [] what = "operation" -> Return(s, c)

(* What the accessory has made of an accepted request.                       *)
Accepted(s, c) ==
  LET k == s.task[c].ctx
      t == s.task[c]
      x == s.session[k]
  IN  [s EXCEPT !.session[k] = [x EXCEPT !.got = x.got + 1, !.subscribed =
          IF t.post = "resubscribe" \/ (t.post = "operation" /\ t.op = "subscribe") THEN TRUE
          ELSE IF t.post = "operation" /\ t.op \in {"unsubscribe", "close"} THEN FALSE
          ELSE x.subscribed]]

(* The accessory can read the request of c.                                  *)
InStep(k) == session[k].send = session[k].got + 1

-----------------------------------------------------------------------------
(* The actions.                                                              *)

(* _ensure_connected.  A caller that connects takes a context.               *)
Fresh == {k \in Contexts : session[k].net = "free"}

EnsureUnguarded(s, c) ==  \* mutant
  IF shutdown \/ Connected(s) THEN Operate(s, c)
  ELSE LET k == CHOOSE x \in Fresh : TRUE
       IN [s EXCEPT !.future = TRUE, !.session[k].net = "open",
                    !.task[c] = [@ EXCEPT !.phase = "verify", !.ctx = k, !.connecting = TRUE]]
EnsureConnected(s, c) ==
  IF shutdown \/ Connected(s) THEN Operate(s, c)
  ELSE IF s.future THEN [s EXCEPT !.task[c].phase = "wait"]
  ELSE LET k == CHOOSE x \in Fresh : TRUE
       IN [s EXCEPT !.future = TRUE, !.session[k].net = "open",
                    !.task[c] = [@ EXCEPT !.phase = "verify", !.ctx = k, !.connecting = TRUE]]

Call(c, op) ==
  /\ task[c].phase = "idle"
  /\ Fresh # {}
  /\ enc # None => session[enc].send < MaxSend
  /\ op = "close" => Connected(State)
  /\ Become(EnsureConnected([State EXCEPT !.task[c].op = op], c))

(* AbstractPairing.shutdown, and close as the pairing defines it.            *)
Shutdown(c) ==
  /\ task[c].phase = "idle" /\ ~shutdown
  /\ LET s == [State EXCEPT !.shutdown = TRUE]
     IN  Become(IF Connected(s) THEN Operate([s EXCEPT !.task[c].op = "close"], c)
                ELSE s)

(* Notified, a caller copies how the other one has fared.                    *)
Woken(c) ==
  /\ task[c].phase = "woken"
  /\ Become(IF Connected(State) THEN Operate(State, c) ELSE Raise(State, c))

(* Pair-verify ends: with a new encryption context, whose first request is   *)
(* made at once, or with an exception.                                       *)
Verified(c) ==
  /\ task[c].phase = "verify"
  /\ Become(Post([State EXCEPT !.enc = task[c].ctx,
                               !.session[task[c].ctx].held = TRUE], c, "gatt"))

VerifyFailsOpen(c) ==  \* mutant
  /\ task[c].phase = "verify"
  /\ Become(Raise(State, c))
VerifyFails(c) ==
  /\ task[c].phase = "verify"
  /\ Become(Raise(ShutNet(State, task[c].ctx), c))

(* The lock reaches c.                                                       *)
Granted(c) ==
  /\ task[c].phase = "lock"
  /\ session[task[c].ctx].line # <<>> /\ Head(session[task[c].ctx].line) = c
  /\ Become(Send(State, c))

(* The accessory answers a request it could read.  A database that does not  *)
(* parse is an error; the session stays.                                     *)
Answered(c) ==
  LET k == task[c].ctx
      n == session[k].got
      s == Accepted(State, c)
      read == Unlock([s EXCEPT !.session[k] = [@ EXCEPT !.recv = n + 1, !.lag = 0]], c)
  IN  /\ task[c].phase = "await" /\ session[k].net = "open" /\ InStep(k)
      /\ IF Readable(State, k, n)
         THEN \/ Become(Proceed(read, c))
              \/ task[c].post = "gatt" /\ Become(Raise(read, c))
         ELSE Become(Unreadable(s, c))

(* Any other answer, a 404 among them, cannot be decrypted.                  *)
Refused(c) ==
  LET k == task[c].ctx
  IN  /\ task[c].phase = "await" /\ session[k].net = "open" /\ ~InStep(k)
      /\ Become(Unreadable(State, c))

(* No answer in time, or the network reports an error.                       *)
TimedOut(c) ==
  /\ task[c].phase = "await"
  /\ Become(EndSession(State, c))

(* Another task has shut the context down: the request fails, perhaps in a   *)
(* way that post_bytes does not take for a network error.                    *)
Aborted(c) ==
  /\ task[c].phase = "await" /\ session[task[c].ctx].net = "shut"
  /\ Become(Raise(Unlock(State, c), c))

ShutDone(c) ==
  /\ task[c].phase = "ending"
  /\ Become(Raise([Unlock(State, c) EXCEPT !.session[task[c].ctx].held = FALSE], c))

(* The task is cancelled.  A request that was out may have been answered,    *)
(* or may never have reached the accessory.                                  *)
Cancel(c) ==
  LET k == task[c].ctx
      phase == task[c].phase
      cut == [State EXCEPT !.orphans = @ \cup {k}]
      late == Accepted([State EXCEPT !.session[k].lag = @ + 1], c)
  IN  \/ phase \in {"wait", "woken"} /\ Become(Raise(State, c))
      \/ phase = "verify" /\ Become(Raise(cut, c))
      \/ phase \in {"lock", "await"} /\ Become(Raise(Unlock(State, c), c))
      \/ phase = "await" /\ InStep(k) /\ Become(Raise(Unlock(late, c), c))
      \/ phase = "ending" /\ Become(Raise(Unlock(cut, c), c))

-----------------------------------------------------------------------------
(* reconnect_soon, when the accessory has a new address: shut the context    *)
(* down, and then drop whatever enc_ctx is by then.                          *)
Move ==
  /\ mover = None /\ Connected(State)
  /\ Become([ShutNet(State, enc) EXCEPT !.mover = enc])

MovedTwice ==  \* mutant
  Become([State EXCEPT !.mover = None, !.enc = None, !.orphans = @ \cup {enc}])

Moved ==
  /\ mover # None
  /\ Become([State EXCEPT !.mover = None, !.enc = None,
                         !.orphans = @ \cup ({enc} \ {mover, None})])

-----------------------------------------------------------------------------
Progress(c) ==
  \/ Woken(c) \/ Verified(c) \/ VerifyFails(c) \/ Granted(c) \/ Answered(c)
  \/ Refused(c) \/ TimedOut(c) \/ Aborted(c) \/ ShutDone(c)

Next ==
  \/ \E c \in Callers :
       \/ \E op \in Calls : Call(c, op)
       \/ Shutdown(c) \/ Cancel(c)
       \/ Woken(c) \/ Verified(c) \/ VerifyFails(c) \/ Granted(c)
       \/ Answered(c) \/ Refused(c) \/ TimedOut(c) \/ Aborted(c)
       \/ ShutDone(c)
  \/ Move \/ Moved

Spec == Init /\ [][Next]_vars

(* Tasks that are ready run, and every await ends: each has a timeout.       *)
Fairness == \A c \in Callers : WF_vars(Progress(c))

FairSpec == Spec /\ Fairness

-----------------------------------------------------------------------------
(* One caller connects at a time, while connection_future is set; those who  *)
(* wait on the condition have somebody to notify them.                       *)
OneConnector ==
  /\ \A c, d \in Callers :
       task[c].connecting /\ task[d].connecting => c = d
  /\ future <=> \E c \in Callers : task[c].connecting
  /\ (\E c \in Callers : task[c].phase = "wait") => future

(* The counters of a session that can still be used.  No number is used      *)
(* twice with its key: the write counter never falls behind what the         *)
(* accessory has seen, also when it is set to zero in desperation.  And the  *)
(* read counter is behind the accessory's by no more than the answers to     *)
(* requests that were cancelled, which is what the search is there for.      *)
CountersMeet ==
  \A k \in Contexts : session[k].net = "open" =>
    LET x == session[k] IN
    /\ x.got <= x.send
    /\ x.recv <= x.got /\ x.got <= x.recv + x.lag

(* A CoAP context that is open is the connection's, or that of a pair-verify *)
(* under way, or was cut loose by a cancellation or by a change of address;  *)
(* and a connection whose context is shut is about to forget it, or will     *)
(* never do because the task that shut it down was cancelled.                *)
NoContextLost ==
  /\ \A k \in Contexts : session[k].net = "open" =>
       k = enc \/ k \in orphans \/ \E c \in Callers : task[c].ctx = k /\ task[c].phase = "verify"
  /\ Connected(State) /\ session[enc].net = "shut" =>
       enc \in orphans \cup {mover}
         \/ \E c \in Callers : task[c].ctx = enc /\ task[c].phase = "ending"

(* What the pairing believes it is subscribed to is what the accessory sends *)
(* on a connection where all is quiet, across reconnections and concurrent   *)
(* subscriptions, unless a task has failed on it.                            *)
Resubscribed ==
  Connected(State) =>
    LET x == session[enc] IN
    x.net = "open" /\ ~x.hurt
      /\ (\A c \in Callers : task[c].ctx # enc)
    => subs = x.subscribed

(* Every call ends: nobody waits for ever on the condition, in line for a    *)
(* lock, or for an answer.                                                   *)
EveryCallEnds ==
  \A c \in Callers : task[c].phase # "idle" ~> task[c].phase = "idle"
=============================================================================
