----------------------------- MODULE BleSession -----------------------------
(***************************************************************************)
(* The sessions of a BLE pairing (controller/ble/pairing.py, client.py and  *)
(* connection.py): the connection and its loss, the keys, the operations    *)
(* with their lock and their retries, and the subscriptions that are        *)
(* restored on each new connection.                                         *)
(*                                                                          *)
(* Everything that uses the connection holds _operation_lock, but for       *)
(* close() and shutdown(), which only take _connection_lock.  So there is   *)
(* one program counter for the task that holds the lock, one for the closer *)
(* and none for the other locks, which nobody can contend.                  *)
(*                                                                          *)
(* pc of the holder:                                                        *)
(*   connlock   in line for _connection_lock behind the closer              *)
(*   connect    in establish_connection                                     *)
(*   verify     in _async_pair_verify                                       *)
(*   work       the operation's own requests                                *)
(*   rkey, rsub, rgsn   _async_restore_subscriptions: the broadcast key,    *)
(*              the broadcast events of one characteristic after another,   *)
(*              the state number                                            *)
(*   notify     client.start_notify of a characteristic                     *)
(*   closing    the disconnect of _close_while_locked                       *)
(*   missing    the disconnect of disconnect_on_missing_services            *)
(*   backoff    between two attempts                                        *)
(*   closelock  close_after_operation, in line behind the closer            *)
(***************************************************************************)
EXTENDS Integers, SequencesExt

CONSTANTS
  Callers,     \* tasks of the user
  Chars,       \* characteristics that can be subscribed to
  Links,       \* connections; one that is down and forgotten is used again
  None,
  MaxAttempts  \* of retry_bluetooth_connection_error

ASSUME LinksAssumption == None \notin Links
ASSUME CallersAssumption == Callers \cap {"subscriber", "notifier", "event"} = {}
ASSUME AttemptsAssumption == MaxAttempts \in Nat \ {0}

(* The tasks the pairing starts itself, one of each kind at a time: a bound  *)
(* for Subscriber and for Event.                                             *)
Subscriber == "subscriber"
Notifier == "notifier"
Event == "event"
Tasks == Callers \cup {Subscriber, Notifier, Event}

VARIABLES
  client, key,      \* BlePairing.client, _encryption_key: the link they are of
  up,               \* the links that are connected
  owed,             \* the links whose disconnected callback has not run
  pending,          \* _restore_pending
  broadcast,        \* _broadcast_notifications
  notifications,    \* _notifications
  subs,             \* subscriptions
  timer,            \* _start_notify_timer is running
  shutdown,         \* _shutdown
  line, kind,       \* _operation_lock: its holder, then those who wait, and
                    \*   what each task does
  attempt,          \* of each task: how often it has been tried
  pc, todo, how, target,  \* of the holder: how its operation has ended, and
                    \*   the link it verifies
  replied,          \* what it awaits is done, but it has not run yet
  closer,           \* close(): idle, lock or disconnect
  inflight,         \* an encrypted request has been begun and not completed
  sent,             \* the characteristics the accessory notifies on the client's link
  late, cut, raised \* history, see Blame

sessionVars == <<client, key, up, owed, pending, broadcast, notifications, subs>>
taskVars == <<line, kind, attempt, pc, todo, how, target, replied>>
vars == <<sessionVars, taskVars, timer, shutdown, closer, inflight, sent,
          late, cut, raised>>

(* Blame: late, a callback of an older link has run on the client's; cut, a  *)
(* task was cancelled while it closed the client's link; raised, the links   *)
(* whose disconnect has raised.                                              *)

Kinds == {"none", "get", "op", "subscriber", "notifier", "event", "closeAfter"}
Encrypted == {"work", "rkey", "rsub", "rgsn"}
Counters == Encrypted \cup {"idle", "connlock", "connect", "verify", "notify", "closing",
             "missing", "backoff", "closelock"}

TypeOK ==
  /\ client \in Links \cup {None} /\ key \in Links \cup {None}
  /\ up \subseteq Links /\ owed \subseteq Links /\ raised \subseteq Links
  /\ pending \in BOOLEAN /\ timer \in BOOLEAN /\ shutdown \in BOOLEAN
  /\ broadcast \subseteq Chars /\ notifications \subseteq Chars
  /\ subs \subseteq Chars /\ sent \subseteq Chars /\ todo \subseteq Chars
  /\ line \in Seq(Tasks) /\ kind \in [Tasks -> Kinds]
  /\ pc \in Counters /\ how \in {"ok", "raise", "retry", "missing"}
  /\ attempt \in [Tasks -> 0..MaxAttempts] /\ target \in Links \cup {None}
  /\ replied \in BOOLEAN /\ closer \in {"idle", "lock", "disconnect"}
  /\ inflight \in BOOLEAN /\ late \in BOOLEAN /\ cut \in BOOLEAN

Init ==
  /\ client = None /\ key = None
  /\ up = {} /\ owed = {} /\ raised = {}
  /\ pending = FALSE /\ timer = FALSE /\ shutdown = FALSE
  /\ broadcast = {} /\ notifications = {} /\ sent = {} /\ todo = {}
  /\ subs = {}
  /\ line = <<>> /\ kind = [t \in Tasks |-> "none"]
  /\ attempt = [t \in Tasks |-> 0]
  /\ pc = "idle" /\ how = "ok" /\ target = None /\ replied = FALSE
  /\ closer = "idle" /\ inflight = FALSE /\ late = FALSE /\ cut = FALSE

-----------------------------------------------------------------------------
(* The state as a value, and the steps as functions of it.                   *)

State ==
  [client |-> client, key |-> key, up |-> up, owed |-> owed, pending |-> pending,
   broadcast |-> broadcast, notifications |-> notifications, subs |-> subs,
   timer |-> timer, shutdown |-> shutdown, line |-> line, kind |-> kind, pc |-> pc,
   attempt |-> attempt, todo |-> todo, how |-> how, target |-> target, replied |-> replied,
   closer |-> closer, inflight |-> inflight, sent |-> sent, late |-> late, cut |-> cut,
   raised |-> raised]

Up(s) == s.client \in s.up

(* What is said of a link that is down, and of an abandoned one that is      *)
(* gone, matters no more.  (The quantifier has TLC compute the state once.)  *)
Become(new) == \E s \in {new} :
  /\ client' = s.client /\ key' = s.key /\ up' = s.up /\ owed' = s.owed
  /\ pending' = s.pending /\ broadcast' = s.broadcast
  /\ notifications' = s.notifications /\ subs' = s.subs
  /\ timer' = s.timer /\ shutdown' = s.shutdown
  /\ line' = s.line /\ kind' = s.kind /\ pc' = s.pc /\ attempt' = s.attempt
  /\ todo' = s.todo /\ how' = s.how /\ target' = s.target /\ replied' = s.replied
  /\ closer' = s.closer /\ cut' = s.cut
  /\ inflight' = (s.inflight /\ Up(s)) /\ late' = (s.late /\ Up(s))
  /\ sent' = IF Up(s) THEN s.sent ELSE {}
  /\ raised' = s.raised \cap (s.up \cup s.owed)

(* _async_reset_connection_state.                                            *)
Reset(s) ==
  [s EXCEPT !.key = None, !.notifications = {}, !.broadcast = {}, !.pending = FALSE]

-----------------------------------------------------------------------------
(* The end of an operation: the lock goes to the next in line.               *)
Release(s) ==
  [s EXCEPT !.line = Tail(@), !.pc = "idle", !.todo = {}, !.how = "ok",
            !.target = None, !.replied = FALSE]

End(s) ==
  LET t == Head(s.line)
  IN  [Release(s) EXCEPT !.kind[t] = "none", !.attempt[t] = 0]

RetryOnceMore(s) ==  \* mutant
  IF s.attempt[Head(s.line)] > MaxAttempts THEN End(s)
  ELSE [s EXCEPT !.pc = "backoff", !.todo = {}]

(* retry_bluetooth_connection_error: within the lock, but for                *)
(* get_characteristics, which lines up again.                                *)
Retry(s) ==
  LET t == Head(s.line)
  IN  IF s.attempt[t] >= MaxAttempts THEN End(s)
      ELSE IF s.kind[t] = "get" THEN [Release(s) EXCEPT !.line = Append(@, t)]
      ELSE [s EXCEPT !.pc = "backoff", !.todo = {}]

(* The decorators, from the inside: disconnect_on_missing_services, retry.   *)
Finish(s) ==
  CASE s.how = "missing" /\ s.client # None -> [s EXCEPT !.pc = "missing", !.todo = {}]
    [] s.how = "missing" /\ s.client = None -> Retry(s)
    [] s.how = "retry" -> Retry(s)
    [] OTHER -> End(s)

(* A request is made: it goes out under the keys there are, if any.          *)
Raise(s, h) == [s EXCEPT !.how = h, !.todo = {}]
Request(s, at) ==
  [s EXCEPT !.pc = at, !.inflight = @ \/ s.key # None]

(* _async_restore_subscriptions, if it is called for; then the end.          *)
Restore(s) ==
  IF s.shutdown \/ ~s.pending \/ ~Up(s) THEN Finish(s)
  ELSE IF s.subs = {} THEN Finish([s EXCEPT !.pending = FALSE])
  ELSE Request(s, "rkey")

RestoreOne(s) ==  \* mutant
  IF ~Up(s) THEN Finish(Raise(s, "raise"))
  ELSE Request([s EXCEPT !.pending = FALSE, !.todo = {}], "rgsn")

(* The next characteristic whose broadcast events are not enabled; then the  *)
(* state number.                                                             *)
RestoreNext(s) ==
  IF ~Up(s) THEN Finish(Raise(s, "raise"))
  ELSE IF s.todo # {} THEN Request(s, "rsub")
  ELSE Request([s EXCEPT !.pending = FALSE], "rgsn")

(* The finally of restore_connection_and_resume.                             *)
Resume(s) ==
  IF s.kind[Head(s.line)] \in {"get", "op", "subscriber"} THEN Restore(s) ELSE Finish(s)

(* The operation's own request.  A subscriber enables the broadcast events   *)
(* of what is new, if anything is.                                           *)
Work(s) ==
  LET new == s.subs \ s.broadcast
  IN  IF s.kind[Head(s.line)] = "subscriber"
      THEN IF new = {} THEN Resume(s)
           ELSE IF Up(s) THEN Request([s EXCEPT !.todo = new], "work")
           ELSE Resume(Raise(s, "raise"))
      ELSE IF Up(s) THEN Request(s, "work") ELSE Resume(Raise(s, "raise"))

(* _populate_accessories_and_characteristics once _ensure_connected returns. *)
(* Its failure is outside of the finally.                                    *)
Populated(s) ==
  IF s.key # None THEN Work(s)
  ELSE IF s.client = None THEN Finish(Raise(s, "retry"))
  ELSE [s EXCEPT !.pc = "verify", !.target = s.client, !.replied = FALSE]

ConnectAlways(s) ==  \* mutant
  IF s.shutdown THEN Populated(s) ELSE [s EXCEPT !.pc = "connect"]
ConnectAfterShutdown(s) ==  \* mutant
  IF Up(s) THEN Populated(s)
  ELSE [s EXCEPT !.pc = IF s.closer # "idle" THEN "connlock" ELSE "connect"]
EnsureConnected(s) ==
  IF s.shutdown \/ Up(s) THEN Populated(s)
  ELSE IF s.closer # "idle" THEN [s EXCEPT !.pc = "connlock"]
  ELSE [s EXCEPT !.pc = "connect"]

(* _async_start_notify_subscriptions: the next characteristic.               *)
NextNotify(s) ==
  IF ~Up(s) \/ s.todo = {} THEN End(s)
  ELSE [s EXCEPT !.pc = "notify", !.replied = FALSE]

(* _close_while_locked, at once if there is nothing to disconnect.           *)
CloseThen(s, at) ==
  IF Up(s) THEN [s EXCEPT !.pc = at] ELSE Resume(s)

(* What a task does with the lock.                                           *)
Begin(s) ==
  LET k == s.kind[Head(s.line)]
      t == [s EXCEPT !.attempt[Head(s.line)] = @ + 1, !.how = "ok"]
  IN  CASE k \in {"get", "op", "subscriber"} ->
             IF s.shutdown THEN End(s) ELSE EnsureConnected(t)
        [] k = "notifier" ->
             NextNotify([t EXCEPT !.todo = s.subs \ s.notifications])
        [] k = "event" -> Work(t)
        [] k = "closeAfter" ->
             IF s.closer # "idle" THEN [t EXCEPT !.pc = "closelock"]
             ELSE CloseThen(t, "closing")

-----------------------------------------------------------------------------
(* Tasks line up.                                                            *)
LineUp(s, t, k) == [s EXCEPT !.kind[t] = k, !.line = Append(@, t)]

Call(c, k) ==
  /\ kind[c] = "none"
  /\ Become(LineUp(State, c, k))

(* The lock is free for the first of the line.                               *)
TakeLock ==
  /\ line # <<>> /\ pc = "idle"
  /\ Become(Begin(State))

Backoff ==
  /\ pc = "backoff"
  /\ Become(Begin(State))

(* subscribe(): a task and the timer, if there is a connection to use.       *)
Subscribe(i) ==
  LET s == [State EXCEPT !.subs = @ \cup {i}]
  IN  /\ i \notin subs /\ kind[Subscriber] = "none"
      /\ Become(IF Up(s) THEN LineUp([s EXCEPT !.timer = TRUE], Subscriber, "subscriber")
                ELSE s)

(* The debounce timer starts the notifier.                                   *)
TimerFires ==
  /\ timer /\ kind[Notifier] = "none"
  /\ Become(LineUp([State EXCEPT !.timer = FALSE], Notifier, "notifier"))

(* The accessory notifies: its value is read under the lock.                 *)
Notified ==
  /\ Up(State) /\ sent # {} /\ kind[Event] = "none"
  /\ Become(LineUp(State, Event, "event"))

-----------------------------------------------------------------------------
(* The holder goes on.                                                       *)

(* _connection_lock is given up by the closer.                               *)
ConnLock ==
  /\ pc = "connlock" /\ closer = "idle"
  /\ Become(EnsureConnected(State))

Connected ==
  LET fresh == Links \ (up \cup owed \cup {client, key})
      l == CHOOSE x \in fresh : TRUE
  IN  /\ pc = "connect" /\ fresh # {}
      /\ Become(Populated([State EXCEPT !.client = l, !.up = @ \cup {l}, !.pending = TRUE,
                            !.inflight = FALSE, !.sent = {}, !.late = FALSE,
                            !.cut = @ /\ shutdown,
                            !.raised = @ \ {l}]))

(* establish_connection turns its errors into AccessoryDisconnectedError.    *)
ConnectFails ==
  /\ pc = "connect"
  /\ Become(Finish(Raise(State, "raise")))

(* The accessory's last answer of pair-verify, or of start_notify, arrives.  *)
Replied ==
  /\ pc \in {"verify", "notify"} /\ ~replied /\ Up(State)
  /\ Become([State EXCEPT !.replied = TRUE])

(* The keys are those of the link that was verified, wherever that is now.   *)
SetKeysLate(s) ==  \* mutant
  [s EXCEPT !.target = None]
SetKeys(s) == [s EXCEPT !.key = s.target, !.target = None]
Verified ==
  /\ pc = "verify" /\ replied
  /\ Become(Work([SetKeys(State) EXCEPT !.replied = FALSE, !.inflight = FALSE]))

VerifyFails ==
  /\ pc = "verify"
  /\ \E h \in {"raise", "retry"} :
       Become(Finish([Raise(State, h) EXCEPT !.replied = FALSE, !.target = None]))

(* start_notify returns, and later the notifier adds the characteristic.     *)
NotifyStarted ==
  /\ pc = "notify" /\ replied
  /\ LET i == CHOOSE x \in todo : TRUE
     IN  Become(NextNotify([State EXCEPT !.notifications = @ \cup {i}, !.todo = @ \ {i},
                 !.sent = IF Up(State) THEN @ \cup {i} ELSE @]))

NotifyFails ==
  /\ pc = "notify"
  /\ LET i == CHOOSE x \in todo : TRUE
     IN  Become(NextNotify([State EXCEPT !.todo = @ \ {i}]))

(* A request that is answered.  Anything else may come back from a link      *)
(* whose keys are not these, or without keys, but no answer.                 *)
Answered ==
  LET i == CHOOSE x \in todo : TRUE
      s == [State EXCEPT !.inflight = FALSE]
      enabled == [s EXCEPT !.broadcast = @ \cup {i}, !.todo = @ \ {i}]
  IN  /\ pc \in Encrypted /\ Up(State) /\ key = client
      /\ Become(CASE pc = "work" /\ todo # {} ->
                       IF enabled.todo = {} THEN Resume(enabled)
                       ELSE Request(enabled, "work")
                  [] pc = "work" /\ todo = {} -> Resume(s)
                  [] pc = "rkey" -> RestoreNext([s EXCEPT !.todo = subs \ broadcast])
                  [] pc = "rsub" -> RestoreNext(enabled)
                  [] pc = "rgsn" -> Finish([s EXCEPT !.timer = TRUE]))

(* The accessory answers with an error status: the connection stays.         *)
Refused ==
  /\ pc = "work" /\ todo = {} /\ Up(State) /\ key = client
  /\ Become(Resume(Raise([State EXCEPT !.inflight = FALSE], "raise")))

(* Answered, but the link has gone in the meantime.                          *)
AnsweredTooLate ==
  /\ pc \in Encrypted /\ ~Up(State)
  /\ LET s == Raise([State EXCEPT !.inflight = FALSE], "raise")
     IN  Become(IF pc = "work" THEN Resume(s) ELSE Finish(s))

(* An error, a timeout or a decryption that fails: the counters may be out   *)
(* of step, so the connection is closed.                                     *)
FailKeeps(s, h) ==  \* mutant
  Resume(Raise(s, h))
FailAndClose(s, h) == CloseThen(Raise(s, h), "closing")

RequestFails ==
  /\ pc \in Encrypted
  /\ \E h \in {"raise", "retry"} : Become(FailAndClose(State, h))

(* A characteristic is missing from the cached services: the request is not  *)
(* made, and the link is closed in the end without forgetting the client.    *)
Missing ==
  /\ pc \in Encrypted /\ Up(State)
  /\ LET s == Raise([State EXCEPT !.inflight = FALSE], "missing")
     IN  Become(IF kind[Head(line)] \notin {"get", "op", "subscriber"} THEN End(s)
                ELSE IF pc = "work" THEN Resume(s) ELSE Finish(s))

MissingDone ==
  /\ pc = "missing"
  /\ \/ Become(Retry(IF client = None THEN State
                     ELSE Reset([State EXCEPT !.up = @ \ {client}, !.owed = @ \ {client}])))
     \/ Become(Retry([State EXCEPT !.raised = @ \cup ({client} \ {None})]))

(* disconnect() of _close_while_locked returns, the callback having run, or  *)
(* raises; either way the client is forgotten.                               *)
Forget(s) == Reset([s EXCEPT !.client = None])
Dropped(s) == Forget([s EXCEPT !.up = @ \ {s.client}, !.owed = @ \ {s.client}])
Abandoned(s) == Forget([s EXCEPT !.raised = @ \cup ({s.client} \ {None})])

ClosingDone ==
  /\ pc = "closing"
  /\ \/ Become(Resume(Dropped(State)))
     \/ Become(Resume(Abandoned(State)))

CloseLock ==
  /\ pc = "closelock" /\ closer = "idle"
  /\ Become(CloseThen(State, "closing"))

-----------------------------------------------------------------------------
(* close() and shutdown(), which do not take the operation lock.             *)

(* _connection_lock is held by the operation.                                *)
ConnectionLocked(s) ==
  \/ s.pc = "connect"
  \/ s.pc = "closing" /\ s.kind[Head(s.line)] = "closeAfter"

CloseNow(s) ==
  IF ConnectionLocked(s) THEN [s EXCEPT !.closer = "lock"]
  ELSE [s EXCEPT !.closer = IF Up(s) THEN "disconnect" ELSE "idle"]

Close ==
  /\ closer = "idle"
  /\ Become(CloseNow(State))

Shutdown ==
  /\ closer = "idle" /\ ~shutdown
  /\ Become(CloseNow([State EXCEPT !.shutdown = TRUE]))

CloserGoesOn ==
  /\ closer = "lock" /\ ~ConnectionLocked(State)
  /\ Become(CloseNow(State))

CloserDone ==
  /\ closer = "disconnect"
  /\ \/ Become([Dropped(State) EXCEPT !.closer = "idle"])
     \/ Become([Abandoned(State) EXCEPT !.closer = "idle"])

CloserCancelled ==
  /\ closer # "idle"
  /\ Become([State EXCEPT !.closer = "idle", !.cut = TRUE])

-----------------------------------------------------------------------------
(* A task of the user is cancelled.                                          *)
CancelWaiting(c) ==
  /\ kind[c] # "none" /\ ~(pc # "idle" /\ Head(line) = c)
  /\ Become([State EXCEPT !.kind[c] = "none", !.attempt[c] = 0,
                          !.line = RemoveFirst(@, c)])

CancelHolder ==
  /\ pc # "idle" /\ Head(line) \in Callers
  /\ Become(CASE pc \in Encrypted -> FailAndClose(State, "raise")
              [] pc = "closing" -> Resume(Raise([State EXCEPT !.cut = TRUE], "raise"))
              [] OTHER -> End(State))

-----------------------------------------------------------------------------
(* The link of the client, or one that was abandoned, goes down; its         *)
(* callback runs at once or later.                                           *)
LinkDrops(l) ==
  /\ l \in up
  /\ Become([State EXCEPT !.up = @ \ {l}, !.owed = @ \cup {l}])

(* _async_disconnected does not ask whose callback it is.                    *)
Callback(l) ==
  /\ l \in owed
  /\ Become([Reset(State) EXCEPT !.owed = @ \ {l},
                                 !.late = @ \/ (l # client /\ Up(State))])

-----------------------------------------------------------------------------
Next ==
  \/ TakeLock \/ Backoff \/ ConnLock \/ Connected \/ ConnectFails \/ Replied
  \/ Verified \/ VerifyFails \/ NotifyStarted \/ NotifyFails
  \/ Answered \/ Refused \/ AnsweredTooLate \/ RequestFails \/ Missing
  \/ MissingDone \/ ClosingDone \/ CloseLock
  \/ CloserGoesOn \/ CloserDone \/ CloserCancelled \/ Close \/ Shutdown
  \/ \E c \in Callers :
       \/ \E k \in {"get", "op", "closeAfter"} : Call(c, k)
       \/ CancelWaiting(c)
  \/ CancelHolder
  \/ \E i \in Chars : Subscribe(i)
  \/ TimerFires \/ Notified
  \/ \E l \in Links : LinkDrops(l) \/ Callback(l)

Spec == Init /\ [][Next]_vars

-----------------------------------------------------------------------------
(* The counters of the keys are in step with the accessory's whenever the    *)
(* link can be used: a request that was begun and not completed, by an error *)
(* or a cancellation, takes the connection with it; unless the task that     *)
(* closes it is cancelled in its turn.                                       *)
CountersInStep ==
  Up(State) /\ key = client /\ inflight =>
    pc \in Encrypted \cup {"closing"} \/ cut

(* No operation sends its requests in the clear, unless the callback of an   *)
(* older link, whose disconnect had raised, has taken the keys away.         *)
NeverInTheClear ==
  pc \in Encrypted /\ kind[Head(line)] \in {"get", "op", "subscriber"} /\ Up(State) =>
    key # None \/ late

(* A connection at rest with no restoration pending has the broadcast events *)
(* of every subscription enabled, whoever made it, whatever failed on the    *)
(* way, and whenever the subscription was added.                             *)
Restored ==
  line = <<>> /\ Up(State) /\ key = client /\ ~pending /\ ~shutdown
      /\ ~late /\ client \notin raised =>
    subs \subseteq broadcast

(* A link that is up is the client's, or its disconnect has raised.          *)
NoLinkLost == up \subseteq {client} \cup raised

(* "This method is irreversible": once shutdown has closed the connection,   *)
(* no operation that was under way opens another.                            *)
ShutdownIsFinal == shutdown /\ closer = "idle" /\ ~cut => ~Up(State)

=============================================================================
