----------------------------- MODULE BleStates -----------------------------
(***************************************************************************)
(* What a BLE pairing knows of its accessory (controller/ble/pairing.py,    *)
(* controller/abstract.py, characteristic_cache.py): the numbers it hears   *)
(* in advertisements, the database it fetches and caches, and the ways in   *)
(* which a changed value reaches it: a poll after an advertisement, an      *)
(* event of the connection, an encrypted broadcast.                         *)
(*                                                                          *)
(* The accessory increases its state number with every change while there   *)
(* is no connection, and once for all changes of a session, when the        *)
(* session is over.  Its configuration only changes between sessions.       *)
(*                                                                          *)
(* pc of the task that holds _operation_lock:                               *)
(*   connect, fetch (the GATT database), verify,                            *)
(*   params, values    _populate_char_values                                *)
(*   pparams, pvalues  the poll's own requests                              *)
(*   evalue, eparams, ekey   those of an event                              *)
(*   rkey, rgsn        _async_restore_subscriptions                         *)
(***************************************************************************)
EXTENDS Integers, SequencesExt

CONSTANTS
  Chars,       \* characteristics, all subscribed to
  None,
  MaxGsn,      \* the last state number; the next is 1
  MaxCn,       \* bound: configurations of the accessory
  Window,      \* how far ahead a broadcast's number is looked for (100)
  MaxAttempts, \* of retry_bluetooth_connection_error
  MaxLine      \* bound: tasks in line

ASSUME CharsAssumption == Chars \cap {"poll", "config", "populate", "write"} = {}
ASSUME GsnAssumption == MaxGsn \in Nat /\ MaxGsn > 1
ASSUME BoundsAssumption == {MaxCn, Window, MaxAttempts, MaxLine} \subseteq Nat \ {0}

(* An event is named for its characteristic.                                 *)
Tasks == Chars \cup {"poll", "config", "populate", "write"}

VARIABLES
  gsn, cn, stale, onair, \* the accessory: its numbers, what has changed since the
                         \*   pairing has read it, what it broadcasts
  bumped,        \* something has changed in the session
  link, keyed,   \* connected; _encryption_key
  enabled, fetched, had, pending,  \* of the session: _notifications,
                         \*   _fetched_gsn_this_session, _had_notify_this_session,
                         \*   _restore_pending
  device,        \* BlePairing.device
  desc,          \* description: [cn, gsn], or None
  state, cache,  \* AccessoriesState and its copy: [cn, db, gsn], or None, with
                 \*   db the configuration its database is really of
  tried,         \* _tried_to_connect_once
  line, pc, attempt, \* _operation_lock: its holder, then those who wait
  update, changed,   \* update_values and config_changed of the holder's populate
  param,         \* the protocol parameters it has read
  announced,     \* the database the configuration listeners know
  late, ahead, excused, swallowed, cut  \* history, see the properties

vars == <<gsn, cn, stale, onair, bumped, link, keyed, enabled, fetched, had, pending,
          device, desc, state, cache, tried, line, pc, attempt, update, changed, param,
          announced, late, ahead, excused, swallowed, cut>>

Numbers == 1..MaxGsn
NextGsn(g) == IF g = MaxGsn THEN 1 ELSE g + 1
Descriptions == [cn : 1..MaxCn, gsn : Numbers]
States == [cn : 0..MaxCn, db : 1..MaxCn, gsn : Numbers \cup {None}]
ASSUME NoneAssumption == None \notin Descriptions \cup States
Requests == {"fetch", "verify", "params", "values", "pparams", "pvalues", "evalue",
             "eparams", "ekey", "rkey", "rgsn"}

TypeOK ==
  /\ gsn \in Numbers /\ cn \in 1..MaxCn /\ stale \subseteq Chars
  /\ onair \in Chars \cup {None} /\ enabled \subseteq Chars /\ late \subseteq Chars
  /\ {bumped, link, keyed, fetched, had, pending, device, tried, update, changed,
      ahead, excused, swallowed, cut} \subseteq BOOLEAN
  /\ desc \in Descriptions \cup {None}
  /\ state \in States \cup {None} /\ cache \in States \cup {None}
  /\ line \in Seq(Tasks) /\ pc \in Requests \cup {"idle", "connect"}
  /\ attempt \in 0..MaxAttempts /\ param \in Numbers \cup {None}
  /\ announced \in 0..MaxCn

(* Just paired, from a discovery.                                            *)
Init ==
  /\ gsn = 1 /\ cn = 1 /\ stale = {} /\ onair = None /\ bumped = FALSE
  /\ link = FALSE /\ keyed = FALSE /\ enabled = {}
  /\ fetched = FALSE /\ had = FALSE /\ pending = FALSE
  /\ device = TRUE /\ desc = [cn |-> 1, gsn |-> 1]
  /\ state = None /\ cache = None /\ tried = FALSE
  /\ line = <<>> /\ pc = "idle" /\ attempt = 0
  /\ update = FALSE /\ changed = FALSE /\ param = None /\ announced = 0
  /\ late = {} /\ ahead = FALSE /\ excused = FALSE /\ swallowed = FALSE /\ cut = FALSE

State ==
  [gsn |-> gsn, cn |-> cn, stale |-> stale, onair |-> onair, bumped |-> bumped,
   link |-> link, keyed |-> keyed, enabled |-> enabled, fetched |-> fetched, had |-> had,
   pending |-> pending, device |-> device, desc |-> desc, state |-> state,
   cache |-> cache, tried |-> tried, line |-> line, pc |-> pc, attempt |-> attempt,
   update |-> update, changed |-> changed, param |-> param, announced |-> announced,
   late |-> late, ahead |-> ahead, excused |-> excused, swallowed |-> swallowed,
   cut |-> cut]

(* An excuse lasts until everything has been read, or announced; one is      *)
(* enough.                                                                   *)
Become(new) == \E s \in {new} :
  /\ gsn' = s.gsn /\ cn' = s.cn /\ stale' = s.stale /\ onair' = s.onair
  /\ bumped' = s.bumped /\ link' = s.link /\ keyed' = s.keyed
  /\ enabled' = s.enabled /\ fetched' = s.fetched /\ had' = s.had
  /\ pending' = s.pending /\ device' = s.device /\ desc' = s.desc
  /\ state' = s.state /\ cache' = s.cache /\ tried' = s.tried
  /\ line' = s.line /\ pc' = s.pc /\ attempt' = s.attempt
  /\ update' = s.update /\ changed' = s.changed /\ param' = s.param
  /\ announced' = s.announced /\ late' = s.late /\ ahead' = s.ahead
  /\ excused' = (s.excused /\ s.stale # {})
  /\ swallowed' = (s.swallowed /\ s.stale # {} /\ ~s.excused)
  /\ cut' = (s.cut /\ s.state # None /\ s.state.db # s.announced)

-----------------------------------------------------------------------------
(* The numbers, and the cache they are kept in.                              *)

ConfigNum(s) == IF s.state = None THEN -1 ELSE s.state.cn

(* _update_accessories_state_cache                                           *)
Save(s) == [s EXCEPT !.cache = s.state]

(* _update_cached_state_num; saved by the number alone.                      *)
CacheGsn(s, g) ==
  IF s.state.gsn = g THEN s ELSE Save([s EXCEPT !.state.gsn = g])

(* _update_state_num with what the accessory has said, or what is counted.   *)
UpdateGsn(s, g) ==
  CacheGsn([s EXCEPT !.desc.gsn = g, !.ahead = FALSE], g)
Resync(s) ==
  UpdateGsn([s EXCEPT !.fetched = TRUE, !.swallowed = @ \/ s.stale # {}], s.gsn)

(* A task lines up, unless another that would do the same has yet to begin.  *)
(* (One event of a kind may wait: max_callback_enforcer.)                    *)
LineUp(s, t) ==
  LET waiting == IF s.pc = "idle" THEN s.line ELSE Tail(s.line)
  IN  IF t \in ToSet(waiting) THEN s ELSE [s EXCEPT !.line = Append(@, t)]

(* _async_process_disconnected_events: nothing before the first connection,  *)
(* or while another poll is under way.                                       *)
ProcessDisconnectedEvents(s) ==
  IF ~s.tried \/ "poll" \in ToSet(s.line) THEN [s EXCEPT !.excused = TRUE]
  ELSE LineUp(s, "poll")

(* AbstractPairing._async_description_update.                                *)
DescribeGreater(s, d) ==  \* mutant
  LET t == CASE d.cn > ConfigNum(s) -> LineUp(s, "config")
             [] d.cn <= ConfigNum(s) /\ (s.desc = None \/ d.gsn > s.desc.gsn) ->
                  ProcessDisconnectedEvents(s)
             [] OTHER -> s
  IN  [t EXCEPT !.desc = d, !.ahead = FALSE]
Describe(s, d) ==
  LET t == CASE d.cn > ConfigNum(s) -> LineUp(s, "config")
             [] d.cn <= ConfigNum(s) /\ (s.desc = None \/ d.gsn # s.desc.gsn) ->
                  ProcessDisconnectedEvents(s)
             [] OTHER -> s
  IN  [t EXCEPT !.desc = d, !.ahead = FALSE]

(* An advertisement is heard.  Without an AccessoriesState the update of its *)
(* state number raises, and the rest of the callback is not run.             *)
Advertisement ==
  LET d == [cn |-> cn, gsn |-> gsn]
      s == Describe(State, d)
  IN  /\ Len(line) < MaxLine
      /\ Become(IF s.state = None THEN s
                ELSE [CacheGsn(s, d.gsn) EXCEPT !.device = TRUE])

(* An encrypted broadcast is heard: _async_notification tries the numbers    *)
(* from the last one on, without rolling over.                               *)
Broadcast ==
  LET start == desc.gsn
      heard == [State EXCEPT !.onair = None]
      read == [heard EXCEPT !.desc.gsn = gsn, !.stale = @ \ {onair}, !.ahead = FALSE]
  IN  /\ Len(line) < MaxLine /\ onair # None /\ desc # None /\ state # None
      /\ \/ Become(CASE gsn = start -> heard
                     [] gsn \in (start + 1)..(start + Window - 1) ->
                          [read EXCEPT !.excused = @ \/ read.stale # {}]
                     [] OTHER -> ProcessDisconnectedEvents(heard))
         \/ Become(ProcessDisconnectedEvents(heard))

-----------------------------------------------------------------------------
(* The end of an operation.                                                  *)
End(s) ==
  [s EXCEPT !.line = Tail(@), !.pc = "idle", !.attempt = 0, !.update = FALSE,
            !.changed = FALSE, !.param = None, !.late = @ \ {Head(s.line)}]

(* The connection is gone, and with it all that is of the session; events    *)
(* that are still in line will take the next for it.                         *)
Drop(s) ==
  IF ~s.link THEN s
  ELSE [s EXCEPT !.link = FALSE, !.keyed = FALSE, !.enabled = {}, !.fetched = FALSE,
                 !.had = FALSE, !.pending = FALSE, !.bumped = FALSE,
                 !.gsn = IF s.bumped THEN NextGsn(@) ELSE @,
                 !.late = Chars \cap ToSet(s.line)]

(* An operation that fails is not made up for, but by a later advertisement. *)
GiveUp(s) == End([s EXCEPT !.excused = TRUE, !.cut = @ \/ s.changed])

(* The operation is done: a poll's number is taken over once everything else *)
(* is done.                                                                  *)
Succeed(s) ==
  End(IF s.line # <<>> /\ Head(s.line) = "poll" /\ s.param # None
      THEN UpdateGsn(s, s.param) ELSE s)

(* _async_restore_subscriptions, after the operation's own work.             *)
Resume(s) == IF s.pending /\ s.link THEN [s EXCEPT !.pc = "rkey"] ELSE Succeed(s)

Work(s) ==
  IF Head(s.line) = "poll" THEN [s EXCEPT !.pc = "pparams"] ELSE Resume(s)

(* The rest of _populate_accessories_and_characteristics.                    *)
SaveOnly(s) == Save([s EXCEPT !.cut = FALSE])  \* mutant
Announce(s) == Save([s EXCEPT !.announced = s.state.db, !.cut = FALSE])
Populated(s) ==
  LET t == IF s.update THEN Save(s) ELSE s
  IN  Work([IF s.changed THEN Announce(t) ELSE t
            EXCEPT !.update = FALSE, !.changed = FALSE, !.param = None])
Verified(s) ==
  IF s.update THEN [s EXCEPT !.pc = "params"] ELSE Populated(s)
Keyed(s) == IF s.keyed THEN Verified(s) ELSE [s EXCEPT !.pc = "verify"]
Populate(s) ==
  LET different == s.desc # None /\ ConfigNum(s) # s.desc.cn
      t == [s EXCEPT !.changed = different, !.update = FALSE]
  IN  IF s.state = None \/ different
      THEN [t EXCEPT !.pc = "fetch"]
      ELSE Keyed([t EXCEPT !.update = Head(s.line) = "populate"])

Begin(s) ==
  LET t == [s EXCEPT !.attempt = @ + 1]
  IN  CASE Head(s.line) \in Chars ->
             IF s.link THEN [t EXCEPT !.pc = "evalue"] ELSE GiveUp(s)
        [] Head(s.line) \notin Chars /\ s.link -> Populate([t EXCEPT !.tried = TRUE])
        [] OTHER -> [t EXCEPT !.pc = "connect"]

-----------------------------------------------------------------------------
(* The user's calls: a populate that is forced, or any other operation, made *)
(* (bound) while no other is under way.  The rest lines up by itself.        *)
Call(op) ==
  /\ line = <<>>
  /\ Become(LineUp(State, op))

TakeLock ==
  /\ line # <<>> /\ pc = "idle"
  /\ Become(Begin(State))

Connected ==
  /\ pc = "connect" /\ device
  /\ Become(Populate([State EXCEPT !.link = TRUE, !.pending = TRUE, !.tried = TRUE,
                             !.onair = None]))

ConnectFails ==
  /\ pc = "connect"
  /\ Become(GiveUp([State EXCEPT !.tried = TRUE]))

(* A request fails: the connection is closed, and the operation is tried     *)
(* again or ends; the values of a database that has been fetched are not     *)
(* read in the second try.  An event has none.                               *)
RequestFails ==
  /\ pc \in Requests
  /\ \/ Become(GiveUp(Drop(State)))
     \/ /\ Head(line) \notin Chars /\ attempt < MaxAttempts
        /\ Become(Begin([Drop(State) EXCEPT !.update = FALSE, !.changed = FALSE,
                           !.param = None, !.excused = @ \/ update, !.cut = @ \/ changed]))

(* _async_fetch_gatt_database, and the AccessoriesState made of it: without  *)
(* a state number, and not yet saved.                                        *)
NewStateOfCache(s) ==  \* mutant
  [s EXCEPT !.state = [cn |-> s.desc.cn, gsn |-> None,
                       db |-> IF s.state = None THEN s.cn ELSE s.state.db]]
NewState(s) ==
  [s EXCEPT !.state = [cn |-> IF s.desc = None THEN 0 ELSE s.desc.cn,
                       db |-> s.cn, gsn |-> None]]
FetchDone ==
  /\ pc = "fetch" /\ link
  /\ Become(Keyed([NewState(State) EXCEPT !.update = TRUE]))

VerifyDone ==
  /\ pc = "verify" /\ link
  /\ Become(Verified([State EXCEPT !.keyed = TRUE]))

(* _get_all_protocol_params, which may have no answer.                       *)
ParamsDone ==
  /\ pc \in {"params", "pparams"} /\ link
  /\ LET s == [State EXCEPT !.pc = IF pc = "params" THEN "values" ELSE "pvalues"]
     IN  \/ Become([s EXCEPT !.param = gsn, !.fetched = TRUE])
         \/ Become(s)

(* The values have been read: what _populate_char_values takes over is not   *)
(* in the AccessoriesState.                                                  *)
ValuesDone ==
  /\ pc = "values" /\ link
  /\ Become(Populated([State EXCEPT !.stale = {},
                        !.desc = IF param = None \/ desc = None THEN desc
                                 ELSE [desc EXCEPT !.gsn = param]]))

PollDone ==
  /\ pc = "pvalues" /\ link
  /\ Become(Resume([State EXCEPT !.stale = {}]))

RestoreKeyDone ==
  /\ pc = "rkey" /\ link
  /\ Become([State EXCEPT !.pc = "rgsn", !.pending = FALSE])

RestoreDone ==
  /\ pc = "rgsn" /\ link
  /\ \/ Become(Succeed(Resync(State)))
     \/ Become(Succeed(State))

-----------------------------------------------------------------------------
(* The events of a connection.                                               *)

StartNotify(i) ==
  /\ link /\ keyed /\ i \notin enabled /\ pc = "idle"
  /\ Become([State EXCEPT !.enabled = @ \cup {i}])

(* The number is counted up once per session, a little before MaxGsn.        *)
CountOn(s) ==  \* mutant
  IF s.had THEN End(s)
  ELSE End(UpdateGsn([s EXCEPT !.had = TRUE], s.desc.gsn + 1))
CountUp(s) ==
  LET new == s.desc.gsn + 1
      t == [s EXCEPT !.had = TRUE,
                     !.excused = @ \/ s.stale # {}]
  IN  IF s.had THEN End([s EXCEPT !.excused = @ \/ s.stale # {}])
      ELSE IF new >= MaxGsn THEN [t EXCEPT !.pc = "ekey"]
      ELSE End([UpdateGsn(t, new) EXCEPT !.ahead = Head(s.line) \in s.late])

EventRead ==
  /\ pc = "evalue" /\ link
  /\ LET s == [State EXCEPT !.stale = @ \ {Head(line)}]
     IN  Become(IF fetched THEN CountUp(s) ELSE [s EXCEPT !.pc = "eparams"])

EventParams ==
  /\ pc = "eparams" /\ link
  /\ \/ Become(CountUp(Resync(State)))
     \/ Become(CountUp(State))

EventKey ==
  /\ pc = "ekey" /\ link
  /\ Become(End([UpdateGsn(State, 1) EXCEPT !.ahead = TRUE]))

-----------------------------------------------------------------------------
(* The accessory, the link and the process.                                  *)

(* Bounds: a value that has changed does not change again before it is read, *)
(* and the number does not come round to the one the pairing has without  *)
(* an advertisement heard; with 65535 of them it hardly does.                *)
NotRound == desc # None /\ ~ahead /\ ~had => NextGsn(gsn) # desc.gsn

(* A value changes in a session: an event is sent, if it is enabled, and may *)
(* be lost.                                                                  *)
ChangeConnected(i) ==
  /\ link /\ i \notin stale /\ NotRound
  /\ LET s == [State EXCEPT !.stale = @ \cup {i}, !.bumped = TRUE]
     IN  \/ i \in enabled /\ Len(line) < MaxLine /\ Become(LineUp(s, i))
         \/ Become([s EXCEPT !.excused = TRUE])

(* A value changes without a connection.                                     *)
Change(i) ==
  /\ ~link /\ i \notin stale /\ NotRound
  /\ Become([State EXCEPT !.stale = @ \cup {i}, !.gsn = NextGsn(@), !.onair = i,
                          !.excused = @ \/ ahead])

Reconfigure ==
  /\ ~link /\ cn < MaxCn
  /\ Become([State EXCEPT !.cn = @ + 1])

LinkDrops ==
  /\ link
  /\ Become(Drop(State))

(* The process starts again from its cache.                                  *)
Restart ==
  LET s == Drop(State)
  IN  Become([s EXCEPT !.device = FALSE, !.state = cache, !.tried = FALSE,
                !.desc = IF cache = None \/ cache.gsn = None THEN None
                         ELSE [cn |-> cache.cn, gsn |-> cache.gsn],
                !.line = <<>>, !.pc = "idle", !.attempt = 0, !.update = FALSE,
                !.changed = FALSE, !.param = None, !.late = {}, !.ahead = FALSE,
                !.cut = FALSE,
                !.announced = IF cache = None THEN 0 ELSE cache.db,
                !.excused = TRUE])

Next ==
  \/ Advertisement \/ Broadcast
  \/ \E op \in {"populate", "write"} : Call(op)
  \/ TakeLock \/ Connected \/ ConnectFails \/ RequestFails
  \/ FetchDone \/ VerifyDone \/ ParamsDone \/ ValuesDone \/ PollDone
  \/ RestoreKeyDone \/ RestoreDone
  \/ EventRead \/ EventParams \/ EventKey
  \/ \E i \in Chars : StartNotify(i) \/ ChangeConnected(i) \/ Change(i)
  \/ Reconfigure \/ LinkDrops \/ Restart

Spec == Init /\ [][Next]_vars

-----------------------------------------------------------------------------
AtRest == line = <<>> /\ ~link /\ desc # None
EventMissed == AtRest /\ desc.gsn = gsn /\ stale # {}

(* "Its safer to poll the device again to get the latest state as we don't   *)
(* want to miss events" (controller/abstract.py): when the pairing has heard *)
(* of the accessory's last number and has nothing left to do, it has the     *)
(* latest values, unless one of these has happened since it had them all:    *)
(* an operation has failed, once or for good, a poll was not made (before    *)
(* the first connection, or during another), an event was lost, one event or *)
(* broadcast has overtaken another, the process has started again, or the    *)
(* pairing was ahead of the accessory, by an event that outlived its session *)
(* or by the early roll-over of CountUp.                                     *)
NoEventMissed == EventMissed => excused

(* As it is, there is one more way to miss one: the state number is read     *)
(* "to make sure we are in sync" when the subscriptions are restored, or     *)
(* with an event, and so many changes with it that nobody has read.          *)
EventMissedOnly == EventMissed => excused \/ swallowed

(* A database is never taken for a later one than it is, in memory or in the *)
(* cache: as long as it is outdated the next advertisement has it fetched.   *)
LabelNotAhead ==
  \A s \in {state, cache} \ {None} : s.cn <= s.db

(* "Notify subscribers of a new accessories state": the listeners know the   *)
(* database in use, unless the operation that fetched it failed afterwards.  *)
ConfigAnnounced ==
  line = <<>> /\ state # None => announced = state.db \/ cut
=============================================================================
