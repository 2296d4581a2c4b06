----------------------------- MODULE Discovery -----------------------------
(***************************************************************************)
(* How an accessory is found and how its pairings are kept (zeroconf.py,    *)
(* controller/controller.py, controller/ip and controller/ble discovery and *)
(* controller): one accessory with a zeroconf record, its BLE               *)
(* advertisement, calls of Controller.async_find, and the tables of         *)
(* pairings under their aliases.                                            *)
(*                                                                          *)
(* The tables of Controller and of the transport are written together, so   *)
(* one of each is kept: byId (pairings, keyed by the lower-case device id)  *)
(* and aliases.  What finish_pairing stores in the transport's pairings     *)
(* under the alias is never looked up, and is not kept.                     *)
(***************************************************************************)
EXTENDS Integers, Sequences, FiniteSets, SequencesExt

CONSTANTS
  Calls,      \* calls of Controller.async_find
  Aliases,
  None,
  MaxVersion, \* bound: contents of the zeroconf record
  MaxResolving \* bound: resolutions at once

ASSUME NoneAssumption == None \notin Aliases
ASSUME BoundsAssumption == MaxVersion \in Nat \ {0} /\ MaxResolving \in Nat \ {0}

VARIABLES
  record,    \* the record in the zeroconf cache: its version, 0 for none
  timer,     \* _resolve_later has a timer for it
  resolving, \* tasks of _async_handle_service
  ctl,       \* "new", "running", "stopped"
  disc,      \* discoveries: the version of the description, 0 for none
  failed,    \* history: the last thing loaded was not a valid service
  ble,       \* the BLE transport has a discovery
  find,      \* Controller.async_find, with its two transport tasks
  waiters,   \* _waiters
  upper,     \* the accessory writes its id in upper case
  ours,      \* the accessory's list: the alias of the pairing it has, if any
  pairing,   \* the pairing object of every alias
  byId, aliases,
  file,      \* aliases in the file of save_data
  unsaved, botched, shadowed \* history, see the properties

netVars == <<record, timer, resolving, ctl, disc, failed>>
findVars == <<find, waiters>>
tableVars == <<byId, aliases, file, ours, unsaved, botched, shadowed>>
vars == <<netVars, ble, findVars, upper, pairing, tableVars>>

Versions == 0..MaxVersion
Tasks == {"z", "b"}
NoPairing == [phase |-> "none", loaded |-> FALSE, desc |-> 0]
Idle == [task |-> [t \in Tasks |-> "none"], seen |-> {}, out |-> "none"]

ProcessInit ==
  /\ timer = FALSE /\ resolving = 0 /\ ctl = "new" /\ disc = 0 /\ failed = FALSE
  /\ ble = FALSE /\ find = [c \in Calls |-> Idle] /\ waiters = <<>>

Init ==
  /\ ProcessInit
  /\ record = 0 /\ upper \in BOOLEAN /\ ours = {}
  /\ pairing = [a \in Aliases |-> NoPairing] /\ byId = None /\ aliases = {} /\ file = {}
  /\ unsaved = {} /\ botched = {} /\ shadowed = {}

-----------------------------------------------------------------------------
(* _async_handle_loaded_service_info: the description replaces the           *)
(* discovery, goes to the pairing, and answers the calls that wait.          *)

(* AbstractPairing._async_description_update returns if it is shut down.     *)
Described(v) ==
  [a \in Aliases |-> IF a = byId /\ pairing[a].phase # "shut"
                     THEN [pairing[a] EXCEPT !.desc = v] ELSE pairing[a]]

(* Mutant: a waiter that is done raises InvalidStateError.                   *)
AnsweredToTheFirstDone ==
  LET reached(c) == \A i \in DOMAIN waiters :
        (\E j \in i..Len(waiters) : waiters[j] = c) => find[waiters[i]].task["z"] = "pending"
  IN [c \in Calls |-> IF c \in ToSet(waiters) /\ reached(c)
                      THEN [find[c] EXCEPT !.task["z"] = "found"] ELSE find[c]]

(* Those that timed out or were cancelled are still in the list.             *)
Answered ==
  [c \in Calls |-> IF c \in ToSet(waiters) /\ find[c].task["z"] = "pending"
                   THEN [find[c] EXCEPT !.task["z"] = "found"] ELSE find[c]]

(* Mutant: a discovery that is there is kept.                                *)
HandleTheFirst(v) ==
  IF v = 0
  THEN failed' = TRUE /\ UNCHANGED <<disc, pairing, find, waiters>>
  ELSE /\ disc' = IF disc = 0 THEN v ELSE disc
       /\ failed' = FALSE
       /\ pairing' = Described(v) /\ find' = Answered /\ waiters' = <<>>

HandleInfo(v) ==
  IF v = 0
  THEN failed' = TRUE /\ UNCHANGED <<disc, pairing, find, waiters>>
  ELSE /\ disc' = v /\ failed' = FALSE
       /\ pairing' = Described(v) /\ find' = Answered /\ waiters' = <<>>

-----------------------------------------------------------------------------
(* ZeroconfController                                                        *)

(* Either all of the record is in the cache, or it is asked for.             *)
Load ==
  \/ record > 0 /\ HandleInfo(record) /\ UNCHANGED resolving
  \/ /\ resolving < MaxResolving /\ resolving' = resolving + 1
     /\ UNCHANGED <<disc, failed, pairing, find, waiters>>

Start ==
  /\ ctl = "new" /\ ctl' = "running"
  /\ IF record = 0 THEN UNCHANGED <<resolving, disc, failed, pairing, find, waiters>>
     ELSE Load
  /\ UNCHANGED <<record, timer, ble, upper, tableVars>>

Stop ==
  /\ ctl = "running" /\ ctl' = "stopped" /\ timer' = FALSE
  /\ UNCHANGED <<record, resolving, disc, failed, ble, findVars, upper, pairing, tableVars>>

(* The browser's callbacks; a pending timer makes it ignore an update.       *)
ServiceChanged(v) ==
  /\ v # record /\ record' = v
  /\ timer' = (v # 0 /\ (timer \/ ctl = "running"))
  /\ UNCHANGED <<resolving, ctl, disc, failed, ble, findVars, upper, pairing, tableVars>>

(* _async_resolve_later                                                      *)
ResolveLater ==
  /\ timer /\ timer' = FALSE
  /\ Load
  /\ UNCHANGED <<record, ctl, ble, upper, tableVars>>

(* async_request came back, with the record as it is now or without all of   *)
(* it; nobody asks whether the controller still runs.                        *)
ResolutionEnds ==
  /\ resolving > 0 /\ resolving' = resolving - 1
  /\ \E v \in {0, record} : HandleInfo(v)
  /\ UNCHANGED <<record, timer, ctl, ble, upper, tableVars>>

(* BleController._device_detected: async_find has not registered its future. *)
Advertised ==
  /\ ~ble /\ ble' = TRUE
  /\ UNCHANGED <<netVars, findVars, upper, pairing, tableVars>>

-----------------------------------------------------------------------------
(* async_find                                                                *)

(* ZeroconfController.async_find                                             *)
ZeroconfFind == IF disc # 0 THEN "found" ELSE "pending"

(* BleController.async_find looks for the id as it was given.                *)
BleFind(lower) == IF ble /\ lower THEN "found" ELSE "pending"

StartFind(c) ==
  /\ ctl = "running" /\ find[c].out = "none"
  /\ \E lower \in BOOLEAN :
       find' = [find EXCEPT ![c] = [seen |-> {}, out |-> "waiting",
         task |-> [z |-> ZeroconfFind, b |-> BleFind(lower)]]]
  /\ waiters' = IF disc = 0 THEN Append(waiters, c) ELSE waiters
  /\ UNCHANGED <<netVars, ble, upper, pairing, tableVars>>

Timeout(c, t) ==
  /\ find[c].task[t] = "pending"
  /\ find' = [find EXCEPT ![c].task[t] = "timeout"]
  /\ UNCHANGED <<netVars, ble, waiters, upper, pairing, tableVars>>

(* The tasks that are left over when a call ends.                            *)
Losers(f) ==
  [t \in Tasks |-> IF t \notin f.seen /\ f.task[t] = "pending"
                   THEN "cancelled" ELSE f.task[t]]

(* asyncio.wait returned the tasks that are done.                            *)
FindGoesOn(c) ==
  LET f == find[c]
      done == {t \in Tasks \ f.seen : f.task[t] # "pending"}
      out == IF \E t \in done : f.task[t] = "found" THEN "found"
             ELSE IF f.seen \cup done = Tasks THEN "notfound" ELSE "waiting"
      seen == [f EXCEPT !.seen = @ \cup done, !.out = out]
  IN /\ f.out = "waiting" /\ done # {}
     /\ find' = [find EXCEPT ![c] = IF out = "found"
                                    THEN [seen EXCEPT !.task = Losers(seen)] ELSE seen]
     /\ UNCHANGED <<netVars, ble, waiters, upper, pairing, tableVars>>

(* The caller is cancelled.  The finally clause awaits what is left, and the *)
(* failure of a task that has just timed out replaces the cancellation.      *)
CancelFind(c) ==
  LET f == find[c]
  IN /\ f.out = "waiting"
     /\ find' = [find EXCEPT ![c] =
          [f EXCEPT !.task = Losers(f),
                    !.out = IF \E t \in Tasks \ f.seen : f.task[t] = "timeout"
                            THEN "notfound" ELSE "cancelled"]]
     /\ UNCHANGED <<netVars, ble, waiters, upper, pairing, tableVars>>

-----------------------------------------------------------------------------
(* The tables.                                                               *)

Paired(loaded, v) == [phase |-> "live", loaded |-> loaded, desc |-> v]

(* finish_pairing: the object is in no table in which it is looked up.  One  *)
(* of the same alias that is still there under the id is shut down, and as   *)
(* good as none.                                                             *)
FinishPairing(a) ==
  /\ disc # 0 /\ ours = {} /\ a \notin aliases
  /\ pairing[a].phase # "removing"
  /\ pairing' = [pairing EXCEPT ![a] = Paired(FALSE, 0)]
  /\ byId' = IF byId = a THEN None ELSE byId
  /\ ours' = {a} /\ unsaved' = unsaved \cup {a} /\ botched' = botched \ {a}
  /\ UNCHANGED <<netVars, ble, findVars, upper, aliases, file, shadowed>>

(* Mutant: the discovery's description is not handed over.                   *)
LoadUndescribed(a) ==
  /\ ctl = "running" /\ pairing[a].phase = "live" /\ ~pairing[a].loaded
  /\ pairing' = [pairing EXCEPT ![a] = Paired(TRUE, 0)]
  /\ byId' = a /\ aliases' = aliases \cup {a}
  /\ shadowed' = (shadowed \cup {byId}) \ {None, a}
  /\ UNCHANGED <<netVars, ble, findVars, upper, file, ours, unsaved, botched>>

(* The application gives a new pairing's data to load_pairing.               *)
LoadPairing(a) ==
  /\ ctl = "running" /\ pairing[a].phase = "live" /\ ~pairing[a].loaded
  /\ pairing' = [pairing EXCEPT ![a] = Paired(TRUE, disc)]
  /\ byId' = a /\ aliases' = aliases \cup {a}
  /\ shadowed' = (shadowed \cup {byId}) \ {None, a}
  /\ UNCHANGED <<netVars, ble, findVars, upper, file, ours, unsaved, botched>>

(* Mutant: the table keeps it until the accessory has answered.              *)
RemoveLate(a) ==
  /\ a \in aliases /\ aliases' = aliases \ {a}
  /\ pairing' = [pairing EXCEPT ![a].phase = "removing"]
  /\ botched' = botched \cup {a}
  /\ UNCHANGED <<netVars, ble, findVars, upper, byId, file, ours, unsaved, shadowed>>

(* remove_pairing, up to the request: the table is asked for the id as the   *)
(* accessory wrote it.                                                       *)
RemovePairing(a) ==
  /\ a \in aliases /\ aliases' = aliases \ {a}
  /\ byId' = IF upper THEN byId ELSE None
  /\ shadowed' = IF upper THEN shadowed ELSE (shadowed \cup {byId}) \ {None, a}
  /\ pairing' = [pairing EXCEPT ![a].phase = "removing"]
  /\ botched' = botched \cup {a}
  /\ UNCHANGED <<netVars, ble, findVars, upper, file, ours, unsaved>>

(* The accessory removes it or does not, and the call ends, with success or  *)
(* an exception, in shutdown; it ends so too if it is cancelled.             *)
RemovalEnds(a) ==
  /\ pairing[a].phase = "removing"
  /\ pairing' = [pairing EXCEPT ![a].phase = "shut"]
  /\ ours' \in {ours, ours \ {a}}
  /\ UNCHANGED <<netVars, ble, findVars, upper, byId, aliases, file, unsaved, botched,
                 shadowed>>

(* Mutant: one pairing of every accessory is written.                        *)
SaveById ==
  /\ file' = {byId} \ {None} /\ unsaved' = unsaved \ aliases
  /\ UNCHANGED <<netVars, ble, findVars, upper, pairing, byId, aliases, ours, botched,
                 shadowed>>

SaveData ==
  /\ file' = aliases /\ unsaved' = unsaved \ aliases
  /\ UNCHANGED <<netVars, ble, findVars, upper, pairing, byId, aliases, ours, botched,
                 shadowed>>

(* The accessory is reset and forgets its pairing.                           *)
FactoryReset ==
  /\ ours # {} /\ ours' = {}
  /\ UNCHANGED <<netVars, ble, findVars, upper, pairing, byId, aliases, file, unsaved,
                 botched, shadowed>>

(* The process starts again; load_data loads the pairings of the file, the   *)
(* last one of an id stays in the table.                                     *)
Restart ==
  /\ timer' = FALSE /\ resolving' = 0 /\ ctl' = "new" /\ disc' = 0 /\ failed' = FALSE
  /\ ble' = FALSE /\ find' = [c \in Calls |-> Idle] /\ waiters' = <<>>
  /\ pairing' = [a \in Aliases |-> IF a \in file THEN Paired(TRUE, 0)
                                 ELSE NoPairing]
  /\ aliases' = file
  /\ byId' \in IF file = {} THEN {None} ELSE file
  /\ shadowed' = file \ {byId'}
  /\ UNCHANGED <<record, upper, file, ours, unsaved, botched>>

Next ==
  \/ Start \/ Stop \/ ResolveLater \/ ResolutionEnds \/ Advertised
  \/ SaveData \/ FactoryReset \/ Restart
  \/ \E v \in Versions : ServiceChanged(v)
  \/ \E c \in Calls : StartFind(c) \/ FindGoesOn(c) \/ CancelFind(c)
  \/ \E c \in Calls, t \in Tasks : Timeout(c, t)
  \/ \E a \in Aliases : FinishPairing(a) \/ LoadPairing(a) \/ RemovePairing(a)
                          \/ RemovalEnds(a)

Spec == Init /\ [][Next]_vars

-----------------------------------------------------------------------------
(* No call waits for the zeroconf transport when the accessory is known,     *)
(* whatever timed out, was cancelled or was resolved in which order (the     *)
(* look-up and the waiter of async_find, _async_handle_loaded_service_info). *)
NobodyWaitsForTheKnown ==
  \A c \in Calls : find[c].task["z"] = "pending" => disc = 0 /\ c \in ToSet(waiters)

(* Ignoring updates while a timer is pending loses none: when nothing is     *)
(* under way, the discovery is what the record says, unless the last         *)
(* resolution failed (_handle_service, _async_resolve_later).                *)
DescriptionCurrent ==
  ctl = "running" /\ ~timer /\ resolving = 0 /\ record # 0 /\ ~failed => disc = record

(* A loaded pairing has the latest description, unless another alias of the  *)
(* same accessory was loaded after it, or removed (load_pairing,             *)
(* remove_pairing, _async_handle_loaded_service_info).                       *)
FollowsUnlessShadowed ==
  \A a \in Aliases \ shadowed :
    pairing[a].phase = "live" /\ pairing[a].loaded => pairing[a].desc = disc

(* The pairing that the accessory has is in the file, unless it has never    *)
(* been saved while it was loaded (finish_pairing does not load it), or its  *)
(* removal failed (save_data, load_data, remove_pairing).                    *)
OrphansOnly == ours \subseteq file \cup unsaved \cup botched

Undisturbed ==
  \A a \in Aliases : {pairing[a].phase, pairing'[a].phase} \subseteq {"removing", "shut"}
                       => pairing'[a].desc = pairing[a].desc

(* A pairing whose id is written in lower case hears nothing of its          *)
(* accessory from the moment it is being removed (remove_pairing).           *)
RemovedIsUnhooked == [][~upper => Undisturbed]_vars

(* controller.py:223: "Remove the pairing from the controller first so that  *)
(* it stops getting updates that might trigger a disconnected event poll."   *)
RemovedGetsNoUpdates == [][Undisturbed]_vars
=============================================================================
