-------------------------- MODULE ControllerProofs --------------------------
(***************************************************************************)
(* What the controller knows is what there is.                              *)
(*                                                                          *)
(* Of accessories and pairings (Discovery), for any number of calls,        *)
(* aliases, contents of the record and resolutions at once, with searches   *)
(* and tables of pairings in use together: the properties of its runs that  *)
(* hold.                                                                    *)
(*                                                                          *)
(* Of values (Requests), for any characteristics, callers, lists of them    *)
(* and number of values, on each of the three media: what the listeners are *)
(* told.  The argument: every value on its way to the listeners is one that *)
(* the characteristic has had, and belongs to the call that waits for it.   *)
(* And a characteristic that is not in `behind' has the last value, or an   *)
(* event or the answer to a write is on its way that brings it (Follows),   *)
(* whether or not the accessory sends events of it.                         *)
(***************************************************************************)
EXTENDS Discovery, Requests, SequenceTheorems, TLAPS

Finds == [task : [Tasks -> {"none", "pending", "found", "timeout", "cancelled"}],
          seen : SUBSET Tasks,
          out : {"none", "waiting", "found", "notfound", "cancelled"}]

Pairings == [phase : {"none", "live", "removing", "shut"}, loaded : BOOLEAN, desc : Versions]

NetTypes == record \in Versions /\ disc \in Versions /\ resolving \in Nat
FindTypes == find \in [Calls -> Finds] /\ waiters \in Seq(Calls)
TableTypes ==
  /\ pairing \in [Aliases -> Pairings]
  /\ byId \in Aliases \cup {None} /\ aliases \subseteq Aliases /\ file \subseteq Aliases

DiscoveryTypes == NetTypes /\ FindTypes /\ TableTypes

(* What the task of _async_handle_service or its timer may do.               *)
LEMMA HandleTypes ==
  ASSUME DiscoveryTypes, NEW v \in Versions, HandleInfo(v)
  PROVE  disc' \in Versions /\ FindTypes' /\ pairing' \in [Aliases -> Pairings]
<1>1. CASE v = 0
  BY <1>1 DEF HandleInfo, DiscoveryTypes, NetTypes, FindTypes, TableTypes
<1>2. CASE v # 0
  <2>1. disc' = v /\ pairing' = Described(v) /\ find' = Answered /\ waiters' = <<>>
    BY <1>2 DEF HandleInfo
  <2>2. Described(v) \in [Aliases -> Pairings]
    <3>1. \A a \in Aliases : [pairing[a] EXCEPT !.desc = v] \in Pairings
      BY DEF DiscoveryTypes, TableTypes, Pairings
    <3> QED
      BY <3>1 DEF Described, DiscoveryTypes, TableTypes
  <2>3. Answered \in [Calls -> Finds]
    <3>1. \A c \in Calls : [find[c] EXCEPT !.task["z"] = "found"] \in Finds
      BY DEF DiscoveryTypes, FindTypes, Finds, Tasks
    <3> QED
      BY <3>1 DEF Answered, DiscoveryTypes, FindTypes
  <2> QED
    BY <2>1, <2>2, <2>3 DEF FindTypes
<1> QED
  BY <1>1, <1>2

LEMMA LoadTypes ==
  ASSUME DiscoveryTypes, Load
  PROVE  disc' \in Versions /\ resolving' \in Nat /\ FindTypes'
         /\ pairing' \in [Aliases -> Pairings]
<1>1. CASE HandleInfo(record) /\ UNCHANGED resolving
  BY <1>1, HandleTypes DEF DiscoveryTypes, NetTypes
<1>2. CASE resolving' = resolving + 1 /\ UNCHANGED <<disc, failed, pairing, find, waiters>>
  BY <1>2 DEF DiscoveryTypes, NetTypes, FindTypes, TableTypes
<1> QED
  BY <1>1, <1>2 DEF Load

LEMMA TypesKept == DiscoveryTypes /\ [Next]_vars => DiscoveryTypes'
<1> SUFFICES ASSUME DiscoveryTypes, [Next]_vars PROVE DiscoveryTypes'
  OBVIOUS
<1> USE DEF Versions
<1>0. /\ MaxVersion \in Nat /\ 0 \in Versions /\ Idle \in Finds /\ NoPairing \in Pairings
      /\ \A b \in BOOLEAN, v \in Versions : Paired(b, v) \in Pairings
  BY BoundsAssumption DEF Idle, Finds, Tasks, NoPairing, Pairings, Paired
<1>1. CASE Start
  <2>1. CASE record = 0
    BY <1>1, <2>1 DEF Start, DiscoveryTypes, NetTypes, FindTypes, TableTypes, tableVars
  <2>2. CASE Load
    BY <1>1, <2>2, LoadTypes DEF Start, DiscoveryTypes, NetTypes, TableTypes, tableVars
  <2> QED
    BY <1>1, <2>1, <2>2 DEF Start
<1>2. CASE ResolveLater
  BY <1>2, LoadTypes DEF ResolveLater, DiscoveryTypes, NetTypes, TableTypes, tableVars
<1>3. CASE ResolutionEnds
  <2>1. PICK v \in {0, record} : HandleInfo(v)
    BY <1>3 DEF ResolutionEnds
  <2>2. v \in Versions
    BY <1>0, <2>1 DEF DiscoveryTypes, NetTypes
  <2> QED
    BY <1>3, <2>1, <2>2, HandleTypes DEF ResolutionEnds, DiscoveryTypes, NetTypes, TableTypes, tableVars
<1>4. CASE Stop \/ Advertised \/ \E v \in Versions : ServiceChanged(v)
  BY <1>4 DEF Stop, Advertised, ServiceChanged, DiscoveryTypes, NetTypes, FindTypes, TableTypes,
              findVars, tableVars, netVars
<1>5. ASSUME NEW c \in Calls, StartFind(c) \/ FindGoesOn(c) \/ CancelFind(c)
      PROVE  DiscoveryTypes'
  <2>1. NetTypes' /\ TableTypes'
    BY <1>5 DEF StartFind, FindGoesOn, CancelFind, DiscoveryTypes, NetTypes, TableTypes, netVars, tableVars
  <2>2. ASSUME NEW f \in Finds, find' = [find EXCEPT ![c] = f]
        PROVE  find' \in [Calls -> Finds]
    BY <2>2 DEF DiscoveryTypes, FindTypes
  <2>3. waiters' \in Seq(Calls)
    BY <1>5 DEF StartFind, FindGoesOn, CancelFind, DiscoveryTypes, FindTypes
  <2>4. CASE StartFind(c)
    <3>1. PICK lower \in BOOLEAN :
            find' = [find EXCEPT ![c] = [seen |-> {}, out |-> "waiting",
                       task |-> [z |-> ZeroconfFind, b |-> BleFind(lower)]]]
      BY <2>4 DEF StartFind
    <3>2. [seen |-> {}, out |-> "waiting", task |-> [z |-> ZeroconfFind, b |-> BleFind(lower)]]
            \in Finds
      BY DEF Finds, Tasks, ZeroconfFind, BleFind
    <3> QED
      BY <2>1, <2>2, <2>3, <3>1, <3>2 DEF DiscoveryTypes, FindTypes
  <2>5. \A f \in Finds : Losers(f) \in [Tasks -> {"none", "pending", "found", "timeout", "cancelled"}]
    BY DEF Losers, Finds
  <2>6. CASE FindGoesOn(c)
    <3> DEFINE f == find[c]
               done == {t \in Tasks \ f.seen : f.task[t] # "pending"}
               out == IF \E t \in done : f.task[t] = "found" THEN "found"
                      ELSE IF f.seen \cup done = Tasks THEN "notfound" ELSE "waiting"
               seen == [f EXCEPT !.seen = f.seen \cup done, !.out = out]
    <3>1. f \in Finds
      BY DEF DiscoveryTypes, FindTypes
    <3>2. seen \in Finds
      BY <3>1 DEF Finds
    <3>3. [seen EXCEPT !.task = Losers(seen)] \in Finds
      BY <2>5, <3>2 DEF Finds
    <3>4. find' = [find EXCEPT ![c] = IF out = "found"
                                      THEN [seen EXCEPT !.task = Losers(seen)] ELSE seen]
      BY <2>6 DEF FindGoesOn
    <3> HIDE DEF seen, out
    <3> QED
      BY <2>1, <2>2, <2>3, <3>2, <3>3, <3>4 DEF DiscoveryTypes, FindTypes
  <2>7. CASE CancelFind(c)
    <3> DEFINE f == find[c]
               out == IF \E t \in Tasks \ f.seen : f.task[t] = "timeout"
                      THEN "notfound" ELSE "cancelled"
               g == [f EXCEPT !.task = Losers(f), !.out = out]
    <3>1. f \in Finds
      BY DEF DiscoveryTypes, FindTypes
    <3>2. g \in Finds
      BY <2>5, <3>1 DEF Finds
    <3>3. find' = [find EXCEPT ![c] = g]
      BY <2>7 DEF CancelFind
    <3> HIDE DEF g
    <3> QED
      BY <2>1, <2>2, <2>3, <3>2, <3>3 DEF DiscoveryTypes, FindTypes
  <2> QED
    BY <1>5, <2>4, <2>6, <2>7
<1>6. ASSUME NEW c \in Calls, NEW t \in Tasks, Timeout(c, t) PROVE DiscoveryTypes'
  <2>1. [find[c] EXCEPT !.task[t] = "timeout"] \in Finds
    BY DEF DiscoveryTypes, FindTypes, Finds
  <2>2. find' = [find EXCEPT ![c] = [find[c] EXCEPT !.task[t] = "timeout"]]
    BY <1>6 DEF Timeout, DiscoveryTypes, FindTypes
  <2>3. find' \in [Calls -> Finds]
    BY <2>1, <2>2 DEF DiscoveryTypes, FindTypes
  <2> QED
    BY <1>6, <2>3 DEF Timeout, DiscoveryTypes, NetTypes, FindTypes, TableTypes, netVars, tableVars
<1>7. ASSUME NEW a \in Aliases, FinishPairing(a) \/ LoadPairing(a) \/ RemovePairing(a)
                                  \/ RemovalEnds(a)
      PROVE  DiscoveryTypes'
  <2>1. NetTypes' /\ FindTypes'
    BY <1>7 DEF FinishPairing, LoadPairing, RemovePairing, RemovalEnds, DiscoveryTypes, NetTypes, FindTypes,
                netVars, findVars
  <2>2. \A p \in {"removing", "shut"} : [pairing[a] EXCEPT !.phase = p] \in Pairings
    BY DEF DiscoveryTypes, TableTypes, Pairings
  <2>3. Paired(FALSE, 0) \in Pairings /\ Paired(TRUE, disc) \in Pairings
    BY <1>0 DEF DiscoveryTypes, NetTypes
  <2>4. pairing' \in [Aliases -> Pairings]
    BY <1>7, <2>2, <2>3 DEF FinishPairing, LoadPairing, RemovePairing, RemovalEnds, DiscoveryTypes, TableTypes
  <2>5. byId' \in Aliases \cup {None} /\ aliases' \subseteq Aliases /\ file' \subseteq Aliases
    BY <1>7 DEF FinishPairing, LoadPairing, RemovePairing, RemovalEnds, DiscoveryTypes, TableTypes
  <2> QED
    BY <2>1, <2>4, <2>5 DEF DiscoveryTypes, TableTypes
<1>8. CASE SaveData \/ FactoryReset \/ UNCHANGED vars
  BY <1>8 DEF SaveData, FactoryReset, DiscoveryTypes, NetTypes, FindTypes, TableTypes, vars, netVars,
              findVars, tableVars
<1>9. CASE Restart
  <2>1. NetTypes'
    BY <1>0, <1>9 DEF Restart, DiscoveryTypes, NetTypes
  <2>2. FindTypes'
    BY <1>0, <1>9 DEF Restart, FindTypes
  <2>3. pairing' \in [Aliases -> Pairings]
    BY <1>0, <1>9 DEF Restart
  <2>4. byId' \in Aliases \cup {None} /\ aliases' \subseteq Aliases /\ file' \subseteq Aliases
    BY <1>9 DEF Restart, DiscoveryTypes, TableTypes
  <2> QED
    BY <2>1, <2>2, <2>3, <2>4 DEF DiscoveryTypes, TableTypes
<1> QED
  BY <1>1, <1>2, <1>3, <1>4, <1>5, <1>6, <1>7, <1>8, <1>9 DEF Next

LEMMA InitTypes == Init => DiscoveryTypes
<1> SUFFICES ASSUME Init PROVE DiscoveryTypes
  OBVIOUS
<1>1. 0 \in Versions /\ Idle \in Finds /\ NoPairing \in Pairings
  BY BoundsAssumption DEF Versions, Idle, Finds, Tasks, NoPairing, Pairings
<1> QED
  BY <1>1 DEF Init, ProcessInit, DiscoveryTypes, NetTypes, FindTypes, TableTypes

-----------------------------------------------------------------------------
(* Searches.                                                                 *)

(* What a description of an accessory does for the calls that wait for it.   *)
LEMMA HandleAnswers ==
  ASSUME DiscoveryTypes, NobodyWaitsForTheKnown, NEW v \in Versions, HandleInfo(v)
  PROVE  NobodyWaitsForTheKnown'
<1>1. CASE v = 0
  BY <1>1 DEF HandleInfo, NobodyWaitsForTheKnown
<1>2. CASE v # 0
  <2>1. find' = Answered
    BY <1>2 DEF HandleInfo
  <2>2. ASSUME NEW c \in Calls PROVE find'[c].task["z"] # "pending"
    <3>1. CASE find[c].task["z"] = "pending"
      <4>1. find'[c] = [find[c] EXCEPT !.task["z"] = "found"]
        BY <2>1, <3>1 DEF Answered, NobodyWaitsForTheKnown
      <4>2. find[c] \in Finds
        BY DEF DiscoveryTypes, FindTypes
      <4> QED
        BY <4>1, <4>2 DEF Finds, Tasks
    <3>2. CASE find[c].task["z"] # "pending"
      BY <2>1, <3>2 DEF Answered
    <3> QED
      BY <3>1, <3>2
  <2> QED
    BY <2>2 DEF NobodyWaitsForTheKnown
<1> QED
  BY <1>1, <1>2

(* A call's own step: it leaves the others alone.                            *)
LEMMA OwnStep ==
  ASSUME DiscoveryTypes, NobodyWaitsForTheKnown, NEW c \in Calls, NEW f,
         find' = [find EXCEPT ![c] = f], UNCHANGED disc,
         ToSet(waiters) \subseteq ToSet(waiters)',
         f.task["z"] = "pending" => disc = 0 /\ c \in ToSet(waiters)'
  PROVE  NobodyWaitsForTheKnown'
  BY DEF DiscoveryTypes, FindTypes, NobodyWaitsForTheKnown

LEMMA SearchKept == DiscoveryTypes /\ NobodyWaitsForTheKnown /\ [Next]_vars => NobodyWaitsForTheKnown'
<1> SUFFICES ASSUME DiscoveryTypes, NobodyWaitsForTheKnown, [Next]_vars PROVE NobodyWaitsForTheKnown'
  OBVIOUS
<1>1. CASE UNCHANGED <<disc, find, waiters>>
  BY <1>1 DEF NobodyWaitsForTheKnown
<1>2. ASSUME Load PROVE NobodyWaitsForTheKnown'
  BY <1>1, <1>2, HandleAnswers DEF Load, DiscoveryTypes, NetTypes
<1>3. CASE Start \/ ResolveLater
  BY <1>1, <1>2, <1>3 DEF Start, ResolveLater
<1>4. CASE ResolutionEnds
  <2>1. PICK v \in {0, record} : HandleInfo(v)
    BY <1>4 DEF ResolutionEnds
  <2>2. v \in Versions
    BY <2>1, BoundsAssumption DEF DiscoveryTypes, NetTypes, Versions
  <2> QED
    BY <2>1, <2>2, HandleAnswers
<1>5. CASE \/ Stop \/ Advertised \/ SaveData \/ FactoryReset \/ UNCHANGED vars
           \/ \E v \in Versions : ServiceChanged(v)
           \/ \E a \in Aliases : FinishPairing(a) \/ LoadPairing(a) \/ RemovePairing(a)
                                   \/ RemovalEnds(a)
  <2>1. UNCHANGED <<disc, find, waiters>>
    BY <1>5 DEF Stop, Advertised, SaveData, FactoryReset, ServiceChanged, FinishPairing,
                LoadPairing, RemovePairing, RemovalEnds, vars, netVars, findVars
  <2> QED
    BY <1>1, <2>1
<1>6. ASSUME NEW c \in Calls, StartFind(c) PROVE NobodyWaitsForTheKnown'
  <2>1. PICK lower \in BOOLEAN :
          find' = [find EXCEPT ![c] = [seen |-> {}, out |-> "waiting",
                     task |-> [z |-> ZeroconfFind, b |-> BleFind(lower)]]]
    BY <1>6 DEF StartFind
  <2>2. waiters' = IF disc = 0 THEN Append(waiters, c) ELSE waiters
    BY <1>6 DEF StartFind
  <2>3. disc' = disc
    BY <1>6 DEF StartFind, netVars
  <2>4. /\ ToSet(waiters) \subseteq ToSet(waiters)'
        /\ disc = 0 => c \in ToSet(waiters)'
    <3>1. CASE disc = 0
      <4>1. waiters' = Append(waiters, c) /\ waiters \in Seq(Calls)
        BY <2>2, <3>1 DEF DiscoveryTypes, FindTypes
      <4>2. /\ Len(waiters) \in Nat /\ Len(waiters') = Len(waiters) + 1
            /\ waiters'[Len(waiters) + 1] = c
            /\ \A i \in 1..Len(waiters) : waiters'[i] = waiters[i]
        BY <4>1
      <4>3. DOMAIN waiters' = 1..Len(waiters') /\ DOMAIN waiters = 1..Len(waiters)
        BY <4>1
      <4> QED
        BY <4>2, <4>3 DEF ToSet
    <3>2. CASE disc # 0
      BY <2>2, <3>2
    <3> QED
      BY <3>1, <3>2
  <2>5. [seen |-> {}, out |-> "waiting",
         task |-> [z |-> ZeroconfFind, b |-> BleFind(lower)]].task["z"] = "pending" => disc = 0
    BY DEF ZeroconfFind
  <2> QED
    BY <2>1, <2>3, <2>4, <2>5, OwnStep
<1>7. ASSUME NEW c \in Calls, NEW t \in Tasks, Timeout(c, t) PROVE NobodyWaitsForTheKnown'
  <2> DEFINE f == [find[c] EXCEPT !.task[t] = "timeout"]
  <2>1. find' = [find EXCEPT ![c] = f] /\ UNCHANGED <<disc, waiters>>
    BY <1>7 DEF Timeout, DiscoveryTypes, FindTypes, netVars
  <2>2. f.task["z"] = "pending" => find[c].task["z"] = "pending"
    BY DEF DiscoveryTypes, FindTypes, Finds
  <2> HIDE DEF f
  <2> QED
    BY <2>1, <2>2, OwnStep DEF NobodyWaitsForTheKnown
<1>8. \A f \in Finds : Losers(f)["z"] = "pending" => f.task["z"] = "pending"
  BY DEF Losers, Tasks
<1>9. ASSUME NEW c \in Calls, FindGoesOn(c) PROVE NobodyWaitsForTheKnown'
  <2> DEFINE f == find[c]
             done == {t \in Tasks \ f.seen : f.task[t] # "pending"}
             out == IF \E t \in done : f.task[t] = "found" THEN "found"
                    ELSE IF f.seen \cup done = Tasks THEN "notfound" ELSE "waiting"
             now == [f EXCEPT !.seen = f.seen \cup done, !.out = out]
             last == [now EXCEPT !.task = Losers(now)]
  <2>1. find' = [find EXCEPT ![c] = IF out = "found" THEN last ELSE now]
        /\ UNCHANGED <<disc, waiters>>
    BY <1>9 DEF FindGoesOn, netVars
  <2>2. f \in Finds
    BY DEF DiscoveryTypes, FindTypes
  <2>3. now \in Finds /\ now.task = f.task
    BY <2>2 DEF Finds
  <2>4. last.task = Losers(now)
    BY <2>3 DEF Finds
  <2> HIDE DEF out, now, last
  <2>5. ASSUME NEW g \in {now, last}, find' = [find EXCEPT ![c] = g]
        PROVE  NobodyWaitsForTheKnown'
    <3>1. g.task["z"] = "pending" => find[c].task["z"] = "pending"
      BY <1>8, <2>3, <2>4
    <3> QED
      BY <2>1, <2>5, <3>1, OwnStep DEF NobodyWaitsForTheKnown
  <2> QED
    BY <2>1, <2>5
<1>10. ASSUME NEW c \in Calls, CancelFind(c) PROVE NobodyWaitsForTheKnown'
  <2> DEFINE f == find[c]
             out == IF \E t \in Tasks \ f.seen : f.task[t] = "timeout"
                    THEN "notfound" ELSE "cancelled"
             g == [f EXCEPT !.task = Losers(f), !.out = out]
  <2>1. find' = [find EXCEPT ![c] = g] /\ UNCHANGED <<disc, waiters>>
    BY <1>10 DEF CancelFind, netVars
  <2>2. f \in Finds
    BY DEF DiscoveryTypes, FindTypes
  <2>3. g.task = Losers(f)
    BY <2>2 DEF Finds
  <2>4. g.task["z"] = "pending" => find[c].task["z"] = "pending"
    BY <1>8, <2>2, <2>3
  <2> HIDE DEF g
  <2> QED
    BY <2>1, <2>4, OwnStep DEF NobodyWaitsForTheKnown
<1>11. CASE Restart
  <2>1. \A c \in Calls : find'[c].task["z"] = "none"
    BY <1>11 DEF Restart, Idle, Tasks
  <2> QED
    BY <2>1 DEF NobodyWaitsForTheKnown
<1> QED
  BY <1>3, <1>4, <1>5, <1>6, <1>7, <1>9, <1>10, <1>11 DEF Next

(* A call of async_find never waits for the zeroconf transport once the      *)
(* accessory is known to it (_async_handle_loaded_service_info).             *)
THEOREM SearchesEnd == Spec => []NobodyWaitsForTheKnown
<1>1. Init => DiscoveryTypes /\ NobodyWaitsForTheKnown
  <2>1. Init => NobodyWaitsForTheKnown
    BY DEF Init, ProcessInit, Idle, Tasks, NobodyWaitsForTheKnown
  <2> QED
    BY <2>1, InitTypes
<1>2. DiscoveryTypes /\ NobodyWaitsForTheKnown /\ [Next]_vars => (DiscoveryTypes /\ NobodyWaitsForTheKnown)'
  BY TypesKept, SearchKept
<1> QED
  BY <1>1, <1>2, PTL DEF Spec

-----------------------------------------------------------------------------
(* The record.                                                               *)

LEMMA CurrentKept == DiscoveryTypes /\ DescriptionCurrent /\ [Next]_vars => DescriptionCurrent'
<1> SUFFICES ASSUME DiscoveryTypes, DescriptionCurrent, [Next]_vars PROVE DescriptionCurrent'
  OBVIOUS
<1>1. CASE UNCHANGED netVars
  BY <1>1 DEF DescriptionCurrent, netVars
<1>2. ASSUME NEW v \in {0, record}, HandleInfo(v), UNCHANGED record PROVE DescriptionCurrent'
  BY <1>2 DEF HandleInfo, DescriptionCurrent
<1>3. ASSUME Load, UNCHANGED record PROVE DescriptionCurrent'
  BY <1>2, <1>3 DEF Load, DiscoveryTypes, NetTypes, DescriptionCurrent
<1>4. CASE Start
  BY <1>3, <1>4 DEF Start, DescriptionCurrent
<1>5. CASE ResolveLater
  BY <1>3, <1>5 DEF ResolveLater
<1>6. CASE ResolutionEnds
  BY <1>2, <1>6 DEF ResolutionEnds
<1>7. CASE Stop \/ Restart \/ \E v \in Versions : ServiceChanged(v)
  BY <1>7 DEF Stop, Restart, ServiceChanged, DescriptionCurrent
<1>8. CASE \/ Advertised \/ SaveData \/ FactoryReset \/ UNCHANGED vars
           \/ \E c \in Calls : StartFind(c) \/ FindGoesOn(c) \/ CancelFind(c)
           \/ \E c \in Calls, t \in Tasks : Timeout(c, t)
           \/ \E a \in Aliases : FinishPairing(a) \/ LoadPairing(a) \/ RemovePairing(a)
                                   \/ RemovalEnds(a)
  <2>1. UNCHANGED netVars
    BY <1>8 DEF Advertised, SaveData, FactoryReset, StartFind, FindGoesOn, CancelFind, Timeout,
                FinishPairing, LoadPairing, RemovePairing, RemovalEnds, vars
  <2> QED
    BY <1>1, <2>1
<1> QED
  BY <1>4, <1>5, <1>6, <1>7, <1>8 DEF Next

(* When nothing is under way the discovery is what the record says, whatever *)
(* updates were ignored while a timer ran (_handle_service).                 *)
THEOREM NothingIgnoredIsLost == Spec => []DescriptionCurrent
<1>1. Init => DiscoveryTypes /\ DescriptionCurrent
  <2>1. Init => DescriptionCurrent
    BY DEF Init, DescriptionCurrent
  <2> QED
    BY <2>1, InitTypes
<1>2. DiscoveryTypes /\ DescriptionCurrent /\ [Next]_vars => (DiscoveryTypes /\ DescriptionCurrent)'
  BY TypesKept, CurrentKept
<1> QED
  BY <1>1, <1>2, PTL DEF Spec

-----------------------------------------------------------------------------
(* The tables.                                                               *)

(* A pairing that is loaded, and not hidden by another alias, is the one     *)
(* that hears of its accessory.                                              *)
Hooked ==
  \A a \in Aliases \ shadowed : pairing[a].phase = "live" /\ pairing[a].loaded => byId = a

(* What is in the file is still known to the controller, or its removal      *)
(* failed, or its alias was given to another that has not been saved.        *)
Kept == file \subseteq aliases \cup botched \cup unsaved

(* With ids in lower case, the one that hears is not the one that goes.      *)
Unhooked == ~upper => \A a \in Aliases : pairing[a].phase = "removing" => byId # a

TablesInv == Hooked /\ FollowsUnlessShadowed /\ Kept /\ OrphansOnly /\ Unhooked

(* What a description does to the pairings.                                  *)
LEMMA HandlePairings ==
  ASSUME DiscoveryTypes, NEW v, HandleInfo(v)
  PROVE  \/ UNCHANGED <<disc, pairing>>
         \/ disc' = v /\ pairing' = Described(v)
  BY DEF HandleInfo

LEMMA DescribedPairings ==
  ASSUME DiscoveryTypes, NEW v, NEW a \in Aliases
  PROVE  /\ Described(v)[a].phase = pairing[a].phase
         /\ Described(v)[a].loaded = pairing[a].loaded
         /\ byId # a \/ pairing[a].phase = "shut" => Described(v)[a].desc = pairing[a].desc
         /\ byId = a /\ pairing[a].phase # "shut" => Described(v)[a].desc = v
  BY DEF DiscoveryTypes, TableTypes, Pairings, Described

(* The steps of the network, and of the searches.                            *)
LEMMA OutsideKeeps ==
  ASSUME DiscoveryTypes, TablesInv, UNCHANGED <<tableVars, upper>>,
         \/ UNCHANGED <<disc, pairing>>
         \/ \E v : disc' = v /\ pairing' = Described(v)
  PROVE  TablesInv' /\ (~upper => Undisturbed)
<1>1. CASE UNCHANGED <<disc, pairing>>
  BY <1>1 DEF TablesInv, Hooked, FollowsUnlessShadowed, Kept, OrphansOnly, Unhooked, Undisturbed,
              tableVars
<1>2. ASSUME NEW v, disc' = v, pairing' = Described(v)
      PROVE  TablesInv' /\ (~upper => Undisturbed)
  <2>1. Hooked' /\ Unhooked'
    BY <1>2, DescribedPairings DEF TablesInv, Hooked, Unhooked, tableVars
  <2>2. FollowsUnlessShadowed'
    BY <1>2, DescribedPairings DEF TablesInv, Hooked, FollowsUnlessShadowed, tableVars
  <2>3. ~upper => Undisturbed
    BY <1>2, DescribedPairings DEF TablesInv, Unhooked, Undisturbed
  <2>4. Kept' /\ OrphansOnly'
    BY DEF TablesInv, Kept, OrphansOnly, tableVars
  <2> QED
    BY <2>1, <2>2, <2>3, <2>4 DEF TablesInv
<1> QED
  BY <1>1, <1>2

LEMMA TablesKept == DiscoveryTypes /\ TablesInv /\ [Next]_vars => TablesInv' /\ (~upper => Undisturbed)
<1> SUFFICES ASSUME DiscoveryTypes, TablesInv, [Next]_vars PROVE TablesInv' /\ (~upper => Undisturbed)
  OBVIOUS
<1>1. ASSUME Load, UNCHANGED <<tableVars, upper>> PROVE TablesInv' /\ (~upper => Undisturbed)
  <2>1. \/ UNCHANGED <<disc, pairing>>
        \/ \E v : disc' = v /\ pairing' = Described(v)
    BY <1>1, HandlePairings DEF Load
  <2> QED
    BY <1>1, <2>1, OutsideKeeps
<1>2. CASE Start \/ ResolveLater
  <2>1. UNCHANGED <<tableVars, upper>> /\ (Load \/ UNCHANGED <<disc, pairing>>)
    BY <1>2 DEF Start, ResolveLater
  <2> QED
    BY <1>1, <2>1, OutsideKeeps
<1>3. CASE ResolutionEnds
  <2>1. UNCHANGED <<tableVars, upper>> /\ \E v : HandleInfo(v)
    BY <1>3 DEF ResolutionEnds
  <2>2. \/ UNCHANGED <<disc, pairing>>
        \/ \E v : disc' = v /\ pairing' = Described(v)
    BY <2>1, HandlePairings
  <2> QED
    BY <2>1, <2>2, OutsideKeeps
<1>4. CASE \/ Stop \/ Advertised \/ UNCHANGED vars
           \/ \E v \in Versions : ServiceChanged(v)
           \/ \E c \in Calls : StartFind(c) \/ FindGoesOn(c) \/ CancelFind(c)
           \/ \E c \in Calls, t \in Tasks : Timeout(c, t)
  <2>1. UNCHANGED <<tableVars, upper, disc, pairing>>
    BY <1>4 DEF Stop, Advertised, ServiceChanged, StartFind, FindGoesOn, CancelFind, Timeout,
                vars, netVars
  <2> QED
    BY <2>1, OutsideKeeps
<1>5. CASE SaveData
  BY <1>5 DEF SaveData, TablesInv, Hooked, FollowsUnlessShadowed, Kept, OrphansOnly, Unhooked,
              Undisturbed, netVars
<1>6. CASE FactoryReset
  BY <1>6 DEF FactoryReset, TablesInv, Hooked, FollowsUnlessShadowed, Kept, OrphansOnly, Unhooked,
              Undisturbed, netVars
<1>7. ASSUME NEW a \in Aliases, FinishPairing(a) PROVE TablesInv' /\ (~upper => Undisturbed)
  <2>1. /\ pairing' = [pairing EXCEPT ![a] = Paired(FALSE, 0)]
        /\ byId' = IF byId = a THEN None ELSE byId
        /\ UNCHANGED <<disc, upper, shadowed>>
    BY <1>7 DEF FinishPairing, netVars
  <2>2. /\ pairing'[a].phase = "live" /\ ~pairing'[a].loaded
        /\ \A b \in Aliases \ {a} : pairing'[b] = pairing[b]
    BY <2>1 DEF DiscoveryTypes, TableTypes, Paired
  <2>3. Hooked' /\ FollowsUnlessShadowed' /\ Unhooked' /\ Undisturbed
    BY <2>1, <2>2, NoneAssumption
       DEF TablesInv, Hooked, FollowsUnlessShadowed, Unhooked, Undisturbed
  <2>4. Kept' /\ OrphansOnly'
    BY <1>7 DEF FinishPairing, TablesInv, Kept, OrphansOnly
  <2> QED
    BY <2>3, <2>4 DEF TablesInv
<1>8. ASSUME NEW a \in Aliases, LoadPairing(a) PROVE TablesInv' /\ (~upper => Undisturbed)
  <2>1. /\ pairing' = [pairing EXCEPT ![a] = Paired(TRUE, disc)] /\ pairing[a].phase = "live"
        /\ byId' = a /\ shadowed' = (shadowed \cup {byId}) \ {None, a}
        /\ UNCHANGED <<disc, upper>>
    BY <1>8 DEF LoadPairing, netVars
  <2>2. /\ pairing'[a].phase = "live" /\ pairing'[a].desc = disc
        /\ \A b \in Aliases \ {a} : pairing'[b] = pairing[b]
    BY <2>1 DEF DiscoveryTypes, TableTypes, Paired
  <2>3. \A b \in Aliases \ {a} : b \notin shadowed' => b \notin shadowed /\ b # byId
    BY <2>1, NoneAssumption
  <2>4. Hooked' /\ FollowsUnlessShadowed' /\ Unhooked' /\ Undisturbed
    BY <2>1, <2>2, <2>3 DEF TablesInv, Hooked, FollowsUnlessShadowed, Unhooked, Undisturbed
  <2>5. Kept' /\ OrphansOnly'
    BY <1>8 DEF LoadPairing, TablesInv, Kept, OrphansOnly
  <2> QED
    BY <2>4, <2>5 DEF TablesInv
<1>9. ASSUME NEW a \in Aliases, RemovePairing(a) PROVE TablesInv' /\ (~upper => Undisturbed)
  <2>1. /\ pairing' = [pairing EXCEPT ![a].phase = "removing"]
        /\ byId' = IF upper THEN byId ELSE None
        /\ shadowed' = IF upper THEN shadowed ELSE (shadowed \cup {byId}) \ {None, a}
        /\ UNCHANGED <<disc, upper>>
    BY <1>9 DEF RemovePairing, netVars
  <2>2. /\ pairing'[a].phase = "removing" /\ pairing'[a].desc = pairing[a].desc
        /\ \A b \in Aliases \ {a} : pairing'[b] = pairing[b]
    BY <2>1 DEF DiscoveryTypes, TableTypes, Pairings
  <2>3. \A b \in Aliases \ {a} : b \notin shadowed' => b \notin shadowed /\ (upper \/ b # byId)
    BY <2>1, NoneAssumption
  <2>4. Hooked' /\ FollowsUnlessShadowed' /\ Unhooked' /\ Undisturbed
    BY <2>1, <2>2, <2>3, NoneAssumption
       DEF TablesInv, Hooked, FollowsUnlessShadowed, Unhooked, Undisturbed
  <2>5. Kept' /\ OrphansOnly'
    BY <1>9 DEF RemovePairing, TablesInv, Kept, OrphansOnly
  <2> QED
    BY <2>4, <2>5 DEF TablesInv
<1>10. ASSUME NEW a \in Aliases, RemovalEnds(a) PROVE TablesInv' /\ (~upper => Undisturbed)
  <2>1. /\ pairing' = [pairing EXCEPT ![a].phase = "shut"]
        /\ UNCHANGED <<disc, upper, byId, shadowed>>
    BY <1>10 DEF RemovalEnds, netVars
  <2>2. /\ pairing'[a].phase = "shut" /\ pairing'[a].desc = pairing[a].desc
        /\ \A b \in Aliases \ {a} : pairing'[b] = pairing[b]
    BY <2>1 DEF DiscoveryTypes, TableTypes, Pairings
  <2>3. Hooked' /\ FollowsUnlessShadowed' /\ Unhooked' /\ Undisturbed
    BY <2>1, <2>2 DEF TablesInv, Hooked, FollowsUnlessShadowed, Unhooked, Undisturbed
  <2>4. Kept' /\ OrphansOnly'
    BY <1>10 DEF RemovalEnds, TablesInv, Kept, OrphansOnly
  <2> QED
    BY <2>3, <2>4 DEF TablesInv
<1>11. CASE Restart
  <2>1. \A a \in Aliases :
          /\ pairing'[a].phase \in {"none", "live"} /\ pairing'[a].desc = 0
          /\ pairing'[a].phase = "live" <=> a \in file
    BY <1>11 DEF Restart, Paired, NoPairing
  <2>2. disc' = 0 /\ shadowed' = file \ {byId'}
    BY <1>11 DEF Restart
  <2>3. Hooked' /\ FollowsUnlessShadowed' /\ Unhooked' /\ Undisturbed
    BY <2>1, <2>2 DEF Hooked, FollowsUnlessShadowed, Unhooked, Undisturbed
  <2>4. Kept' /\ OrphansOnly'
    BY <1>11 DEF Restart, TablesInv, Kept, OrphansOnly
  <2> QED
    BY <2>3, <2>4 DEF TablesInv
<1> QED
  BY <1>2, <1>3, <1>4, <1>5, <1>6, <1>7, <1>8, <1>9, <1>10, <1>11 DEF Next

LEMMA TablesInit == Init => DiscoveryTypes /\ TablesInv
<1> SUFFICES ASSUME Init PROVE DiscoveryTypes /\ TablesInv
  OBVIOUS
<1>1. \A a \in Aliases : pairing[a].phase = "none"
  BY DEF Init, NoPairing
<1>2. file = {} /\ ours = {}
  BY DEF Init
<1> QED
  BY <1>1, <1>2, InitTypes
     DEF TablesInv, Hooked, FollowsUnlessShadowed, Kept, OrphansOnly, Unhooked

(* A loaded pairing that no other alias of its accessory has displaced has   *)
(* the latest description, in whichever order discoveries, loads, removals   *)
(* and restarts came (load_pairing, _async_description_update).              *)
THEOREM PairingsFollow == Spec => []FollowsUnlessShadowed
<1>1. DiscoveryTypes /\ TablesInv /\ [Next]_vars => (DiscoveryTypes /\ TablesInv)'
  BY TypesKept, TablesKept
<1>2. TablesInv => FollowsUnlessShadowed
  BY DEF TablesInv
<1> QED
  BY <1>1, <1>2, TablesInit, PTL DEF Spec

(* The pairing that the accessory has is in the file, or was never saved     *)
(* while it was loaded, or its removal failed (save_data, load_data).        *)
THEOREM NoOtherOrphans == Spec => []OrphansOnly
<1>1. DiscoveryTypes /\ TablesInv /\ [Next]_vars => (DiscoveryTypes /\ TablesInv)'
  BY TypesKept, TablesKept
<1>2. TablesInv => OrphansOnly
  BY DEF TablesInv
<1> QED
  BY <1>1, <1>2, TablesInit, PTL DEF Spec

(* With its id in lower case, a pairing that is being removed gets no more   *)
(* descriptions (remove_pairing takes it out of the table first).            *)
THEOREM RemovedIsLeftAlone == Spec => RemovedIsUnhooked
<1>1. DiscoveryTypes /\ TablesInv /\ [Next]_vars => (DiscoveryTypes /\ TablesInv)'
  BY TypesKept, TablesKept
<1>2. DiscoveryTypes /\ TablesInv /\ [Next]_vars => [~upper => Undisturbed]_vars
  BY TablesKept
<1> QED
  BY <1>1, <1>2, TablesInit, PTL DEF Spec, RemovedIsUnhooked

-----------------------------------------------------------------------------
(* Values.                                                                   *)

Data == {"get", "put"}

(* The lists of a subscription, of which CoAP takes a part, are not typed.   *)
IsCall(r) ==
  /\ DOMAIN r = {"op", "pc", "ids", "value", "read"}
  /\ r.op \in Data \cup {"none", "subscribe", "unsubscribe"}
  /\ r.pc \in {"idle", "asked", "handled", "ready"}
  /\ r.op \in Data => r.ids \in Seq(Chars) /\ r.ids # <<>>
  /\ r.value \in Nat

Row == [status : {"ok", "error"}, value : Chars \X Nat]
Answer == [kind : {"rows", "empty", "global"}, rows : Seq(Row)]
Event == [kind : {"event"}, char : Chars, value : Nat]
Message == Event \cup [kind : {"answer"}, caller : Callers, answer : Answer]
Arrived == [caller : Callers, answer : Answer]

Types ==
  /\ log \in [Chars -> Seq(Nat)] /\ view \in [Chars -> Chars \X Nat]
  /\ DOMAIN calls = Callers /\ \A k \in Callers : IsCall(calls[k])
  /\ wire \in Seq(Message) /\ ready \in Seq(Arrived) /\ values \in Nat

(* What has been the value of c, l being the log.                            *)
Had(l, c) == {<<c, v>> : v \in ToSet(l[c])}

(* The part of a call that a request is made for, on the medium m.           *)
Piece(m, call) == IF m = "ble" THEN <<Head(call.ids)>> ELSE call.ids

(* The answer is one to the call, and says what is so.                       *)
Fits(m, call, l, a) ==
  LET part == Piece(m, call)
  IN  /\ a.kind = "rows" /\ call.op \in Data =>
           /\ DOMAIN a.rows = DOMAIN part
           /\ \A i \in DOMAIN part : a.rows[i].status = "ok" =>
                /\ call.op = "get" => a.rows[i].value \in Had(l, part[i])
                /\ call.op = "put" => <<part[i], call.value>> \in Had(l, part[i])
      /\ a.kind = "empty" /\ call.op \in Data =>
           call.op = "put" /\ \A c \in ToSet(part) : <<c, call.value>> \in Had(l, c)

(* Each caller waits for one answer at most, which is not both on the wire   *)
(* and received.                                                             *)
Owned ==
  /\ \A i \in DOMAIN wire : wire[i].kind = "answer" =>
       /\ calls[wire[i].caller].pc = "handled"
       /\ Fits(medium, calls[wire[i].caller], log, wire[i].answer)
       /\ \A j \in DOMAIN wire :
            wire[j].kind = "answer" /\ wire[j].caller = wire[i].caller => j = i
  /\ \A i \in DOMAIN ready :
       /\ calls[ready[i].caller].pc = "ready"
       /\ Fits(medium, calls[ready[i].caller], log, ready[i].answer)
       /\ \A j \in DOMAIN ready : ready[j].caller = ready[i].caller => j = i

(* No value is told, or kept to be told, that was not.                       *)
Held ==
  /\ \A c \in Chars : view[c] \in Had(log, c)
  /\ \A k \in Callers : \A v \in calls[k].read : \E c \in Chars : v \in Had(log, c)
  /\ \A i \in DOMAIN wire : wire[i].kind = "event" =>
       <<wire[i].char, wire[i].value>> \in Had(log, wire[i].char)

(* A value is written once, but on BLE, which writes the characteristics of  *)
(* a call one by one.                                                        *)
Asks(k) == calls[k].op = "put" /\ calls[k].pc = "asked"
Once ==
  /\ \A c \in Chars : log[c] # <<>> /\ \A i \in DOMAIN log[c] : log[c][i] <= values
  /\ \A k \in Callers : calls[k].value <= values
  /\ medium # "ble" =>
       /\ \A c \in Chars : \A i, j \in DOMAIN log[c] : log[c][i] = log[c][j] => i = j
       /\ \A k \in Callers : Asks(k) =>
            /\ \A c \in Chars : calls[k].value \notin ToSet(log[c])
            /\ \A j \in Callers \ {k} : Asks(j) => calls[j].value # calls[k].value

(* BLE has no subscriptions here.                                            *)
NoEvents ==
  medium = "ble" =>
    notifying = {} /\ \A k \in Callers : calls[k].op \in Data \cup {"none"}

(* What the answer says was written, and what of this the listeners are      *)
(* told; on IP and CoAP.                                                     *)
RowOf(part, a, c) == a.rows[CHOOSE i \in DOMAIN a.rows : part[i] = c]
Wrote(call, a) ==
  {c \in ToSet(call.ids) :
     a.kind = "empty" \/ (a.kind = "rows" /\ RowOf(call.ids, a, c).status = "ok")}
Tells(m, call, a) ==
  IF m = "ip" THEN IF a.kind = "empty" THEN ToSet(call.ids) \cap Readable ELSE {}
              ELSE Wrote(call, a) \cap Readable

(* The answer brings the last value of c, or has it counted as behind.       *)
Brings(m, call, l, a, c) ==
  /\ call.op = "put" /\ c \in Wrote(call, a)
  /\ c \in Tells(m, call, a) => call.value = Last(l[c])

Coming(c) ==
  \/ \E i \in DOMAIN wire :
       wire[i].kind = "event" /\ wire[i].char = c /\ wire[i].value = Last(log[c])
  \/ \E i \in DOMAIN wire :
       wire[i].kind = "answer" /\ Brings(medium, calls[wire[i].caller], log, wire[i].answer, c)
  \/ \E i \in DOMAIN ready :
       Brings(medium, calls[ready[i].caller], log, ready[i].answer, c)

Follows ==
  medium # "ble" =>
    \A c \in Readable \ behind : view[c] = <<c, Last(log[c])>> \/ Coming(c)

Inv == Types /\ Owned /\ Held /\ Once /\ NoEvents /\ Follows

-----------------------------------------------------------------------------
(* Sequences and rows.                                                       *)

LEMMA Appended ==
  ASSUME NEW S, NEW q \in Seq(S), NEW x \in S
  PROVE  /\ Append(q, x) \in Seq(S) /\ Len(Append(q, x)) = Len(q) + 1 /\ Len(q) \in Nat
         /\ DOMAIN q = 1..Len(q) /\ DOMAIN Append(q, x) = 1..Len(q) + 1
         /\ \A i \in 1..Len(q) : Append(q, x)[i] = q[i]
         /\ Append(q, x)[Len(q) + 1] = x
         /\ ToSet(Append(q, x)) = ToSet(q) \cup {x}
         /\ Last(Append(q, x)) = x
<1> DEFINE r == Append(q, x)
<1>1. /\ r \in Seq(S) /\ Len(r) = Len(q) + 1 /\ Len(q) \in Nat
      /\ DOMAIN q = 1..Len(q) /\ DOMAIN r = 1..Len(q) + 1
      /\ \A i \in 1..Len(q) : r[i] = q[i]
      /\ r[Len(q) + 1] = x
  OBVIOUS
<1> HIDE DEF r
<1>2. \A i \in DOMAIN r : i \in DOMAIN q \/ i = Len(q) + 1
  BY <1>1
<1>3. (\A i \in DOMAIN q : i \in DOMAIN r) /\ Len(q) + 1 \in DOMAIN r
  BY <1>1
<1>4. ToSet(r) = ToSet(q) \cup {x}
  BY <1>1, <1>2, <1>3 DEF ToSet
<1>5. Last(r) = x
  BY <1>1 DEF Last
<1> QED
  BY <1>1, <1>4, <1>5 DEF r

(* q without its i-th: the rest keeps its order.                             *)
After(i, j) == IF j < i THEN j ELSE j + 1
LEMMA Removed ==
  ASSUME NEW S, NEW q \in Seq(S), NEW i \in DOMAIN q
  PROVE  LET r == RemoveAt(q, i)
         IN  /\ r \in Seq(S)
             /\ \A j \in DOMAIN r : r[j] = q[After(i, j)] /\ After(i, j) \in DOMAIN q \ {i}
             /\ \A j, k \in DOMAIN r : After(i, j) = After(i, k) => j = k
             /\ \A k \in DOMAIN q \ {i} : \E j \in DOMAIN r : r[j] = q[k]
<1> DEFINE n == Len(q)
           a == SubSeq(q, 1, i - 1)
           b == SubSeq(q, i + 1, n)
           r == RemoveAt(q, i)
<1>1. n \in Nat /\ i \in 1..n /\ DOMAIN q = 1..n
  OBVIOUS
<1>2. /\ a \in Seq(S) /\ Len(a) = i - 1
      /\ \A j \in 1..i - 1 : a[j] = q[j]
  BY SubSeqProperties
<1>3. /\ b \in Seq(S) /\ Len(b) = n - i
      /\ \A j \in 1..n - i : b[j] = q[i + j]
  BY SubSeqProperties
<1>4. r = a \o b
  BY DEF RemoveAt
<1> HIDE DEF a, b, n, r
<1>5. /\ r \in Seq(S) /\ Len(r) = n - 1
      /\ \A j \in 1..n - 1 : r[j] = IF j < i THEN a[j] ELSE b[j - (i - 1)]
  <2>1. Len(a) \in Nat /\ Len(b) \in Nat
    BY <1>2, <1>3
  <2>2. /\ a \o b \in Seq(S) /\ Len(a \o b) = Len(a) + Len(b)
        /\ \A j \in 1..Len(a) + Len(b) :
             (a \o b)[j] = IF j <= Len(a) THEN a[j] ELSE b[j - Len(a)]
    BY <1>2, <1>3, ConcatProperties
  <2> QED
    BY <1>1, <1>2, <1>3, <1>4, <2>1, <2>2
<1>6. DOMAIN r = 1..n - 1
  BY <1>5
<1>7. ASSUME NEW j \in 1..n - 1
      PROVE  r[j] = q[After(i, j)] /\ After(i, j) \in DOMAIN q \ {i}
  <2>1. CASE j < i
    BY <1>1, <1>2, <1>5, <2>1 DEF After
  <2>2. CASE j >= i
    <3>1. j - (i - 1) \in 1..n - i /\ i + (j - (i - 1)) = j + 1
      BY <1>1, <2>2
    <3> QED
      BY <1>1, <1>3, <1>5, <2>2, <3>1 DEF After
  <2> QED
    BY <1>1, <2>1, <2>2
<1>8. \A j, k \in 1..n - 1 : After(i, j) = After(i, k) => j = k
  BY <1>1 DEF After
<1>9. ASSUME NEW k \in (1..n) \ {i} PROVE \E j \in 1..n - 1 : r[j] = q[k]
  <2>1. CASE k < i
    <3>1. k \in 1..n - 1 /\ After(i, k) = k
      BY <1>1, <2>1 DEF After
    <3> QED
      BY <1>7, <3>1
  <2>2. CASE k > i
    <3>1. k - 1 \in 1..n - 1 /\ After(i, k - 1) = k
      BY <1>1, <2>2 DEF After
    <3> QED
      BY <1>7, <3>1
  <2> QED
    BY <1>1, <2>1, <2>2
<1> QED
  BY <1>1, <1>5, <1>6, <1>7, <1>8, <1>9 DEF r

LEMMA PieceOf ==
  ASSUME NEW m, NEW call, IsCall(call), call.op \in Data
  PROVE  /\ Piece(m, call) \in Seq(Chars) /\ Piece(m, call) # <<>>
         /\ ToSet(Piece(m, call)) \subseteq Chars
         /\ \A i \in DOMAIN Piece(m, call) : Piece(m, call)[i] \in Chars
<1>1. call.ids \in Seq(Chars) /\ call.ids # <<>>
  BY DEF IsCall
<1>2. Piece(m, call) \in Seq(Chars) /\ Piece(m, call) # <<>>
  BY <1>1 DEF Piece
<1> QED
  BY <1>2 DEF ToSet

LEMMA RowIn ==
  ASSUME NEW part, NEW a, DOMAIN a.rows = DOMAIN part, NEW c \in ToSet(part)
  PROVE  \E i \in DOMAIN part : part[i] = c /\ RowOf(part, a, c) = a.rows[i]
<1>1. \E i \in DOMAIN a.rows : part[i] = c
  BY DEF ToSet
<1> QED
  BY <1>1 DEF RowOf

LEMMA RowsAre ==
  ASSUME NEW call, NEW a
  PROVE  /\ Part(call) = Piece(medium, call)
         /\ DOMAIN Rows(call, a) = ToSet(Part(call))
         /\ \A c \in ToSet(Part(call)) :
              Rows(call, a)[c] = IF a.kind = "rows" THEN RowOf(Part(call), a, c)
                                 ELSE [status |-> IF a.kind = "empty" THEN "ok" ELSE "error",
                                       value |-> <<c, 0>>]
<1>1. Part(call) = Piece(medium, call)
  BY DEF Part, Piece
<1> DEFINE p == Part(call)
<1> HIDE DEF p
<1>2. CASE a.kind = "rows"
  <2>1. Rows(call, a) = [c \in ToSet(p) |-> RowOf(p, a, c)]
    BY <1>2 DEF Rows, RowOf, p
  <2> QED
    BY <1>1, <1>2, <2>1 DEF p
<1>3. CASE a.kind # "rows"
  BY <1>1, <1>3 DEF Rows
<1> QED
  BY <1>2, <1>3

-----------------------------------------------------------------------------
(* A call that is the same, or further on, and a log that has grown.         *)

Same(x, y) == y.op = x.op /\ y.ids = x.ids /\ y.value = x.value

LEMMA FitsStill ==
  ASSUME NEW m, NEW x, NEW y, NEW l, NEW n, NEW a, IsCall(x), Same(x, y),
         \A c \in Chars : Had(l, c) \subseteq Had(n, c), Fits(m, x, l, a)
  PROVE  Fits(m, y, n, a)
<1>1. Piece(m, y) = Piece(m, x)
  BY DEF Same, Piece
<1>2. x.op \in Data => /\ ToSet(Piece(m, x)) \subseteq Chars
                       /\ \A i \in DOMAIN Piece(m, x) : Piece(m, x)[i] \in Chars
  BY PieceOf
<1> QED
  BY <1>1, <1>2 DEF Fits, Same

LEMMA BringsStill ==
  ASSUME NEW m, NEW x, NEW y, NEW l, NEW n, NEW a, NEW c, Same(x, y), n[c] = l[c],
         Brings(m, x, l, a, c)
  PROVE  Brings(m, y, n, a, c)
<1>1. Wrote(y, a) = Wrote(x, a)
  BY DEF Wrote, Same
<1>2. Tells(m, y, a) = Tells(m, x, a)
  BY <1>1 DEF Tells, Same
<1> QED
  BY <1>1, <1>2 DEF Brings, Same

(* What is still to come still is.                                           *)
LEMMA ComingStill ==
  ASSUME NEW c, Coming(c), medium' = medium, log'[c] = log[c],
         \A i \in DOMAIN wire :
           wire[i].kind = "event" /\ wire[i].char = c /\ wire[i].value = Last(log[c]) =>
             \E j \in DOMAIN wire' : wire'[j] = wire[i],
         \A i \in DOMAIN wire : wire[i].kind = "answer" =>
           /\ Same(calls[wire[i].caller], calls'[wire[i].caller])
           /\ \/ \E j \in DOMAIN wire' : wire'[j] = wire[i]
              \/ \E j \in DOMAIN ready' : /\ ready'[j].caller = wire[i].caller
                                          /\ ready'[j].answer = wire[i].answer,
         \A i \in DOMAIN ready :
           Brings(medium, calls[ready[i].caller], log, ready[i].answer, c) =>
             /\ Same(calls[ready[i].caller], calls'[ready[i].caller])
             /\ \E j \in DOMAIN ready' : ready'[j] = ready[i]
  PROVE  Coming(c)'
<1>1. CASE \E i \in DOMAIN wire :
             wire[i].kind = "event" /\ wire[i].char = c /\ wire[i].value = Last(log[c])
  <2>1. PICK i \in DOMAIN wire :
          wire[i].kind = "event" /\ wire[i].char = c /\ wire[i].value = Last(log[c])
    BY <1>1
  <2>2. PICK j \in DOMAIN wire' : wire'[j] = wire[i]
    BY <2>1
  <2>3. wire'[j].kind = "event" /\ wire'[j].char = c /\ wire'[j].value = Last(log'[c])
    BY <2>1, <2>2
  <2> QED
    BY <2>2, <2>3 DEF Coming
<1>2. CASE \E i \in DOMAIN wire :
             wire[i].kind = "answer"
             /\ Brings(medium, calls[wire[i].caller], log, wire[i].answer, c)
  <2>1. PICK i \in DOMAIN wire :
          wire[i].kind = "answer"
          /\ Brings(medium, calls[wire[i].caller], log, wire[i].answer, c)
    BY <1>2
  <2>2. Brings(medium, calls'[wire[i].caller], log', wire[i].answer, c)
    BY <2>1, BringsStill
  <2>3. ASSUME NEW j \in DOMAIN wire', wire'[j] = wire[i] PROVE Coming(c)'
    <3>1. wire'[j].kind = "answer"
          /\ Brings(medium', calls'[wire'[j].caller], log', wire'[j].answer, c)
      BY <2>1, <2>2, <2>3
    <3> QED
      BY <3>1 DEF Coming
  <2>4. ASSUME NEW j \in DOMAIN ready', ready'[j].caller = wire[i].caller,
               ready'[j].answer = wire[i].answer
        PROVE  Coming(c)'
    <3>1. Brings(medium', calls'[ready'[j].caller], log', ready'[j].answer, c)
      BY <2>2, <2>4
    <3> QED
      BY <3>1 DEF Coming
  <2> QED
    BY <2>1, <2>3, <2>4
<1>3. CASE \E i \in DOMAIN ready :
             Brings(medium, calls[ready[i].caller], log, ready[i].answer, c)
  <2>1. PICK i \in DOMAIN ready :
          Brings(medium, calls[ready[i].caller], log, ready[i].answer, c)
    BY <1>3
  <2>2. PICK j \in DOMAIN ready' : ready'[j] = ready[i]
    BY <2>1
  <2>3. Brings(medium, calls'[ready[i].caller], log', ready[i].answer, c)
    BY <2>1, BringsStill
  <2>4. Brings(medium', calls'[ready'[j].caller], log', ready'[j].answer, c)
    BY <2>2, <2>3
  <2> QED
    BY <2>2, <2>4 DEF Coming
<1> QED
  BY <1>1, <1>2, <1>3 DEF Coming

-----------------------------------------------------------------------------
(* The callers ask.                                                          *)

LEMMA AskKeeps ==
  ASSUME Inv, NEW k \in Callers, NEW r, calls[k].pc = "idle", IsCall(r),
         r.pc = "asked", r.read = {}, calls' = [calls EXCEPT ![k] = r],
         UNCHANGED <<medium, log, notifying, view, wire, ready, behind>>,
         values' \in Nat, values <= values', r.value <= values',
         r.op = "put" => r.value > values,
         medium = "ble" => r.op \in Data
  PROVE  Inv'
<1>1. /\ DOMAIN calls' = Callers /\ calls'[k] = r
      /\ \A j \in Callers \ {k} : calls'[j] = calls[j]
  BY DEF Inv, Types
<1>2. Types'
  BY <1>1 DEF Inv, Types
<1>3. /\ \A i \in DOMAIN wire : wire[i].kind = "answer" => wire[i].caller \in Callers \ {k}
      /\ \A i \in DOMAIN ready : ready[i].caller \in Callers \ {k}
  <2>1. ASSUME NEW i \in DOMAIN wire, wire[i].kind = "answer"
        PROVE  wire[i].caller \in Callers \ {k}
    <3>1. wire[i] \in Message
      BY DEF Inv, Types
    <3>2. wire[i].caller \in Callers
      BY <2>1, <3>1 DEF Message, Event
    <3> QED
      BY <2>1, <3>2 DEF Inv, Owned
  <2>2. ASSUME NEW i \in DOMAIN ready
        PROVE  ready[i].caller \in Callers \ {k}
    <3>1. ready[i] \in Arrived
      BY DEF Inv, Types
    <3> QED
      BY <3>1 DEF Arrived, Inv, Owned
  <2> QED
    BY <2>1, <2>2
<1>4. Owned'
  BY <1>1, <1>3 DEF Inv, Owned
<1>5. Held'
  BY <1>1 DEF Inv, Held
<1>6. Once'
  <2>1. ASSUME NEW c \in Chars, NEW i \in DOMAIN log[c] PROVE log[c][i] \in Nat
    BY DEF Inv, Types
  <2>2. \A c \in Chars : log[c] # <<>> /\ \A i \in DOMAIN log[c] : log[c][i] <= values'
    BY <2>1 DEF Inv, Types, Once
  <2>3. \A j \in Callers : calls'[j].value <= values'
    BY <1>1 DEF Inv, Types, IsCall, Once
  <2>4. ASSUME r.op = "put" PROVE \A c \in Chars : r.value \notin ToSet(log[c])
    BY <2>1, <2>4 DEF Inv, Types, Once, ToSet, IsCall
  <2>5. ASSUME r.op = "put" PROVE \A j \in Callers \ {k} : calls[j].value # r.value
    BY <2>5 DEF Inv, Types, Once, IsCall
  <2> QED
    BY <1>1, <2>2, <2>3, <2>4, <2>5 DEF Inv, Once, Asks
<1>7. NoEvents'
  BY <1>1 DEF Inv, NoEvents
<1>8. Follows'
  <2> SUFFICES ASSUME medium # "ble", NEW c \in Readable \ behind
               PROVE  view[c] = <<c, Last(log[c])>> \/ Coming(c)'
    BY DEF Follows
  <2>1. CASE Coming(c)
    <3>1. \A i \in DOMAIN wire : wire[i].kind = "answer" =>
            Same(calls[wire[i].caller], calls'[wire[i].caller])
      BY <1>1, <1>3 DEF Same
    <3>2. \A i \in DOMAIN ready : Same(calls[ready[i].caller], calls'[ready[i].caller])
      BY <1>1, <1>3 DEF Same
    <3>3. log'[c] = log[c] /\ wire' = wire /\ ready' = ready
      OBVIOUS
    <3> QED
      BY <2>1, <3>1, <3>2, <3>3, ComingStill
  <2> QED
    BY <2>1 DEF Inv, Follows
<1> QED
  BY <1>2, <1>4, <1>5, <1>6, <1>7, <1>8 DEF Inv

(* Nothing but the connection and the subscriptions.                         *)
LEMMA AsideKeeps ==
  ASSUME Inv, UNCHANGED <<medium, log, view, calls, wire, ready, values, behind>>,
         medium = "ble" => notifying' = {}
  PROVE  Inv'
<1>1. Types' /\ Owned' /\ Held' /\ Once' /\ NoEvents'
  BY DEF Inv, Types, Owned, Held, Once, Asks, NoEvents
<1>2. Follows'
  BY DEF Inv, Follows, Coming
<1> QED
  BY <1>1, <1>2 DEF Inv

(* What a request of the callers is.                                         *)
LEMMA RequestIs ==
  ASSUME NEW k \in Callers, NEW op, NEW ids, NEW value, Request(k, op, ids, value),
         op \in Data \cup {"subscribe", "unsubscribe"},
         op \in Data => ids \in Seq(Chars) /\ ids # <<>>, value \in Nat
  PROVE  \E r : /\ IsCall(r) /\ r.pc = "asked" /\ r.read = {} /\ r.op = op /\ r.value = value
                /\ calls' = [calls EXCEPT ![k] = r]
<1>1. /\ DOMAIN NoCall = {"op", "pc", "ids", "value", "read"} /\ NoCall.read = {}
  BY DEF NoCall
<1>2. PICK n : n = NoCall
  OBVIOUS
<1> DEFINE r == [n EXCEPT !.op = op, !.pc = "asked", !.ids = ids, !.value = value]
<1>3. calls' = [calls EXCEPT ![k] = r]
  BY <1>2, Zenon DEF Request
<1>4. DOMAIN n = {"op", "pc", "ids", "value", "read"} /\ n.read = {}
  BY <1>1, <1>2
<1>5. /\ r.op = op /\ r.pc = "asked" /\ r.read = {} /\ r.ids = ids /\ r.value = value
      /\ DOMAIN r = {"op", "pc", "ids", "value", "read"}
  BY <1>4
<1> HIDE DEF r
<1>6. IsCall(r)
  BY <1>5 DEF IsCall, Data
<1> QED
  BY <1>3, <1>5, <1>6

LEMMA CallKeeps ==
  ASSUME NEW k \in Callers
  PROVE  Inv /\ Call(k) => Inv'
<1> SUFFICES ASSUME Inv, Call(k) PROVE Inv'
  OBVIOUS
<1>1. PICK op \in {"get", "put"}, ids \in Lists :
        /\ values' = IF op = "put" THEN values + 1 ELSE values
        /\ Request(k, op, ids, IF op = "put" THEN values' ELSE 0)
  BY DEF Call
<1>2. /\ calls[k].pc = "idle"
      /\ UNCHANGED <<medium, log, notifying, view, wire, ready, behind>>
  BY DEF Call, MayCall
<1>3. ids \in Seq(Chars) /\ ids # <<>>
  BY RequestsAssumption
<1>4. values \in Nat /\ values' \in Nat /\ values <= values'
  BY <1>1 DEF Inv, Types
<1> DEFINE v == IF op = "put" THEN values' ELSE 0
<1>5. v \in Nat /\ v <= values' /\ (op = "put" => v > values)
  BY <1>1, <1>4
<1>6. Request(k, op, ids, v)
  BY <1>1
<1> HIDE DEF v
<1>7. PICK r : /\ IsCall(r) /\ r.pc = "asked" /\ r.read = {} /\ r.op = op /\ r.value = v
               /\ calls' = [calls EXCEPT ![k] = r]
  BY <1>3, <1>5, <1>6, RequestIs DEF Data
<1> QED
  BY <1>2, <1>4, <1>5, <1>7, AskKeeps DEF Data

LEMMA SubscribeKeeps ==
  ASSUME NEW k \in Callers
  PROVE  Inv /\ (Subscribe(k) \/ Unsubscribe(k)) => Inv'
<1> SUFFICES ASSUME Inv, Subscribe(k) \/ Unsubscribe(k) PROVE Inv'
  OBVIOUS
<1>1. /\ calls[k].pc = "idle" /\ medium # "ble"
      /\ UNCHANGED <<medium, log, notifying, view, wire, ready, behind, values>>
  BY DEF Subscribe, Unsubscribe, MayCall
<1>2. values \in Nat /\ values >= 0
  BY DEF Inv, Types
<1>3. ASSUME NEW op \in {"subscribe", "unsubscribe"}, NEW ids, Request(k, op, ids, 0)
      PROVE  Inv'
  <2>1. PICK r : /\ IsCall(r) /\ r.pc = "asked" /\ r.read = {} /\ r.op = op /\ r.value = 0
                 /\ calls' = [calls EXCEPT ![k] = r]
    BY <1>3, RequestIs DEF Data
  <2>2. /\ values' \in Nat /\ values <= values' /\ r.value <= values'
        /\ r.op # "put" /\ medium # "ble"
    BY <1>1, <1>2, <2>1
  <2> QED
    BY <1>1, <2>1, <2>2, AskKeeps
<1>4. CASE UNCHANGED calls
  BY <1>1, <1>4, AsideKeeps
<1>5. (\E op \in {"subscribe", "unsubscribe"} : \E ids : Request(k, op, ids, 0)) \/ UNCHANGED calls
  BY DEF Subscribe, Unsubscribe
<1> QED
  BY <1>3, <1>4, <1>5

LEMMA ReconnectKeeps == Inv /\ Reconnect => Inv'
<1> SUFFICES ASSUME Inv, Reconnect PROVE Inv'
  OBVIOUS
<1> QED
  BY AsideKeeps DEF Reconnect

-----------------------------------------------------------------------------
(* The accessory and the network.                                            *)

(* Some characteristics have a new value.                                    *)
Written(D, v) == [c \in Chars |-> IF c \in D THEN Append(log[c], v) ELSE log[c]]

LEMMA LogGrows ==
  ASSUME Types, NEW D, NEW v \in Nat, log' = Written(D, v)
  PROVE  /\ log' \in [Chars -> Seq(Nat)]
         /\ \A c \in Chars :
              /\ Had(log, c) \subseteq Had(log', c)
              /\ c \notin D => log'[c] = log[c]
              /\ c \in D => /\ log'[c] = Append(log[c], v)
                            /\ ToSet(log'[c]) = ToSet(log[c]) \cup {v}
                            /\ Last(log'[c]) = v /\ <<c, v>> \in Had(log', c)
<1>1. \A c \in Chars : log'[c] = IF c \in D THEN Append(log[c], v) ELSE log[c]
  BY DEF Written
<1>2. \A c \in Chars : log[c] \in Seq(Nat)
  BY DEF Types
<1>3. ASSUME NEW c \in Chars, c \in D
      PROVE  /\ log'[c] \in Seq(Nat) /\ log'[c] = Append(log[c], v)
             /\ ToSet(log'[c]) = ToSet(log[c]) \cup {v} /\ Last(log'[c]) = v
             /\ <<c, v>> \in Had(log', c) /\ Had(log, c) \subseteq Had(log', c)
  <2>1. log'[c] = Append(log[c], v) /\ log[c] \in Seq(Nat)
    BY <1>1, <1>2, <1>3
  <2>2. log'[c] \in Seq(Nat) /\ ToSet(log'[c]) = ToSet(log[c]) \cup {v} /\ Last(log'[c]) = v
    BY <2>1, Appended
  <2> QED
    BY <2>1, <2>2 DEF Had
<1>4. ASSUME NEW c \in Chars, c \notin D
      PROVE  log'[c] = log[c] /\ Had(log, c) \subseteq Had(log', c)
  BY <1>1, <1>4 DEF Had
<1>5. log' \in [Chars -> Seq(Nat)]
  <2>1. \A c \in Chars : (IF c \in D THEN Append(log[c], v) ELSE log[c]) \in Seq(Nat)
    BY <1>2
  <2> QED
    BY <2>1 DEF Written
<1> QED
  BY <1>3, <1>4, <1>5

LEMMA OnceGrows ==
  ASSUME Inv, NEW D, NEW v \in Nat, log' = Written(D, v), values' \in Nat, values <= values',
         v <= values',
         medium # "ble" => \A c \in D \cap Chars : v \notin ToSet(log[c])
  PROVE  \A c \in Chars :
           /\ log'[c] # <<>> /\ \A i \in DOMAIN log'[c] : log'[c][i] <= values'
           /\ medium # "ble" => \A i, j \in DOMAIN log'[c] : log'[c][i] = log'[c][j] => i = j
<1> SUFFICES ASSUME NEW c \in Chars
    PROVE  /\ log'[c] # <<>> /\ \A i \in DOMAIN log'[c] : log'[c][i] <= values'
           /\ medium # "ble" => \A i, j \in DOMAIN log'[c] : log'[c][i] = log'[c][j] => i = j
  OBVIOUS
<1> DEFINE q == log[c]
           r == log'[c]
<1>1. /\ q \in Seq(Nat) /\ q # <<>> /\ \A i \in DOMAIN q : q[i] <= values
      /\ values \in Nat
      /\ medium # "ble" => \A i, j \in DOMAIN q : q[i] = q[j] => i = j
  BY DEF Inv, Types, Once
<1>2. Types
  BY DEF Inv
<1>3. c \notin D => r = q
  BY DEF Written
<1>4. c \in D => r = Append(q, v)
  BY DEF Written
<1> HIDE DEF q, r
<1>5. \A i \in DOMAIN q : q[i] \in Nat
  BY <1>1
<1>6. CASE c \in D
  <2>1. /\ Len(q) \in Nat /\ DOMAIN q = 1..Len(q) /\ DOMAIN r = 1..Len(q) + 1
        /\ (\A i \in 1..Len(q) : r[i] = q[i]) /\ r[Len(q) + 1] = v /\ Len(r) = Len(q) + 1
        /\ r \in Seq(Nat)
    <3>1. PICK S : S = Nat
      OBVIOUS
    <3>2. q \in Seq(S) /\ v \in S
      BY <1>1, <3>1
    <3>3. r = Append(q, v)
      BY <1>4, <1>6
    <3>4. /\ r \in Seq(S) /\ Len(r) = Len(q) + 1 /\ Len(q) \in Nat
          /\ DOMAIN q = 1..Len(q) /\ DOMAIN r = 1..Len(q) + 1
          /\ \A i \in 1..Len(q) : r[i] = q[i]
          /\ r[Len(q) + 1] = v
      BY <3>2, <3>3, Appended
    <3> QED
      BY <3>1, <3>4
  <2>2. \A i \in DOMAIN r : i \in DOMAIN q \/ i = Len(q) + 1
    BY <2>1
  <2>3. ASSUME NEW i \in DOMAIN r PROVE r[i] <= values'
    <3>1. CASE i \in DOMAIN q
      <4>1. r[i] = q[i] /\ q[i] \in Nat /\ q[i] <= values
        BY <1>1, <1>5, <2>1, <3>1
      <4> QED
        BY <1>1, <4>1
    <3>2. CASE i = Len(q) + 1
      BY <2>1, <3>2
    <3> QED
      BY <2>2, <3>1, <3>2
  <2>4. r # <<>>
    BY <2>1
  <2>5. ASSUME medium # "ble", NEW i \in DOMAIN r, NEW j \in DOMAIN r, r[i] = r[j] PROVE i = j
    <3>1. \A l \in DOMAIN q : q[l] # v
      BY <1>6, <2>5 DEF ToSet, q
    <3> QED
      BY <1>1, <2>1, <2>2, <2>5, <3>1
  <2> QED
    BY <2>3, <2>4, <2>5 DEF r
<1>7. CASE c \notin D
  <2>1. r = q
    BY <1>3, <1>7
  <2>2. \A i \in DOMAIN q : q[i] <= values'
    BY <1>1, <1>5
  <2> QED
    BY <1>1, <2>1, <2>2 DEF r
<1> QED
  BY <1>6, <1>7

(* Who waits for messages.                                                   *)
LEMMA Receivers ==
  ASSUME Types
  PROVE  /\ \A i \in DOMAIN wire : wire[i] \in Message
         /\ \A i \in DOMAIN wire : wire[i].kind = "answer" =>
              wire[i].caller \in Callers /\ IsCall(calls[wire[i].caller])
         /\ \A i \in DOMAIN wire : wire[i].kind = "event" =>
              wire[i].char \in Chars /\ wire[i].value \in Nat
         /\ \A i \in DOMAIN ready : ready[i] \in Arrived /\ ready[i].caller \in Callers
                                    /\ IsCall(calls[ready[i].caller])
<1>1. \A i \in DOMAIN wire : wire[i] \in Message
  BY DEF Types
<1>2. \A i \in DOMAIN ready : ready[i] \in Arrived
  BY DEF Types
<1>3. \A m \in Message : /\ m.kind = "answer" => m.caller \in Callers
                         /\ m.kind = "event" => m.char \in Chars /\ m.value \in Nat
  BY DEF Message, Event
<1>4. \A m \in Arrived : m.caller \in Callers
  BY DEF Arrived
<1> QED
  BY <1>1, <1>2, <1>3, <1>4 DEF Types

LEMMA ChangeKeeps ==
  ASSUME NEW c \in Chars
  PROVE  Inv /\ Change(c) => Inv'
<1> SUFFICES ASSUME Inv, Change(c) PROVE Inv'
  OBVIOUS
<1> DEFINE v == values'
<1>1. /\ values \in Nat /\ v = values + 1 /\ v \in Nat /\ values <= v
      /\ UNCHANGED <<medium, notifying, view, calls, ready>> /\ Types
  BY DEF Inv, Types, Change
<1>2. log' = Written({c}, v)
  BY <1>1 DEF Change, Written, Types
<1>3. /\ log' \in [Chars -> Seq(Nat)]
      /\ \A d \in Chars : /\ Had(log, d) \subseteq Had(log', d)
                          /\ d # c => log'[d] = log[d]
      /\ Last(log'[c]) = v /\ <<c, v>> \in Had(log', c)
      /\ ToSet(log'[c]) = ToSet(log[c]) \cup {v}
  <2> DEFINE D == {c}
  <2>1. c \in D /\ \A d \in Chars : d # c => d \notin D
    OBVIOUS
  <2>2. log' = Written(D, v)
    BY <1>2
  <2>3. Types /\ v \in Nat
    BY <1>1
  <2> HIDE DEF D, v
  <2>4. /\ log' \in [Chars -> Seq(Nat)]
        /\ \A d \in Chars :
             /\ Had(log, d) \subseteq Had(log', d)
             /\ d \notin D => log'[d] = log[d]
             /\ d \in D => /\ log'[d] = Append(log[d], v)
                           /\ ToSet(log'[d]) = ToSet(log[d]) \cup {v}
                           /\ Last(log'[d]) = v /\ <<d, v>> \in Had(log', d)
    BY <2>2, <2>3, LogGrows
  <2> QED
    BY <2>1, <2>4
<1> DEFINE e == [kind |-> "event", char |-> c, value |-> v]
<1>4. e \in Message /\ e.kind = "event" /\ e.char = c /\ e.value = v
  BY <1>1 DEF Message, Event
<1>5. /\ c \in notifying => wire' = Append(wire, e) /\ behind' = behind
      /\ c \notin notifying => wire' = wire /\ behind' = behind \cup {c}
  BY DEF Change
<1> HIDE DEF e
<1>6. /\ wire' \in Seq(Message)
      /\ \A i \in DOMAIN wire : i \in DOMAIN wire' /\ wire'[i] = wire[i]
      /\ \A i \in DOMAIN wire' : (i \in DOMAIN wire /\ wire'[i] = wire[i]) \/ wire'[i] = e
      /\ c \in notifying => \E i \in DOMAIN wire' : wire'[i] = e
  <2>1. CASE c \in notifying
    <3>1. wire \in Seq(Message) /\ wire' = Append(wire, e)
      BY <1>1, <1>5, <2>1 DEF Types
    <3>2. /\ wire' \in Seq(Message) /\ Len(wire) \in Nat
          /\ DOMAIN wire = 1..Len(wire) /\ DOMAIN wire' = 1..Len(wire) + 1
          /\ \A i \in 1..Len(wire) : wire'[i] = wire[i]
          /\ wire'[Len(wire) + 1] = e
      BY <1>4, <3>1, Appended
    <3> QED
      BY <3>2
  <2>2. CASE c \notin notifying
    BY <1>1, <1>5, <2>2 DEF Types
  <2> QED
    BY <2>1, <2>2
<1>7. Types'
  BY <1>1, <1>3, <1>6 DEF Types
<1>8. Owned'
  <2>1. ASSUME NEW k, NEW a, IsCall(calls[k]), Fits(medium, calls[k], log, a)
        PROVE  Fits(medium, calls[k], log', a)
    BY <1>3, <2>1, FitsStill DEF Same
  <2>2. ASSUME NEW i \in DOMAIN wire', wire'[i].kind = "answer"
        PROVE  i \in DOMAIN wire /\ wire'[i] = wire[i]
    BY <1>4, <1>6, <2>2
  <2> QED
    BY <1>1, <2>1, <2>2, Receivers DEF Inv, Owned
<1>9. Held'
  <2>1. \A i \in DOMAIN wire' : wire'[i].kind = "event" =>
          <<wire'[i].char, wire'[i].value>> \in Had(log', wire'[i].char)
    BY <1>1, <1>3, <1>4, <1>6, Receivers DEF Inv, Held
  <2> QED
    BY <1>1, <1>3, <2>1 DEF Inv, Held
<1>10. Once'
  <2>1. ASSUME NEW d \in Chars PROVE v \notin ToSet(log[d])
    <3>1. \A i \in DOMAIN log[d] : log[d][i] \in Nat /\ log[d][i] <= values
      BY DEF Inv, Types, Once
    <3>2. \A i \in DOMAIN log[d] : log[d][i] # v
      BY <1>1, <3>1
    <3> QED
      BY <3>2 DEF ToSet
  <2>2. \A d \in Chars :
          /\ log'[d] # <<>> /\ \A i \in DOMAIN log'[d] : log'[d][i] <= values'
          /\ medium # "ble" => \A i, j \in DOMAIN log'[d] : log'[d][i] = log'[d][j] => i = j
    <3> DEFINE D == {c}
    <3>1. log' = Written(D, v) /\ \A d \in D \cap Chars : v \notin ToSet(log[d])
      BY <1>2, <2>1
    <3>2. v \in Nat /\ values' \in Nat /\ values <= values' /\ v <= values'
      BY <1>1
    <3> HIDE DEF D, v
    <3> QED
      BY <3>1, <3>2, OnceGrows
  <2>3. \A k \in Callers : calls[k].value \in Nat /\ calls[k].value <= values
    BY DEF Inv, Types, IsCall, Once
  <2>4. \A k \in Callers : calls[k].value <= values' /\ calls[k].value # v
    BY <1>1, <2>3
  <2>5. medium # "ble" => \A k \in Callers : Asks(k) =>
          \A d \in Chars : calls[k].value \notin ToSet(log'[d])
    BY <1>3, <2>4 DEF Inv, Once
  <2> HIDE DEF v
  <2> QED
    BY <1>1, <2>2, <2>4, <2>5 DEF Inv, Once, Asks
<1>11. NoEvents'
  BY <1>1 DEF Inv, NoEvents
<1>12. Follows'
  <2> SUFFICES ASSUME medium # "ble", NEW d \in Readable \ behind'
               PROVE  view[d] = <<d, Last(log'[d])>> \/ Coming(d)'
    BY <1>1 DEF Follows
  <2>1. d \in Chars
    BY RequestsAssumption
  <2>2. CASE d = c
    <3>1. c \in notifying
      BY <1>5, <2>2
    <3>2. PICK i \in DOMAIN wire' : wire'[i] = e
      BY <1>6, <3>1
    <3>3. wire'[i].kind = "event" /\ wire'[i].char = d /\ wire'[i].value = Last(log'[d])
      BY <1>3, <1>4, <2>2, <3>2
    <3> QED
      BY <3>2, <3>3 DEF Coming
  <2>3. CASE d # c
    <3>1. log'[d] = log[d] /\ d \notin behind
      BY <1>3, <1>5, <2>1, <2>3
    <3>2. CASE Coming(d)
      <4>1. \A i \in DOMAIN wire : \E j \in DOMAIN wire' : wire'[j] = wire[i]
        BY <1>6
      <4>2. ready' = ready /\ calls' = calls /\ medium' = medium
        BY <1>1
      <4> QED
        BY <3>1, <3>2, <4>1, <4>2, ComingStill DEF Same
    <3> QED
      BY <3>1, <3>2 DEF Inv, Follows
  <2> QED
    BY <2>2, <2>3
<1> QED
  BY <1>7, <1>8, <1>9, <1>10, <1>11, <1>12 DEF Inv

(* The answer of the accessory to a request.                                 *)
LEMMA HandleIs ==
  ASSUME NEW k \in Callers, Inv, Handle(k)
  PROVE  \E done, a :
           LET part == Piece(medium, calls[k])
               op == calls[k].op
               D == IF op = "put" THEN done ELSE {}
           IN  /\ done \subseteq ToSet(part)
               /\ log' = Written(D, calls[k].value)
               /\ wire' = Append(wire, [kind |-> "answer", caller |-> k, answer |-> a])
               /\ a \in Answer
               /\ op \in Data /\ a.kind = "rows" =>
                    /\ DOMAIN a.rows = DOMAIN part
                    /\ \A i \in DOMAIN part :
                         /\ a.rows[i].status = "ok" <=> part[i] \in done
                         /\ op = "get" => a.rows[i].value = <<part[i], Last(log[part[i]])>>
               /\ op \in Data /\ a.kind = "empty" => op = "put" /\ done = ToSet(part)
               /\ op \in Data /\ a.kind = "global" => done = {}
               /\ medium = "ble" => op \in Data \cup {"none"} /\ notifying' = notifying
<1> DEFINE part == Piece(medium, calls[k])
           op == calls[k].op
<1>1. Part(calls[k]) = part
  BY RowsAre
<1>2. PICK refused \in SUBSET ToSet(Part(calls[k])), global \in BOOLEAN :
        LET p == Part(calls[k])
            done == ToSet(p) \ refused
            now == [c \in Chars |-> IF op = "put" /\ c \in done
                                    THEN Append(log[c], calls[k].value) ELSE log[c]]
            rows == [i \in DOMAIN p |->
                       [status |-> IF p[i] \in done THEN "ok" ELSE "error",
                        value |-> <<p[i], IF op = "get" THEN Last(log[p[i]]) ELSE 0>>]]
            kind == IF global THEN "global"
                    ELSE IF medium = "ip" /\ op # "get" /\ refused = {} THEN "empty"
                    ELSE "rows"
        IN  /\ global => medium = "ip" /\ done = {}
            /\ log' = now
            /\ notifying' = CASE op = "subscribe" -> notifying \cup done
                              [] op = "unsubscribe" -> notifying \ done
                              [] OTHER -> notifying
            /\ wire' = Append(wire, [kind |-> "answer", caller |-> k,
                                     answer |-> [kind |-> kind,
                                                 rows |-> IF kind = "rows" /\ op \in {"get", "put"}
                                                          THEN rows ELSE <<>>]])
            /\ calls' = [calls EXCEPT ![k].pc = "handled"]
  BY DEF Handle
<1> DEFINE done == ToSet(part) \ refused
           D == IF op = "put" THEN done ELSE {}
           rows == [i \in DOMAIN part |->
                      [status |-> IF part[i] \in done THEN "ok" ELSE "error",
                       value |-> <<part[i], IF op = "get" THEN Last(log[part[i]]) ELSE 0>>]]
           kind == IF global THEN "global"
                   ELSE IF medium = "ip" /\ op # "get" /\ refused = {} THEN "empty" ELSE "rows"
           shown == IF kind = "rows" /\ op \in Data THEN rows ELSE <<>>
           a == [kind |-> kind, rows |-> shown]
<1>3. log' = Written(D, calls[k].value)
  BY <1>1, <1>2 DEF Written
<1>4. wire' = Append(wire, [kind |-> "answer", caller |-> k, answer |-> a])
  BY <1>1, <1>2 DEF Data
<1>5. medium = "ble" => op \in Data \cup {"none"} /\ notifying' = notifying
  <2>1. medium = "ble" => op \in Data \cup {"none"}
    BY DEF Inv, NoEvents
  <2> QED
    BY <1>2, <2>1 DEF Data
<1>6. global => medium = "ip" /\ done = {}
  BY <1>1, <1>2
<1>7. /\ kind \in {"rows", "empty", "global"}
      /\ kind = "empty" => op # "get" /\ refused = {}
      /\ kind = "global" => done = {}
  BY <1>6
<1>8. op \in Data => part \in Seq(Chars) /\ \A i \in DOMAIN part : part[i] \in Chars
  BY PieceOf DEF Inv, Types
<1>9. \A c \in Chars : Last(log[c]) \in Nat
  BY DEF Inv, Types, Once, Last
<1>10. \A i \in DOMAIN part :
         /\ rows[i].status \in {"ok", "error"} /\ (rows[i].status = "ok" <=> part[i] \in done)
         /\ rows[i].value = <<part[i], IF op = "get" THEN Last(log[part[i]]) ELSE 0>>
         /\ rows[i] = [status |-> rows[i].status, value |-> rows[i].value]
  OBVIOUS
<1>11. DOMAIN rows = DOMAIN part
  OBVIOUS
<1> HIDE DEF rows, done
<1>12. op \in Data => rows \in Seq(Row)
  <2> SUFFICES ASSUME op \in Data PROVE rows \in Seq(Row)
    OBVIOUS
  <2>1. ASSUME NEW i \in DOMAIN part PROVE rows[i] \in Row
    <3> DEFINE x == rows[i].status
               n == IF op = "get" THEN Last(log[part[i]]) ELSE 0
               y == rows[i].value
    <3>1. n \in Nat /\ part[i] \in Chars
      BY <1>8, <1>9
    <3>2. x \in {"ok", "error"} /\ y = <<part[i], n>> /\ rows[i] = [status |-> x, value |-> y]
      BY <1>10
    <3> HIDE DEF n, x, y, part
    <3> QED
      BY <3>1, <3>2 DEF Row
  <2>2. DOMAIN part = 1..Len(part) /\ Len(part) \in Nat
    BY <1>8
  <2>3. rows \in [1..Len(part) -> Row]
    BY <1>11, <2>1, <2>2 DEF rows
  <2> QED
    BY <2>2, <2>3, SeqDef
<1>13. /\ shown \in Seq(Row)
       /\ kind = "rows" /\ op \in Data => shown = rows
  BY <1>12
<1> HIDE DEF shown, kind
<1>14. a \in Answer /\ a.kind = kind /\ a.rows = shown
  BY <1>7, <1>13 DEF Answer
<1> HIDE DEF a, part, op
<1>15. /\ op \in Data /\ a.kind = "rows" =>
            /\ DOMAIN a.rows = DOMAIN part
            /\ \A i \in DOMAIN part :
                 /\ a.rows[i].status = "ok" <=> part[i] \in done
                 /\ op = "get" => a.rows[i].value = <<part[i], Last(log[part[i]])>>
  BY <1>10, <1>11, <1>13, <1>14
<1>16. op \in Data /\ a.kind = "empty" => op = "put" /\ done = ToSet(part)
  BY <1>7, <1>14 DEF Data, done
<1>17. op \in Data /\ a.kind = "global" => done = {}
  BY <1>7, <1>14
<1>18. done \subseteq ToSet(part)
  BY DEF done
<1> HIDE DEF D
<1> QED
  BY <1>3, <1>4, <1>5, <1>14, <1>15, <1>16, <1>17, <1>18 DEF D, part, op

LEMMA HandleKeeps ==
  ASSUME NEW k \in Callers
  PROVE  Inv /\ Handle(k) => Inv'
<1> SUFFICES ASSUME Inv, Handle(k) PROVE Inv'
  OBVIOUS
<1> DEFINE part == Piece(medium, calls[k])
           op == calls[k].op
           v == calls[k].value
<1>1. PICK done, a :
        /\ done \subseteq ToSet(part)
        /\ log' = Written(IF op = "put" THEN done ELSE {}, v)
        /\ wire' = Append(wire, [kind |-> "answer", caller |-> k, answer |-> a])
        /\ a \in Answer
        /\ op \in Data /\ a.kind = "rows" =>
             /\ DOMAIN a.rows = DOMAIN part
             /\ \A i \in DOMAIN part :
                  /\ a.rows[i].status = "ok" <=> part[i] \in done
                  /\ op = "get" => a.rows[i].value = <<part[i], Last(log[part[i]])>>
        /\ op \in Data /\ a.kind = "empty" => op = "put" /\ done = ToSet(part)
        /\ op \in Data /\ a.kind = "global" => done = {}
        /\ medium = "ble" => op \in Data \cup {"none"} /\ notifying' = notifying
  BY HandleIs
<1>2. /\ calls[k].pc = "asked" /\ calls' = [calls EXCEPT ![k].pc = "handled"]
      /\ UNCHANGED <<medium, view, ready, values, behind>> /\ Types /\ IsCall(calls[k])
  BY DEF Handle, Inv, Types
<1> DEFINE D == IF op = "put" THEN done ELSE {}
           e == [kind |-> "answer", caller |-> k, answer |-> a]
           r == calls'[k]
<1>3. /\ DOMAIN calls' = Callers /\ \A j \in Callers \ {k} : calls'[j] = calls[j]
      /\ IsCall(r) /\ Same(calls[k], r) /\ r.pc = "handled" /\ r.read = calls[k].read
  BY <1>2 DEF Types, IsCall, Same
<1>4. v \in Nat /\ v <= values /\ values \in Nat
  BY <1>2 DEF IsCall, Inv, Types, Once
<1>5. log' = Written(D, v)
  BY <1>1
<1>6. op = "put" <=> Asks(k)
  BY <1>2 DEF Asks
<1>7. e \in Message /\ e.kind = "answer" /\ e.caller = k /\ e.answer = a /\ wire' = Append(wire, e)
  BY <1>1 DEF Message
<1>8. D \subseteq ToSet(part) /\ (D # {} => op = "put") /\ (op = "put" => D = done)
  BY <1>1
<1> HIDE DEF D, e, r, v
<1>9. /\ log' \in [Chars -> Seq(Nat)]
      /\ \A c \in Chars :
           /\ Had(log, c) \subseteq Had(log', c)
           /\ c \notin D => log'[c] = log[c]
           /\ c \in D => /\ log'[c] = Append(log[c], v)
                         /\ ToSet(log'[c]) = ToSet(log[c]) \cup {v}
                         /\ Last(log'[c]) = v /\ <<c, v>> \in Had(log', c)
  BY <1>2, <1>4, <1>5, LogGrows
<1>10. /\ wire' \in Seq(Message) /\ Len(wire) \in Nat
       /\ DOMAIN wire = 1..Len(wire) /\ DOMAIN wire' = 1..Len(wire) + 1
       /\ \A i \in 1..Len(wire) : wire'[i] = wire[i]
       /\ wire'[Len(wire) + 1] = e
  <2>1. wire \in Seq(Message)
    BY <1>2 DEF Types
  <2> QED
    BY <1>7, <2>1, Appended
<1>11. Types'
  <2>1. \A j \in Callers : IsCall(calls'[j])
    BY <1>2, <1>3 DEF Types, r
  <2> QED
    BY <1>2, <1>3, <1>9, <1>10, <2>1 DEF Types
<1>12. /\ \A i \in DOMAIN wire : wire[i].kind = "answer" => wire[i].caller \in Callers \ {k}
       /\ \A i \in DOMAIN ready : ready[i].caller \in Callers \ {k}
  BY <1>2, Receivers DEF Inv, Owned
<1>13. op \in Data => /\ part \in Seq(Chars) /\ ToSet(part) \subseteq Chars
                      /\ \A i \in DOMAIN part : part[i] \in Chars /\ part[i] \in ToSet(part)
  BY <1>2, PieceOf DEF ToSet
<1>14. Fits(medium, r, log', a)
  <2>1. Piece(medium, r) = part /\ r.op = op /\ r.value = v
    BY <1>3 DEF Same, Piece, v
  <2>2. ASSUME op \in Data, a.kind = "rows"
        PROVE  /\ DOMAIN a.rows = DOMAIN part
               /\ \A i \in DOMAIN part : a.rows[i].status = "ok" =>
                    /\ op = "get" => a.rows[i].value \in Had(log', part[i])
                    /\ op = "put" => <<part[i], v>> \in Had(log', part[i])
    <3>1. ASSUME NEW i \in DOMAIN part, a.rows[i].status = "ok", op = "get"
          PROVE  a.rows[i].value \in Had(log', part[i])
      <4>1. a.rows[i].value = <<part[i], Last(log[part[i]])>> /\ part[i] \in Chars
        BY <1>1, <1>13, <2>2, <3>1
      <4>2. log[part[i]] \in Seq(Nat) /\ log[part[i]] # <<>>
        BY <4>1 DEF Inv, Types, Once
      <4>3. Last(log[part[i]]) \in ToSet(log[part[i]])
        <5> DEFINE q == log[part[i]]
        <5>1. q \in Seq(Nat) /\ q # <<>>
          BY <4>2
        <5> HIDE DEF q
        <5>2. Len(q) \in DOMAIN q
          BY <5>1
        <5>3. Last(q) \in ToSet(q)
          BY <5>2 DEF Last, ToSet
        <5> QED
          BY <5>3 DEF q
      <4>4. a.rows[i].value \in Had(log, part[i])
        BY <4>1, <4>3 DEF Had
      <4> QED
        BY <1>9, <4>1, <4>4
    <3>2. ASSUME NEW i \in DOMAIN part, a.rows[i].status = "ok", op = "put"
          PROVE  <<part[i], v>> \in Had(log', part[i])
      <4>1. part[i] \in D /\ part[i] \in Chars
        BY <1>1, <1>8, <1>13, <2>2, <3>2
      <4> QED
        BY <1>9, <4>1
    <3> HIDE DEF part, op
    <3> QED
      BY <1>1, <2>2, <3>1, <3>2 DEF part, op
  <2>3. ASSUME op \in Data, a.kind = "empty"
        PROVE  op = "put" /\ \A c \in ToSet(part) : <<c, v>> \in Had(log', c)
    BY <1>1, <1>8, <1>9, <1>13, <2>3
  <2> HIDE DEF part, op
  <2> QED
    BY <2>1, <2>2, <2>3 DEF Fits
<1>15. Owned'
  <2>1. ASSUME NEW j \in Callers \ {k}, NEW b, Fits(medium, calls[j], log, b)
        PROVE  Fits(medium, calls'[j], log', b)
    BY <1>2, <1>3, <1>9, <2>1, FitsStill DEF Same, Types
  <2>2. ASSUME NEW i \in DOMAIN wire'
        PROVE  \/ i \in DOMAIN wire /\ wire'[i] = wire[i]
               \/ i = Len(wire) + 1 /\ wire'[i] = e
    BY <1>10
  <2>3. ASSUME NEW i \in DOMAIN wire', wire'[i].kind = "answer"
        PROVE  /\ calls'[wire'[i].caller].pc = "handled"
               /\ Fits(medium, calls'[wire'[i].caller], log', wire'[i].answer)
    <3>1. CASE i \in DOMAIN wire /\ wire'[i] = wire[i]
      BY <1>3, <1>12, <2>1, <2>3, <3>1 DEF Inv, Owned
    <3>2. CASE wire'[i] = e
      BY <1>3, <1>7, <1>14, <3>2 DEF r
    <3> QED
      BY <2>2, <3>1, <3>2
  <2>4. ASSUME NEW i \in DOMAIN wire', wire'[i].kind = "answer",
               NEW j \in DOMAIN wire', wire'[j].kind = "answer", wire'[j].caller = wire'[i].caller
        PROVE  j = i
    BY <1>7, <1>12, <2>2, <2>4 DEF Inv, Owned
  <2>5. ASSUME NEW i \in DOMAIN ready
        PROVE  /\ calls'[ready[i].caller].pc = "ready"
               /\ Fits(medium, calls'[ready[i].caller], log', ready[i].answer)
    BY <1>3, <1>12, <2>1 DEF Inv, Owned
  <2> QED
    BY <1>2, <2>3, <2>4, <2>5 DEF Inv, Owned
<1>16. Held'
  <2>1. \A i \in DOMAIN wire' : wire'[i].kind = "event" => i \in DOMAIN wire /\ wire'[i] = wire[i]
    BY <1>7, <1>10
  <2>2. \A i \in DOMAIN wire' : wire'[i].kind = "event" =>
          <<wire'[i].char, wire'[i].value>> \in Had(log', wire'[i].char)
    BY <1>2, <1>9, <2>1, Receivers DEF Inv, Held
  <2>3. \A j \in Callers : calls'[j].read = calls[j].read
    BY <1>3 DEF r
  <2> QED
    BY <1>2, <1>9, <2>2, <2>3 DEF Inv, Held
<1>17. Once'
  <2>1. medium # "ble" => \A c \in D \cap Chars : v \notin ToSet(log[c])
    BY <1>6, <1>8 DEF Inv, Once, v
  <2>2. /\ \A d \in Chars :
             /\ log'[d] # <<>> /\ \A i \in DOMAIN log'[d] : log'[d][i] <= values
             /\ medium # "ble" => \A i, j \in DOMAIN log'[d] : log'[d][i] = log'[d][j] => i = j
    BY <1>2, <1>4, <1>5, <2>1, OnceGrows
  <2>3. \A j \in Callers : calls'[j].value = calls[j].value
    BY <1>3 DEF r, Same
  <2>4. \A j \in Callers : Asks(j)' => j # k /\ Asks(j)
    BY <1>3 DEF Asks, r
  <2>5. ASSUME medium # "ble", NEW j \in Callers, Asks(j)'
        PROVE  /\ \A c \in Chars : calls[j].value \notin ToSet(log'[c])
               /\ \A i \in Callers \ {j} : Asks(i)' => calls[i].value # calls[j].value
    <3>1. Asks(j) /\ j # k
      BY <2>4, <2>5
    <3>2. D # {} => calls[j].value # v
      BY <1>6, <1>8, <2>5, <3>1 DEF Inv, Once, v
    <3>3. \A c \in Chars : calls[j].value \notin ToSet(log[c])
      BY <2>5, <3>1 DEF Inv, Once
    <3>4. \A c \in Chars : calls[j].value \notin ToSet(log'[c])
      BY <1>9, <3>2, <3>3
    <3> QED
      BY <2>4, <2>5, <3>1, <3>4 DEF Inv, Once
  <2> QED
    BY <1>2, <2>2, <2>3, <2>5 DEF Inv, Once
<1>18. NoEvents'
  <2>1. \A j \in Callers : calls'[j].op = calls[j].op
    BY <1>3 DEF r, Same
  <2> QED
    BY <1>1, <1>2, <2>1 DEF Inv, NoEvents
<1>19. Follows'
  <2> SUFFICES ASSUME medium # "ble", NEW c \in Readable \ behind
               PROVE  view[c] = <<c, Last(log'[c])>> \/ Coming(c)'
    BY <1>2 DEF Follows
  <2>1. c \in Chars
    BY RequestsAssumption
  <2>2. CASE c \in D
    <3>1. op = "put" /\ c \in done /\ c \in ToSet(part) /\ op \in Data
      BY <1>8, <2>2 DEF Data
    <3>2. part = calls[k].ids /\ r.ids = calls[k].ids /\ r.op = op /\ r.value = v
      BY <1>3 DEF Piece, Same, v
    <3>3. a.kind = "empty" \/ (a.kind = "rows" /\ RowOf(part, a, c).status = "ok")
      <4>1. a.kind \in {"rows", "empty", "global"}
        BY <1>1 DEF Answer
      <4>2. CASE a.kind = "rows"
        <5>1. DOMAIN a.rows = DOMAIN part
          BY <1>1, <3>1, <4>2
        <5>2. PICK i \in DOMAIN part : part[i] = c /\ RowOf(part, a, c) = a.rows[i]
          BY <3>1, <5>1, RowIn
        <5> QED
          BY <1>1, <3>1, <4>2, <5>2
      <4>3. a.kind # "global"
        BY <1>1, <3>1
      <4> QED
        BY <4>1, <4>2, <4>3
    <3>4. c \in Wrote(r, a)
      BY <3>1, <3>2, <3>3 DEF Wrote
    <3>5. Brings(medium, r, log', a, c)
      BY <1>9, <2>1, <2>2, <3>1, <3>2, <3>4 DEF Brings
    <3>6. Len(wire) + 1 \in DOMAIN wire'
      BY <1>10
    <3> DEFINE i == Len(wire) + 1
    <3>7. wire'[i].kind = "answer" /\ wire'[i].caller = k /\ wire'[i].answer = a
      BY <1>7, <1>10
    <3>8. Brings(medium', calls'[wire'[i].caller], log', wire'[i].answer, c)
      BY <1>2, <3>5, <3>7 DEF r
    <3> HIDE DEF i
    <3> QED
      BY <3>6, <3>7, <3>8 DEF Coming, i
  <2>3. CASE c \notin D
    <3>1. log'[c] = log[c]
      BY <1>9, <2>1, <2>3
    <3>2. CASE Coming(c)
      <4>1. \A i \in DOMAIN wire : \E j \in DOMAIN wire' : wire'[j] = wire[i]
        BY <1>10
      <4>2. ready' = ready /\ medium' = medium
        BY <1>2
      <4>3. /\ \A i \in DOMAIN wire : wire[i].kind = "answer" =>
                 Same(calls[wire[i].caller], calls'[wire[i].caller])
            /\ \A i \in DOMAIN ready : Same(calls[ready[i].caller], calls'[ready[i].caller])
        BY <1>3, <1>12 DEF Same
      <4> QED
        BY <3>1, <3>2, <4>1, <4>2, <4>3, ComingStill
    <3> QED
      BY <3>1, <3>2 DEF Inv, Follows
  <2> QED
    BY <2>2, <2>3
<1> QED
  BY <1>11, <1>15, <1>16, <1>17, <1>18, <1>19 DEF Inv

LEMMA LinkLostKeeps == Inv /\ LinkLost => Inv'
<1> SUFFICES ASSUME Inv, LinkLost PROVE Inv'
  OBVIOUS
<1> DEFINE lost == ToSet(wire)
           events == {m.char : m \in {m \in lost : m.kind = "event"}}
           written(k) == IF calls[k].op = "put" /\ calls[k].pc = "handled"
                         THEN {c \in Chars : Last(log[c]) # view[c][2]} ELSE {}
<1>1. /\ wire' = <<>> /\ notifying' = {}
      /\ behind' = behind \cup events \cup UNION {written(k) : k \in Callers}
      /\ calls' = [k \in Callers |-> IF calls[k].pc = "ready" THEN calls[k] ELSE NoCall]
      /\ UNCHANGED <<medium, log, view, ready, values>>
  BY DEF LinkLost
<1> HIDE DEF lost, events, written
<1>2. IsCall(NoCall) /\ NoCall.read = {} /\ NoCall.pc = "idle" /\ NoCall.op = "none" /\ NoCall.value = 0
  BY DEF IsCall, NoCall, Data
<1>3. /\ DOMAIN calls' = Callers
      /\ \A k \in Callers : calls'[k] = calls[k] \/ calls'[k] = NoCall
      /\ \A k \in Callers : calls[k].pc = "ready" => calls'[k] = calls[k]
  BY <1>1
<1>4. Types'
  <2>1. wire' \in Seq(Message)
    BY <1>1
  <2> QED
    BY <1>1, <1>2, <1>3, <2>1 DEF Inv, Types
<1>5. /\ \A i \in DOMAIN ready : /\ ready[i].caller \in Callers
                                 /\ calls'[ready[i].caller] = calls[ready[i].caller]
      /\ \A i \in DOMAIN wire' : FALSE
  BY <1>1, <1>3, Receivers DEF Inv, Owned
<1>6. Owned'
  BY <1>1, <1>5 DEF Inv, Owned
<1>7. Held'
  BY <1>1, <1>2, <1>3, <1>5 DEF Inv, Held
<1>8. Once'
  <2>1. \A k \in Callers : Asks(k)' => Asks(k) /\ calls'[k] = calls[k]
    BY <1>2, <1>3 DEF Asks
  <2>2. values \in Nat /\ 0 <= values
    BY DEF Inv, Types
  <2>3. \A k \in Callers : calls'[k].value <= values
    BY <1>2, <1>3, <2>2 DEF Inv, Once
  <2> QED
    BY <1>1, <2>1, <2>3 DEF Inv, Once
<1>9. NoEvents'
  BY <1>1, <1>2, <1>3 DEF Inv, NoEvents
<1>10. Follows'
  <2> SUFFICES ASSUME medium # "ble", NEW c \in Readable \ behind'
               PROVE  view[c] = <<c, Last(log[c])>> \/ Coming(c)'
    BY <1>1 DEF Follows
  <2>1. /\ c \in Chars /\ c \notin behind /\ c \notin events
        /\ \A k \in Callers : c \notin written(k)
    BY <1>1, RequestsAssumption
  <2>2. CASE Coming(c)
    <3>1. ASSUME NEW i \in DOMAIN wire, wire[i].kind = "event" PROVE wire[i].char # c
      <4>1. wire[i] \in lost
        BY DEF lost, ToSet
      <4> QED
        BY <2>1, <3>1, <4>1 DEF events
    <3>2. ASSUME NEW i \in DOMAIN wire, wire[i].kind = "answer",
                 Brings(medium, calls[wire[i].caller], log, wire[i].answer, c)
          PROVE  view[c] = <<c, Last(log[c])>>
      <4> DEFINE k == wire[i].caller
      <4>1. k \in Callers /\ calls[k].op = "put" /\ calls[k].pc = "handled"
        BY <3>2, Receivers DEF Inv, Owned, Brings
      <4>2. view[c][2] = Last(log[c])
        BY <2>1, <4>1 DEF written
      <4>3. view[c] \in Had(log, c)
        BY <2>1 DEF Inv, Held
      <4> QED
        BY <4>2, <4>3 DEF Had
    <3>3. ASSUME NEW i \in DOMAIN ready,
                 Brings(medium, calls[ready[i].caller], log, ready[i].answer, c)
          PROVE  Coming(c)'
      <4>1. /\ ready' = ready
            /\ Brings(medium', calls'[ready'[i].caller], log', ready'[i].answer, c)
        BY <1>1, <1>5, <3>3
      <4> QED
        BY <4>1 DEF Coming
    <3> QED
      BY <2>2, <3>1, <3>2, <3>3 DEF Coming
  <2> QED
    BY <2>1, <2>2 DEF Inv, Follows
<1> QED
  BY <1>4, <1>6, <1>7, <1>8, <1>9, <1>10 DEF Inv

-----------------------------------------------------------------------------
(* What the listeners are told.                                              *)

LEMMA PositionIs ==
  ASSUME Inv, medium # "ble", NEW c \in Chars, NEW n \in ToSet(log[c])
  PROVE  IF n = Last(log[c]) THEN Position(c, n) = Len(log[c])
                             ELSE Position(c, n) \in Nat /\ Position(c, n) < Len(log[c])
<1> DEFINE q == log[c]
           at == {i \in DOMAIN q : q[i] = n}
<1>1. /\ q \in Seq(Nat) /\ q # <<>>
      /\ \A i, j \in DOMAIN q : q[i] = q[j] => i = j
  BY DEF Inv, Types, Once
<1>2. PICK i \in DOMAIN q : q[i] = n
  BY DEF ToSet
<1>3. Position(c, n) = IF at = {} THEN 0 ELSE CHOOSE j \in at : TRUE
  BY DEF Position
<1>4. Last(log[c]) = q[Len(q)]
  BY DEF Last
<1> HIDE DEF q
<1>5. at = {i}
  BY <1>1, <1>2
<1>6. Position(c, n) = i
  BY <1>3, <1>5
<1>7. Len(q) \in DOMAIN q /\ i \in 1..Len(q) /\ Len(q) \in Nat
  BY <1>1, <1>2
<1>8. n = q[Len(q)] <=> i = Len(q)
  BY <1>1, <1>2, <1>7
<1> QED
  BY <1>4, <1>6, <1>7, <1>8 DEF q

LEMMA Processed ==
  ASSUME Inv, NEW changes, NEW untold, ProcessChanges(changes, untold),
         DOMAIN changes \subseteq Chars,
         \A c \in DOMAIN changes : changes[c] \in Had(log, c)
  PROVE  /\ view' \in [Chars -> Chars \X Nat] /\ \A c \in Chars : view'[c] \in Had(log, c)
         /\ medium # "ble" => \A c \in Readable \ behind' :
              \/ view'[c] = <<c, Last(log[c])>>
              \/ /\ Coming(c)
                 /\ c \in DOMAIN changes => changes[c] # <<c, Last(log[c])>>
                 /\ c \notin DOMAIN changes => c \notin untold
<1>1. view' = [c \in Chars |-> IF c \in DOMAIN changes THEN changes[c] ELSE view[c]]
  BY DEF ProcessChanges
<1>2. \A c \in Chars : view'[c] = IF c \in DOMAIN changes THEN changes[c] ELSE view[c]
  BY <1>1
<1>3. \A c \in Chars : view[c] \in Had(log, c) /\ log[c] \in Seq(Nat)
  BY DEF Inv, Types, Held
<1>4. \A c \in Chars : view'[c] \in Had(log, c)
  BY <1>2, <1>3
<1>5. ASSUME NEW c \in Chars PROVE Had(log, c) \subseteq Chars \X Nat
  <2>1. ToSet(log[c]) \subseteq Nat
    BY <1>3 DEF ToSet
  <2> QED
    BY <2>1 DEF Had
<1>6. view' \in [Chars -> Chars \X Nat]
  <2>1. \A c \in Chars : (IF c \in DOMAIN changes THEN changes[c] ELSE view[c]) \in Chars \X Nat
    BY <1>3, <1>5
  <2> QED
    BY <1>1, <2>1
<1>7. ASSUME medium # "ble", NEW c \in Readable \ behind', view'[c] # <<c, Last(log[c])>>
      PROVE  /\ Coming(c)
             /\ c \in DOMAIN changes => changes[c] # <<c, Last(log[c])>>
             /\ c \notin DOMAIN changes => c \notin untold
  <2>1. c \in Chars
    BY RequestsAssumption
  <2>2. IF c \in DOMAIN changes
        THEN changes[c] # <<c, Last(log[c])>> =>
               c \notin behind /\ ~(Position(c, changes[c][2]) < Position(c, view[c][2]))
        ELSE c \notin behind \cup untold
    BY <1>7, <2>1 DEF ProcessChanges
  <2>3. CASE c \in DOMAIN changes
    <3>1. changes[c] # <<c, Last(log[c])>> /\ c \notin behind
      BY <1>2, <1>7, <2>1, <2>2, <2>3
    <3>2. PICK n \in ToSet(log[c]) : changes[c] = <<c, n>>
      BY <2>3 DEF Had
    <3>3. Position(c, n) \in Nat /\ Position(c, n) < Len(log[c])
      BY <1>7, <2>1, <3>1, <3>2, PositionIs
    <3>4. view[c] # <<c, Last(log[c])>>
      <4>1. SUFFICES ASSUME view[c] = <<c, Last(log[c])>> PROVE FALSE
        OBVIOUS
      <4>2. PICK m \in ToSet(log[c]) : view[c] = <<c, m>>
        BY <1>3, <2>1 DEF Had
      <4>3. m = Last(log[c]) /\ view[c][2] = m /\ changes[c][2] = n
        BY <3>2, <4>1, <4>2
      <4>4. Position(c, m) = Len(log[c])
        BY <1>7, <2>1, <4>3, PositionIs
      <4> QED
        BY <2>2, <2>3, <3>1, <3>3, <4>3, <4>4
    <3> QED
      BY <1>7, <2>3, <3>1, <3>4 DEF Inv, Follows
  <2>4. CASE c \notin DOMAIN changes
    BY <1>2, <1>7, <2>1, <2>2, <2>4 DEF Inv, Follows
  <2> QED
    BY <2>3, <2>4
<1> QED
  BY <1>4, <1>6, <1>7

LEMMA ArriveKeeps == Inv /\ Arrive => Inv'
<1> SUFFICES ASSUME Inv, Arrive PROVE Inv'
  OBVIOUS
<1>1. PICK i \in DOMAIN wire :
        /\ wire' = RemoveAt(wire, i)
        /\ IF wire[i].kind = "event"
           THEN /\ ProcessChanges([c \in {wire[i].char} |-> <<c, wire[i].value>>], {})
                /\ UNCHANGED <<calls, ready>>
           ELSE /\ ready' = Append(ready, [caller |-> wire[i].caller,
                                           answer |-> wire[i].answer])
                /\ calls' = [calls EXCEPT ![wire[i].caller].pc = "ready"]
                /\ UNCHANGED <<view, behind>>
  BY DEF Arrive
<1>2. UNCHANGED <<medium, log, notifying, values>> /\ Types
  BY DEF Arrive, Inv
<1>3. /\ wire' \in Seq(Message)
      /\ \A j \in DOMAIN wire' : /\ wire'[j] = wire[After(i, j)]
                                 /\ After(i, j) \in DOMAIN wire \ {i}
      /\ \A j, k \in DOMAIN wire' : After(i, j) = After(i, k) => j = k
      /\ \A k \in DOMAIN wire \ {i} : \E j \in DOMAIN wire' : wire'[j] = wire[k]
  <2>1. wire \in Seq(Message)
    BY <1>2 DEF Types
  <2> QED
    BY <1>1, <2>1, Removed
<1>4. /\ wire[i] \in Message /\ wire[i].kind \in {"event", "answer"}
      /\ \A j \in DOMAIN wire' : wire'[j].kind = "event" =>
           <<wire'[j].char, wire'[j].value>> \in Had(log, wire'[j].char)
  <2>1. wire[i] \in Message
    BY <1>2, Receivers
  <2> QED
    BY <1>3, <2>1 DEF Message, Event, Inv, Held
<1>5. CASE wire[i].kind = "event"
  <2> DEFINE d == wire[i].char
             changes == [c \in {d} |-> <<c, wire[i].value>>]
  <2>1. ProcessChanges(changes, {}) /\ calls' = calls /\ ready' = ready
    BY <1>1, <1>5
  <2>2. DOMAIN changes = {d} /\ changes[d] = <<d, wire[i].value>> /\ d \in Chars
    BY <1>2, <1>5, Receivers
  <2> HIDE DEF changes
  <2>3. DOMAIN changes \subseteq Chars /\ \A c \in DOMAIN changes : changes[c] \in Had(log, c)
    BY <1>5, <2>2 DEF Inv, Held
  <2>4. /\ view' \in [Chars -> Chars \X Nat] /\ \A c \in Chars : view'[c] \in Had(log, c)
        /\ medium # "ble" => \A c \in Readable \ behind' :
             \/ view'[c] = <<c, Last(log[c])>>
             \/ /\ Coming(c)
                /\ c \in DOMAIN changes => changes[c] # <<c, Last(log[c])>>
                /\ c \notin DOMAIN changes => c \notin {}
    BY <2>1, <2>3, Processed
  <2>5. Types'
    BY <1>2, <1>3, <2>1, <2>4 DEF Types
  <2>6. Owned'
    <3>1. ASSUME NEW j \in DOMAIN wire', wire'[j].kind = "answer"
          PROVE  /\ calls'[wire'[j].caller].pc = "handled"
                 /\ Fits(medium, calls'[wire'[j].caller], log, wire'[j].answer)
      BY <1>3, <2>1, <3>1 DEF Inv, Owned
    <3>2. ASSUME NEW j \in DOMAIN wire', wire'[j].kind = "answer",
                 NEW l \in DOMAIN wire', wire'[l].kind = "answer",
                 wire'[l].caller = wire'[j].caller
          PROVE  l = j
      <4>1. After(i, l) = After(i, j)
        BY <1>3, <3>2 DEF Inv, Owned
      <4> QED
        BY <1>3, <4>1
    <3> QED
      BY <1>2, <2>1, <3>1, <3>2 DEF Inv, Owned
  <2>7. Held'
    BY <1>2, <1>4, <2>1, <2>4 DEF Inv, Held, Had
  <2>8. Once' /\ NoEvents'
    BY <1>2, <2>1 DEF Inv, Once, Asks, NoEvents
  <2>9. Follows'
    <3> SUFFICES ASSUME medium # "ble", NEW c \in Readable \ behind',
                        Coming(c), c \in DOMAIN changes => changes[c] # <<c, Last(log[c])>>
                 PROVE  Coming(c)'
      BY <1>2, <2>4 DEF Follows
    <3>1. medium' = medium /\ log'[c] = log[c]
      BY <1>2
    <3>2. ASSUME NEW j \in DOMAIN wire, wire[j].kind = "event", wire[j].char = c,
                 wire[j].value = Last(log[c])
          PROVE  \E l \in DOMAIN wire' : wire'[l] = wire[j]
      <4>1. j # i
        BY <2>2, <3>2
      <4> QED
        BY <1>3, <4>1
    <3>3. ASSUME NEW j \in DOMAIN wire, wire[j].kind = "answer"
          PROVE  /\ Same(calls[wire[j].caller], calls'[wire[j].caller])
                 /\ \E l \in DOMAIN wire' : wire'[l] = wire[j]
      BY <1>3, <1>5, <2>1, <3>3 DEF Same
    <3>4. \A j \in DOMAIN ready : /\ Same(calls[ready[j].caller], calls'[ready[j].caller])
                                  /\ \E l \in DOMAIN ready' : ready'[l] = ready[j]
      BY <2>1 DEF Same
    <3> QED
      BY <3>1, <3>2, <3>3, <3>4, ComingStill
  <2> QED
    BY <2>5, <2>6, <2>7, <2>8, <2>9 DEF Inv
<1>6. CASE wire[i].kind = "answer"
  <2> DEFINE k == wire[i].caller
             n == [caller |-> k, answer |-> wire[i].answer]
  <2>1. /\ ready' = Append(ready, n) /\ calls' = [calls EXCEPT ![k].pc = "ready"]
        /\ UNCHANGED <<view, behind>>
    BY <1>1, <1>6
  <2>2. k \in Callers /\ IsCall(calls[k]) /\ calls[k].pc = "handled"
    BY <1>2, <1>6, Receivers DEF Inv, Owned
  <2>3. /\ DOMAIN calls' = Callers /\ \A j \in Callers \ {k} : calls'[j] = calls[j]
        /\ IsCall(calls'[k]) /\ Same(calls[k], calls'[k]) /\ calls'[k].pc = "ready"
        /\ calls'[k].read = calls[k].read
    BY <1>2, <2>1, <2>2 DEF Types, IsCall, Same
  <2>4. n \in Arrived /\ n.caller = k /\ n.answer = wire[i].answer
    <3>1. wire[i].answer \in Answer
      BY <1>4, <1>6 DEF Message, Event
    <3> QED
      BY <2>2, <3>1 DEF Arrived
  <2> HIDE DEF n
  <2>5. /\ ready' \in Seq(Arrived) /\ Len(ready) \in Nat
        /\ DOMAIN ready = 1..Len(ready) /\ DOMAIN ready' = 1..Len(ready) + 1
        /\ \A j \in 1..Len(ready) : ready'[j] = ready[j]
        /\ ready'[Len(ready) + 1] = n
    <3>1. ready \in Seq(Arrived)
      BY <1>2 DEF Types
    <3> QED
      BY <2>1, <2>4, <3>1, Appended
  <2>6. \A j \in DOMAIN ready' : \/ j \in DOMAIN ready /\ ready'[j] = ready[j]
                                 \/ j = Len(ready) + 1 /\ ready'[j] = n
    BY <2>5
  <2>7. /\ \A j \in DOMAIN wire' : wire'[j].kind = "answer" =>
             wire'[j].caller \in Callers \ {k}
        /\ \A j \in DOMAIN ready : ready[j].caller \in Callers \ {k}
    <3>1. ASSUME NEW j \in DOMAIN wire', wire'[j].kind = "answer"
          PROVE  wire'[j].caller \in Callers \ {k}
      <4>1. PICK l \in DOMAIN wire \ {i} : wire'[j] = wire[l]
        BY <1>3
      <4> QED
        BY <1>2, <1>6, <3>1, <4>1, Receivers DEF Inv, Owned
    <3>2. \A j \in DOMAIN ready : ready[j].caller \in Callers \ {k}
      BY <1>2, <2>2, Receivers DEF Inv, Owned
    <3> QED
      BY <3>1, <3>2
  <2>8. Types'
    BY <1>2, <1>3, <2>1, <2>3, <2>5 DEF Types
  <2>9. Fits(medium, calls'[k], log, wire[i].answer)
    <3>1. Fits(medium, calls[k], log, wire[i].answer)
      BY <1>6 DEF Inv, Owned
    <3> QED
      BY <2>2, <2>3, <3>1, FitsStill
  <2>10. Owned'
    <3> HIDE DEF k
    <3>1. ASSUME NEW j \in DOMAIN wire', wire'[j].kind = "answer"
          PROVE  /\ calls'[wire'[j].caller].pc = "handled"
                 /\ Fits(medium, calls'[wire'[j].caller], log, wire'[j].answer)
      BY <1>3, <2>3, <2>7, <3>1 DEF Inv, Owned
    <3>4. ASSUME NEW j \in DOMAIN wire', wire'[j].kind = "answer",
                 NEW l \in DOMAIN wire', wire'[l].kind = "answer",
                 wire'[l].caller = wire'[j].caller
          PROVE  l = j
      <4>1. After(i, l) = After(i, j)
        BY <1>3, <3>4 DEF Inv, Owned
      <4> QED
        BY <1>3, <4>1
    <3>2. ASSUME NEW j \in DOMAIN ready'
          PROVE  /\ calls'[ready'[j].caller].pc = "ready"
                 /\ Fits(medium, calls'[ready'[j].caller], log, ready'[j].answer)
      BY <2>3, <2>4, <2>6, <2>7, <2>9 DEF Inv, Owned
    <3>3. ASSUME NEW j \in DOMAIN ready', NEW l \in DOMAIN ready',
                 ready'[l].caller = ready'[j].caller
          PROVE  l = j
      BY <2>4, <2>6, <2>7, <3>3 DEF Inv, Owned
    <3> QED
      BY <1>2, <3>1, <3>2, <3>3, <3>4 DEF Owned
  <2>11. Held'
    <3>1. \A j \in Callers : calls'[j].read = calls[j].read
      BY <2>3
    <3> QED
      BY <1>2, <1>4, <2>1, <3>1 DEF Inv, Held, Had
  <2>12. Once' /\ NoEvents'
    <3>1. \A j \in Callers : /\ calls'[j].value = calls[j].value /\ calls'[j].op = calls[j].op
                             /\ Asks(j)' => Asks(j)
      BY <2>3 DEF Same, Asks
    <3> QED
      BY <1>2, <3>1 DEF Inv, Once, NoEvents
  <2>13. Follows'
    <3> SUFFICES ASSUME medium # "ble", NEW c \in Readable \ behind, Coming(c)
                 PROVE  Coming(c)'
      BY <1>2, <2>1 DEF Inv, Follows
    <3>1. medium' = medium /\ log'[c] = log[c]
      BY <1>2
    <3>2. \A j \in Callers : Same(calls[j], calls'[j])
      BY <2>3 DEF Same
    <3>3. \A j \in DOMAIN wire : wire[j].kind = "event" =>
            \E l \in DOMAIN wire' : wire'[l] = wire[j]
      BY <1>3, <1>6
    <3>4. ASSUME NEW j \in DOMAIN wire, wire[j].kind = "answer"
          PROVE  /\ Same(calls[wire[j].caller], calls'[wire[j].caller])
                 /\ \/ \E l \in DOMAIN wire' : wire'[l] = wire[j]
                    \/ \E l \in DOMAIN ready' : /\ ready'[l].caller = wire[j].caller
                                                /\ ready'[l].answer = wire[j].answer
      <4>1. Same(calls[wire[j].caller], calls'[wire[j].caller])
        BY <1>2, <3>2, <3>4, Receivers
      <4>2. CASE j # i
        BY <1>3, <4>1, <4>2
      <4>3. CASE j = i
        <5>1. Len(ready) + 1 \in DOMAIN ready'
          BY <2>5
        <5> QED
          BY <2>4, <2>5, <4>1, <4>3, <5>1
      <4> QED
        BY <4>2, <4>3
    <3>5. \A j \in DOMAIN ready : /\ Same(calls[ready[j].caller], calls'[ready[j].caller])
                                  /\ \E l \in DOMAIN ready' : ready'[l] = ready[j]
      BY <2>5, <2>7, <3>2
    <3> QED
      BY <3>1, <3>3, <3>4, <3>5, ComingStill
  <2> QED
    BY <2>8, <2>10, <2>11, <2>12, <2>13 DEF Inv
<1> QED
  BY <1>4, <1>5, <1>6

LEMMA TailOf ==
  ASSUME NEW S, NEW q \in Seq(S), q # <<>>
  PROVE  /\ Tail(q) \in Seq(S) /\ 1 \in DOMAIN q /\ Head(q) = q[1]
         /\ \A i \in DOMAIN Tail(q) : i + 1 \in DOMAIN q /\ i + 1 # 1 /\ i \in Nat
                                      /\ Tail(q)[i] = q[i + 1]
         /\ \A i \in DOMAIN q : i # 1 => \E j \in DOMAIN Tail(q) : Tail(q)[j] = q[i]
<1>1. /\ Tail(q) \in Seq(S) /\ 1 \in DOMAIN q /\ Head(q) = q[1] /\ Len(q) \in Nat
      /\ DOMAIN q = 1..Len(q) /\ DOMAIN Tail(q) = 1..Len(q) - 1
      /\ \A i \in 1..Len(q) - 1 : Tail(q)[i] = q[i + 1]
  OBVIOUS
<1>2. ASSUME NEW i \in DOMAIN q, i # 1 PROVE \E j \in DOMAIN Tail(q) : Tail(q)[j] = q[i]
  <2>1. i - 1 \in 1..Len(q) - 1 /\ (i - 1) + 1 = i
    BY <1>1, <1>2
  <2> QED
    BY <1>1, <2>1
<1>3. ASSUME NEW i \in DOMAIN Tail(q) PROVE i + 1 \in DOMAIN q /\ i + 1 # 1 /\ i \in Nat
  BY <1>1
<1> QED
  BY <1>1, <1>2, <1>3

(* The call whose answer was received first goes on, with r.                 *)
LEMMA ResumedKeeps ==
  ASSUME Inv, ready # <<>>, ready' = Tail(ready), NEW k, NEW a,
         k = Head(ready).caller, a = Head(ready).answer,
         DOMAIN calls' = Callers, \A j \in Callers \ {k} : calls'[j] = calls[j],
         IsCall(calls'[k]), calls'[k].op \in {calls[k].op, "none"}, calls'[k].value <= values,
         \A v \in calls'[k].read : \E c \in Chars : v \in Had(log, c),
         medium # "ble" => calls'[k].op = "none",
         UNCHANGED <<medium, log, notifying, wire, values>>,
         view' \in [Chars -> Chars \X Nat], \A c \in Chars : view'[c] \in Had(log, c),
         medium # "ble" => \A c \in Readable \ behind' :
           \/ view'[c] = <<c, Last(log[c])>>
           \/ Coming(c) /\ ~Brings(medium, calls[k], log, a, c)
  PROVE  Inv'
<1>1. ready \in Seq(Arrived) /\ Types
  BY DEF Inv, Types
<1>2. /\ ready' \in Seq(Arrived) /\ 1 \in DOMAIN ready /\ k = ready[1].caller /\ a = ready[1].answer
      /\ \A i \in DOMAIN ready' : i + 1 \in DOMAIN ready /\ i + 1 # 1 /\ i \in Nat
                                  /\ ready'[i] = ready[i + 1]
      /\ \A i \in DOMAIN ready : i # 1 => \E j \in DOMAIN ready' : ready'[j] = ready[i]
  BY <1>1, TailOf
<1>3. k \in Callers /\ calls[k].pc = "ready"
  BY <1>1, <1>2, Receivers DEF Inv, Owned
<1>4. /\ \A i \in DOMAIN wire : wire[i].kind = "answer" => wire[i].caller \in Callers \ {k}
      /\ \A i \in DOMAIN ready : i # 1 => ready[i].caller \in Callers \ {k}
  <2>1. ASSUME NEW i \in DOMAIN wire, wire[i].kind = "answer"
        PROVE  wire[i].caller \in Callers \ {k}
    BY <1>1, <1>3, <2>1, Receivers DEF Inv, Owned
  <2>2. ASSUME NEW i \in DOMAIN ready, i # 1 PROVE ready[i].caller \in Callers \ {k}
    BY <1>1, <1>2, <2>2, Receivers DEF Inv, Owned
  <2> QED
    BY <2>1, <2>2
<1>5. \A i \in DOMAIN ready' : ready'[i].caller \in Callers \ {k}
  BY <1>2, <1>4
<1>6. Types'
  <2>1. \A j \in Callers : IsCall(calls'[j])
    BY <1>1 DEF Types
  <2> QED
    BY <1>1, <1>2, <2>1 DEF Types
<1>7. Owned'
  <2>1. ASSUME NEW i \in DOMAIN ready'
        PROVE  /\ calls'[ready'[i].caller].pc = "ready"
               /\ Fits(medium, calls'[ready'[i].caller], log, ready'[i].answer)
    <3>1. calls'[ready'[i].caller] = calls[ready'[i].caller]
      BY <1>5
    <3>2. PICK l \in DOMAIN ready : ready'[i] = ready[l]
      BY <1>2
    <3>3. calls[ready[l].caller].pc = "ready" /\ Fits(medium, calls[ready[l].caller], log, ready[l].answer)
      BY DEF Inv, Owned
    <3> QED
      BY <3>1, <3>2, <3>3
  <2>2. ASSUME NEW i \in DOMAIN ready', NEW j \in DOMAIN ready',
               ready'[j].caller = ready'[i].caller
        PROVE  j = i
    <3>1. j + 1 = i + 1
      BY <1>2, <2>2 DEF Inv, Owned
    <3> QED
      BY <1>2, <3>1
  <2>3. ASSUME NEW i \in DOMAIN wire, wire[i].kind = "answer"
        PROVE  /\ calls'[wire[i].caller].pc = "handled"
               /\ Fits(medium, calls'[wire[i].caller], log, wire[i].answer)
    BY <1>4, <2>3 DEF Inv, Owned
  <2> QED
    BY <2>1, <2>2, <2>3 DEF Inv, Owned
<1>8. Held'
  BY DEF Inv, Held, Had
<1>9. Once'
  <2>1. medium # "ble" => \A j \in Callers : Asks(j)' => j # k /\ Asks(j)
    BY DEF Asks
  <2>2. \A j \in Callers : calls'[j].value <= values
    BY DEF Inv, Once
  <2> QED
    BY <2>1, <2>2 DEF Inv, Once
<1>10. NoEvents'
  BY DEF Inv, NoEvents
<1>11. Follows'
  <2> SUFFICES ASSUME medium # "ble", NEW c \in Readable \ behind', Coming(c),
                      ~Brings(medium, calls[k], log, a, c)
               PROVE  Coming(c)'
    BY DEF Follows
  <2>1. medium' = medium /\ log'[c] = log[c] /\ wire' = wire
    OBVIOUS
  <2>2. ASSUME NEW i \in DOMAIN wire, wire[i].kind = "answer"
        PROVE  Same(calls[wire[i].caller], calls'[wire[i].caller])
    BY <1>4, <2>2 DEF Same
  <2>3. ASSUME NEW i \in DOMAIN ready,
               Brings(medium, calls[ready[i].caller], log, ready[i].answer, c)
        PROVE  /\ Same(calls[ready[i].caller], calls'[ready[i].caller])
               /\ \E j \in DOMAIN ready' : ready'[j] = ready[i]
    <3>1. i # 1
      BY <1>2, <2>3
    <3> QED
      BY <1>2, <1>4, <3>1 DEF Same
  <2> QED
    BY <2>1, <2>2, <2>3, ComingStill
<1> QED
  BY <1>6, <1>7, <1>8, <1>9, <1>10, <1>11 DEF Inv

LEMMA DoneIs ==
  ASSUME NEW k \in Callers, DOMAIN calls = Callers, Done(k), values \in Nat
  PROVE  /\ DOMAIN calls' = Callers /\ \A j \in Callers \ {k} : calls'[j] = calls[j]
         /\ IsCall(calls'[k]) /\ calls'[k].op = "none" /\ calls'[k].value <= values
         /\ calls'[k].read = {}
<1>1. /\ IsCall(NoCall) /\ NoCall.op = "none" /\ NoCall.value = 0 /\ NoCall.read = {}
  BY DEF IsCall, NoCall, Data
<1>2. /\ DOMAIN calls' = Callers /\ calls'[k] = NoCall
      /\ \A j \in Callers \ {k} : calls'[j] = calls[j]
  BY DEF Done
<1> QED
  BY <1>1, <1>2

LEMMA GoOnIs ==
  ASSUME NEW k \in Callers, DOMAIN calls = Callers, NEW read, GoOn(k, read),
         IsCall(calls[k]), calls[k].op \in Data, Len(calls[k].ids) # 1
  PROVE  /\ DOMAIN calls' = Callers /\ \A j \in Callers \ {k} : calls'[j] = calls[j]
         /\ IsCall(calls'[k]) /\ calls'[k].op = calls[k].op /\ calls'[k].value = calls[k].value
         /\ calls'[k].read = read
<1>1. PICK x : x = calls[k]
  OBVIOUS
<1>2. IsCall(x) /\ x.op \in Data /\ Len(x.ids) # 1
  BY <1>1
<1> DEFINE r == [x EXCEPT !.ids = Tail(@), !.pc = "asked", !.read = read]
<1>3. DOMAIN calls' = Callers /\ calls'[k] = r /\ \A j \in Callers \ {k} : calls'[j] = calls[j]
  BY <1>1 DEF GoOn
<1>4. DOMAIN x = {"op", "pc", "ids", "value", "read"}
  BY <1>2 DEF IsCall
<1>5. /\ DOMAIN r = {"op", "pc", "ids", "value", "read"}
      /\ r.op = x.op /\ r.value = x.value /\ r.pc = "asked" /\ r.read = read /\ r.ids = Tail(x.ids)
  BY <1>4
<1>6. Tail(x.ids) \in Seq(Chars) /\ Tail(x.ids) # <<>>
  <2>1. PICK q : q = x.ids
    OBVIOUS
  <2>2. q \in Seq(Chars) /\ q # <<>> /\ Len(q) # 1
    BY <1>2, <2>1 DEF IsCall
  <2>3. Len(q) \in Nat /\ Len(q) # 0
    BY <2>2
  <2>4. Tail(q) \in Seq(Chars) /\ Len(Tail(q)) = Len(q) - 1
    BY <2>2
  <2>5. Len(Tail(q)) # 0
    BY <2>2, <2>3, <2>4
  <2> QED
    BY <2>1, <2>4, <2>5
<1> HIDE DEF r
<1>7. IsCall(r)
  BY <1>2, <1>5, <1>6 DEF IsCall
<1> QED
  BY <1>1, <1>3, <1>5, <1>7

(* What the answer to a read or to a write says is so.                       *)
LEMMA OkRows ==
  ASSUME NEW call, NEW l, NEW a, IsCall(call), call.op \in Data, Fits(medium, call, l, a),
         NEW c \in ToSet(Part(call)), Rows(call, a)[c].status = "ok"
  PROVE  /\ c \in Chars /\ a.kind \in {"rows", "empty"}
         /\ call.op = "get" => Rows(call, a)[c].value \in Had(l, c)
         /\ call.op = "put" => <<c, call.value>> \in Had(l, c)
<1> DEFINE part == Piece(medium, call)
<1>1. /\ part = Part(call) /\ c \in ToSet(part)
      /\ Rows(call, a)[c] = IF a.kind = "rows" THEN RowOf(part, a, c)
                            ELSE [status |-> IF a.kind = "empty" THEN "ok" ELSE "error",
                                  value |-> <<c, 0>>]
  BY RowsAre
<1>2. c \in Chars
  BY <1>1, PieceOf
<1>3. CASE a.kind = "rows"
  <2>1. /\ DOMAIN a.rows = DOMAIN part
        /\ \A i \in DOMAIN part : a.rows[i].status = "ok" =>
             /\ call.op = "get" => a.rows[i].value \in Had(l, part[i])
             /\ call.op = "put" => <<part[i], call.value>> \in Had(l, part[i])
    BY <1>3 DEF Fits
  <2>2. c \in ToSet(part)
    BY <1>1
  <2> HIDE DEF part
  <2>3. DOMAIN a.rows = DOMAIN part
    BY <2>1
  <2>4. PICK i \in DOMAIN part : part[i] = c /\ RowOf(part, a, c) = a.rows[i]
    BY <2>2, <2>3, RowIn
  <2> QED
    BY <1>1, <1>2, <1>3, <2>1, <2>4
<1>4. CASE a.kind = "empty"
  BY <1>1, <1>2, <1>4 DEF Fits
<1>5. a.kind \in {"rows", "empty"}
  BY <1>1
<1> QED
  BY <1>3, <1>4, <1>5

LEMMA ResumeKeeps == Inv /\ ResumeCall => Inv'
<1> SUFFICES ASSUME Inv, ResumeCall PROVE Inv'
  OBVIOUS
<1> DEFINE k == Head(ready).caller
           a == Head(ready).answer
           call == calls[k]
           rows == Rows(call, a)
<1>1. /\ ready # <<>> /\ ready' = Tail(ready)
      /\ UNCHANGED <<medium, log, notifying, wire, values>>
      /\ CASE call.op = "get" -> ResumeGet(k, a)
           [] call.op = "put" -> ResumePut(k, a)
           [] OTHER -> ResumeSubscriptions(k, a)
  BY DEF ResumeCall
<1>2. /\ k \in Callers /\ IsCall(call) /\ DOMAIN calls = Callers
      /\ Fits(medium, call, log, a) /\ values \in Nat /\ Types
  <2>1. Types /\ ready \in Seq(Arrived)
    BY DEF Inv, Types
  <2>2. 1 \in DOMAIN ready /\ Head(ready) = ready[1]
    BY <1>1, <2>1, TailOf
  <2> QED
    BY <2>1, <2>2, Receivers DEF Inv, Owned, Types
<1>3. /\ view \in [Chars -> Chars \X Nat] /\ \A c \in Chars : view[c] \in Had(log, c)
      /\ call.value <= values
      /\ \A v \in call.read : \E c \in Chars : v \in Had(log, c)
      /\ medium # "ble" => \A c \in Readable \ behind :
           view[c] = <<c, Last(log[c])>> \/ Coming(c)
  BY <1>2 DEF Inv, Types, Held, Once, Follows
<1>4. DOMAIN rows = ToSet(Part(call))
  BY RowsAre
<1> HIDE DEF k, a, call, rows
<1>5. ASSUME call.op = "get", ResumeGet(k, a) PROVE Inv'
  <2> DEFINE read == call.read \cup {rows[c].value : c \in {d \in DOMAIN rows : rows[d].status = "ok"}}
             changes == [c \in {v[1] : v \in read} |-> CHOOSE v \in read : v[1] = c]
  <2>1. IF Finished(call) THEN Done(k) /\ ProcessChanges(changes, {})
                          ELSE GoOn(k, read) /\ UNCHANGED <<view, behind>>
    BY <1>5 DEF ResumeGet, call, rows
  <2>2. \A v \in read : \E c \in Chars : v \in Had(log, c)
    <3>1. ASSUME NEW c \in DOMAIN rows, rows[c].status = "ok"
          PROVE  c \in Chars /\ rows[c].value \in Had(log, c)
      BY <1>2, <1>4, <1>5, <3>1, OkRows DEF Data, rows
    <3> QED
      BY <1>3, <3>1
  <2> HIDE DEF read
  <2>3. /\ DOMAIN changes \subseteq Chars
        /\ \A c \in DOMAIN changes : changes[c] \in Had(log, c)
    <3>1. \A v \in read : v[1] \in Chars /\ v \in Had(log, v[1])
      BY <2>2 DEF Had
    <3>2. \A c \in DOMAIN changes : changes[c] \in read /\ changes[c][1] = c
      OBVIOUS
    <3>3. DOMAIN changes = {v[1] : v \in read}
      OBVIOUS
    <3> HIDE DEF changes
    <3> QED
      BY <3>1, <3>2, <3>3
  <2> HIDE DEF changes
  <2>4. CASE Finished(call)
    <3>1. ProcessChanges(changes, {})
      BY <2>1, <2>4
    <3>2. /\ view' \in [Chars -> Chars \X Nat] /\ \A c \in Chars : view'[c] \in Had(log, c)
          /\ medium # "ble" => \A c \in Readable \ behind' :
               view'[c] = <<c, Last(log[c])>> \/ Coming(c)
      BY <2>3, <3>1, Processed
    <3>3. \A c \in Readable : ~Brings(medium, call, log, a, c)
      BY <1>5 DEF Brings
    <3>4. /\ DOMAIN calls' = Callers /\ \A j \in Callers \ {k} : calls'[j] = calls[j]
          /\ IsCall(calls'[k]) /\ calls'[k].op = "none" /\ calls'[k].value <= values
          /\ calls'[k].read = {}
      BY <1>2, <2>1, <2>4, DoneIs
    <3> QED
      BY <1>1, <3>2, <3>3, <3>4, ResumedKeeps DEF k, a, call
  <2>5. CASE ~Finished(call)
    <3>1. medium = "ble" /\ Len(call.ids) # 1
      BY <2>5 DEF Finished
    <3>2. /\ DOMAIN calls' = Callers /\ \A j \in Callers \ {k} : calls'[j] = calls[j]
          /\ IsCall(calls'[k]) /\ calls'[k].op = call.op /\ calls'[k].value = call.value
          /\ calls'[k].read = read
      BY <1>2, <1>5, <2>1, <2>5, <3>1, GoOnIs DEF call, Data
    <3>3. view' = view /\ behind' = behind
      BY <2>1, <2>5
    <3> QED
      BY <1>1, <1>3, <2>2, <3>1, <3>2, <3>3, ResumedKeeps DEF k, a, call
  <2> QED
    BY <2>4, <2>5
<1>6. ASSUME call.op = "put", ResumePut(k, a) PROVE Inv'
  <2> DEFINE told == Told(call, a)
             written == {c \in DOMAIN rows : rows[c].status = "ok"}
             changes == [c \in told |-> <<c, call.value>>]
             untold == written \ told
  <2>1. /\ ProcessChanges(changes, untold)
        /\ IF Finished(call) \/ DOMAIN rows # written THEN Done(k) ELSE GoOn(k, {})
    BY <1>6 DEF ResumePut, call, rows
  <2>2. \A c \in written : c \in Chars /\ <<c, call.value>> \in Had(log, c)
    BY <1>2, <1>4, <1>6, OkRows DEF Data, rows
  <2>3. told \subseteq written
    <3>1. ASSUME NEW c \in told PROVE c \in DOMAIN rows /\ rows[c].status = "ok"
      <4>1. /\ c \in ToSet(Part(call))
            /\ a.kind = "empty" \/ Rows(call, a)[c].status = "ok"
        BY DEF Told
      <4>2. ASSUME a.kind = "empty" PROVE Rows(call, a)[c].status = "ok"
        <5>1. Rows(call, a)[c] =
                IF a.kind = "rows" THEN RowOf(Part(call), a, c)
                ELSE [status |-> IF a.kind = "empty" THEN "ok" ELSE "error", value |-> <<c, 0>>]
          BY <4>1, RowsAre
        <5> QED
          BY <4>2, <5>1
      <4> QED
        BY <1>4, <4>1, <4>2 DEF rows
    <3> QED
      BY <3>1
  <2>4. DOMAIN changes = told /\ \A c \in told : changes[c] = <<c, call.value>>
    OBVIOUS
  <2> HIDE DEF changes
  <2>5. medium # "ble" => /\ \A c : c \in Wrote(call, a) <=> c \in written
                          /\ \A c : c \in Tells(medium, call, a) <=> c \in told
    <3> SUFFICES ASSUME medium # "ble" PROVE /\ Wrote(call, a) = written
                                             /\ Tells(medium, call, a) = told
      OBVIOUS
    <3>1. Part(call) = call.ids
      BY DEF Part
    <3>2. \A c \in ToSet(call.ids) :
            rows[c] = IF a.kind = "rows" THEN RowOf(call.ids, a, c)
                      ELSE [status |-> IF a.kind = "empty" THEN "ok" ELSE "error",
                            value |-> <<c, 0>>]
      BY <3>1, RowsAre DEF rows
    <3>3. Wrote(call, a) = written
      BY <1>4, <3>1, <3>2 DEF Wrote
    <3>4. Tells(medium, call, a) = told
      BY <1>4, <3>1, <3>3 DEF Tells, Told, rows
    <3> QED
      BY <3>3, <3>4
  <2> HIDE DEF told, written, untold
  <2>6. /\ view' \in [Chars -> Chars \X Nat] /\ \A c \in Chars : view'[c] \in Had(log, c)
        /\ medium # "ble" => \A c \in Readable \ behind' :
             \/ view'[c] = <<c, Last(log[c])>>
             \/ /\ Coming(c)
                /\ c \in DOMAIN changes => changes[c] # <<c, Last(log[c])>>
                /\ c \notin DOMAIN changes => c \notin untold
    <3>1. DOMAIN changes \subseteq Chars /\ \A c \in DOMAIN changes : changes[c] \in Had(log, c)
      BY <2>2, <2>3, <2>4
    <3> QED
      BY <2>1, <3>1, Processed
  <2>7. medium # "ble" => \A c \in Readable \ behind' :
          \/ view'[c] = <<c, Last(log[c])>>
          \/ Coming(c) /\ ~Brings(medium, call, log, a, c)
    <3> SUFFICES ASSUME medium # "ble", NEW c, Brings(medium, call, log, a, c),
                        c \in DOMAIN changes => changes[c] # <<c, Last(log[c])>>,
                        c \notin DOMAIN changes => c \notin untold
                 PROVE  FALSE
      BY <2>6
    <3>1. c \in written /\ (c \in told => call.value = Last(log[c]))
      BY <2>5 DEF Brings
    <3> QED
      BY <2>4, <3>1 DEF untold
  <2>8. /\ DOMAIN calls' = Callers /\ \A j \in Callers \ {k} : calls'[j] = calls[j]
        /\ IsCall(calls'[k]) /\ calls'[k].op \in {call.op, "none"} /\ calls'[k].value <= values
        /\ calls'[k].read = {} /\ (medium # "ble" => calls'[k].op = "none")
    <3>1. CASE Done(k)
      BY <1>2, <3>1, DoneIs
    <3>2. CASE GoOn(k, {}) /\ ~Finished(call)
      <4>1. medium = "ble" /\ Len(call.ids) # 1
        BY <3>2 DEF Finished
      <4>2. /\ DOMAIN calls' = Callers /\ \A j \in Callers \ {k} : calls'[j] = calls[j]
            /\ IsCall(calls'[k]) /\ calls'[k].op = call.op /\ calls'[k].value = call.value
            /\ calls'[k].read = {}
        BY <1>2, <1>6, <3>2, <4>1, GoOnIs DEF call, Data
      <4> QED
        BY <1>3, <4>1, <4>2
    <3> QED
      BY <2>1, <3>1, <3>2
  <2> QED
    BY <1>1, <2>6, <2>7, <2>8, ResumedKeeps DEF k, a, call
<1>7. ASSUME call.op \notin Data, ResumeSubscriptions(k, a) PROVE Inv'
  <2>1. Done(k) /\ view' = view /\ behind' = behind
    BY <1>7 DEF ResumeSubscriptions
  <2>2. /\ DOMAIN calls' = Callers /\ \A j \in Callers \ {k} : calls'[j] = calls[j]
        /\ IsCall(calls'[k]) /\ calls'[k].op = "none" /\ calls'[k].value <= values
        /\ calls'[k].read = {}
    BY <1>2, <2>1, DoneIs
  <2>3. \A c \in Readable : ~Brings(medium, call, log, a, c)
    BY <1>7 DEF Brings, Data
  <2> QED
    BY <1>1, <1>3, <2>1, <2>2, <2>3, ResumedKeeps DEF k, a, call
<1> QED
  BY <1>1, <1>5, <1>6, <1>7 DEF Data

-----------------------------------------------------------------------------
(* The whole.                                                                *)

LEMMA InitInv == RequestsInit => Inv
<1> SUFFICES ASSUME RequestsInit PROVE Inv
  OBVIOUS
<1>1. /\ log = [c \in Chars |-> <<0>>] /\ view = [c \in Chars |-> <<c, 0>>]
      /\ notifying = {} /\ calls = [k \in Callers |-> NoCall] /\ wire = <<>> /\ ready = <<>>
      /\ values = 0 /\ behind = {}
  BY DEF RequestsInit
<1>2. /\ IsCall(NoCall) /\ NoCall.op = "none" /\ NoCall.value = 0 /\ NoCall.read = {}
  BY DEF IsCall, NoCall, Data
<1>3. \A c \in Chars : /\ log[c] = <<0>> /\ DOMAIN log[c] = {1} /\ log[c][1] = 0
                       /\ Last(log[c]) = 0 /\ ToSet(log[c]) = {0} /\ view[c] = <<c, 0>>
  BY <1>1 DEF Last, ToSet
<1>4. Types
  BY <1>1, <1>2 DEF Types
<1>5. Owned
  BY <1>1 DEF Owned
<1>6. Held
  BY <1>1, <1>2, <1>3 DEF Held, Had
<1>7. Once
  BY <1>1, <1>2, <1>3 DEF Once, Asks
<1>8. NoEvents
  BY <1>1, <1>2 DEF NoEvents
<1>9. Follows
  BY <1>3, RequestsAssumption DEF Follows
<1> QED
  BY <1>4, <1>5, <1>6, <1>7, <1>8, <1>9 DEF Inv

LEMMA NextKeeps == Inv /\ [RequestsNext]_requestVars => Inv'
<1> SUFFICES ASSUME Inv, [RequestsNext]_requestVars PROVE Inv'
  OBVIOUS
<1>1. ASSUME NEW k \in Callers, Call(k) PROVE Inv'
  BY <1>1, CallKeeps
<1>2. ASSUME NEW k \in Callers, Subscribe(k) \/ Unsubscribe(k) PROVE Inv'
  BY <1>2, SubscribeKeeps
<1>3. ASSUME NEW k \in Callers, Handle(k) PROVE Inv'
  BY <1>3, HandleKeeps
<1>4. ASSUME NEW c \in Chars, Change(c) PROVE Inv'
  BY <1>4, ChangeKeeps
<1>5. ASSUME ResumeCall \/ Arrive \/ LinkLost \/ Reconnect PROVE Inv'
  BY <1>5, ResumeKeeps, ArriveKeeps, LinkLostKeeps, ReconnectKeeps
<1>6. CASE UNCHANGED requestVars
  BY <1>6, AsideKeeps DEF requestVars, Inv, NoEvents
<1> QED
  BY <1>1, <1>2, <1>3, <1>4, <1>5, <1>6 DEF RequestsNext

(* When all is quiet nothing is coming.                                      *)
LEMMA InvFollows == Inv => ViewFollows
<1> SUFFICES ASSUME Inv, NEW c \in Readable
             PROVE  /\ view[c][1] = c /\ view[c][2] \in ToSet(log[c])
                    /\ wire = <<>> /\ ready = <<>> /\ c \in notifying \ behind
                         => view[c][2] = Last(log[c])
  BY DEF ViewFollows
<1>1. c \in Chars
  BY RequestsAssumption
<1>2. view[c][1] = c /\ view[c][2] \in ToSet(log[c])
  BY <1>1 DEF Inv, Held, Had
<1>3. ASSUME wire = <<>>, ready = <<>>, c \in notifying \ behind
      PROVE  view[c][2] = Last(log[c])
  <2>1. ~Coming(c)
    BY <1>3 DEF Coming
  <2>2. medium # "ble"
    BY <1>3 DEF Inv, NoEvents
  <2> QED
    BY <1>3, <2>1, <2>2 DEF Inv, Follows
<1> QED
  BY <1>2, <1>3

(* The listeners have of every readable characteristic a value that it has   *)
(* had, and once all is quiet the last one of what they are subscribed to,   *)
(* unless it is in `behind'.                                                 *)
THEOREM ListenersFollow == RequestsSpec => []ViewFollows
<1>1. RequestsInit => Inv
  BY InitInv
<1>2. Inv /\ [RequestsNext]_requestVars => Inv'
  BY NextKeeps
<1>3. Inv => ViewFollows
  BY InvFollows
<1> QED
  BY <1>1, <1>2, <1>3, PTL DEF RequestsSpec
=============================================================================
