-------------------------- MODULE BleStatesProofs --------------------------
(***************************************************************************)
(* Theorems about BleStates, for any characteristics, any range of state    *)
(* numbers and any bounds.                                                  *)
(*                                                                          *)
(* The argument: something that has changed and that nobody has excused is  *)
(* read by an event or a poll that is still to be handled, by an operation  *)
(* that populates, or the number of the accessory is not the one that the   *)
(* pairing has, so that it will line up one of these when it hears of it.   *)
(* As in BleSessionProofs there is one lemma for each function of the       *)
(* state, and one for each action.                                          *)
(***************************************************************************)
EXTENDS BleStates, SequenceTheorems, TLAPS

Fields ==
  {"gsn", "cn", "stale", "onair", "bumped", "link", "keyed", "enabled", "fetched",
   "had", "pending", "device", "desc", "state", "cache", "tried", "line", "pc",
   "attempt", "update", "changed", "param", "announced", "late", "ahead", "excused",
   "swallowed", "cut"}

Typed(s) ==
  /\ DOMAIN s = Fields
  /\ s.gsn \in Numbers /\ s.cn \in 1..MaxCn /\ s.stale \in SUBSET Chars
  /\ s.onair \in Chars \cup {None} /\ s.enabled \in SUBSET Chars
  /\ s.late \in SUBSET Chars /\ s.bumped \in BOOLEAN /\ s.link \in BOOLEAN
  /\ s.keyed \in BOOLEAN /\ s.fetched \in BOOLEAN /\ s.had \in BOOLEAN
  /\ s.pending \in BOOLEAN /\ s.device \in BOOLEAN /\ s.tried \in BOOLEAN
  /\ s.update \in BOOLEAN /\ s.changed \in BOOLEAN /\ s.ahead \in BOOLEAN
  /\ s.excused \in BOOLEAN /\ s.swallowed \in BOOLEAN /\ s.cut \in BOOLEAN
  /\ s.desc \in Descriptions \cup {None}
  /\ s.state \in States \cup {None} /\ s.cache \in States \cup {None}
  /\ s.line \in Seq(Tasks) /\ s.pc \in Requests \cup {"idle", "connect"}
  /\ s.attempt \in 0..MaxAttempts /\ s.param \in Numbers \cup {None}
  /\ s.announced \in 0..MaxCn

(* Who has the lock, and who waits behind it.                                *)
Holder(s) == IF s.line = <<>> THEN {} ELSE {Head(s.line)}
Later(s) == {s.line[k] : k \in 2..Len(s.line)}

Events == {"evalue", "eparams", "ekey"}
Restores == {"rkey", "rgsn"}

(* The database is not the one that was heard of last.                       *)
Different(s) == s.state = None \/ (s.desc # None /\ s.state.cn # s.desc.cn)

(* The accessory has another number, and will have when it is left.          *)
Behind(s) ==
  \/ s.desc = None
  \/ s.desc.gsn # s.gsn /\ (s.bumped => NextGsn(s.gsn) # s.desc.gsn)

(* Everything that has changed has its event still to be handled, behind     *)
(* the holder of the lock, or by the holder, who has yet to read the value.  *)
Settled(s) == s.excused \/ s.swallowed \/ s.stale \subseteq Later(s)
Fine(s) ==
  \/ Settled(s)
  \/ s.pc \notin {"eparams", "ekey"} /\ s.stale \subseteq Later(s) \cup Holder(s)

(* A poll, or an operation that will fetch the database, is still to come.   *)
Polls(s) == "poll" \in Later(s) \/ ("poll" \in Holder(s) /\ s.pc \notin Restores)
Comes(s) ==
  \/ ~ (Later(s) \subseteq Chars)
  \/ ~ (Holder(s) \subseteq Chars) /\ s.pc \in {"idle", "connect", "fetch"}

Main(s) == Fine(s) \/ Polls(s) \/ (Different(s) /\ Comes(s)) \/ s.update \/ Behind(s)

(* Who has moved the pairing's own number has made sure of this.             *)
Counts(s) ==
  \/ s.had \/ s.ahead
  \/ s.link /\ s.pc = "ekey"
  \/ s.link /\ "poll" \in Holder(s) /\ s.pc \in Restores
Counted(s) == Counts(s) => Fine(s)

Session(s) ==
  /\ ~s.link => ~s.bumped /\ ~s.had
  /\ s.device \/ s.link => s.desc # None
  /\ s.state = None /\ s.link => s.pc = "fetch"

(* A database has the number that was heard before it was fetched.           *)
Label(a, n) == a # None => 1 <= a.cn /\ a.cn <= a.db /\ a.db <= n
Labels(s) ==
  /\ s.desc # None => s.desc.cn <= s.cn
  /\ s.state # None /\ s.desc # None => s.state.cn <= s.desc.cn
  /\ Label(s.state, s.cn) /\ Label(s.cache, s.cn)

Places(s) ==
  /\ s.pc # "idle" => s.line # <<>>
  /\ s.pc = "idle" => s.attempt = 0
  /\ s.pc \in Events => Holder(s) \subseteq Chars
  /\ s.pc \notin Events \cup {"idle"} => Holder(s) \cap Chars = {}
  /\ s.pc \in {"pparams", "pvalues"} => "poll" \in Holder(s)
  /\ s.update => s.pc \in {"verify", "params", "values"}
  /\ s.changed => s.pc \in {"fetch", "verify", "params", "values"}
  /\ s.pc = "fetch" => s.changed

Told(s) == s.state # None => s.announced = s.state.db \/ s.cut \/ s.changed

Good(s) ==
  /\ Typed(s) /\ Main(s) /\ Counted(s) /\ Session(s) /\ Labels(s) /\ Places(s) /\ Told(s)

-----------------------------------------------------------------------------
(* What the numbers and the line are.                                        *)

LEMMA Constants ==
  /\ MaxGsn \in Nat /\ MaxGsn > 1 /\ MaxCn \in Nat /\ MaxCn > 0
  /\ MaxAttempts \in Nat /\ MaxAttempts > 0 /\ Window \in Nat
  /\ {"poll", "config", "populate", "write"} \cap Chars = {}
<1>1. MaxGsn \in Nat /\ MaxGsn > 1
  BY GsnAssumption
<1>2. MaxCn \in Nat \ {0} /\ MaxAttempts \in Nat \ {0} /\ Window \in Nat \ {0}
  BY BoundsAssumption
<1> QED
  BY <1>1, <1>2, CharsAssumption

LEMMA NextIsNumber ==
  ASSUME NEW g \in Numbers
  PROVE  NextGsn(g) \in Numbers
BY Constants DEF Numbers, NextGsn

(* The sets and the sequence.                                                *)
LEMMA InLine ==
  ASSUME NEW s, Typed(s)
  PROVE  /\ ToSet(s.line) = Later(s) \cup Holder(s)
         /\ s.line # <<>> => /\ ToSet(Tail(s.line)) = Later(s)
                             /\ Tail(s.line) \in Seq(Tasks) /\ Head(s.line) \in Tasks
         /\ s.line = <<>> => Later(s) = {}
<1>1. s.line \in Seq(Tasks)
  BY DEF Typed
<1>2. CASE s.line = <<>>
  BY <1>2 DEF ToSet, Later, Holder
<1>3. CASE s.line # <<>>
  <2> DEFINE q == s.line
             r == Tail(q)
  <2>1. /\ r \in Seq(Tasks) /\ Len(r) = Len(q) - 1 /\ Len(q) \in Nat /\ Len(q) > 0
        /\ \A k \in 1..Len(r) : r[k] = q[k + 1]
        /\ Head(q) = q[1] /\ DOMAIN q = 1..Len(q) /\ DOMAIN r = 1..Len(r) /\ q[1] \in Tasks
    BY <1>1, <1>3
  <2> HIDE DEF q, r
  <2>2. \A k \in 2..Len(q) : k - 1 \in 1..Len(r) /\ r[k - 1] = q[k]
    <3> SUFFICES ASSUME NEW k \in 2..Len(q) PROVE k - 1 \in 1..Len(r) /\ r[k - 1] = q[k]
      OBVIOUS
    <3>1. k - 1 \in 1..Len(r) /\ (k - 1) + 1 = k
      BY <2>1
    <3> QED
      BY <2>1, <3>1
  <2>3. \A k \in 1..Len(r) : k + 1 \in 2..Len(q) /\ r[k] = q[k + 1]
    BY <2>1
  <2>4. ToSet(r) = {q[k] : k \in 2..Len(q)}
    <3> DEFINE l == {q[k] : k \in 2..Len(q)}
    <3>1. \A k \in 1..Len(r) : r[k] \in l
      BY <2>3
    <3>2. ASSUME NEW y \in l PROVE y \in ToSet(r)
      <4>1. PICK k \in 2..Len(q) : y = q[k]
        OBVIOUS
      <4>2. k - 1 \in DOMAIN r /\ r[k - 1] = y
        BY <2>1, <2>2, <4>1
      <4> QED
        BY <4>2 DEF ToSet
    <3>3. \A y \in ToSet(r) : y \in l
      BY <2>1, <3>1 DEF ToSet
    <3> QED
      BY <3>2, <3>3
  <2>5. \A k \in 1..Len(q) : k = 1 \/ k \in 2..Len(q)
    BY <2>1
  <2>6. 1 \in 1..Len(q) /\ \A k \in 2..Len(q) : k \in 1..Len(q)
    BY <2>1
  <2>7. ToSet(q) = {q[k] : k \in 2..Len(q)} \cup {q[1]}
    BY <2>1, <2>5, <2>6 DEF ToSet
  <2> QED
    BY <1>3, <2>1, <2>4, <2>7 DEF q, r, Later, Holder
<1> QED
  BY <1>2, <1>3

(* When the holder has gone.                                                 *)
LEMMA Shortened ==
  ASSUME NEW s, Typed(s), NEW t, Typed(t), s.line # <<>>, t.line = Tail(s.line)
  PROVE  Later(t) \cup Holder(t) = Later(s)
BY InLine

(* When another lines up.                                                    *)
LEMMA Longer ==
  ASSUME NEW s, Typed(s), NEW t, Typed(t), NEW x \in Tasks, t.line = Append(s.line, x)
  PROVE  /\ t.line # <<>>
         /\ s.line = <<>> => Later(t) = {} /\ Holder(t) = {x} /\ Holder(s) = {}
         /\ s.line # <<>> => Later(t) = Later(s) \cup {x} /\ Holder(t) = Holder(s)
<1> DEFINE q == s.line
           r == t.line
<1>1. /\ r \in Seq(Tasks) /\ Len(r) = Len(q) + 1 /\ Len(q) \in Nat
      /\ \A k \in 1..Len(q) : r[k] = q[k]
      /\ r[Len(q) + 1] = x /\ r # <<>> /\ Head(r) = r[1]
      /\ q # <<>> => Head(q) = q[1] /\ Len(q) > 0
      /\ q = <<>> => Len(q) = 0
  BY DEF Typed
<1> HIDE DEF q, r
<1>2. CASE q = <<>>
  <2>1. 2..Len(r) = {} /\ r[1] = x
    BY <1>1, <1>2
  <2> QED
    BY <1>1, <1>2, <2>1 DEF q, r, Later, Holder
<1>3. CASE q # <<>>
  <2>1. \A k \in 2..Len(r) : k \in 2..Len(q) \/ k = Len(q) + 1
    BY <1>1, <1>3
  <2>2. Len(q) + 1 \in 2..Len(r) /\ \A k \in 2..Len(q) : k \in 2..Len(r) /\ r[k] = q[k]
    BY <1>1, <1>3
  <2>3. {r[k] : k \in 2..Len(r)} = {q[k] : k \in 2..Len(q)} \cup {x}
    BY <1>1, <2>1, <2>2
  <2>4. Head(r) = Head(q)
    BY <1>1, <1>3
  <2> QED
    BY <1>1, <1>3, <2>3, <2>4 DEF q, r, Later, Holder
<1> QED
  BY <1>2, <1>3 DEF q

-----------------------------------------------------------------------------
(* The numbers.                                                              *)

LEMMA Renumber ==
  ASSUME NEW a \in States, NEW g \in Numbers \cup {None}
  PROVE  LET b == [a EXCEPT !.gsn = g]
         IN  b \in States /\ b # None /\ b.cn = a.cn /\ b.db = a.db /\ b.gsn = g
BY NoneAssumption DEF States

LEMMA Redescribe ==
  ASSUME NEW d \in Descriptions, NEW g \in Numbers
  PROVE  LET e == [d EXCEPT !.gsn = g]
         IN  e \in Descriptions /\ e # None /\ e.cn = d.cn /\ e.gsn = g
BY NoneAssumption DEF Descriptions

(* t is s with another number in its database, saved or as it was.           *)
Cached(s, t) ==
  /\ Typed(t)
  /\ \A f \in Fields \ {"state", "cache"} : t[f] = s[f]
  /\ t.state # None /\ t.state.cn = s.state.cn /\ t.state.db = s.state.db
  /\ t.cache = s.cache \/ t.cache = t.state

LEMMA CacheGsnFields ==
  ASSUME NEW s, Typed(s), s.state # None, NEW g \in Numbers
  PROVE  Cached(s, CacheGsn(s, g))
<1>1. s.state \in States
  BY DEF Typed
<1>2. CASE s.state.gsn = g
  BY <1>2 DEF CacheGsn, Cached
<1>3. CASE s.state.gsn # g
  <2> DEFINE b == [s.state EXCEPT !.gsn = g]
             r == [s EXCEPT !.state = b]
             t == [r EXCEPT !.cache = r.state]
  <2>1. b \in States /\ b # None /\ b.cn = s.state.cn /\ b.db = s.state.db
    BY <1>1, Renumber
  <2>2. CacheGsn(s, g) = t
    BY <1>3 DEF CacheGsn, Save
  <2> HIDE DEF b
  <2>3. /\ DOMAIN t = Fields /\ t.state = b /\ t.cache = b
        /\ \A f \in Fields \ {"state", "cache"} : t[f] = s[f]
    BY DEF Typed, Fields
  <2> HIDE DEF t
  <2>4. Typed(t)
    BY <2>1, <2>3 DEF Typed, Fields
  <2>5. Cached(s, t)
    BY <2>1, <2>3, <2>4 DEF Cached
  <2> QED
    BY <2>2, <2>5
<1> QED
  BY <1>2, <1>3

(* t is s with another number, that the pairing has been told or has counted. *)
Updated(s, t, g) ==
  /\ Typed(t)
  /\ \A f \in Fields \ {"desc", "state", "cache", "ahead"} : t[f] = s[f]
  /\ t.desc # None /\ t.desc.cn = s.desc.cn /\ t.desc.gsn = g /\ t.ahead = FALSE
  /\ t.state # None /\ t.state.cn = s.state.cn /\ t.state.db = s.state.db
  /\ t.cache = s.cache \/ t.cache = t.state

LEMMA UpdateGsnFields ==
  ASSUME NEW s, Typed(s), s.state # None, s.desc # None, NEW g \in Numbers
  PROVE  Updated(s, UpdateGsn(s, g), g)
<1> DEFINE e == [s.desc EXCEPT !.gsn = g]
           r == [s EXCEPT !.desc = e, !.ahead = FALSE]
           t == CacheGsn(r, g)
<1>1. e \in Descriptions /\ e # None /\ e.cn = s.desc.cn /\ e.gsn = g
  BY Redescribe DEF Typed
<1>2. UpdateGsn(s, g) = t
  BY DEF UpdateGsn
<1> HIDE DEF e
<1>3. /\ DOMAIN r = Fields /\ r.desc = e /\ r.ahead = FALSE
      /\ \A f \in Fields \ {"desc", "ahead"} : r[f] = s[f]
  BY DEF Typed, Fields
<1> HIDE DEF r
<1>4. Typed(r) /\ r.state = s.state /\ r.cache = s.cache
  BY <1>1, <1>3 DEF Typed, Fields
<1>5. Cached(r, t)
  BY <1>4, CacheGsnFields
<1> HIDE DEF t
<1>6. /\ Typed(t) /\ t.desc = e /\ t.ahead = FALSE
      /\ \A f \in Fields \ {"state", "cache"} : t[f] = r[f]
      /\ t.state # None /\ t.state.cn = r.state.cn /\ t.state.db = r.state.db
      /\ t.cache = r.cache \/ t.cache = t.state
  BY <1>3, <1>5 DEF Cached, Fields
<1>7. \A f \in Fields \ {"desc", "state", "cache", "ahead"} : t[f] = s[f]
  BY <1>3, <1>6
<1>8. Updated(s, t, g)
  BY <1>1, <1>4, <1>6, <1>7 DEF Updated
<1> QED
  BY <1>2, <1>8

LEMMA ResyncFields ==
  ASSUME NEW s, Typed(s), s.state # None, s.desc # None
  PROVE  LET t == Resync(s)
         IN  /\ Typed(t) /\ t.desc # None /\ t.state # None /\ t.desc.cn = s.desc.cn
             /\ \A f \in Fields \ {"desc", "state", "cache", "ahead", "fetched", "swallowed"} :
                  t[f] = s[f]
             /\ t.state.cn = s.state.cn /\ t.state.db = s.state.db
             /\ t.cache = s.cache \/ t.cache = t.state
             /\ t.swallowed \/ s.stale = {}
             /\ s.swallowed => t.swallowed
<1> DEFINE w == s.swallowed \/ s.stale # {}
           r == [s EXCEPT !.fetched = TRUE, !.swallowed = w]
           t == UpdateGsn(r, s.gsn)
<1>1. Resync(s) = t
  BY DEF Resync
<1>2. w \in BOOLEAN /\ s.gsn \in Numbers
  BY DEF Typed
<1> HIDE DEF w
<1>3. /\ DOMAIN r = Fields /\ r.fetched = TRUE /\ r.swallowed = w
      /\ \A f \in Fields \ {"fetched", "swallowed"} : r[f] = s[f]
  BY DEF Typed, Fields
<1> HIDE DEF r
<1>4. Typed(r) /\ r.state = s.state /\ r.desc = s.desc /\ r.cache = s.cache
  BY <1>2, <1>3 DEF Typed, Fields
<1>5. Updated(r, t, s.gsn)
  BY <1>2, <1>4, UpdateGsnFields
<1> HIDE DEF t
<1>6. /\ Typed(t) /\ t.desc # None /\ t.state # None /\ t.desc.cn = s.desc.cn
      /\ \A f \in Fields \ {"desc", "state", "cache", "ahead"} : t[f] = r[f]
      /\ t.state.cn = s.state.cn /\ t.state.db = s.state.db
      /\ t.cache = s.cache \/ t.cache = t.state
  BY <1>4, <1>5 DEF Updated
<1>7. t.swallowed = w
  BY <1>3, <1>6 DEF Fields
<1>8. \A f \in Fields \ {"desc", "state", "cache", "ahead", "fetched", "swallowed"} : t[f] = s[f]
  BY <1>3, <1>6
<1> QED
  BY <1>1, <1>6, <1>7, <1>8 DEF w

-----------------------------------------------------------------------------
(* What lines up.                                                            *)

(* t is s with x in line, where it will have its turn.                       *)
Joined(s, t, x) ==
  /\ Typed(t)
  /\ \A f \in Fields \ {"line"} : t[f] = s[f]
  /\ t.line # <<>>
  /\ s.line # <<>> => Holder(t) = Holder(s)
  /\ Later(s) \subseteq Later(t) /\ Holder(s) \subseteq Holder(t)
  /\ x \in Later(t) \/ (s.pc = "idle" /\ x \in Holder(t))

LEMMA LineUpJoins ==
  ASSUME NEW s, Typed(s), s.pc # "idle" => s.line # <<>>, NEW x \in Tasks
  PROVE  Joined(s, LineUp(s, x), x)
<1> DEFINE w == IF s.pc = "idle" THEN s.line ELSE Tail(s.line)
           q == Append(s.line, x)
           t == [s EXCEPT !.line = q]
<1>1. LineUp(s, x) = IF x \in ToSet(w) THEN s ELSE t
  BY DEF LineUp
<1>2. CASE x \in ToSet(w)
  <2>1. x \in Later(s) \/ (s.pc = "idle" /\ x \in Holder(s))
    BY <1>2, InLine
  <2>2. s.line # <<>>
    BY <2>1, InLine DEF Holder
  <2> QED
    BY <1>1, <1>2, <2>1, <2>2 DEF Joined
<1>3. CASE x \notin ToSet(w)
  <2>1. q \in Seq(Tasks)
    BY DEF Typed
  <2> HIDE DEF q
  <2>2. /\ DOMAIN t = Fields /\ t.line = q
        /\ \A f \in Fields \ {"line"} : t[f] = s[f]
    BY DEF Typed, Fields
  <2> HIDE DEF t
  <2>3. Typed(t)
    BY <2>1, <2>2 DEF Typed, Fields
  <2>4. /\ t.line # <<>>
        /\ s.line = <<>> => Later(t) = {} /\ Holder(t) = {x} /\ Holder(s) = {}
        /\ s.line # <<>> => Later(t) = Later(s) \cup {x} /\ Holder(t) = Holder(s)
    BY <2>2, <2>3, Longer DEF q
  <2>5. s.line = <<>> => Later(s) = {}
    BY InLine
  <2>6. Joined(s, t, x)
    BY <2>2, <2>3, <2>4, <2>5 DEF Joined
  <2> QED
    BY <1>1, <1>3, <2>6
<1> QED
  BY <1>2, <1>3

(* Who waits for something still does.                                       *)
LEMMA JoinedKeeps ==
  ASSUME NEW s, Good(s), NEW x, NEW t, Joined(s, t, x)
  PROVE  /\ Good(t)
         /\ Settled(s) => Settled(t)
         /\ Fine(s) => Fine(t)
         /\ Counts(t) => Counts(s)
         /\ Polls(s) => Polls(t)
         /\ Comes(s) => Comes(t)
<1>1. /\ Typed(s) /\ Main(s) /\ Counted(s) /\ Session(s) /\ Labels(s) /\ Places(s) /\ Told(s)
  BY DEF Good
<1>2. /\ Typed(t) /\ t.line # <<>>
      /\ \A f \in Fields \ {"line"} : t[f] = s[f]
      /\ s.line # <<>> => Holder(t) = Holder(s)
      /\ Later(s) \subseteq Later(t) /\ Holder(s) \subseteq Holder(t)
  BY DEF Joined
<1>3. /\ t.gsn = s.gsn /\ t.cn = s.cn /\ t.stale = s.stale /\ t.bumped = s.bumped
      /\ t.link = s.link /\ t.had = s.had /\ t.device = s.device /\ t.desc = s.desc
      /\ t.state = s.state /\ t.cache = s.cache /\ t.pc = s.pc /\ t.attempt = s.attempt
      /\ t.update = s.update /\ t.changed = s.changed /\ t.announced = s.announced
      /\ t.ahead = s.ahead /\ t.excused = s.excused /\ t.swallowed = s.swallowed
      /\ t.cut = s.cut
  BY <1>2 DEF Fields
<1>4. /\ Settled(s) => Settled(t)
      /\ Fine(s) => Fine(t)
      /\ Polls(s) => Polls(t)
      /\ Comes(s) => Comes(t)
  BY <1>2, <1>3 DEF Settled, Fine, Polls, Comes
<1>5. s.pc # "idle" => Holder(t) = Holder(s)
  BY <1>1, <1>2 DEF Places
<1>6. Counts(t) => Counts(s)
  BY <1>3, <1>5 DEF Counts, Restores
<1>7. (Different(s) <=> Different(t)) /\ (Behind(s) <=> Behind(t))
  BY <1>3 DEF Different, Behind
<1>8. Main(t) /\ Counted(t)
  BY <1>1, <1>3, <1>4, <1>6, <1>7 DEF Main, Counted
<1>9. Session(t) /\ Labels(t) /\ Told(t)
  BY <1>1, <1>3 DEF Session, Labels, Told
<1>10. Places(t)
  BY <1>1, <1>2, <1>3, <1>5 DEF Places, Events
<1> QED
  BY <1>2, <1>4, <1>6, <1>8, <1>9, <1>10 DEF Good

(* A poll lines up, or its absence is an excuse.                             *)
LEMMA ProcessFields ==
  ASSUME NEW s, Typed(s), s.pc # "idle" => s.line # <<>>
  PROVE  LET t == ProcessDisconnectedEvents(s)
         IN  \/ /\ Typed(t) /\ t.excused
                /\ \A f \in Fields \ {"excused"} : t[f] = s[f]
             \/ Joined(s, t, "poll")
<1>1. CASE ~s.tried \/ "poll" \in ToSet(s.line)
  <2> DEFINE t == [s EXCEPT !.excused = TRUE]
  <2>1. DOMAIN t = Fields /\ t.excused /\ \A f \in Fields \ {"excused"} : t[f] = s[f]
    BY DEF Typed, Fields
  <2> HIDE DEF t
  <2>2. Typed(t)
    BY <2>1 DEF Typed, Fields
  <2> QED
    BY <1>1, <2>1, <2>2 DEF ProcessDisconnectedEvents, t
<1>2. CASE ~ (~s.tried \/ "poll" \in ToSet(s.line))
  <2>1. "poll" \in Tasks
    BY DEF Tasks
  <2> QED
    BY <1>2, <2>1, LineUpJoins DEF ProcessDisconnectedEvents
<1> QED
  BY <1>1, <1>2

-----------------------------------------------------------------------------
(* The end of an operation.                                                  *)

(* What is left to be done without the holder.                               *)
Rests(s) ==
  \/ Settled(s) \/ "poll" \in Later(s)
  \/ Different(s) /\ ~ (Later(s) \subseteq Chars)
  \/ Behind(s)

Owned(s) == s.had \/ s.ahead => Settled(s)
Heard(s) == s.state # None => s.announced = s.state.db \/ s.cut

(* t is s, but for the holder's own affairs.                                 *)
Kept ==
  {"gsn", "cn", "stale", "bumped", "link", "had", "device", "desc", "state", "line",
   "ahead", "excused", "swallowed"}
Alike(s, t) ==
  /\ Typed(t)
  /\ \A f \in Kept : t[f] = s[f]
  /\ t.cache = s.cache \/ t.cache = s.state

LEMMA Alikes ==
  ASSUME NEW s, NEW t, Alike(s, t)
  PROVE  /\ Holder(t) = Holder(s) /\ Later(t) = Later(s)
         /\ Settled(t) <=> Settled(s)
         /\ Behind(t) <=> Behind(s)
         /\ Different(t) <=> Different(s)
         /\ Rests(t) <=> Rests(s)
         /\ Owned(t) <=> Owned(s)
         /\ Labels(s) => Labels(t)
<1>1. /\ t.gsn = s.gsn /\ t.cn = s.cn /\ t.stale = s.stale /\ t.bumped = s.bumped
      /\ t.link = s.link /\ t.had = s.had /\ t.device = s.device /\ t.desc = s.desc
      /\ t.state = s.state /\ t.line = s.line /\ t.ahead = s.ahead
      /\ t.excused = s.excused /\ t.swallowed = s.swallowed
      /\ t.cache = s.cache \/ t.cache = s.state
  BY DEF Alike, Kept
<1>2. Holder(t) = Holder(s) /\ Later(t) = Later(s)
  BY <1>1 DEF Holder, Later
<1>3. (Settled(t) <=> Settled(s)) /\ (Behind(t) <=> Behind(s))
      /\ (Different(t) <=> Different(s))
  BY <1>1, <1>2 DEF Settled, Behind, Different
<1>4. Labels(s) => Labels(t)
  BY <1>1 DEF Labels
<1> QED
  BY <1>1, <1>2, <1>3, <1>4 DEF Rests, Owned

LEMMA EndFields ==
  ASSUME NEW s, Typed(s), s.line # <<>>
  PROVE  LET t == End(s)
         IN  /\ Typed(t) /\ t.line = Tail(s.line) /\ t.pc = "idle" /\ t.attempt = 0
             /\ t.update = FALSE /\ t.changed = FALSE
             /\ \A f \in Fields \ {"line", "pc", "attempt", "update", "changed", "param",
                                   "late"} : t[f] = s[f]
<1> DEFINE q == Tail(s.line)
           l == s.late \ {Head(s.line)}
           t == [s EXCEPT !.line = q, !.pc = "idle", !.attempt = 0, !.update = FALSE,
                          !.changed = FALSE, !.param = None, !.late = l]
<1>1. End(s) = t
  BY DEF End
<1>2. q \in Seq(Tasks) /\ l \in SUBSET Chars /\ 0 \in 0..MaxAttempts
  BY Constants, InLine DEF Typed
<1> HIDE DEF q, l
<1>3. /\ DOMAIN t = Fields /\ t.line = q /\ t.pc = "idle" /\ t.attempt = 0
      /\ t.update = FALSE /\ t.changed = FALSE /\ t.param = None /\ t.late = l
      /\ \A f \in Fields \ {"line", "pc", "attempt", "update", "changed", "param",
                            "late"} : t[f] = s[f]
  BY DEF Typed, Fields
<1> HIDE DEF t
<1>4. /\ t.line \in Seq(Tasks) /\ t.pc \in Requests \cup {"idle", "connect"}
      /\ t.attempt \in 0..MaxAttempts /\ t.update \in BOOLEAN /\ t.changed \in BOOLEAN
      /\ t.param \in Numbers \cup {None} /\ t.late \in SUBSET Chars
  BY <1>2, <1>3
<1>5. Typed(t)
  BY <1>3, <1>4 DEF Typed, Fields
<1> QED
  BY <1>1, <1>3, <1>5 DEF q

(* Nobody has the lock.                                                      *)
LEMMA EndKeeps ==
  ASSUME NEW s, Typed(s), s.line # <<>>, Rests(s), Owned(s), Labels(s), Heard(s),
         ~s.link => ~s.bumped /\ ~s.had, s.device \/ s.link => s.desc # None,
         s.link => s.state # None
  PROVE  Good(End(s))
<1> DEFINE t == End(s)
<1>1. /\ Typed(t) /\ t.line = Tail(s.line) /\ t.pc = "idle" /\ t.attempt = 0
      /\ t.update = FALSE /\ t.changed = FALSE
      /\ \A f \in Fields \ {"line", "pc", "attempt", "update", "changed", "param",
                            "late"} : t[f] = s[f]
  BY EndFields
<1> HIDE DEF t
<1>2. /\ t.gsn = s.gsn /\ t.cn = s.cn /\ t.stale = s.stale /\ t.bumped = s.bumped
      /\ t.link = s.link /\ t.had = s.had /\ t.device = s.device /\ t.desc = s.desc
      /\ t.state = s.state /\ t.cache = s.cache /\ t.announced = s.announced
      /\ t.ahead = s.ahead /\ t.excused = s.excused /\ t.swallowed = s.swallowed
      /\ t.cut = s.cut
  BY <1>1 DEF Fields
<1>3. Later(t) \cup Holder(t) = Later(s)
  BY <1>1, Shortened
<1>4. Settled(s) => Fine(t)
  BY <1>1, <1>2, <1>3 DEF Settled, Fine
<1>5. Main(t)
  <2>1. "poll" \in Later(s) => Polls(t)
    BY <1>1, <1>3 DEF Polls, Restores
  <2>2. ~ (Later(s) \subseteq Chars) => Comes(t)
    BY <1>1, <1>3 DEF Comes
  <2>3. (Different(s) => Different(t)) /\ (Behind(s) => Behind(t))
    BY <1>2 DEF Different, Behind
  <2> QED
    BY <1>4, <2>1, <2>2, <2>3 DEF Rests, Main
<1>6. Counted(t)
  <2>1. Counts(t) => s.had \/ s.ahead
    BY <1>1, <1>2 DEF Counts, Restores
  <2> QED
    BY <1>4, <2>1 DEF Counted, Owned
<1>7. Session(t) /\ Labels(t) /\ Told(t)
  BY <1>2 DEF Session, Labels, Heard, Told
<1>8. Places(t)
  BY <1>1 DEF Places, Events
<1>9. Good(t)
  BY <1>1, <1>5, <1>6, <1>7, <1>8 DEF Good
<1> QED
  BY <1>9 DEF t

LEMMA GiveUpKeeps ==
  ASSUME NEW s, Typed(s), s.line # <<>>, Labels(s), Told(s),
         ~s.link => ~s.bumped /\ ~s.had, s.device \/ s.link => s.desc # None,
         s.link => s.state # None
  PROVE  Good(GiveUp(s))
<1> DEFINE c == s.cut \/ s.changed
           t == [s EXCEPT !.excused = TRUE, !.cut = c]
<1>1. GiveUp(s) = End(t)
  BY DEF GiveUp
<1>2. c \in BOOLEAN
  BY DEF Typed
<1> HIDE DEF c
<1>3. /\ DOMAIN t = Fields /\ t.excused = TRUE /\ t.cut = c
      /\ \A f \in Fields \ {"excused", "cut"} : t[f] = s[f]
  BY DEF Typed, Fields
<1> HIDE DEF t
<1>4. Typed(t)
  BY <1>2, <1>3 DEF Typed, Fields
<1>5. Settled(t)
  BY <1>3 DEF Settled
<1>6. Labels(t) /\ Heard(t)
  BY <1>3 DEF Labels, Heard, Told, Fields, c
<1>7. /\ t.line # <<>> /\ (~t.link => ~t.bumped /\ ~t.had)
      /\ (t.device \/ t.link => t.desc # None) /\ (t.link => t.state # None)
  BY <1>3 DEF Fields
<1>8. Rests(t) /\ Owned(t)
  BY <1>5 DEF Rests, Owned
<1> QED
  BY <1>1, <1>4, <1>6, <1>7, <1>8, EndKeeps

-----------------------------------------------------------------------------
(* An operation that is connected.                                           *)

Connectable(s) ==
  /\ Typed(s) /\ s.line # <<>> /\ Holder(s) \cap Chars = {}
  /\ s.link /\ s.desc # None /\ Labels(s) /\ Owned(s)
Ready(s) == Connectable(s) /\ s.state # None

LEMMA Readily ==
  ASSUME NEW s, NEW t, Alike(s, t)
  PROVE  /\ Connectable(s) => Connectable(t)
         /\ Ready(s) => Ready(t)
<1>1. t.line = s.line /\ t.link = s.link /\ t.desc = s.desc /\ t.state = s.state /\ Typed(t)
  BY DEF Alike, Kept
<1>2. Holder(t) = Holder(s) /\ (Owned(t) <=> Owned(s)) /\ (Labels(s) => Labels(t))
  BY Alikes
<1> QED
  BY <1>1, <1>2 DEF Ready, Connectable

(* Where a connected operation may stand.                                    *)
LEMMA Stands ==
  ASSUME NEW t, Connectable(t), t.pc \in Requests \ Events,
         Main(t), t.pc \in Restores => Settled(t) \/ "poll" \notin Holder(t),
         t.state = None => t.pc = "fetch", Told(t),
         t.pc \in {"pparams", "pvalues"} => "poll" \in Holder(t),
         t.update => t.pc \in {"verify", "params", "values"},
         t.changed => t.pc \in {"fetch", "verify", "params", "values"},
         t.pc = "fetch" => t.changed
  PROVE  Good(t)
<1>1. t.pc # "idle" /\ t.pc \notin Events
  BY DEF Requests, Events
<1>2. Settled(t) => Fine(t)
  BY DEF Fine
<1>3. Counted(t)
  BY <1>1, <1>2 DEF Counted, Counts, Connectable, Owned, Events
<1>4. Session(t)
  BY DEF Session, Connectable
<1>5. Places(t)
  BY <1>1 DEF Places, Connectable
<1> QED
  BY <1>3, <1>4, <1>5 DEF Good, Connectable

LEMMA SucceedKeeps ==
  ASSUME NEW s, Ready(s), Rests(s), Heard(s), "poll" \in Holder(s) => Settled(s)
  PROVE  Good(Succeed(s))
<1>1. Typed(s) /\ s.line # <<>> /\ s.link /\ s.desc # None /\ Labels(s) /\ Owned(s)
      /\ s.state # None
  BY DEF Ready, Connectable
<1>2. CASE Head(s.line) = "poll" /\ s.param # None
  <2> DEFINE t == UpdateGsn(s, s.param)
  <2>1. Succeed(s) = End(t)
    BY <1>1, <1>2 DEF Succeed
  <2>2. s.param \in Numbers
    BY <1>1, <1>2 DEF Typed
  <2>3. Updated(s, t, s.param)
    BY <1>1, <2>2, UpdateGsnFields
  <2> HIDE DEF t
  <2>4. /\ Typed(t) /\ t.desc # None /\ t.state # None /\ t.desc.cn = s.desc.cn
        /\ t.state.cn = s.state.cn /\ t.state.db = s.state.db
        /\ t.cache = s.cache \/ t.cache = t.state
    BY <2>3 DEF Updated
  <2>5. /\ t.line = s.line /\ t.cn = s.cn /\ t.link = s.link /\ t.stale = s.stale
        /\ t.announced = s.announced /\ t.cut = s.cut /\ t.excused = s.excused
        /\ t.swallowed = s.swallowed
    BY <2>3 DEF Updated, Fields
  <2>6. Settled(s)
    BY <1>1, <1>2 DEF Holder
  <2>7. Settled(t)
    BY <2>5, <2>6 DEF Settled, Later
  <2>8. Labels(t)
    <3>1. Label(t.state, t.cn) /\ Label(t.cache, t.cn)
      BY <1>1, <2>4, <2>5 DEF Labels, Label
    <3> QED
      BY <1>1, <2>4, <2>5, <3>1 DEF Labels
  <2>9. Heard(t)
    BY <1>1, <2>4, <2>5 DEF Heard
  <2> QED
    BY <1>1, <2>1, <2>4, <2>5, <2>7, <2>8, <2>9, EndKeeps DEF Rests, Owned
<1>3. CASE ~ (Head(s.line) = "poll" /\ s.param # None)
  <2>1. Succeed(s) = End(s)
    BY <1>3 DEF Succeed
  <2> QED
    BY <1>1, <2>1, EndKeeps
<1> QED
  BY <1>2, <1>3

(* Somewhere else, and nothing more.                                         *)
LEMMA PcFields ==
  ASSUME NEW s, Typed(s), NEW p \in Requests
  PROVE  LET t == [s EXCEPT !.pc = p]
         IN  /\ Typed(t) /\ t.pc = p /\ Alike(s, t)
             /\ \A f \in Fields \ {"pc"} : t[f] = s[f]
<1> DEFINE t == [s EXCEPT !.pc = p]
<1>1. DOMAIN t = Fields /\ t.pc = p /\ \A f \in Fields \ {"pc"} : t[f] = s[f]
  BY DEF Typed, Fields
<1> HIDE DEF t
<1>2. Typed(t)
  BY <1>1 DEF Typed, Fields
<1>3. Alike(s, t)
  BY <1>1, <1>2 DEF Alike, Kept, Fields
<1> QED
  BY <1>1, <1>2, <1>3 DEF t

LEMMA ResumeKeeps ==
  ASSUME NEW s, Ready(s), Rests(s), Heard(s), "poll" \in Holder(s) => Settled(s),
         ~s.update, ~s.changed
  PROVE  Good(Resume(s))
<1>1. CASE s.pending
  <2> DEFINE t == [s EXCEPT !.pc = "rkey"]
  <2>1. Resume(s) = t
    BY <1>1 DEF Resume, Ready, Connectable
  <2>2. /\ Typed(t) /\ t.pc = "rkey" /\ Alike(s, t)
        /\ \A f \in Fields \ {"pc"} : t[f] = s[f]
    <3>1. Typed(s) /\ "rkey" \in Requests
      BY DEF Ready, Connectable, Requests
    <3> QED
      BY <3>1, PcFields
  <2> HIDE DEF t
  <2>3. /\ t.state = s.state /\ t.announced = s.announced /\ t.cut = s.cut
        /\ t.update = s.update /\ t.changed = s.changed
    BY <2>2 DEF Fields
  <2>4. Ready(t)
    BY <2>2, Readily
  <2>5. /\ Holder(t) = Holder(s) /\ Later(t) = Later(s)
        /\ (Settled(t) <=> Settled(s)) /\ (Rests(t) <=> Rests(s))
    BY <2>2, Alikes
  <2>6. Main(t)
    BY <2>5 DEF Rests, Main, Fine, Polls, Comes
  <2>7. Told(t)
    BY <2>3 DEF Told, Heard
  <2>8. Good(t)
    BY <2>2, <2>3, <2>4, <2>5, <2>6, <2>7, Stands DEF Ready, Requests, Events
  <2> QED
    BY <2>1, <2>8
<1>2. CASE ~s.pending
  BY <1>2, SucceedKeeps DEF Resume
<1> QED
  BY <1>1, <1>2

(* What is left to be done, with the poll that is about to be made.          *)
Past(s) == Rests(s) \/ "poll" \in Holder(s)

LEMMA WorkKeeps ==
  ASSUME NEW s, Ready(s), Past(s), Heard(s), ~s.update, ~s.changed
  PROVE  Good(Work(s))
<1>1. s.line # <<>> /\ Holder(s) = {Head(s.line)}
  BY DEF Ready, Connectable, Holder
<1>2. CASE Head(s.line) = "poll"
  <2> DEFINE t == [s EXCEPT !.pc = "pparams"]
  <2>1. Work(s) = t
    BY <1>2 DEF Work
  <2>2. /\ Typed(t) /\ t.pc = "pparams" /\ Alike(s, t)
        /\ \A f \in Fields \ {"pc"} : t[f] = s[f]
    <3>1. Typed(s) /\ "pparams" \in Requests
      BY DEF Ready, Connectable, Requests
    <3> QED
      BY <3>1, PcFields
  <2> HIDE DEF t
  <2>3. /\ t.state = s.state /\ t.announced = s.announced /\ t.cut = s.cut
        /\ t.update = s.update /\ t.changed = s.changed
    BY <2>2 DEF Fields
  <2>4. Ready(t) /\ Holder(t) = Holder(s)
    BY <2>2, Readily, Alikes
  <2>5. Main(t)
    BY <1>1, <1>2, <2>2, <2>4 DEF Main, Polls, Restores
  <2>6. Told(t)
    BY <2>3 DEF Told, Heard
  <2>7. Good(t)
    BY <1>1, <1>2, <2>2, <2>3, <2>4, <2>5, <2>6, Stands
    DEF Ready, Requests, Events, Restores
  <2> QED
    BY <2>1, <2>7
<1>3. CASE Head(s.line) # "poll"
  BY <1>1, <1>3, ResumeKeeps DEF Work, Past
<1> QED
  BY <1>2, <1>3

LEMMA PopulatedKeeps ==
  ASSUME NEW s, Ready(s), Past(s), Told(s)
  PROVE  Good(Populated(s))
<1> DEFINE t == IF s.update THEN Save(s) ELSE s
           r == IF s.changed THEN Announce(t) ELSE t
           u == [r EXCEPT !.update = FALSE, !.changed = FALSE, !.param = None]
<1>1. Populated(s) = Work(u)
  BY DEF Populated
<1>2. Typed(s) /\ s.state # None /\ s.state \in States /\ s.state.db \in 0..MaxCn
  BY Constants DEF Ready, Connectable, Typed, States
<1>3. /\ DOMAIN t = Fields /\ t.cache \in {s.cache, s.state}
      /\ \A f \in Fields \ {"cache"} : t[f] = s[f]
  BY <1>2 DEF Typed, Save, Fields
<1> HIDE DEF t
<1>4. t.state = s.state /\ t.announced = s.announced /\ t.cut = s.cut
  BY <1>3 DEF Fields
<1>5. /\ DOMAIN r = Fields /\ r.cache \in {s.cache, s.state}
      /\ \A f \in Fields \ {"cache", "announced", "cut"} : r[f] = s[f]
      /\ r.announced \in {s.announced, s.state.db} /\ r.cut \in {s.cut, FALSE}
      /\ IF s.changed THEN r.announced = s.state.db
         ELSE r.announced = s.announced /\ r.cut = s.cut
  <2>1. CASE s.changed
    <3>1. r = [t EXCEPT !.cache = s.state, !.announced = s.state.db, !.cut = FALSE]
      <4> DEFINE x == [t EXCEPT !.announced = t.state.db, !.cut = FALSE]
      <4>1. r = [x EXCEPT !.cache = x.state]
        BY <2>1 DEF Announce, Save
      <4>2. x.state = s.state /\ DOMAIN x = Fields
        BY <1>3, <1>4 DEF Fields
      <4>3. r = [x EXCEPT !.cache = s.state]
        BY <4>1, <4>2
      <4> QED
        BY <1>3, <1>4, <4>3
    <3> HIDE DEF r
    <3> QED
      BY <1>3, <2>1, <3>1 DEF Fields
  <2>2. CASE ~s.changed
    BY <1>3, <1>4, <2>2
  <2> QED
    BY <2>1, <2>2
<1> HIDE DEF r
<1>6. /\ DOMAIN u = Fields /\ u.update = FALSE /\ u.changed = FALSE /\ u.param = None
      /\ \A f \in Fields \ {"update", "changed", "param"} : u[f] = r[f]
  BY <1>5 DEF Fields
<1> HIDE DEF u
<1>7. /\ u.cache \in {s.cache, s.state}
      /\ \A f \in Fields \ {"cache", "announced", "cut", "update", "changed", "param"} :
           u[f] = s[f]
      /\ u.announced \in {s.announced, s.state.db} /\ u.cut \in {s.cut, FALSE}
      /\ s.changed => u.announced = s.state.db
      /\ ~s.changed => u.announced = s.announced /\ u.cut = s.cut
  BY <1>5, <1>6 DEF Fields
<1>8. /\ u.cache \in States \cup {None} /\ u.announced \in 0..MaxCn /\ u.cut \in BOOLEAN
       /\ u.update \in BOOLEAN /\ u.changed \in BOOLEAN /\ u.param \in Numbers \cup {None}
  BY <1>2, <1>6, <1>7 DEF Typed
<1>9. Typed(u)
  BY <1>2, <1>6, <1>7, <1>8 DEF Typed, Fields
<1>10. Alike(s, u) /\ u.state = s.state
  BY <1>7, <1>9 DEF Alike, Kept, Fields
<1>11. Ready(u) /\ Holder(u) = Holder(s) /\ (Rests(u) <=> Rests(s))
  BY <1>10, Readily, Alikes
<1>12. Heard(u)
  BY <1>2, <1>7, <1>10 DEF Heard, Told
<1> QED
  BY <1>1, <1>6, <1>11, <1>12, WorkKeeps DEF Past

(* What is left to be done, with all the values that are about to be read.   *)
LEMMA VerifiedKeeps ==
  ASSUME NEW s, Ready(s), Past(s) \/ s.update, Told(s)
  PROVE  Good(Verified(s))
<1>1. CASE s.update
  <2> DEFINE t == [s EXCEPT !.pc = "params"]
  <2>1. Verified(s) = t
    BY <1>1 DEF Verified
  <2>2. /\ Typed(t) /\ t.pc = "params" /\ Alike(s, t)
        /\ \A f \in Fields \ {"pc"} : t[f] = s[f]
    <3>1. Typed(s) /\ "params" \in Requests
      BY DEF Ready, Connectable, Requests
    <3> QED
      BY <3>1, PcFields
  <2> HIDE DEF t
  <2>3. /\ t.state = s.state /\ t.announced = s.announced /\ t.cut = s.cut
        /\ t.update = s.update /\ t.changed = s.changed
    BY <2>2 DEF Fields
  <2>4. Ready(t)
    BY <2>2, Readily
  <2>5. Main(t) /\ Told(t)
    BY <1>1, <2>3 DEF Main, Told
  <2>6. Good(t)
    BY <2>2, <2>4, <2>5, Stands DEF Ready, Requests, Events, Restores
  <2> QED
    BY <2>1, <2>6
<1>2. CASE ~s.update
  BY <1>2, PopulatedKeeps DEF Verified
<1> QED
  BY <1>1, <1>2

LEMMA KeyedKeeps ==
  ASSUME NEW s, Ready(s), Past(s) \/ s.update, Told(s)
  PROVE  Good(Keyed(s))
<1>1. CASE s.keyed
  BY <1>1, VerifiedKeeps DEF Keyed
<1>2. CASE ~s.keyed
  <2> DEFINE t == [s EXCEPT !.pc = "verify"]
  <2>1. Keyed(s) = t
    BY <1>2 DEF Keyed
  <2>2. /\ Typed(t) /\ t.pc = "verify" /\ Alike(s, t)
        /\ \A f \in Fields \ {"pc"} : t[f] = s[f]
    <3>1. Typed(s) /\ "verify" \in Requests
      BY DEF Ready, Connectable, Requests
    <3> QED
      BY <3>1, PcFields
  <2> HIDE DEF t
  <2>3. /\ t.state = s.state /\ t.announced = s.announced /\ t.cut = s.cut
        /\ t.update = s.update /\ t.changed = s.changed
    BY <2>2 DEF Fields
  <2>4. Ready(t) /\ Holder(t) = Holder(s) /\ Later(t) = Later(s)
        /\ (Settled(t) <=> Settled(s)) /\ (Different(t) <=> Different(s))
        /\ (Behind(t) <=> Behind(s))
    BY <2>2, Readily, Alikes
  <2>5. Main(t)
    BY <2>2, <2>3, <2>4 DEF Past, Rests, Main, Fine, Polls, Comes, Restores
  <2>6. Told(t)
    BY <2>3 DEF Told
  <2>7. Good(t)
    BY <2>2, <2>4, <2>5, <2>6, Stands DEF Ready, Requests, Events, Restores
  <2> QED
    BY <2>1, <2>7
<1> QED
  BY <1>1, <1>2

(* A database that is not the one that was heard of is fetched.              *)
LEMMA PopulateKeeps ==
  ASSUME NEW s, Connectable(s), Past(s) \/ Different(s), Heard(s)
  PROVE  Good(Populate(s))
<1> DEFINE d == s.desc # None /\ ConfigNum(s) # s.desc.cn
           p == Head(s.line) = "populate"
           t == [s EXCEPT !.changed = d, !.update = FALSE]
           u == [t EXCEPT !.update = p]
           v == [t EXCEPT !.pc = "fetch"]
<1>1. Typed(s) /\ s.line # <<>> /\ s.link /\ s.desc # None /\ Holder(s) \cap Chars = {}
  BY DEF Connectable
<1>2. Different(s) <=> d
  <2>1. s.desc.cn \in Int /\ s.desc.cn # -1
    BY <1>1, Constants DEF Typed, Descriptions
  <2> QED
    BY <1>1, <2>1 DEF Different, ConfigNum
<1>3. s.state = None => d
  BY <1>2 DEF Different
<1>4. Populate(s) = IF s.state = None \/ d THEN v ELSE Keyed(u)
  <2>1. t.line = s.line
    BY <1>1 DEF Typed, Fields
  <2> QED
    BY <2>1 DEF Populate
<1>5. d \in BOOLEAN /\ p \in BOOLEAN
  OBVIOUS
<1> HIDE DEF d, p
<1>6. /\ DOMAIN t = Fields /\ t.changed = d /\ t.update = FALSE
      /\ \A f \in Fields \ {"changed", "update"} : t[f] = s[f]
  BY <1>1 DEF Typed, Fields
<1> HIDE DEF t
<1>7. CASE d
  <2>1. /\ DOMAIN v = Fields /\ v.pc = "fetch" /\ v.changed = TRUE /\ v.update = FALSE
        /\ \A f \in Fields \ {"changed", "update", "pc"} : v[f] = s[f]
    BY <1>6, <1>7 DEF Fields
  <2> HIDE DEF v
  <2>2. "fetch" \in Requests
    BY DEF Requests
  <2>3. Typed(v)
    BY <1>1, <2>1, <2>2 DEF Typed, Fields
  <2>4. Alike(s, v)
    BY <2>1, <2>3 DEF Alike, Kept, Fields
  <2>5. Connectable(v) /\ Holder(v) = Holder(s) /\ Different(v)
    BY <1>2, <1>7, <2>4, Readily, Alikes
  <2>6. Comes(v)
    BY <1>1, <2>1, <2>5 DEF Comes, Holder
  <2>7. Main(v) /\ Told(v)
    BY <2>1, <2>5, <2>6 DEF Main, Told
  <2>8. Good(v)
    BY <2>1, <2>2, <2>5, <2>7, Stands DEF Events, Restores
  <2> QED
    BY <1>4, <1>7, <2>8
<1>8. CASE ~d
  <2>1. /\ DOMAIN u = Fields /\ u.changed = FALSE /\ u.update = p
        /\ \A f \in Fields \ {"changed", "update"} : u[f] = s[f]
    BY <1>6, <1>8 DEF Fields
  <2> HIDE DEF u
  <2>2. Typed(u)
    BY <1>1, <1>5, <2>1 DEF Typed, Fields
  <2>3. Alike(s, u) /\ u.state = s.state /\ u.announced = s.announced /\ u.cut = s.cut
    BY <2>1, <2>2 DEF Alike, Kept, Fields
  <2>4. Connectable(u) /\ Holder(u) = Holder(s) /\ (Rests(u) <=> Rests(s))
    BY <2>3, Readily, Alikes
  <2>5. Ready(u) /\ Past(u)
    BY <1>2, <1>3, <1>8, <2>3, <2>4 DEF Ready, Past
  <2>6. Told(u)
    BY <2>3 DEF Told, Heard
  <2> QED
    BY <1>3, <1>4, <1>8, <2>5, <2>6, KeyedKeeps
<1> QED
  BY <1>7, <1>8

(* The holder begins, or begins again: it has a connection or it waits for   *)
(* one, but for an event, which then is given up.                            *)
LEMMA BeginKeeps ==
  ASSUME NEW s, Typed(s), s.line # <<>>, Main(s), Counted(s), Labels(s), Heard(s),
         ~s.link => ~s.bumped /\ ~s.had, s.device \/ s.link => s.desc # None,
         s.link => s.pc = "idle" /\ s.state # None,
         ~s.update, ~s.changed, s.attempt < MaxAttempts
  PROVE  Good(Begin(s))
<1> DEFINE h == Head(s.line)
           a == s.attempt + 1
           t == [s EXCEPT !.attempt = a]
<1>1. h \in Tasks /\ Holder(s) = {h}
  BY InLine DEF Holder
<1>2. a \in 0..MaxAttempts
  BY Constants DEF Typed
<1>3. Begin(s) = CASE h \in Chars -> IF s.link THEN [t EXCEPT !.pc = "evalue"] ELSE GiveUp(s)
                   [] h \notin Chars /\ s.link -> Populate([t EXCEPT !.tried = TRUE])
                   [] OTHER -> [t EXCEPT !.pc = "connect"]
  BY DEF Begin
<1> HIDE DEF a, h
<1>4. CASE h \in Chars /\ ~s.link
  <2>1. Told(s)
    BY DEF Told, Heard
  <2> QED
    BY <1>3, <1>4, <2>1, GiveUpKeeps
<1>5. CASE h \in Chars /\ s.link
  <2> DEFINE u == [t EXCEPT !.pc = "evalue"]
  <2>1. /\ DOMAIN u = Fields /\ u.pc = "evalue" /\ u.attempt = a
        /\ \A f \in Fields \ {"attempt", "pc"} : u[f] = s[f]
    BY DEF Typed, Fields
  <2>2. Begin(s) = u
    BY <1>3, <1>5
  <2> HIDE DEF u
  <2>3. Typed(u)
    <3>1. "evalue" \in Requests
      BY DEF Requests
    <3> QED
      BY <1>2, <2>1, <3>1 DEF Typed, Fields
  <2>4. Alike(s, u) /\ u.announced = s.announced /\ u.cut = s.cut /\ u.update = s.update
        /\ u.changed = s.changed /\ u.state = s.state
    BY <2>1, <2>3 DEF Alike, Kept, Fields
  <2>5. u.link /\ u.had = s.had /\ u.ahead = s.ahead /\ u.stale = s.stale /\ u.line # <<>>
        /\ u.desc # None
    BY <1>5, <2>1 DEF Fields
  <2>6. /\ Holder(u) = Holder(s) /\ Later(u) = Later(s)
        /\ (Settled(u) <=> Settled(s)) /\ (Different(u) <=> Different(s))
        /\ (Behind(u) <=> Behind(s)) /\ Labels(u)
    BY <2>4, Alikes
  <2>7. Fine(s) => Fine(u)
    BY <2>1, <2>5, <2>6 DEF Fine
  <2>8. (Polls(s) => Polls(u)) /\ (Comes(s) => Comes(u))
    BY <1>1, <1>5, <2>1, <2>6 DEF Polls, Comes, Restores
  <2>9. Main(u)
    BY <2>4, <2>6, <2>7, <2>8 DEF Main
  <2>10. Counted(u)
    BY <2>1, <2>5, <2>7 DEF Counted, Counts, Restores
  <2>11. Session(u) /\ Told(u) /\ Places(u)
    BY <1>1, <1>5, <2>1, <2>4, <2>5, <2>6 DEF Session, Told, Heard, Places, Events
  <2> QED
    BY <2>2, <2>3, <2>6, <2>9, <2>10, <2>11 DEF Good
<1>6. CASE h \notin Chars /\ s.link
  <2> DEFINE u == [t EXCEPT !.tried = TRUE]
  <2>1. /\ DOMAIN u = Fields /\ u.tried = TRUE /\ u.attempt = a
        /\ \A f \in Fields \ {"attempt", "tried"} : u[f] = s[f]
    BY DEF Typed, Fields
  <2>2. Begin(s) = Populate(u)
    BY <1>3, <1>6
  <2> HIDE DEF u
  <2>3. Typed(u)
    BY <1>2, <2>1 DEF Typed, Fields
  <2>4. Alike(s, u) /\ u.state = s.state /\ u.announced = s.announced /\ u.cut = s.cut
    BY <2>1, <2>3 DEF Alike, Kept, Fields
  <2>5. Fine(s) => Settled(s)
    BY <1>1, <1>6 DEF Fine, Settled, Typed
  <2>6. Owned(s)
    BY <2>5 DEF Counted, Counts, Owned
  <2>7. Connectable(s)
    BY <1>1, <1>6, <2>6 DEF Connectable
  <2>8. Past(s) \/ Different(s)
    BY <2>5 DEF Main, Polls, Past, Rests
  <2>9. Connectable(u) /\ (Past(u) \/ Different(u))
    BY <2>4, <2>7, <2>8, Readily, Alikes DEF Past
  <2>10. Heard(u)
    BY <2>4 DEF Heard
  <2> QED
    BY <2>2, <2>9, <2>10, PopulateKeeps
<1>7. CASE h \notin Chars /\ ~s.link
  <2> DEFINE u == [t EXCEPT !.pc = "connect"]
  <2>1. /\ DOMAIN u = Fields /\ u.pc = "connect" /\ u.attempt = a
        /\ \A f \in Fields \ {"attempt", "pc"} : u[f] = s[f]
    BY DEF Typed, Fields
  <2>2. Begin(s) = u
    BY <1>3, <1>7
  <2> HIDE DEF u
  <2>3. Typed(u)
    BY <1>2, <2>1 DEF Typed, Fields
  <2>4. Alike(s, u) /\ u.announced = s.announced /\ u.cut = s.cut /\ u.update = s.update
        /\ u.changed = s.changed /\ u.state = s.state
    BY <2>1, <2>3 DEF Alike, Kept, Fields
  <2>5. ~u.link /\ u.had = s.had /\ u.ahead = s.ahead /\ u.line # <<>>
        /\ u.bumped = s.bumped /\ u.device = s.device /\ u.desc = s.desc
    BY <1>7, <2>1 DEF Fields
  <2>6. /\ Holder(u) = Holder(s) /\ Later(u) = Later(s)
        /\ (Settled(u) <=> Settled(s)) /\ (Different(u) <=> Different(s))
        /\ (Behind(u) <=> Behind(s)) /\ Labels(u)
    BY <2>4, Alikes
  <2>7. Fine(s) => Fine(u)
    BY <1>1, <1>7, <2>6 DEF Fine, Settled, Typed
  <2>8. (Polls(s) => Polls(u)) /\ (Comes(s) => Comes(u))
    BY <2>1, <2>6 DEF Polls, Comes, Restores
  <2>9. Main(u)
    BY <2>4, <2>6, <2>7, <2>8 DEF Main
  <2>10. Counted(u)
    BY <2>1, <2>5, <2>7 DEF Counted, Counts
  <2>11. Session(u) /\ Told(u)
    BY <1>7, <2>4, <2>5, <2>6 DEF Session, Told, Heard
  <2>12. Places(u)
    BY <1>1, <1>7, <2>1, <2>4, <2>5, <2>6 DEF Places, Events
  <2> QED
    BY <2>2, <2>3, <2>6, <2>9, <2>10, <2>11, <2>12 DEF Good
<1> QED
  BY <1>4, <1>5, <1>6, <1>7

(* The connection is gone: the accessory takes its next number.              *)
LEMMA DropFields ==
  ASSUME NEW s, Typed(s), ~s.link => ~s.bumped /\ ~s.had
  PROVE  LET t == Drop(s)
         IN  /\ Typed(t) /\ ~t.link /\ ~t.bumped /\ ~t.had
             /\ \A f \in Fields \ {"link", "keyed", "enabled", "fetched", "had", "pending",
                                   "bumped", "gsn", "late"} : t[f] = s[f]
             /\ Behind(s) => Behind(t)
<1> DEFINE g == IF s.bumped THEN NextGsn(s.gsn) ELSE s.gsn
           l == Chars \cap ToSet(s.line)
           t == [s EXCEPT !.link = FALSE, !.keyed = FALSE, !.enabled = {},
                          !.fetched = FALSE, !.had = FALSE, !.pending = FALSE,
                          !.bumped = FALSE, !.gsn = g, !.late = l]
<1>1. Drop(s) = IF ~s.link THEN s ELSE t
  BY DEF Drop
<1>2. CASE ~s.link
  BY <1>1, <1>2
<1>3. CASE s.link
  <2>1. g \in Numbers /\ l \in SUBSET Chars /\ {} \in SUBSET Chars
    BY NextIsNumber DEF Typed
  <2>2. Behind(s) => s.desc = None \/ s.desc.gsn # g
    BY DEF Behind, Typed
  <2> HIDE DEF g, l
  <2>3. /\ DOMAIN t = Fields /\ t.link = FALSE /\ t.keyed = FALSE /\ t.enabled = {}
        /\ t.fetched = FALSE /\ t.had = FALSE /\ t.pending = FALSE /\ t.bumped = FALSE
        /\ t.gsn = g /\ t.late = l
        /\ \A f \in Fields \ {"link", "keyed", "enabled", "fetched", "had", "pending",
                              "bumped", "gsn", "late"} : t[f] = s[f]
    BY DEF Typed, Fields
  <2> HIDE DEF t
  <2>4. Typed(t)
    BY <2>1, <2>3 DEF Typed, Fields
  <2>5. Behind(s) => Behind(t)
    BY <2>2, <2>3 DEF Behind, Fields
  <2> QED
    BY <1>1, <1>3, <2>3, <2>4, <2>5
<1> QED
  BY <1>2, <1>3

-----------------------------------------------------------------------------
(* The variables and the state.                                              *)

LEMMA StateFields ==
  /\ DOMAIN State = Fields
  /\ State.gsn = gsn /\ State.cn = cn /\ State.stale = stale /\ State.onair = onair
  /\ State.bumped = bumped /\ State.link = link /\ State.keyed = keyed
  /\ State.enabled = enabled /\ State.fetched = fetched /\ State.had = had
  /\ State.pending = pending /\ State.device = device /\ State.desc = desc
  /\ State.state = state /\ State.cache = cache /\ State.tried = tried
  /\ State.line = line /\ State.pc = pc /\ State.attempt = attempt
  /\ State.update = update /\ State.changed = changed /\ State.param = param
  /\ State.announced = announced /\ State.late = late /\ State.ahead = ahead
  /\ State.excused = excused /\ State.swallowed = swallowed /\ State.cut = cut
  BY DEF State, Fields

(* An excuse that Become takes away is not needed.                           *)
LEMMA Becomes ==
  ASSUME NEW t, Good(t), Become(t)
  PROVE  Good(State')
<1> DEFINE u == State'
<1>1. /\ DOMAIN u = Fields
      /\ u.excused = (t.excused /\ t.stale # {})
      /\ u.swallowed = (t.swallowed /\ t.stale # {} /\ ~t.excused)
      /\ u.cut = (t.cut /\ t.state # None /\ t.state.db # t.announced)
  BY DEF State, Become, Fields
<1>2. /\ u.gsn = t.gsn /\ u.cn = t.cn /\ u.stale = t.stale /\ u.onair = t.onair
      /\ u.bumped = t.bumped /\ u.link = t.link /\ u.keyed = t.keyed
      /\ u.enabled = t.enabled /\ u.fetched = t.fetched /\ u.had = t.had
      /\ u.pending = t.pending /\ u.device = t.device /\ u.desc = t.desc
      /\ u.state = t.state /\ u.cache = t.cache /\ u.tried = t.tried
      /\ u.line = t.line /\ u.pc = t.pc /\ u.attempt = t.attempt
      /\ u.update = t.update /\ u.changed = t.changed /\ u.param = t.param
      /\ u.announced = t.announced /\ u.late = t.late /\ u.ahead = t.ahead
  BY DEF State, Become, Fields
<1> HIDE DEF u
<1>3. /\ Typed(t) /\ Main(t) /\ Counted(t) /\ Session(t) /\ Labels(t) /\ Places(t) /\ Told(t)
  BY DEF Good
<1>4. Typed(u)
  <2>1. u.excused \in BOOLEAN /\ u.swallowed \in BOOLEAN /\ u.cut \in BOOLEAN
    BY <1>1
  <2> QED
    BY <1>1, <1>2, <1>3, <2>1 DEF Typed
<1>5. Holder(u) = Holder(t) /\ Later(u) = Later(t)
  BY <1>2 DEF Holder, Later
<1>6. Settled(t) => Settled(u)
  BY <1>1, <1>2, <1>5 DEF Settled
<1>7. Fine(t) => Fine(u)
  BY <1>2, <1>5, <1>6 DEF Fine
<1>8. Main(u)
  BY <1>2, <1>3, <1>5, <1>7 DEF Main, Polls, Comes, Different, Behind
<1>9. Counted(u)
  BY <1>2, <1>3, <1>5, <1>7 DEF Counted, Counts
<1>10. Session(u) /\ Labels(u)
  BY <1>2, <1>3 DEF Session, Labels
<1>11. Places(u)
  BY <1>2, <1>3, <1>5 DEF Places
<1>12. Told(u)
  BY <1>1, <1>2, <1>3 DEF Told
<1> QED
  BY <1>4, <1>8, <1>9, <1>10, <1>11, <1>12 DEF Good, u

(* The holder of the lock, and what it needs to go on.                       *)
LEMMA Operating ==
  ASSUME NEW s, Good(s), s.link, s.pc \in Requests \ Events
  PROVE  /\ Connectable(s) /\ (s.pc # "fetch" => Ready(s))
         /\ s.pc # "fetch" => Rests(s) \/ "poll" \in Holder(s) \/ s.update
         /\ s.pc \in Restores => Rests(s) /\ ("poll" \in Holder(s) => Settled(s))
         /\ s.pc \notin {"fetch", "verify", "params", "values"} => Heard(s)
<1>1. Typed(s) /\ Session(s) /\ Labels(s) /\ Places(s) /\ Counted(s)
  BY DEF Good
<1>2. s.pc \notin Events \cup {"idle"}
  BY DEF Requests, Events
<1>3. s.line # <<>> /\ Holder(s) \cap Chars = {}
  BY <1>1, <1>2 DEF Places
<1>4. Fine(s) => Settled(s)
  BY <1>1, <1>3 DEF Fine, Settled, Typed
<1>5. Owned(s)
  BY <1>1, <1>4 DEF Owned, Counted, Counts
<1>6. Connectable(s) /\ (s.pc # "fetch" => Ready(s))
  BY <1>1, <1>3, <1>5 DEF Session, Connectable, Ready
<1>7. s.pc # "fetch" => Rests(s) \/ "poll" \in Holder(s) \/ s.update
  BY <1>2, <1>4 DEF Good, Main, Polls, Comes, Rests, Requests
<1>8. s.pc \in Restores => Rests(s) /\ ("poll" \in Holder(s) => Settled(s))
  <2> SUFFICES ASSUME s.pc \in Restores PROVE Rests(s) /\ ("poll" \in Holder(s) => Settled(s))
    OBVIOUS
  <2>1. "poll" \in Holder(s) => Settled(s)
    BY <1>1, <1>4 DEF Counted, Counts
  <2>2. s.pc # "fetch" /\ ~s.update
    BY <1>1 DEF Places, Restores
  <2> QED
    BY <1>7, <2>1, <2>2 DEF Rests
<1>9. s.pc \notin {"fetch", "verify", "params", "values"} => Heard(s)
  BY <1>1 DEF Good, Told, Places, Heard
<1> QED
  BY <1>6, <1>7, <1>8, <1>9

-----------------------------------------------------------------------------
(* The actions of an operation.                                              *)

LEMMA CallKeeps ==
  ASSUME NEW op \in {"populate", "write"}
  PROVE  Good(State) /\ Call(op) => Good(State')
<1> SUFFICES ASSUME Good(State), Call(op) PROVE Good(State')
  OBVIOUS
<1>1. Become(LineUp(State, op)) /\ op \in Tasks
  BY DEF Call, Tasks
<1>2. Typed(State) /\ (State.pc # "idle" => State.line # <<>>)
  BY DEF Good, Places
<1>3. Joined(State, LineUp(State, op), op)
  BY <1>1, <1>2, LineUpJoins
<1> QED
  BY <1>1, <1>3, JoinedKeeps, Becomes

LEMMA TakeLockKeeps == Good(State) /\ TakeLock => Good(State')
<1> SUFFICES ASSUME Good(State), TakeLock PROVE Good(State')
  OBVIOUS
<1>1. State.line # <<>> /\ State.pc = "idle" /\ Become(Begin(State))
  BY StateFields DEF TakeLock
<1>2. /\ Typed(State) /\ Main(State) /\ Counted(State) /\ Session(State) /\ Labels(State)
      /\ Places(State) /\ Told(State)
  BY DEF Good
<1>3. State.attempt < MaxAttempts
  BY <1>1, <1>2, Constants DEF Places
<1>4. ~State.update /\ ~State.changed
  BY <1>1, <1>2 DEF Places
<1>5. Heard(State) /\ (State.link => State.state # None)
  BY <1>1, <1>2, <1>4 DEF Told, Heard, Session
<1>6. Good(Begin(State))
  BY <1>1, <1>2, <1>3, <1>4, <1>5, BeginKeeps DEF Session
<1> QED
  BY <1>1, <1>6, Becomes

LEMMA ConnectedKeeps == Good(State) /\ Connected => Good(State')
<1> SUFFICES ASSUME Good(State), Connected PROVE Good(State')
  OBVIOUS
<1> DEFINE s == State
           t == [s EXCEPT !.link = TRUE, !.pending = TRUE, !.tried = TRUE, !.onair = None]
<1>1. s.pc = "connect" /\ s.device /\ Become(Populate(t))
  BY StateFields DEF Connected
<1>2. /\ Typed(s) /\ Main(s) /\ Counted(s) /\ Session(s) /\ Labels(s) /\ Places(s) /\ Told(s)
  BY DEF Good
<1> HIDE DEF s
<1>3. /\ DOMAIN t = Fields /\ t.link = TRUE /\ t.pending = TRUE /\ t.tried = TRUE
      /\ t.onair = None
      /\ \A f \in Fields \ {"link", "pending", "tried", "onair"} : t[f] = s[f]
  BY <1>2 DEF Typed, Fields
<1> HIDE DEF t
<1>4. Typed(t)
  <2>1. /\ t.link \in BOOLEAN /\ t.pending \in BOOLEAN /\ t.tried \in BOOLEAN
        /\ t.onair \in Chars \cup {None}
    BY <1>3
  <2> QED
    BY <1>2, <1>3, <2>1 DEF Typed, Fields
<1>5. /\ t.gsn = s.gsn /\ t.cn = s.cn /\ t.stale = s.stale /\ t.bumped = s.bumped
      /\ t.had = s.had /\ t.desc = s.desc /\ t.state = s.state /\ t.cache = s.cache
      /\ t.line = s.line /\ t.announced = s.announced /\ t.ahead = s.ahead
      /\ t.excused = s.excused /\ t.swallowed = s.swallowed /\ t.cut = s.cut
  BY <1>3 DEF Fields
<1>6. s.line # <<>> /\ Holder(s) \cap Chars = {} /\ ~s.update /\ ~s.changed
      /\ s.desc # None
  BY <1>1, <1>2 DEF Places, Session, Events
<1>7. Holder(t) = Holder(s) /\ Later(t) = Later(s)
  BY <1>5 DEF Holder, Later
<1>8. Fine(s) => Settled(t)
  BY <1>2, <1>5, <1>6, <1>7 DEF Fine, Settled, Typed
<1>9. (Different(s) => Different(t)) /\ (Behind(s) => Behind(t))
  BY <1>5 DEF Different, Behind
<1>10. Past(t) \/ Different(t)
  BY <1>2, <1>6, <1>7, <1>8, <1>9 DEF Main, Polls, Past, Rests
<1>11. Labels(t) /\ Heard(t)
  BY <1>2, <1>5, <1>6 DEF Labels, Told, Heard
<1>12. Owned(t)
  BY <1>2, <1>5, <1>8 DEF Counted, Counts, Owned
<1>13. Connectable(t)
  BY <1>3, <1>4, <1>5, <1>6, <1>7, <1>11, <1>12 DEF Connectable
<1> QED
  BY <1>1, <1>10, <1>11, <1>13, PopulateKeeps, Becomes

LEMMA ConnectFailsKeeps == Good(State) /\ ConnectFails => Good(State')
<1> SUFFICES ASSUME Good(State), ConnectFails PROVE Good(State')
  OBVIOUS
<1> DEFINE s == State
           t == [s EXCEPT !.tried = TRUE]
<1>1. s.pc = "connect" /\ Become(GiveUp(t))
  BY StateFields DEF ConnectFails
<1>2. Typed(s) /\ Session(s) /\ Labels(s) /\ Places(s) /\ Told(s)
  BY DEF Good
<1> HIDE DEF s
<1>3. /\ DOMAIN t = Fields /\ t.tried = TRUE /\ \A f \in Fields \ {"tried"} : t[f] = s[f]
  BY <1>2 DEF Typed, Fields
<1> HIDE DEF t
<1>4. Typed(t)
  BY <1>2, <1>3 DEF Typed, Fields
<1>5. /\ t.cn = s.cn /\ t.bumped = s.bumped /\ t.link = s.link /\ t.had = s.had
      /\ t.device = s.device /\ t.desc = s.desc /\ t.state = s.state /\ t.cache = s.cache
      /\ t.line = s.line /\ t.announced = s.announced /\ t.cut = s.cut
      /\ t.changed = s.changed
  BY <1>3 DEF Fields
<1>6. Labels(t) /\ Told(t) /\ t.line # <<>>
  BY <1>1, <1>2, <1>5 DEF Labels, Told, Places
<1> QED
  BY <1>1, <1>2, <1>4, <1>5, <1>6, GiveUpKeeps, Becomes DEF Session

LEMMA RequestFailsKeeps == Good(State) /\ RequestFails => Good(State')
<1> SUFFICES ASSUME Good(State), RequestFails PROVE Good(State')
  OBVIOUS
<1> DEFINE s == State
           d == Drop(s)
           e == d.excused \/ s.update
           c == d.cut \/ s.changed
           t == [d EXCEPT !.update = FALSE, !.changed = FALSE, !.param = None,
                          !.excused = e, !.cut = c]
<1>1. s.pc \in Requests
  BY StateFields DEF RequestFails
<1>2. \/ Become(GiveUp(d))
      \/ Head(s.line) \notin Chars /\ s.attempt < MaxAttempts /\ Become(Begin(t))
  BY StateFields DEF RequestFails
<1>3. /\ Typed(s) /\ Main(s) /\ Counted(s) /\ Session(s) /\ Labels(s) /\ Places(s) /\ Told(s)
  BY DEF Good
<1> HIDE DEF s
<1>4. /\ Typed(d) /\ ~d.link /\ ~d.bumped /\ ~d.had
      /\ \A f \in Fields \ {"link", "keyed", "enabled", "fetched", "had", "pending",
                            "bumped", "gsn", "late"} : d[f] = s[f]
      /\ Behind(s) => Behind(d)
  BY <1>3, DropFields DEF Session
<1> HIDE DEF d
<1>5. /\ d.cn = s.cn /\ d.stale = s.stale /\ d.device = s.device /\ d.desc = s.desc
      /\ d.state = s.state /\ d.cache = s.cache /\ d.line = s.line /\ d.pc = s.pc
      /\ d.attempt = s.attempt /\ d.update = s.update /\ d.changed = s.changed
      /\ d.announced = s.announced /\ d.ahead = s.ahead /\ d.excused = s.excused
      /\ d.swallowed = s.swallowed /\ d.cut = s.cut
  BY <1>4 DEF Fields
<1>6. s.line # <<>>
  BY <1>1, <1>3 DEF Places, Requests
<1>7. CASE Become(GiveUp(d))
  <2>1. Labels(d) /\ Told(d) /\ (d.device => d.desc # None)
    BY <1>3, <1>5 DEF Labels, Told, Session
  <2>2. Good(GiveUp(d))
    BY <1>4, <1>5, <1>6, <2>1, GiveUpKeeps
  <2> QED
    BY <1>7, <2>2, Becomes
<1>8. CASE Head(s.line) \notin Chars /\ s.attempt < MaxAttempts /\ Become(Begin(t))
  <2>1. e \in BOOLEAN /\ c \in BOOLEAN /\ (e <=> s.excused \/ s.update)
        /\ (c <=> s.cut \/ s.changed)
    BY <1>3, <1>5 DEF Typed
  <2> HIDE DEF e, c
  <2>2. /\ DOMAIN t = Fields /\ t.update = FALSE /\ t.changed = FALSE /\ t.param = None
        /\ t.excused = e /\ t.cut = c
        /\ \A f \in Fields \ {"update", "changed", "param", "excused", "cut"} : t[f] = d[f]
    BY <1>4 DEF Typed, Fields
  <2> HIDE DEF t
  <2>3. Typed(t)
    <3>1. /\ t.update \in BOOLEAN /\ t.changed \in BOOLEAN /\ t.excused \in BOOLEAN
          /\ t.cut \in BOOLEAN /\ t.param \in Numbers \cup {None}
      BY <2>1, <2>2
    <3> QED
      BY <1>4, <2>2, <3>1 DEF Typed, Fields
  <2>4. /\ t.gsn = d.gsn /\ t.cn = s.cn /\ t.stale = s.stale /\ t.bumped = FALSE
        /\ t.link = FALSE /\ t.had = FALSE /\ t.device = s.device /\ t.desc = s.desc
        /\ t.state = s.state /\ t.cache = s.cache /\ t.line = s.line /\ t.pc = s.pc
        /\ t.attempt = s.attempt /\ t.announced = s.announced /\ t.ahead = s.ahead
        /\ t.swallowed = s.swallowed
    BY <1>4, <1>5, <2>2 DEF Fields, Typed
  <2>5. Holder(t) = Holder(s) /\ Later(t) = Later(s)
    BY <2>4 DEF Holder, Later
  <2>6. Fine(s) => Fine(t)
    BY <2>1, <2>2, <2>4, <2>5 DEF Fine, Settled
  <2>7. Behind(s) => Behind(t)
    BY <1>4, <1>5, <2>4 DEF Behind
  <2>8. s.update => Fine(t)
    BY <2>1, <2>2 DEF Fine, Settled
  <2>9. Main(t)
    BY <1>3, <2>4, <2>5, <2>6, <2>7, <2>8 DEF Main, Polls, Comes, Different
  <2>10. Counted(t)
    BY <1>3, <2>4, <2>6 DEF Counted, Counts
  <2>11. Labels(t) /\ Heard(t)
    BY <1>3, <2>1, <2>2, <2>4 DEF Labels, Told, Heard
  <2>12. t.line # <<>> /\ (t.device \/ t.link => t.desc # None) /\ ~t.update /\ ~t.changed
         /\ t.attempt < MaxAttempts /\ ~t.link /\ ~t.bumped /\ ~t.had
    BY <1>3, <1>6, <1>8, <2>2, <2>4 DEF Session
  <2>13. Good(Begin(t))
    BY <2>3, <2>9, <2>10, <2>11, <2>12, BeginKeeps
  <2> QED
    BY <1>8, <2>13, Becomes
<1> QED
  BY <1>2, <1>7, <1>8

LEMMA FetchDoneKeeps == Good(State) /\ FetchDone => Good(State')
<1> SUFFICES ASSUME Good(State), FetchDone PROVE Good(State')
  OBVIOUS
<1> DEFINE s == State
           a == [cn |-> IF s.desc = None THEN 0 ELSE s.desc.cn, db |-> s.cn, gsn |-> None]
           n == [s EXCEPT !.state = a]
           t == [n EXCEPT !.update = TRUE]
<1>1. s.pc = "fetch" /\ s.link /\ Become(Keyed(t))
  BY StateFields DEF FetchDone, NewState
<1>2. Typed(s) /\ Session(s) /\ Labels(s) /\ Places(s) /\ Told(s)
  BY DEF Good
<1> HIDE DEF s
<1>3. Good(s)
  BY DEF s
<1>4. Connectable(s)
  BY <1>1, <1>3, Operating DEF Requests, Events
<1>5. /\ s.desc # None /\ s.desc \in Descriptions /\ s.desc.cn \in 1..MaxCn
      /\ s.cn \in 1..MaxCn /\ s.desc.cn <= s.cn
  BY <1>2, <1>4 DEF Connectable, Typed, Descriptions, Labels
<1>6. a \in States /\ a.cn = s.desc.cn /\ a.db = s.cn
  BY <1>5, Constants DEF States
<1> HIDE DEF a
<1>7. /\ DOMAIN t = Fields /\ t.state = a /\ t.update = TRUE
      /\ \A f \in Fields \ {"state", "update"} : t[f] = s[f]
  BY <1>2 DEF Typed, Fields
<1> HIDE DEF t
<1>8. Typed(t)
  BY <1>2, <1>6, <1>7 DEF Typed, Fields
<1>9. /\ t.cn = s.cn /\ t.stale = s.stale /\ t.link = s.link /\ t.had = s.had
      /\ t.desc = s.desc /\ t.cache = s.cache /\ t.line = s.line /\ t.changed = s.changed
      /\ t.ahead = s.ahead /\ t.excused = s.excused /\ t.swallowed = s.swallowed
  BY <1>7 DEF Fields
<1>10. Holder(t) = Holder(s) /\ Later(t) = Later(s)
  BY <1>9 DEF Holder, Later
<1>11. Owned(t)
  BY <1>4, <1>9, <1>10 DEF Connectable, Owned, Settled
<1>12. Labels(t)
  <2>1. Label(t.state, t.cn)
    BY <1>5, <1>6, <1>7, <1>9 DEF Label
  <2>2. t.state.cn <= t.desc.cn
    BY <1>5, <1>6, <1>7, <1>9
  <2> QED
    BY <1>2, <1>9, <2>1, <2>2 DEF Labels
<1>13. t.state # None
  BY <1>6, <1>7, NoneAssumption
<1>14. Ready(t)
  BY <1>1, <1>4, <1>8, <1>9, <1>10, <1>11, <1>12, <1>13 DEF Ready, Connectable
<1>15. Told(t)
  BY <1>1, <1>2, <1>9 DEF Told, Places
<1> QED
  BY <1>1, <1>7, <1>14, <1>15, KeyedKeeps, Becomes

LEMMA VerifyDoneKeeps == Good(State) /\ VerifyDone => Good(State')
<1> SUFFICES ASSUME Good(State), VerifyDone PROVE Good(State')
  OBVIOUS
<1> DEFINE s == State
           t == [s EXCEPT !.keyed = TRUE]
<1>1. s.pc = "verify" /\ s.link /\ Become(Verified(t))
  BY StateFields DEF VerifyDone
<1>2. Typed(s) /\ Told(s) /\ Good(s)
  BY DEF Good
<1> HIDE DEF s
<1>3. Ready(s) /\ (Past(s) \/ s.update)
  BY <1>1, <1>2, Operating DEF Requests, Events, Past
<1>4. DOMAIN t = Fields /\ t.keyed = TRUE /\ \A f \in Fields \ {"keyed"} : t[f] = s[f]
  BY <1>2 DEF Typed, Fields
<1> HIDE DEF t
<1>5. Typed(t)
  BY <1>2, <1>4 DEF Typed, Fields
<1>6. /\ Alike(s, t) /\ t.state = s.state /\ t.announced = s.announced /\ t.cut = s.cut
      /\ t.update = s.update /\ t.changed = s.changed
  BY <1>4, <1>5 DEF Alike, Kept, Fields
<1>7. Ready(t) /\ Told(t) /\ (Past(t) \/ t.update)
  BY <1>2, <1>3, <1>6, Readily, Alikes DEF Past, Told
<1> QED
  BY <1>1, <1>7, VerifiedKeeps, Becomes

LEMMA ParamsDoneKeeps == Good(State) /\ ParamsDone => Good(State')
<1> SUFFICES ASSUME Good(State), ParamsDone PROVE Good(State')
  OBVIOUS
<1> DEFINE s == State
           p == IF s.pc = "params" THEN "values" ELSE "pvalues"
           r == [s EXCEPT !.pc = p]
           t == [r EXCEPT !.param = s.gsn, !.fetched = TRUE]
<1>1. s.pc \in {"params", "pparams"} /\ s.link /\ (Become(r) \/ Become(t))
  BY StateFields DEF ParamsDone
<1>2. Typed(s) /\ Told(s) /\ Places(s) /\ Good(s)
  BY DEF Good
<1> HIDE DEF s
<1>3. Ready(s) /\ (Past(s) \/ s.update)
  BY <1>1, <1>2, Operating DEF Requests, Events, Past
<1>4. p \in Requests /\ p \in {"values", "pvalues"} /\ (p = "values" <=> s.pc = "params")
  BY <1>1 DEF Requests
<1> HIDE DEF p
<1>5. /\ Typed(r) /\ r.pc = p /\ Alike(s, r) /\ \A f \in Fields \ {"pc"} : r[f] = s[f]
  BY <1>2, <1>4, PcFields
<1> HIDE DEF r
<1>6. /\ DOMAIN t = Fields /\ t.param = s.gsn /\ t.fetched = TRUE
      /\ \A f \in Fields \ {"param", "fetched"} : t[f] = r[f]
  BY <1>5 DEF Typed, Fields
<1> HIDE DEF t
<1>7. Typed(t)
  <2>1. t.param \in Numbers \cup {None} /\ t.fetched \in BOOLEAN
    BY <1>2, <1>6 DEF Typed
  <2> QED
    BY <1>5, <1>6, <2>1 DEF Typed, Fields
<1>8. Alike(s, t)
  BY <1>5, <1>6, <1>7 DEF Alike, Kept, Fields
<1>9. ASSUME NEW u, u \in {r, t} PROVE Good(u)
  <2>1. /\ Alike(s, u) /\ u.pc = p /\ u.state = s.state /\ u.announced = s.announced
        /\ u.cut = s.cut /\ u.update = s.update /\ u.changed = s.changed
    BY <1>5, <1>6, <1>8, <1>9 DEF Fields
  <2>2. Ready(u) /\ Holder(u) = Holder(s) /\ Later(u) = Later(s)
        /\ (Settled(u) <=> Settled(s)) /\ (Different(u) <=> Different(s))
        /\ (Behind(u) <=> Behind(s))
    BY <1>3, <2>1, Readily, Alikes
  <2>3. Main(u)
    BY <1>3, <1>4, <2>1, <2>2 DEF Past, Rests, Main, Fine, Polls, Comes, Restores
  <2>4. Told(u)
    BY <1>2, <2>1 DEF Told
  <2>5. /\ u.pc = "pvalues" => "poll" \in Holder(u) /\ ~u.update /\ ~u.changed
    BY <1>1, <1>2, <1>4, <2>1, <2>2 DEF Places
  <2> QED
    BY <1>4, <2>1, <2>2, <2>3, <2>4, <2>5, Stands DEF Ready, Requests, Events, Restores
<1> QED
  BY <1>1, <1>9, Becomes

LEMMA ValuesDoneKeeps == Good(State) /\ ValuesDone => Good(State')
<1> SUFFICES ASSUME Good(State), ValuesDone PROVE Good(State')
  OBVIOUS
<1> DEFINE s == State
           d == IF s.param = None \/ s.desc = None THEN s.desc
                ELSE [s.desc EXCEPT !.gsn = s.param]
           t == [s EXCEPT !.stale = {}, !.desc = d]
<1>1. s.pc = "values" /\ s.link /\ Become(Populated(t))
  BY StateFields DEF ValuesDone
<1>2. Typed(s) /\ Labels(s) /\ Told(s) /\ Good(s)
  BY DEF Good
<1> HIDE DEF s
<1>3. Ready(s)
  BY <1>1, <1>2, Operating DEF Requests, Events
<1>4. s.desc # None /\ s.desc \in Descriptions /\ s.state # None /\ s.line # <<>>
      /\ Holder(s) \cap Chars = {}
  BY <1>2, <1>3 DEF Ready, Connectable, Typed
<1>5. d \in Descriptions /\ d # None /\ d.cn = s.desc.cn
  <2>1. CASE s.param = None
    BY <1>4, <2>1
  <2>2. CASE s.param # None
    <3>1. s.param \in Numbers
      BY <1>2, <2>2 DEF Typed
    <3> QED
      BY <1>4, <2>2, <3>1, Redescribe
  <2> QED
    BY <2>1, <2>2
<1> HIDE DEF d
<1>6. /\ DOMAIN t = Fields /\ t.stale = {} /\ t.desc = d
      /\ \A f \in Fields \ {"stale", "desc"} : t[f] = s[f]
  BY <1>2 DEF Typed, Fields
<1> HIDE DEF t
<1>7. Typed(t)
  BY <1>2, <1>5, <1>6 DEF Typed, Fields
<1>8. /\ t.cn = s.cn /\ t.link = s.link /\ t.state = s.state /\ t.cache = s.cache
      /\ t.line = s.line /\ t.announced = s.announced /\ t.cut = s.cut
      /\ t.changed = s.changed
  BY <1>6 DEF Fields
<1>9. Settled(t)
  BY <1>6 DEF Settled
<1>10. Labels(t) /\ Told(t)
  BY <1>2, <1>4, <1>5, <1>6, <1>8 DEF Labels, Told
<1>11. Holder(t) = Holder(s)
  BY <1>8 DEF Holder
<1>12. Ready(t) /\ Past(t)
  BY <1>1, <1>4, <1>5, <1>6, <1>7, <1>8, <1>9, <1>10, <1>11
  DEF Ready, Connectable, Past, Rests, Owned
<1> QED
  BY <1>1, <1>10, <1>12, PopulatedKeeps, Becomes

LEMMA PollDoneKeeps == Good(State) /\ PollDone => Good(State')
<1> SUFFICES ASSUME Good(State), PollDone PROVE Good(State')
  OBVIOUS
<1> DEFINE s == State
           t == [s EXCEPT !.stale = {}]
<1>1. s.pc = "pvalues" /\ s.link /\ Become(Resume(t))
  BY StateFields DEF PollDone
<1>2. Typed(s) /\ Labels(s) /\ Places(s) /\ Good(s)
  BY DEF Good
<1> HIDE DEF s
<1>3. Ready(s) /\ Heard(s) /\ ~s.update /\ ~s.changed
  BY <1>1, <1>2, Operating DEF Requests, Events, Places
<1>4. s.desc # None /\ s.state # None /\ s.line # <<>> /\ Holder(s) \cap Chars = {}
  BY <1>3 DEF Ready, Connectable
<1>5. DOMAIN t = Fields /\ t.stale = {} /\ \A f \in Fields \ {"stale"} : t[f] = s[f]
  BY <1>2 DEF Typed, Fields
<1> HIDE DEF t
<1>6. Typed(t)
  BY <1>2, <1>5 DEF Typed, Fields
<1>7. /\ t.cn = s.cn /\ t.link = s.link /\ t.state = s.state /\ t.cache = s.cache
      /\ t.line = s.line /\ t.announced = s.announced /\ t.cut = s.cut
      /\ t.changed = s.changed /\ t.update = s.update /\ t.desc = s.desc
  BY <1>5 DEF Fields
<1>8. Settled(t)
  BY <1>5 DEF Settled
<1>9. Labels(t) /\ Heard(t) /\ Holder(t) = Holder(s)
  BY <1>2, <1>3, <1>7 DEF Labels, Heard, Holder
<1>10. Ready(t) /\ Rests(t)
  BY <1>1, <1>4, <1>6, <1>7, <1>8, <1>9 DEF Ready, Connectable, Rests, Owned
<1> QED
  BY <1>1, <1>3, <1>7, <1>8, <1>9, <1>10, ResumeKeeps, Becomes

LEMMA RestoreKeyDoneKeeps == Good(State) /\ RestoreKeyDone => Good(State')
<1> SUFFICES ASSUME Good(State), RestoreKeyDone PROVE Good(State')
  OBVIOUS
<1> DEFINE s == State
           t == [s EXCEPT !.pc = "rgsn", !.pending = FALSE]
<1>1. s.pc = "rkey" /\ s.link /\ Become(t)
  BY StateFields DEF RestoreKeyDone
<1>2. Typed(s) /\ Places(s) /\ Good(s)
  BY DEF Good
<1> HIDE DEF s
<1>3. Ready(s) /\ Rests(s) /\ ("poll" \in Holder(s) => Settled(s)) /\ Heard(s)
      /\ ~s.update /\ ~s.changed
  BY <1>1, <1>2, Operating DEF Requests, Events, Restores, Places
<1>4. /\ DOMAIN t = Fields /\ t.pc = "rgsn" /\ t.pending = FALSE
      /\ \A f \in Fields \ {"pc", "pending"} : t[f] = s[f]
  BY <1>2 DEF Typed, Fields
<1> HIDE DEF t
<1>5. Typed(t)
  <2>1. t.pc \in Requests /\ t.pending \in BOOLEAN
    BY <1>4 DEF Requests
  <2> QED
    BY <1>2, <1>4, <2>1 DEF Typed, Fields
<1>6. /\ Alike(s, t) /\ t.state = s.state /\ t.announced = s.announced /\ t.cut = s.cut
      /\ t.update = s.update /\ t.changed = s.changed
  BY <1>4, <1>5 DEF Alike, Kept, Fields
<1>7. Ready(t) /\ Holder(t) = Holder(s) /\ Later(t) = Later(s)
      /\ (Settled(t) <=> Settled(s)) /\ (Rests(t) <=> Rests(s))
  BY <1>3, <1>6, Readily, Alikes
<1>8. Main(t)
  BY <1>3, <1>7 DEF Rests, Main, Fine, Polls, Comes
<1>9. Told(t)
  BY <1>3, <1>6 DEF Told, Heard
<1>10. Good(t)
  BY <1>3, <1>4, <1>6, <1>7, <1>8, <1>9, Stands DEF Ready, Requests, Events
<1> QED
  BY <1>1, <1>10, Becomes

LEMMA RestoreDoneKeeps == Good(State) /\ RestoreDone => Good(State')
<1> SUFFICES ASSUME Good(State), RestoreDone PROVE Good(State')
  OBVIOUS
<1> DEFINE s == State
           t == Resync(s)
<1>1. s.pc = "rgsn" /\ s.link /\ (Become(Succeed(t)) \/ Become(Succeed(s)))
  BY StateFields DEF RestoreDone
<1>2. Typed(s) /\ Labels(s) /\ Good(s)
  BY DEF Good
<1> HIDE DEF s
<1>3. Ready(s) /\ Rests(s) /\ ("poll" \in Holder(s) => Settled(s)) /\ Heard(s)
  BY <1>1, <1>2, Operating DEF Requests, Events, Restores
<1>4. s.desc # None /\ s.state # None /\ s.line # <<>> /\ Holder(s) \cap Chars = {}
  BY <1>3 DEF Ready, Connectable
<1>5. /\ Typed(t) /\ t.desc # None /\ t.state # None /\ t.desc.cn = s.desc.cn
      /\ \A f \in Fields \ {"desc", "state", "cache", "ahead", "fetched", "swallowed"} :
           t[f] = s[f]
      /\ t.state.cn = s.state.cn /\ t.state.db = s.state.db
      /\ t.cache = s.cache \/ t.cache = t.state
      /\ t.swallowed \/ s.stale = {}
  BY <1>2, <1>4, ResyncFields
<1> HIDE DEF t
<1>6. /\ t.cn = s.cn /\ t.link = s.link /\ t.line = s.line /\ t.announced = s.announced
      /\ t.cut = s.cut /\ t.stale = s.stale
  BY <1>5 DEF Fields
<1>7. Settled(t)
  BY <1>5, <1>6 DEF Settled
<1>8. Labels(t)
  <2>1. Label(t.state, t.cn) /\ Label(t.cache, t.cn)
    BY <1>2, <1>4, <1>5, <1>6 DEF Labels, Label
  <2> QED
    BY <1>2, <1>4, <1>5, <1>6, <2>1 DEF Labels
<1>9. Heard(t) /\ Holder(t) = Holder(s)
  BY <1>3, <1>4, <1>5, <1>6 DEF Heard, Holder
<1>10. Ready(t) /\ Rests(t)
  BY <1>1, <1>4, <1>5, <1>6, <1>7, <1>8, <1>9 DEF Ready, Connectable, Rests, Owned
<1>11. Good(Succeed(t))
  BY <1>7, <1>9, <1>10, SucceedKeeps
<1>12. Good(Succeed(s))
  BY <1>3, SucceedKeeps
<1> QED
  BY <1>1, <1>11, <1>12, Becomes

-----------------------------------------------------------------------------
(* The events of a connection.                                               *)

LEMMA UpdateEnds ==
  ASSUME NEW s, Typed(s), s.line # <<>>, s.link, s.desc # None, s.state # None, Labels(s),
         Heard(s), Settled(s), NEW g \in Numbers, NEW b \in BOOLEAN
  PROVE  LET t == UpdateGsn(s, g)
         IN  Good(End([t EXCEPT !.ahead = b]))
<1> DEFINE t == UpdateGsn(s, g)
           u == [t EXCEPT !.ahead = b]
<1>1. Updated(s, t, g)
  BY UpdateGsnFields
<1> HIDE DEF t
<1>2. /\ Typed(t) /\ \A f \in Fields \ {"desc", "state", "cache", "ahead"} : t[f] = s[f]
      /\ t.desc # None /\ t.desc.cn = s.desc.cn /\ t.state # None
      /\ t.state.cn = s.state.cn /\ t.state.db = s.state.db
      /\ t.cache = s.cache \/ t.cache = t.state
  BY <1>1 DEF Updated
<1>3. DOMAIN u = Fields /\ u.ahead = b /\ \A f \in Fields \ {"ahead"} : u[f] = t[f]
  BY <1>2 DEF Typed, Fields
<1> HIDE DEF u
<1>4. Typed(u)
  BY <1>2, <1>3 DEF Typed, Fields
<1>5. /\ u.desc = t.desc /\ u.state = t.state /\ u.cache = t.cache
      /\ u.cn = s.cn /\ u.link = s.link /\ u.line = s.line /\ u.announced = s.announced
      /\ u.cut = s.cut /\ u.stale = s.stale /\ u.excused = s.excused
      /\ u.swallowed = s.swallowed
  BY <1>2, <1>3 DEF Fields
<1>6. Settled(u)
  BY <1>5 DEF Settled, Later
<1>7. Labels(u)
  <2>1. Label(u.state, u.cn) /\ Label(u.cache, u.cn)
    BY <1>2, <1>5 DEF Labels, Label
  <2> QED
    BY <1>2, <1>5, <2>1 DEF Labels
<1>8. Heard(u)
  BY <1>2, <1>5 DEF Heard
<1>9. Good(End(u))
  BY <1>2, <1>4, <1>5, <1>6, <1>7, <1>8, EndKeeps DEF Rests, Owned
<1> QED
  BY <1>9 DEF u, t

(* The number of the session is counted, or the event was one more of it.    *)
LEMMA CountUpKeeps ==
  ASSUME NEW s, Typed(s), s.line # <<>>, Holder(s) \subseteq Chars, s.link, s.desc # None,
         s.state # None, Labels(s), Heard(s), ~s.update, ~s.changed
  PROVE  Good(CountUp(s))
<1> DEFINE e == s.excused \/ s.stale # {}
           new == s.desc.gsn + 1
           r == [s EXCEPT !.excused = e]
           t == [s EXCEPT !.had = TRUE, !.excused = e]
           u == [t EXCEPT !.pc = "ekey"]
           b == Head(t.line) \in t.late
           v == UpdateGsn(t, new)
           w == [v EXCEPT !.ahead = b]
<1>1. CountUp(s) = IF s.had THEN End(r)
                   ELSE IF new >= MaxGsn THEN u ELSE End(w)
  <2>1. CountUp(s) = IF s.had THEN End(r)
                     ELSE IF new >= MaxGsn THEN u
                     ELSE End([v EXCEPT !.ahead = Head(s.line) \in s.late])
    BY DEF CountUp
  <2>2. t.line = s.line /\ t.late = s.late
    BY DEF Typed, Fields
  <2> QED
    BY <2>1, <2>2
<1>2. e \in BOOLEAN /\ (~e => s.stale = {}) /\ new \in Nat /\ new > 0 /\ b \in BOOLEAN
  BY Constants DEF Typed, Descriptions, Numbers
<1> HIDE DEF e, new, b
<1>3. CASE s.had
  <2>1. DOMAIN r = Fields /\ r.excused = e /\ \A f \in Fields \ {"excused"} : r[f] = s[f]
    BY DEF Typed, Fields
  <2> HIDE DEF r
  <2>2. Typed(r)
    BY <1>2, <2>1 DEF Typed, Fields
  <2>3. Settled(r)
    BY <1>2, <2>1 DEF Settled, Fields
  <2>4. /\ r.cn = s.cn /\ r.desc = s.desc /\ r.state = s.state /\ r.cache = s.cache
        /\ r.link = s.link /\ r.line = s.line /\ r.announced = s.announced /\ r.cut = s.cut
    BY <2>1 DEF Fields
  <2>5. Labels(r) /\ Heard(r)
    BY <2>4 DEF Labels, Heard
  <2> QED
    BY <1>1, <1>3, <2>2, <2>3, <2>4, <2>5, EndKeeps DEF Rests, Owned
<1>4. CASE ~s.had
  <2>1. /\ DOMAIN t = Fields /\ t.had = TRUE /\ t.excused = e
        /\ \A f \in Fields \ {"had", "excused"} : t[f] = s[f]
    BY DEF Typed, Fields
  <2> HIDE DEF t
  <2>2. Typed(t)
    BY <1>2, <2>1 DEF Typed, Fields
  <2>3. Settled(t)
    BY <1>2, <2>1 DEF Settled, Fields
  <2>4. /\ t.cn = s.cn /\ t.desc = s.desc /\ t.state = s.state /\ t.cache = s.cache
        /\ t.link = s.link /\ t.line = s.line /\ t.announced = s.announced /\ t.cut = s.cut
        /\ t.update = s.update /\ t.changed = s.changed
    BY <2>1 DEF Fields
  <2>5. Labels(t) /\ Heard(t)
    BY <2>4 DEF Labels, Heard
  <2>6. CASE new >= MaxGsn
    <3>1. DOMAIN u = Fields /\ u.pc = "ekey" /\ \A f \in Fields \ {"pc"} : u[f] = t[f]
      BY <2>2 DEF Typed, Fields
    <3> HIDE DEF u
    <3>2. Typed(u)
      <4>1. u.pc \in Requests
        BY <3>1 DEF Requests
      <4> QED
        BY <2>2, <3>1, <4>1 DEF Typed, Fields
    <3>3. Alike(t, u) /\ u.announced = t.announced /\ u.cut = t.cut /\ u.update = t.update
          /\ u.changed = t.changed /\ u.state = t.state /\ u.line = s.line
          /\ u.desc = s.desc /\ u.link = s.link
      BY <2>4, <3>1, <3>2 DEF Alike, Kept, Fields
    <3>4. Settled(u) /\ Labels(u) /\ Holder(u) \subseteq Chars
      BY <2>3, <2>4, <2>5, <3>3, Alikes DEF Holder
    <3>5. Main(u) /\ Counted(u)
      BY <3>4 DEF Main, Counted, Fine
    <3>6. Session(u) /\ Told(u) /\ Places(u)
      BY <2>4, <2>5, <3>1, <3>3, <3>4 DEF Session, Told, Heard, Places, Events
    <3> QED
      BY <1>1, <1>4, <2>6, <3>2, <3>4, <3>5, <3>6 DEF Good
  <2>7. CASE ~ (new >= MaxGsn)
    <3>1. new \in Numbers
      BY <1>2, <2>7, Constants DEF Numbers
    <3>2. Good(End(w))
      BY <1>2, <2>2, <2>3, <2>4, <2>5, <3>1, UpdateEnds
    <3> QED
      BY <1>1, <1>4, <2>7, <3>2
  <2> QED
    BY <2>6, <2>7
<1> QED
  BY <1>3, <1>4

(* Where an event stands.                                                    *)
LEMMA Eventful ==
  ASSUME NEW s, Good(s), s.link, s.pc \in Events
  PROVE  /\ Typed(s) /\ s.line # <<>> /\ Holder(s) = {Head(s.line)} /\ Holder(s) \subseteq Chars
         /\ s.desc # None /\ s.state # None /\ Labels(s) /\ Heard(s) /\ ~s.update /\ ~s.changed
<1>1. Typed(s) /\ Session(s) /\ Labels(s) /\ Places(s) /\ Told(s)
  BY DEF Good
<1>2. s.line # <<>> /\ Holder(s) \subseteq Chars /\ ~s.update /\ ~s.changed
  BY <1>1 DEF Places, Events
<1> QED
  BY <1>1, <1>2 DEF Session, Told, Heard, Holder, Events

LEMMA EventReadKeeps == Good(State) /\ EventRead => Good(State')
<1> SUFFICES ASSUME Good(State), EventRead PROVE Good(State')
  OBVIOUS
<1> DEFINE s == State
           l == s.stale \ {Head(s.line)}
           t == [s EXCEPT !.stale = l]
           u == [t EXCEPT !.pc = "eparams"]
<1>1. s.pc = "evalue" /\ s.link /\ (Become(CountUp(t)) \/ Become(u))
  BY StateFields DEF EventRead
<1>2. Main(s) /\ Places(s) /\ Good(s)
  BY DEF Good
<1> HIDE DEF s
<1>3. /\ Typed(s) /\ s.line # <<>> /\ Holder(s) = {Head(s.line)} /\ Holder(s) \subseteq Chars
      /\ s.desc # None /\ s.state # None /\ Labels(s) /\ Heard(s) /\ ~s.update /\ ~s.changed
  BY <1>1, <1>2, Eventful DEF Events
<1>4. l \in SUBSET Chars
  BY <1>3 DEF Typed
<1>5. Fine(s) => s.excused \/ s.swallowed \/ l \subseteq Later(s)
  BY <1>3 DEF Fine, Settled
<1> HIDE DEF l
<1>6. DOMAIN t = Fields /\ t.stale = l /\ \A f \in Fields \ {"stale"} : t[f] = s[f]
  BY <1>3 DEF Typed, Fields
<1> HIDE DEF t
<1>7. Typed(t)
  BY <1>3, <1>4, <1>6 DEF Typed, Fields
<1>8. /\ t.gsn = s.gsn /\ t.cn = s.cn /\ t.bumped = s.bumped /\ t.link = s.link
      /\ t.desc = s.desc /\ t.state = s.state /\ t.cache = s.cache /\ t.line = s.line
      /\ t.announced = s.announced /\ t.excused = s.excused /\ t.swallowed = s.swallowed
      /\ t.cut = s.cut /\ t.update = s.update /\ t.changed = s.changed
  BY <1>6 DEF Fields
<1>9. Labels(t) /\ Heard(t) /\ Holder(t) = Holder(s) /\ Later(t) = Later(s)
  BY <1>3, <1>8 DEF Labels, Heard, Holder, Later
<1>10. Good(CountUp(t))
  BY <1>1, <1>3, <1>7, <1>8, <1>9, CountUpKeeps
<1>11. Good(u)
  <2>1. DOMAIN u = Fields /\ u.pc = "eparams" /\ \A f \in Fields \ {"pc"} : u[f] = t[f]
    BY <1>6 DEF Fields
  <2> HIDE DEF u
  <2>2. Typed(u)
    <3>1. u.pc \in Requests
      BY <2>1 DEF Requests
    <3> QED
      BY <1>7, <2>1, <3>1 DEF Typed, Fields
  <2>3. Alike(t, u) /\ u.announced = t.announced /\ u.cut = t.cut /\ u.update = t.update
        /\ u.changed = t.changed /\ u.state = t.state /\ u.line = t.line
        /\ u.desc = t.desc /\ u.link = t.link
    BY <2>1, <2>2 DEF Alike, Kept, Fields
  <2>4. /\ Holder(u) = Holder(s) /\ Later(u) = Later(s) /\ Labels(u)
        /\ (Settled(u) <=> Settled(t)) /\ (Behind(u) <=> Behind(t))
        /\ (Different(u) <=> Different(t))
    BY <1>9, <2>3, Alikes
  <2>5. Fine(s) => Settled(u)
    BY <1>5, <1>6, <1>8, <1>9, <2>4 DEF Settled
  <2>6. (Behind(s) => Behind(u)) /\ (Different(s) => Different(u))
    BY <1>8, <2>4 DEF Behind, Different
  <2>7. (Polls(s) => Polls(u)) /\ (Comes(s) => Comes(u))
    BY <1>1, <2>1, <2>4 DEF Polls, Comes, Restores
  <2>8. Main(u)
    BY <1>2, <1>3, <2>5, <2>6, <2>7 DEF Main, Fine
  <2>9. Counted(u)
    <3>1. u.had = s.had /\ u.ahead = s.ahead /\ Counted(s)
      BY <1>2, <1>6, <2>1 DEF Fields, Good
    <3> QED
      BY <2>1, <2>5, <3>1 DEF Counted, Counts, Fine, Restores
  <2>10. Session(u) /\ Told(u) /\ Places(u)
    BY <1>1, <1>3, <1>8, <1>9, <2>1, <2>3, <2>4 DEF Session, Told, Heard, Places, Events
  <2> QED
    BY <2>2, <2>4, <2>8, <2>9, <2>10 DEF Good
<1> QED
  BY <1>1, <1>10, <1>11, Becomes

LEMMA EventParamsKeeps == Good(State) /\ EventParams => Good(State')
<1> SUFFICES ASSUME Good(State), EventParams PROVE Good(State')
  OBVIOUS
<1> DEFINE s == State
           t == Resync(s)
<1>1. s.pc = "eparams" /\ s.link /\ (Become(CountUp(t)) \/ Become(CountUp(s)))
  BY StateFields DEF EventParams
<1>2. Good(s)
  OBVIOUS
<1> HIDE DEF s
<1>3. /\ Typed(s) /\ s.line # <<>> /\ Holder(s) = {Head(s.line)} /\ Holder(s) \subseteq Chars
      /\ s.desc # None /\ s.state # None /\ Labels(s) /\ Heard(s) /\ ~s.update /\ ~s.changed
  BY <1>1, <1>2, Eventful DEF Events
<1>4. /\ Typed(t) /\ t.desc # None /\ t.state # None /\ t.desc.cn = s.desc.cn
      /\ \A f \in Fields \ {"desc", "state", "cache", "ahead", "fetched", "swallowed"} :
           t[f] = s[f]
      /\ t.state.cn = s.state.cn /\ t.state.db = s.state.db
      /\ t.cache = s.cache \/ t.cache = t.state
  BY <1>3, ResyncFields
<1> HIDE DEF t
<1>5. /\ t.cn = s.cn /\ t.link = s.link /\ t.line = s.line /\ t.announced = s.announced
      /\ t.cut = s.cut /\ t.update = s.update /\ t.changed = s.changed
  BY <1>4 DEF Fields
<1>6. Labels(t)
  <2>1. Label(t.state, t.cn) /\ Label(t.cache, t.cn)
    BY <1>3, <1>4, <1>5 DEF Labels, Label
  <2> QED
    BY <1>3, <1>4, <1>5, <2>1 DEF Labels
<1>7. Heard(t) /\ Holder(t) = Holder(s)
  BY <1>3, <1>4, <1>5 DEF Heard, Holder
<1>8. Good(CountUp(t))
  BY <1>1, <1>3, <1>4, <1>5, <1>6, <1>7, CountUpKeeps
<1>9. Good(CountUp(s))
  BY <1>1, <1>3, CountUpKeeps
<1> QED
  BY <1>1, <1>8, <1>9, Becomes

LEMMA EventKeyKeeps == Good(State) /\ EventKey => Good(State')
<1> SUFFICES ASSUME Good(State), EventKey PROVE Good(State')
  OBVIOUS
<1> DEFINE s == State
           t == UpdateGsn(s, 1)
           u == [t EXCEPT !.ahead = TRUE]
<1>1. s.pc = "ekey" /\ s.link /\ Become(End(u))
  BY StateFields DEF EventKey
<1>2. Good(s) /\ Counted(s)
  BY DEF Good
<1> HIDE DEF s
<1>3. /\ Typed(s) /\ s.line # <<>>
      /\ s.desc # None /\ s.state # None /\ Labels(s) /\ Heard(s)
  BY <1>1, <1>2, Eventful DEF Events
<1>4. Settled(s)
  BY <1>1, <1>2 DEF Counted, Counts, Fine
<1>5. 1 \in Numbers
  BY Constants DEF Numbers
<1>6. Good(End(u))
  BY <1>1, <1>3, <1>4, <1>5, UpdateEnds
<1> QED
  BY <1>1, <1>6, Becomes

-----------------------------------------------------------------------------
(* The accessory, the link and the process.                                  *)

LEMMA StartNotifyKeeps ==
  ASSUME NEW i \in Chars
  PROVE  Good(State) /\ StartNotify(i) => Good(State')
<1> SUFFICES ASSUME Good(State), StartNotify(i) PROVE Good(State')
  OBVIOUS
<1> DEFINE s == State
           e == s.enabled \cup {i}
           t == [s EXCEPT !.enabled = e]
<1>1. Become(t)
  BY StateFields DEF StartNotify
<1>2. /\ Typed(s) /\ Main(s) /\ Counted(s) /\ Session(s) /\ Labels(s) /\ Places(s) /\ Told(s)
  BY DEF Good
<1> HIDE DEF s
<1>3. e \in SUBSET Chars
  BY <1>2 DEF Typed
<1> HIDE DEF e
<1>4. DOMAIN t = Fields /\ t.enabled = e /\ \A f \in Fields \ {"enabled"} : t[f] = s[f]
  BY <1>2 DEF Typed, Fields
<1> HIDE DEF t
<1>5. Typed(t)
  BY <1>2, <1>3, <1>4 DEF Typed, Fields
<1>6. /\ Alike(s, t) /\ t.cache = s.cache /\ t.pc = s.pc /\ t.attempt = s.attempt
      /\ t.update = s.update /\ t.changed = s.changed /\ t.announced = s.announced
      /\ t.cut = s.cut
  BY <1>4, <1>5 DEF Alike, Kept, Fields
<1>7. /\ t.stale = s.stale /\ t.bumped = s.bumped /\ t.link = s.link /\ t.had = s.had
      /\ t.device = s.device /\ t.desc = s.desc /\ t.state = s.state /\ t.line = s.line
      /\ t.ahead = s.ahead
  BY <1>4 DEF Fields
<1>8. /\ Holder(t) = Holder(s) /\ Later(t) = Later(s)
      /\ (Settled(t) <=> Settled(s)) /\ (Different(t) <=> Different(s))
      /\ (Behind(t) <=> Behind(s)) /\ Labels(t)
  BY <1>2, <1>6, Alikes
<1>9. Fine(t) <=> Fine(s)
  BY <1>6, <1>7, <1>8 DEF Fine
<1>10. Main(t) /\ Counted(t)
  BY <1>2, <1>6, <1>7, <1>8, <1>9 DEF Main, Polls, Comes, Counted, Counts
<1>11. Session(t) /\ Told(t) /\ Places(t)
  BY <1>2, <1>6, <1>7, <1>8 DEF Session, Told, Places
<1> QED
  BY <1>1, <1>5, <1>8, <1>10, <1>11, Becomes DEF Good

(* A change of which an event is sent waits for it; another is excused.      *)
LEMMA ChangeConnectedKeeps ==
  ASSUME NEW i \in Chars
  PROVE  Good(State) /\ ChangeConnected(i) => Good(State')
<1> SUFFICES ASSUME Good(State), ChangeConnected(i) PROVE Good(State')
  OBVIOUS
<1> DEFINE s == State
           x == s.stale \cup {i}
           t == [s EXCEPT !.stale = x, !.bumped = TRUE]
           u == [t EXCEPT !.excused = TRUE]
<1>1. /\ s.link /\ (Become(LineUp(t, i)) \/ Become(u))
      /\ s.desc # None /\ ~s.ahead /\ ~s.had => NextGsn(s.gsn) # s.desc.gsn
  BY StateFields DEF ChangeConnected, NotRound
<1>2. /\ Typed(s) /\ Main(s) /\ Counted(s) /\ Session(s) /\ Labels(s) /\ Places(s) /\ Told(s)
  BY DEF Good
<1> HIDE DEF s
<1>3. x \in SUBSET Chars
  BY <1>2 DEF Typed
<1> HIDE DEF x
<1>4. /\ DOMAIN t = Fields /\ t.stale = x /\ t.bumped = TRUE
      /\ \A f \in Fields \ {"stale", "bumped"} : t[f] = s[f]
  BY <1>2 DEF Typed, Fields
<1> HIDE DEF t
<1>5. Typed(t)
  BY <1>2, <1>3, <1>4 DEF Typed, Fields
<1>6. CASE Become(u)
  <2>1. /\ DOMAIN u = Fields /\ u.excused = TRUE /\ u.bumped = TRUE
        /\ \A f \in Fields \ {"excused", "stale", "bumped"} : u[f] = s[f]
        /\ \A f \in Fields \ {"excused"} : u[f] = t[f]
    BY <1>4 DEF Fields
  <2> HIDE DEF u
  <2>2. Typed(u)
    BY <1>5, <2>1 DEF Typed, Fields
  <2>3. /\ u.cn = s.cn /\ u.link = s.link /\ u.had = s.had /\ u.device = s.device
        /\ u.desc = s.desc /\ u.state = s.state /\ u.cache = s.cache /\ u.line = s.line
        /\ u.pc = s.pc /\ u.attempt = s.attempt /\ u.update = s.update
        /\ u.changed = s.changed /\ u.announced = s.announced /\ u.cut = s.cut
    BY <2>1 DEF Fields
  <2>4. Main(u) /\ Counted(u)
    BY <2>1 DEF Main, Counted, Fine, Settled
  <2>5. Session(u) /\ Labels(u) /\ Told(u)
    BY <1>1, <1>2, <2>3 DEF Session, Labels, Told
  <2>6. Places(u)
    BY <1>2, <2>3 DEF Places, Holder
  <2> QED
    BY <1>6, <2>2, <2>4, <2>5, <2>6, Becomes DEF Good
<1>7. CASE Become(LineUp(t, i))
  <2> DEFINE v == LineUp(t, i)
  <2>1. t.pc # "idle" => t.line # <<>>
    BY <1>2, <1>4 DEF Places, Fields
  <2>2. Joined(t, v, i)
    BY <1>5, <2>1, LineUpJoins DEF Tasks
  <2> HIDE DEF v
  <2>3. /\ Typed(v) /\ v.line # <<>>
        /\ \A f \in Fields \ {"line"} : v[f] = t[f]
        /\ t.line # <<>> => Holder(v) = Holder(t)
        /\ Later(t) \subseteq Later(v) /\ Holder(t) \subseteq Holder(v)
        /\ i \in Later(v) \/ (t.pc = "idle" /\ i \in Holder(v))
    BY <2>2 DEF Joined
  <2>4. /\ v.gsn = s.gsn /\ v.cn = s.cn /\ v.stale = x /\ v.bumped = TRUE
        /\ v.link = s.link /\ v.had = s.had /\ v.device = s.device /\ v.desc = s.desc
        /\ v.state = s.state /\ v.cache = s.cache /\ v.pc = s.pc /\ v.attempt = s.attempt
        /\ v.update = s.update /\ v.changed = s.changed /\ v.announced = s.announced
        /\ v.ahead = s.ahead /\ v.excused = s.excused /\ v.swallowed = s.swallowed
        /\ v.cut = s.cut
    BY <1>4, <2>3 DEF Fields
  <2>5. t.line = s.line /\ t.pc = s.pc /\ Holder(t) = Holder(s) /\ Later(t) = Later(s)
    BY <1>4 DEF Fields, Holder, Later
  <2>6. Fine(s) => Fine(v)
    <3>1. x \subseteq s.stale \cup {i}
      BY DEF x
    <3>2. s.pc \in {"eparams", "ekey"} => i \in Later(v)
      BY <2>3, <2>5
    <3> QED
      BY <2>3, <2>4, <2>5, <3>1, <3>2 DEF Fine, Settled
  <2>7. (Polls(s) => Polls(v)) /\ (Comes(s) => Comes(v))
    BY <2>3, <2>4, <2>5 DEF Polls, Comes
  <2>8. s.pc # "idle" => Holder(v) = Holder(s)
    BY <1>2, <2>3, <2>5 DEF Places
  <2>9. Counted(v)
    BY <1>2, <2>4, <2>6, <2>8 DEF Counted, Counts, Restores
  <2>10. ~Fine(s) /\ Behind(s) => Behind(v)
    <3>1. ~Fine(s) => ~s.had /\ ~s.ahead
      BY <1>2 DEF Counted, Counts
    <3> QED
      BY <1>1, <2>4, <3>1 DEF Behind
  <2>11. Main(v)
    BY <1>2, <2>4, <2>6, <2>7, <2>10 DEF Main, Different
  <2>12. Session(v) /\ Labels(v) /\ Told(v)
    BY <1>1, <1>2, <2>4 DEF Session, Labels, Told
  <2>13. Places(v)
    BY <1>2, <2>3, <2>4, <2>8 DEF Places, Events
  <2> QED
    BY <1>7, <2>3, <2>9, <2>11, <2>12, <2>13, Becomes DEF Good, v
<1> QED
  BY <1>1, <1>6, <1>7

(* Without a connection the accessory takes its next number.                 *)
LEMMA ChangeKeeps ==
  ASSUME NEW i \in Chars
  PROVE  Good(State) /\ Change(i) => Good(State')
<1> SUFFICES ASSUME Good(State), Change(i) PROVE Good(State')
  OBVIOUS
<1> DEFINE s == State
           x == s.stale \cup {i}
           g == NextGsn(s.gsn)
           e == s.excused \/ s.ahead
           t == [s EXCEPT !.stale = x, !.gsn = g, !.onair = i, !.excused = e]
<1>1. /\ ~s.link /\ Become(t)
      /\ s.desc # None /\ ~s.ahead /\ ~s.had => g # s.desc.gsn
  BY StateFields DEF Change, NotRound
<1>2. /\ Typed(s) /\ Main(s) /\ Counted(s) /\ Session(s) /\ Labels(s) /\ Places(s) /\ Told(s)
  BY DEF Good
<1> HIDE DEF s
<1>3. x \in SUBSET Chars /\ g \in Numbers /\ e \in BOOLEAN /\ i \in Chars \cup {None}
      /\ (s.ahead => e)
  BY <1>2, NextIsNumber DEF Typed
<1> HIDE DEF x, g, e
<1>4. /\ DOMAIN t = Fields /\ t.stale = x /\ t.gsn = g /\ t.onair = i /\ t.excused = e
      /\ \A f \in Fields \ {"stale", "gsn", "onair", "excused"} : t[f] = s[f]
  BY <1>2 DEF Typed, Fields
<1> HIDE DEF t
<1>5. Typed(t)
  BY <1>2, <1>3, <1>4 DEF Typed, Fields
<1>6. /\ t.cn = s.cn /\ t.bumped = s.bumped /\ t.link = s.link /\ t.had = s.had
      /\ t.device = s.device /\ t.desc = s.desc /\ t.state = s.state /\ t.cache = s.cache
      /\ t.line = s.line /\ t.pc = s.pc /\ t.attempt = s.attempt /\ t.update = s.update
      /\ t.changed = s.changed /\ t.announced = s.announced /\ t.ahead = s.ahead
      /\ t.cut = s.cut
  BY <1>4 DEF Fields
<1>7. ~s.bumped /\ ~s.had
  BY <1>1, <1>2 DEF Session
<1>8. s.ahead => Fine(t)
  BY <1>3, <1>4 DEF Fine, Settled
<1>9. ~s.ahead => Behind(t)
  BY <1>1, <1>4, <1>6, <1>7 DEF Behind
<1>10. Main(t) /\ Counted(t)
  BY <1>1, <1>6, <1>7, <1>8, <1>9 DEF Main, Counted, Counts
<1>11. Session(t) /\ Labels(t) /\ Told(t)
  BY <1>2, <1>6 DEF Session, Labels, Told
<1>12. Places(t)
  BY <1>2, <1>6 DEF Places, Holder
<1> QED
  BY <1>1, <1>5, <1>10, <1>11, <1>12, Becomes DEF Good

LEMMA ReconfigureKeeps == Good(State) /\ Reconfigure => Good(State')
<1> SUFFICES ASSUME Good(State), Reconfigure PROVE Good(State')
  OBVIOUS
<1> DEFINE s == State
           n == s.cn + 1
           t == [s EXCEPT !.cn = n]
<1>1. s.cn < MaxCn /\ Become(t)
  BY StateFields DEF Reconfigure
<1>2. /\ Typed(s) /\ Main(s) /\ Counted(s) /\ Session(s) /\ Labels(s) /\ Places(s) /\ Told(s)
  BY DEF Good
<1> HIDE DEF s
<1>3. n \in 1..MaxCn /\ s.cn <= n /\ s.cn \in Nat
  BY <1>1, <1>2, Constants DEF Typed
<1> HIDE DEF n
<1>4. DOMAIN t = Fields /\ t.cn = n /\ \A f \in Fields \ {"cn"} : t[f] = s[f]
  BY <1>2 DEF Typed, Fields
<1> HIDE DEF t
<1>5. Typed(t)
  BY <1>2, <1>3, <1>4 DEF Typed, Fields
<1>6. /\ t.gsn = s.gsn /\ t.stale = s.stale /\ t.bumped = s.bumped
      /\ t.link = s.link /\ t.had = s.had /\ t.device = s.device /\ t.desc = s.desc
      /\ t.state = s.state /\ t.cache = s.cache /\ t.line = s.line /\ t.pc = s.pc
      /\ t.attempt = s.attempt /\ t.update = s.update /\ t.changed = s.changed
      /\ t.announced = s.announced /\ t.ahead = s.ahead /\ t.excused = s.excused
      /\ t.swallowed = s.swallowed /\ t.cut = s.cut
  BY <1>4 DEF Fields
<1>7. Holder(t) = Holder(s) /\ Later(t) = Later(s)
  BY <1>6 DEF Holder, Later
<1>8. Fine(t) <=> Fine(s)
  BY <1>6, <1>7 DEF Fine, Settled
<1>9. Main(t) /\ Counted(t)
  BY <1>2, <1>6, <1>7, <1>8 DEF Main, Polls, Comes, Different, Behind, Counted, Counts
<1>10. Labels(t)
  <2>1. \A a \in States : a.db \in Nat
    BY Constants DEF States
  <2>2. Label(t.state, t.cn)
    BY <1>2, <1>3, <1>4, <1>6, <2>1 DEF Typed, Labels, Label
  <2>3. Label(t.cache, t.cn)
    BY <1>2, <1>3, <1>4, <1>6, <2>1 DEF Typed, Labels, Label
  <2>4. s.desc # None => s.desc.cn \in Nat
    BY <1>2, Constants DEF Typed, Descriptions
  <2>5. t.desc # None => t.desc.cn <= t.cn
    BY <1>2, <1>3, <1>4, <1>6, <2>4 DEF Labels
  <2> QED
    BY <1>2, <1>6, <2>2, <2>3, <2>5 DEF Labels
<1>11. Session(t) /\ Told(t) /\ Places(t)
  BY <1>2, <1>6, <1>7 DEF Session, Told, Places
<1> QED
  BY <1>1, <1>5, <1>9, <1>10, <1>11, Becomes DEF Good

LEMMA LinkDropsKeeps == Good(State) /\ LinkDrops => Good(State')
<1> SUFFICES ASSUME Good(State), LinkDrops PROVE Good(State')
  OBVIOUS
<1> DEFINE s == State
           t == Drop(s)
<1>1. Become(t)
  BY DEF LinkDrops
<1>2. /\ Typed(s) /\ Main(s) /\ Counted(s) /\ Session(s) /\ Labels(s) /\ Places(s) /\ Told(s)
  BY DEF Good
<1> HIDE DEF s
<1>3. /\ Typed(t) /\ ~t.link /\ ~t.bumped /\ ~t.had
      /\ \A f \in Fields \ {"link", "keyed", "enabled", "fetched", "had", "pending",
                            "bumped", "gsn", "late"} : t[f] = s[f]
      /\ Behind(s) => Behind(t)
  BY <1>2, DropFields DEF Session
<1> HIDE DEF t
<1>4. /\ t.cn = s.cn /\ t.stale = s.stale /\ t.device = s.device /\ t.desc = s.desc
      /\ t.state = s.state /\ t.cache = s.cache /\ t.line = s.line /\ t.pc = s.pc
      /\ t.attempt = s.attempt /\ t.update = s.update /\ t.changed = s.changed
      /\ t.announced = s.announced /\ t.ahead = s.ahead /\ t.excused = s.excused
      /\ t.swallowed = s.swallowed /\ t.cut = s.cut
  BY <1>3 DEF Fields
<1>5. Holder(t) = Holder(s) /\ Later(t) = Later(s)
  BY <1>4 DEF Holder, Later
<1>6. Fine(t) <=> Fine(s)
  BY <1>4, <1>5 DEF Fine, Settled
<1>7. Main(t) /\ Counted(t)
  BY <1>2, <1>3, <1>4, <1>5, <1>6 DEF Main, Polls, Comes, Different, Counted, Counts
<1>8. Session(t) /\ Labels(t) /\ Told(t) /\ Places(t)
  BY <1>2, <1>3, <1>4, <1>5 DEF Session, Labels, Told, Places
<1> QED
  BY <1>1, <1>3, <1>7, <1>8, Becomes DEF Good

(* What the cache says is what the process begins with.                      *)
LEMMA RestartKeeps == Good(State) /\ Restart => Good(State')
<1> SUFFICES ASSUME Good(State), Restart PROVE Good(State')
  OBVIOUS
<1> DEFINE s == State
           d == Drop(s)
           n == IF s.cache = None \/ s.cache.gsn = None THEN None
                ELSE [cn |-> s.cache.cn, gsn |-> s.cache.gsn]
           b == IF s.cache = None THEN 0 ELSE s.cache.db
           t == [d EXCEPT !.device = FALSE, !.state = s.cache, !.tried = FALSE, !.desc = n,
                   !.line = <<>>, !.pc = "idle", !.attempt = 0, !.update = FALSE,
                   !.changed = FALSE, !.param = None, !.late = {}, !.ahead = FALSE,
                   !.cut = FALSE, !.announced = b, !.excused = TRUE]
<1>1. Become(t)
  BY StateFields DEF Restart
<1>2. Typed(s) /\ Session(s) /\ Labels(s)
  BY DEF Good
<1> HIDE DEF s
<1>3. /\ Typed(d) /\ ~d.link /\ ~d.bumped /\ ~d.had
      /\ \A f \in Fields \ {"link", "keyed", "enabled", "fetched", "had", "pending",
                            "bumped", "gsn", "late"} : d[f] = s[f]
  BY <1>2, DropFields DEF Session
<1> HIDE DEF d
<1>4. /\ s.cache # None => /\ s.cache \in States /\ s.cache.cn \in 1..MaxCn
                           /\ s.cache.db \in 1..MaxCn /\ s.cache.cn <= s.cn
                           /\ s.cache.gsn \in Numbers \cup {None}
  <2>1. ASSUME s.cache # None
        PROVE  /\ s.cache \in States /\ s.cache.cn \in 0..MaxCn /\ s.cache.db \in 1..MaxCn
               /\ s.cache.gsn \in Numbers \cup {None} /\ s.cn \in 1..MaxCn
    BY <1>2, <2>1 DEF Typed, States
  <2>2. s.cache # None => 1 <= s.cache.cn /\ s.cache.cn <= s.cache.db /\ s.cache.db <= s.cn
    BY <1>2 DEF Labels, Label
  <2> QED
    BY <2>1, <2>2, Constants
<1>5. /\ n \in Descriptions \cup {None} /\ b \in 0..MaxCn
      /\ n # None => s.cache # None /\ n.cn = s.cache.cn
      /\ s.cache # None => b = s.cache.db
  BY <1>4, Constants DEF Descriptions
<1> HIDE DEF n, b
<1>6. /\ DOMAIN t = Fields /\ t.device = FALSE /\ t.state = s.cache /\ t.tried = FALSE
      /\ t.desc = n /\ t.line = <<>> /\ t.pc = "idle" /\ t.attempt = 0 /\ t.update = FALSE
      /\ t.changed = FALSE /\ t.param = None /\ t.late = {} /\ t.ahead = FALSE
      /\ t.cut = FALSE /\ t.announced = b /\ t.excused = TRUE
      /\ \A f \in Fields \ {"device", "state", "tried", "desc", "line", "pc", "attempt",
           "update", "changed", "param", "late", "ahead", "cut", "announced", "excused"} :
             t[f] = d[f]
  BY <1>3 DEF Typed, Fields
<1> HIDE DEF t
<1>7. Typed(t)
  <2>1. /\ t.device \in BOOLEAN /\ t.tried \in BOOLEAN /\ t.update \in BOOLEAN
        /\ t.changed \in BOOLEAN /\ t.ahead \in BOOLEAN /\ t.cut \in BOOLEAN
        /\ t.excused \in BOOLEAN
    BY <1>6
  <2>2. /\ t.line \in Seq(Tasks) /\ t.late \in SUBSET Chars
        /\ t.pc \in Requests \cup {"idle", "connect"} /\ t.param \in Numbers \cup {None}
    BY <1>6
  <2>3. /\ t.state \in States \cup {None} /\ t.desc \in Descriptions \cup {None}
        /\ t.announced \in 0..MaxCn /\ t.attempt \in 0..MaxAttempts
    BY <1>2, <1>5, <1>6, Constants DEF Typed
  <2> QED
    BY <1>3, <1>6, <2>1, <2>3, <2>2 DEF Typed, Fields
<1>8. ~t.link /\ ~t.bumped /\ ~t.had /\ t.cn = s.cn /\ t.cache = s.cache
  BY <1>3, <1>6 DEF Fields
<1>9. Main(t) /\ Counted(t)
  BY <1>6 DEF Main, Counted, Fine, Settled
<1>10. Session(t) /\ Told(t) /\ Places(t)
  BY <1>5, <1>6, <1>8 DEF Session, Told, Places, Events
<1>11. Labels(t)
  <2>1. t.state # None /\ t.desc # None => t.state.cn <= t.desc.cn
    BY <1>4, <1>5, <1>6, Constants
  <2>2. t.desc # None => t.desc.cn <= t.cn
    BY <1>4, <1>5, <1>6, <1>8
  <2> QED
    BY <1>2, <1>6, <1>8, <2>1, <2>2 DEF Labels
<1> QED
  BY <1>1, <1>7, <1>9, <1>10, <1>11, Becomes DEF Good

-----------------------------------------------------------------------------
(* What is heard.                                                            *)

(* t is s before _async_description_update takes d over: what d makes        *)
(* necessary has lined up, or there is an excuse.                            *)
Alerted(s, d, t) ==
  /\ Typed(t)
  /\ \A f \in Fields \ {"line", "excused"} : t[f] = s[f]
  /\ s.pc # "idle" => t.line # <<>> /\ Holder(t) = Holder(s)
  /\ Fine(s) => Fine(t)
  /\ \/ Fine(t) \/ Polls(t) \/ t.update
     \/ Comes(t) /\ (s.state = None \/ s.state.cn # d.cn)

LEMMA DescribeAlerts ==
  ASSUME NEW s, Good(s), NEW d \in Descriptions, d.gsn = s.gsn, d.cn = s.cn
  PROVE  \E t : Alerted(s, d, t) /\ Describe(s, d) = [t EXCEPT !.desc = d, !.ahead = FALSE]
<1>1. /\ Typed(s) /\ Main(s) /\ Labels(s) /\ Places(s)
  BY DEF Good
<1>2. s.pc # "idle" => s.line # <<>>
  BY <1>1 DEF Places
<1>3. d.cn \in 1..MaxCn /\ ConfigNum(s) \in Int
  <2>1. \A a \in States : a.cn \in Int
    BY DEF States
  <2> QED
    BY <1>1, <2>1 DEF Descriptions, ConfigNum, Typed
<1> DEFINE c == CASE d.cn > ConfigNum(s) -> LineUp(s, "config")
                  [] d.cn <= ConfigNum(s) /\ (s.desc = None \/ d.gsn # s.desc.gsn) ->
                       ProcessDisconnectedEvents(s)
                  [] OTHER -> s
<1>4. Describe(s, d) = [c EXCEPT !.desc = d, !.ahead = FALSE]
  BY DEF Describe
<1>5. CASE d.cn > ConfigNum(s)
  <2> DEFINE t == LineUp(s, "config")
  <2>1. Describe(s, d) = [t EXCEPT !.desc = d, !.ahead = FALSE]
    <3>1. c = t
      BY <1>3, <1>5
    <3> HIDE DEF c
    <3> QED
      BY <1>4, <3>1
  <2>2. Joined(s, t, "config")
    BY <1>1, <1>2, LineUpJoins DEF Tasks
  <2> HIDE DEF t
  <2>3. /\ Typed(t) /\ \A f \in Fields \ {"line"} : t[f] = s[f]
        /\ t.line # <<>> /\ (s.line # <<>> => Holder(t) = Holder(s))
        /\ "config" \in Later(t) \/ (s.pc = "idle" /\ "config" \in Holder(t))
    BY <2>2 DEF Joined
  <2>4. t.pc = s.pc /\ "config" \notin Chars
    BY <2>3, Constants DEF Fields
  <2>5. Comes(t)
    BY <2>3, <2>4 DEF Comes
  <2>6. s.state = None \/ s.state.cn # d.cn
    BY <1>3, <1>5 DEF ConfigNum
  <2>7. Fine(s) => Fine(t)
    BY <2>2, JoinedKeeps
  <2>8. Alerted(s, d, t)
    BY <1>2, <2>3, <2>5, <2>6, <2>7 DEF Alerted
  <2> QED
    BY <2>1, <2>8
<1>6. CASE d.cn <= ConfigNum(s) /\ (s.desc = None \/ d.gsn # s.desc.gsn)
  <2> DEFINE t == ProcessDisconnectedEvents(s)
  <2>1. Describe(s, d) = [t EXCEPT !.desc = d, !.ahead = FALSE]
    <3>1. c = t
      BY <1>3, <1>6
    <3> HIDE DEF c
    <3> QED
      BY <1>4, <3>1
  <2>2. \/ Typed(t) /\ t.excused /\ \A f \in Fields \ {"excused"} : t[f] = s[f]
        \/ Joined(s, t, "poll")
    BY <1>1, <1>2, ProcessFields
  <2> HIDE DEF t
  <2>3. CASE Typed(t) /\ t.excused /\ \A f \in Fields \ {"excused"} : t[f] = s[f]
    <3>1. Fine(t) /\ t.line = s.line
      BY <2>3 DEF Fine, Settled, Fields
    <3>2. Holder(t) = Holder(s)
      BY <3>1 DEF Holder
    <3>3. Alerted(s, d, t)
      BY <1>2, <2>3, <3>1, <3>2 DEF Alerted
    <3> QED
      BY <2>1, <3>3
  <2>4. CASE Joined(s, t, "poll")
    <3>1. /\ Typed(t) /\ \A f \in Fields \ {"line"} : t[f] = s[f]
          /\ t.line # <<>> /\ (s.line # <<>> => Holder(t) = Holder(s))
          /\ "poll" \in Later(t) \/ (s.pc = "idle" /\ "poll" \in Holder(t))
      BY <2>4 DEF Joined
    <3>2. t.pc = s.pc
      BY <3>1 DEF Fields
    <3>3. Polls(t)
      BY <3>1, <3>2 DEF Polls, Restores
    <3>4. Fine(s) => Fine(t)
      BY <2>4, JoinedKeeps
    <3>5. Alerted(s, d, t)
      BY <1>2, <3>1, <3>3, <3>4 DEF Alerted
    <3> QED
      BY <2>1, <3>5
  <2> QED
    BY <2>2, <2>3, <2>4
<1>7. CASE d.cn <= ConfigNum(s) /\ s.desc # None /\ d.gsn = s.desc.gsn
  <2>1. Describe(s, d) = [s EXCEPT !.desc = d, !.ahead = FALSE]
    <3>1. c = s
      BY <1>3, <1>7
    <3> HIDE DEF c
    <3> QED
      BY <1>4, <3>1
  <2>2. ~Behind(s)
    BY <1>7 DEF Behind
  <2>3. s.state # None /\ d.cn <= s.state.cn
    BY <1>3, <1>7 DEF ConfigNum
  <2>4. s.desc \in Descriptions /\ s.desc.cn \in 1..MaxCn /\ s.state.cn \in 0..MaxCn
        /\ s.cn \in 1..MaxCn
    BY <1>1, <1>7, <2>3 DEF Typed, Descriptions, States
  <2>5. s.state.cn <= s.desc.cn /\ s.desc.cn <= s.cn
    BY <1>1, <1>7, <2>3 DEF Labels
  <2>6. s.state.cn = s.desc.cn
    BY <1>3, <2>3, <2>4, <2>5, Constants
  <2>7. Fine(s) \/ Polls(s) \/ s.update
    BY <1>1, <2>2, <2>3, <2>6 DEF Main, Different
  <2>8. Alerted(s, d, s)
    BY <1>1, <1>2, <2>7 DEF Alerted
  <2> QED
    BY <2>1, <2>8
<1>8. d.cn <= ConfigNum(s) \/ d.cn > ConfigNum(s)
  BY <1>3
<1> QED
  BY <1>5, <1>6, <1>7, <1>8

LEMMA DescribeKeeps ==
  ASSUME NEW s, Good(s), NEW d \in Descriptions, d.gsn = s.gsn, d.cn = s.cn
  PROVE  LET u == Describe(s, d)
         IN  Good(u) /\ u.state = s.state /\ u.desc # None /\ u.desc.gsn = d.gsn
<1> DEFINE u == Describe(s, d)
<1>1. PICK t : Alerted(s, d, t) /\ u = [t EXCEPT !.desc = d, !.ahead = FALSE]
  BY DescribeAlerts
<1> HIDE DEF u
<1>2. /\ Typed(s) /\ Main(s) /\ Counted(s) /\ Session(s) /\ Labels(s) /\ Places(s) /\ Told(s)
  BY DEF Good
<1>3. /\ Typed(t)
      /\ \A f \in Fields \ {"line", "excused"} : t[f] = s[f]
      /\ s.pc # "idle" => t.line # <<>> /\ Holder(t) = Holder(s)
      /\ Fine(s) => Fine(t)
      /\ \/ Fine(t) \/ Polls(t) \/ t.update
         \/ Comes(t) /\ (s.state = None \/ s.state.cn # d.cn)
  BY <1>1 DEF Alerted
<1>4. /\ DOMAIN u = Fields /\ u.desc = d /\ u.ahead = FALSE
      /\ \A f \in Fields \ {"desc", "ahead"} : u[f] = t[f]
  BY <1>1, <1>3 DEF Typed, Fields
<1>5. Typed(u)
  BY <1>3, <1>4 DEF Typed, Fields
<1>6. /\ u.stale = t.stale /\ u.line = t.line /\ u.excused = t.excused
      /\ u.swallowed = t.swallowed /\ u.pc = t.pc /\ u.update = t.update
  BY <1>4 DEF Fields
<1>7. /\ u.gsn = s.gsn /\ u.cn = s.cn /\ u.bumped = s.bumped /\ u.link = s.link
      /\ u.had = s.had /\ u.device = s.device /\ u.state = s.state /\ u.cache = s.cache
      /\ u.pc = s.pc /\ u.attempt = s.attempt /\ u.update = s.update
      /\ u.changed = s.changed /\ u.announced = s.announced /\ u.cut = s.cut
  BY <1>3, <1>4 DEF Fields
<1>8. Holder(u) = Holder(t) /\ Later(u) = Later(t)
  BY <1>6 DEF Holder, Later
<1>9. /\ Fine(t) => Fine(u)
      /\ Polls(t) => Polls(u)
      /\ Comes(t) => Comes(u)
  BY <1>6, <1>8 DEF Fine, Settled, Polls, Comes
<1>10. d # None
  BY NoneAssumption
<1>11. Main(u)
  BY <1>3, <1>4, <1>6, <1>7, <1>9, <1>10 DEF Main, Different
<1>12. Counted(u)
  BY <1>2, <1>3, <1>4, <1>7, <1>8, <1>9 DEF Counted, Counts, Restores
<1>13. Session(u) /\ Told(u)
  BY <1>2, <1>4, <1>7, <1>10 DEF Session, Told
<1>14. Places(u)
  BY <1>2, <1>3, <1>6, <1>7, <1>8 DEF Places, Events
<1>15. Labels(u)
  <2>1. s.cn \in 1..MaxCn /\ \A a \in States : a.cn \in 0..MaxCn /\ a.db \in 1..MaxCn
    BY <1>2 DEF Typed, States
  <2>2. s.state # None => s.state.cn <= s.cn
    BY <1>2, <2>1, Constants DEF Typed, Labels, Label
  <2> QED
    BY <1>2, <1>4, <1>7, <2>1, <2>2 DEF Labels
<1> QED
  BY <1>4, <1>5, <1>7, <1>10, <1>11, <1>12, <1>13, <1>14, <1>15 DEF Good, u

LEMMA AdvertisementKeeps == Good(State) /\ Advertisement => Good(State')
<1> SUFFICES ASSUME Good(State), Advertisement PROVE Good(State')
  OBVIOUS
<1> DEFINE s == State
           d == [cn |-> s.cn, gsn |-> s.gsn]
           u == Describe(s, d)
           v == CacheGsn(u, d.gsn)
           w == [v EXCEPT !.device = TRUE]
<1>1. Become(IF u.state = None THEN u ELSE w)
  <2>1. d = [cn |-> cn, gsn |-> gsn]
    BY StateFields
  <2> QED
    BY <2>1 DEF Advertisement
<1>2. Typed(s) /\ Good(s)
  BY DEF Good
<1> HIDE DEF s
<1>3. d \in Descriptions /\ d.gsn = s.gsn /\ d.cn = s.cn /\ d.gsn \in Numbers
  BY <1>2 DEF Typed, Descriptions
<1> HIDE DEF d
<1>4. Good(u) /\ u.state = s.state /\ u.desc # None
  BY <1>2, <1>3, DescribeKeeps
<1> HIDE DEF u
<1>5. CASE s.state = None
  BY <1>1, <1>4, <1>5, Becomes
<1>6. CASE s.state # None
  <2>1. /\ Typed(u) /\ Main(u) /\ Counted(u) /\ Session(u) /\ Labels(u) /\ Places(u)
        /\ Told(u)
    BY <1>4 DEF Good
  <2>2. Cached(u, v)
    BY <1>3, <1>4, <1>6, <2>1, CacheGsnFields
  <2> HIDE DEF v
  <2>3. /\ Typed(v) /\ \A f \in Fields \ {"state", "cache"} : v[f] = u[f]
        /\ v.state # None /\ v.state.cn = u.state.cn /\ v.state.db = u.state.db
        /\ v.cache = u.cache \/ v.cache = v.state
    BY <2>2 DEF Cached
  <2>4. DOMAIN w = Fields /\ w.device = TRUE /\ \A f \in Fields \ {"device"} : w[f] = v[f]
    BY <2>3 DEF Typed, Fields
  <2> HIDE DEF w
  <2>5. Typed(w)
    BY <2>3, <2>4 DEF Typed, Fields
  <2>6. /\ w.state = v.state /\ w.cache = v.cache
        /\ w.gsn = u.gsn /\ w.cn = u.cn /\ w.stale = u.stale /\ w.bumped = u.bumped
        /\ w.link = u.link /\ w.had = u.had /\ w.desc = u.desc /\ w.line = u.line
        /\ w.pc = u.pc /\ w.attempt = u.attempt /\ w.update = u.update
        /\ w.changed = u.changed /\ w.announced = u.announced /\ w.ahead = u.ahead
        /\ w.excused = u.excused /\ w.swallowed = u.swallowed /\ w.cut = u.cut
    BY <2>3, <2>4 DEF Fields
  <2>7. u.state # None
    BY <1>4, <1>6
  <2>8. Holder(w) = Holder(u) /\ Later(w) = Later(u)
    BY <2>6 DEF Holder, Later
  <2>9. (Fine(w) <=> Fine(u)) /\ (Different(w) <=> Different(u)) /\ (Behind(w) <=> Behind(u))
    BY <2>3, <2>6, <2>7, <2>8 DEF Fine, Settled, Different, Behind
  <2>10. Main(w) /\ Counted(w)
    BY <2>1, <2>6, <2>8, <2>9 DEF Main, Polls, Comes, Counted, Counts
  <2>11. Labels(w)
    <3>1. Label(w.state, w.cn) /\ Label(w.cache, w.cn)
      BY <2>1, <2>3, <2>6, <2>7 DEF Labels, Label
    <3> QED
      BY <2>1, <2>3, <2>6, <2>7, <3>1 DEF Labels
  <2>12. Session(w) /\ Told(w) /\ Places(w)
    BY <1>4, <2>1, <2>3, <2>6, <2>7, <2>8 DEF Session, Told, Places
  <2> QED
    BY <1>1, <2>5, <2>7, <2>10, <2>11, <2>12, Becomes DEF Good
<1> QED
  BY <1>5, <1>6

(* A broadcast that is not understood has the values polled; one that is     *)
(* takes its number, and what else has changed is excused.                   *)
LEMMA BroadcastKeeps == Good(State) /\ Broadcast => Good(State')
<1> SUFFICES ASSUME Good(State), Broadcast PROVE Good(State')
  OBVIOUS
<1> DEFINE s == State
           h == [s EXCEPT !.onair = None]
           x == s.stale \ {s.onair}
           n == [s.desc EXCEPT !.gsn = s.gsn]
           r == [h EXCEPT !.desc = n, !.stale = x, !.ahead = FALSE]
           e == s.excused \/ x # {}
           t == [r EXCEPT !.excused = e]
           p == ProcessDisconnectedEvents(h)
<1>1. /\ s.desc # None /\ s.state # None
      /\ Become(h) \/ Become(t) \/ Become(p)
  <2> DEFINE heard == [State EXCEPT !.onair = None]
             read == [heard EXCEPT !.desc.gsn = gsn, !.stale = @ \ {onair}, !.ahead = FALSE]
             shown == [read EXCEPT !.excused = @ \/ read.stale # {}]
  <2>1. desc # None /\ state # None /\ (Become(heard) \/ Become(shown)
                                        \/ Become(ProcessDisconnectedEvents(heard)))
    BY DEF Broadcast
  <2>2. heard = h
    OBVIOUS
  <2>3. read = r
    BY StateFields DEF Fields
  <2>4. shown = t
    <3>1. r.stale = x /\ r.excused = s.excused
      BY StateFields DEF Fields
    <3> HIDE DEF r, x
    <3> QED
      BY <2>3, <3>1
  <2> QED
    BY <2>1, <2>2, <2>4, StateFields
<1>2. /\ Typed(s) /\ Main(s) /\ Counted(s) /\ Session(s) /\ Labels(s) /\ Places(s) /\ Told(s)
  BY DEF Good
<1> HIDE DEF s
<1>3. n \in Descriptions /\ n # None /\ n.cn = s.desc.cn
  BY <1>1, <1>2, Redescribe DEF Typed
<1>4. x \in SUBSET Chars /\ e \in BOOLEAN /\ (e \/ x = {})
  BY <1>2 DEF Typed
<1> HIDE DEF n, x, e
<1>5. DOMAIN h = Fields /\ h.onair = None /\ \A f \in Fields \ {"onair"} : h[f] = s[f]
  BY <1>2 DEF Typed, Fields
<1> HIDE DEF h
<1>6. Typed(h)
  BY <1>2, <1>5 DEF Typed, Fields
<1>7. /\ Alike(s, h) /\ h.cache = s.cache /\ h.pc = s.pc /\ h.attempt = s.attempt
      /\ h.update = s.update /\ h.changed = s.changed /\ h.announced = s.announced
      /\ h.cut = s.cut
  BY <1>5, <1>6 DEF Alike, Kept, Fields
<1>8. /\ h.gsn = s.gsn /\ h.cn = s.cn /\ h.stale = s.stale /\ h.bumped = s.bumped
      /\ h.link = s.link /\ h.had = s.had /\ h.device = s.device /\ h.desc = s.desc
      /\ h.state = s.state /\ h.line = s.line /\ h.ahead = s.ahead
      /\ h.excused = s.excused /\ h.swallowed = s.swallowed
  BY <1>5 DEF Fields
<1>9. Good(h)
  <2>1. /\ Holder(h) = Holder(s) /\ Later(h) = Later(s)
        /\ (Settled(h) <=> Settled(s)) /\ (Different(h) <=> Different(s))
        /\ (Behind(h) <=> Behind(s)) /\ Labels(h)
    BY <1>2, <1>7, Alikes
  <2>2. Fine(h) <=> Fine(s)
    BY <1>7, <1>8, <2>1 DEF Fine
  <2>3. Main(h) /\ Counted(h)
    BY <1>2, <1>7, <1>8, <2>1, <2>2 DEF Main, Polls, Comes, Counted, Counts
  <2>4. Session(h) /\ Told(h) /\ Places(h)
    BY <1>2, <1>7, <1>8, <2>1 DEF Session, Told, Places
  <2> QED
    BY <1>6, <2>1, <2>3, <2>4 DEF Good
<1>10. Good(t)
  <2>1. /\ DOMAIN t = Fields /\ t.desc = n /\ t.stale = x /\ t.ahead = FALSE /\ t.excused = e
        /\ \A f \in Fields \ {"desc", "stale", "ahead", "excused"} : t[f] = h[f]
    BY <1>6 DEF Typed, Fields
  <2> HIDE DEF t
  <2>2. Typed(t)
    BY <1>3, <1>4, <1>6, <2>1 DEF Typed, Fields
  <2>3. /\ t.cn = s.cn /\ t.bumped = s.bumped /\ t.link = s.link /\ t.had = s.had
        /\ t.device = s.device /\ t.state = s.state /\ t.cache = s.cache
        /\ t.line = s.line /\ t.pc = s.pc /\ t.attempt = s.attempt /\ t.update = s.update
        /\ t.changed = s.changed /\ t.announced = s.announced /\ t.cut = s.cut
    BY <1>7, <1>8, <2>1 DEF Fields
  <2>4. Fine(t)
    BY <1>4, <2>1 DEF Fine, Settled
  <2>5. Main(t) /\ Counted(t)
    BY <2>4 DEF Main, Counted
  <2>6. Labels(t)
    BY <1>1, <1>2, <1>3, <2>1, <2>3 DEF Labels
  <2>7. Session(t) /\ Told(t)
    BY <1>2, <1>3, <2>1, <2>3 DEF Session, Told
  <2>8. Places(t)
    BY <1>2, <2>3 DEF Places, Holder
  <2> QED
    BY <2>2, <2>5, <2>6, <2>7, <2>8 DEF Good
<1>11. Good(p)
  <2>1. h.pc # "idle" => h.line # <<>>
    BY <1>9 DEF Good, Places
  <2>2. \/ Typed(p) /\ p.excused /\ \A f \in Fields \ {"excused"} : p[f] = h[f]
        \/ Joined(h, p, "poll")
    BY <1>6, <2>1, ProcessFields
  <2> HIDE DEF p
  <2>3. CASE Joined(h, p, "poll")
    BY <1>9, <2>3, JoinedKeeps
  <2>4. CASE Typed(p) /\ p.excused /\ \A f \in Fields \ {"excused"} : p[f] = h[f]
    <3>1. /\ p.cn = s.cn /\ p.bumped = s.bumped /\ p.link = s.link /\ p.had = s.had
          /\ p.device = s.device /\ p.state = s.state /\ p.cache = s.cache
          /\ p.line = s.line /\ p.pc = s.pc /\ p.attempt = s.attempt /\ p.desc = s.desc
          /\ p.update = s.update /\ p.changed = s.changed /\ p.announced = s.announced
          /\ p.cut = s.cut
      BY <1>7, <1>8, <2>4 DEF Fields
    <3>2. Main(p) /\ Counted(p)
      BY <2>4 DEF Main, Counted, Fine, Settled
    <3>3. Session(p) /\ Labels(p) /\ Told(p)
      BY <1>2, <3>1 DEF Session, Labels, Told
    <3>4. Places(p)
      BY <1>2, <3>1 DEF Places, Holder
    <3> QED
      BY <2>4, <3>2, <3>3, <3>4 DEF Good
  <2> QED
    BY <2>2, <2>3, <2>4
<1> QED
  BY <1>1, <1>9, <1>10, <1>11, Becomes

-----------------------------------------------------------------------------
LEMMA Starting == Init => Good(State)
<1> SUFFICES ASSUME Init PROVE Good(State)
  OBVIOUS
<1> DEFINE s == State
           d == [cn |-> 1, gsn |-> 1]
<1>1. /\ DOMAIN s = Fields /\ s.gsn = 1 /\ s.cn = 1 /\ s.stale = {} /\ s.onair = None
      /\ s.bumped = FALSE /\ s.link = FALSE /\ s.keyed = FALSE /\ s.enabled = {}
      /\ s.fetched = FALSE /\ s.had = FALSE /\ s.pending = FALSE /\ s.device = TRUE
      /\ s.desc = d /\ s.state = None /\ s.cache = None /\ s.tried = FALSE
      /\ s.line = <<>> /\ s.pc = "idle" /\ s.attempt = 0 /\ s.update = FALSE
      /\ s.changed = FALSE /\ s.param = None /\ s.announced = 0 /\ s.late = {}
      /\ s.ahead = FALSE /\ s.excused = FALSE /\ s.swallowed = FALSE /\ s.cut = FALSE
  BY StateFields DEF Init
<1> HIDE DEF s
<1>2. d \in Descriptions /\ d.cn = 1 /\ 1 \in Numbers /\ 1 \in 1..MaxCn /\ 0 \in 0..MaxCn
      /\ 0 \in 0..MaxAttempts
  BY Constants DEF Descriptions, Numbers
<1> HIDE DEF d
<1>3. d # None
  BY <1>2, NoneAssumption
<1>4. Typed(s)
  <2>1. /\ s.bumped \in BOOLEAN /\ s.link \in BOOLEAN /\ s.keyed \in BOOLEAN
        /\ s.fetched \in BOOLEAN /\ s.had \in BOOLEAN /\ s.pending \in BOOLEAN
        /\ s.device \in BOOLEAN /\ s.tried \in BOOLEAN /\ s.update \in BOOLEAN
        /\ s.changed \in BOOLEAN /\ s.ahead \in BOOLEAN /\ s.excused \in BOOLEAN
        /\ s.swallowed \in BOOLEAN /\ s.cut \in BOOLEAN
    BY <1>1
  <2>2. /\ s.stale \in SUBSET Chars /\ s.onair \in Chars \cup {None}
        /\ s.enabled \in SUBSET Chars /\ s.late \in SUBSET Chars
        /\ s.state \in States \cup {None} /\ s.cache \in States \cup {None}
        /\ s.param \in Numbers \cup {None} /\ s.pc \in Requests \cup {"idle", "connect"}
    BY <1>1
  <2>3. s.line \in Seq(Tasks)
    BY <1>1
  <2> QED
    BY <1>1, <1>2, <2>1, <2>2, <2>3 DEF Typed
<1>5. Settled(s)
  BY <1>1 DEF Settled
<1>6. Main(s) /\ Counted(s)
  BY <1>5 DEF Main, Counted, Fine
<1>7. Session(s) /\ Told(s)
  BY <1>1, <1>3 DEF Session, Told
<1>8. Labels(s)
  BY <1>1, <1>2 DEF Labels, Label
<1>9. Places(s)
  BY <1>1 DEF Places, Events
<1> QED
  BY <1>4, <1>6, <1>7, <1>8, <1>9 DEF Good, s

LEMMA Stuttering == Good(State) /\ UNCHANGED vars => Good(State')
<1> SUFFICES ASSUME Good(State), UNCHANGED vars PROVE Good(State')
  OBVIOUS
<1>1. State' = State
  BY DEF State, vars
<1> QED
  BY <1>1

LEMMA Steps == Good(State) /\ [Next]_vars => Good(State')
<1> SUFFICES ASSUME Good(State), [Next]_vars PROVE Good(State')
  OBVIOUS
<1>1. ASSUME Advertisement \/ Broadcast PROVE Good(State')
  BY <1>1, AdvertisementKeeps, BroadcastKeeps
<1>2. ASSUME NEW op \in {"populate", "write"}, Call(op) PROVE Good(State')
  BY <1>2, CallKeeps
<1>3. ASSUME TakeLock \/ Connected \/ ConnectFails \/ RequestFails PROVE Good(State')
  BY <1>3, TakeLockKeeps, ConnectedKeeps, ConnectFailsKeeps, RequestFailsKeeps
<1>4. ASSUME FetchDone \/ VerifyDone \/ ParamsDone \/ ValuesDone \/ PollDone
      PROVE  Good(State')
  BY <1>4, FetchDoneKeeps, VerifyDoneKeeps, ParamsDoneKeeps, ValuesDoneKeeps, PollDoneKeeps
<1>5. ASSUME RestoreKeyDone \/ RestoreDone PROVE Good(State')
  BY <1>5, RestoreKeyDoneKeeps, RestoreDoneKeeps
<1>6. ASSUME EventRead \/ EventParams \/ EventKey PROVE Good(State')
  BY <1>6, EventReadKeeps, EventParamsKeeps, EventKeyKeeps
<1>7. ASSUME NEW i \in Chars, StartNotify(i) \/ ChangeConnected(i) \/ Change(i)
      PROVE  Good(State')
  BY <1>7, StartNotifyKeeps, ChangeConnectedKeeps, ChangeKeeps
<1>8. ASSUME Reconfigure \/ LinkDrops \/ Restart PROVE Good(State')
  BY <1>8, ReconfigureKeeps, LinkDropsKeeps, RestartKeeps
<1> QED
  BY <1>1, <1>2, <1>3, <1>4, <1>5, <1>6, <1>7, <1>8, Stuttering DEF Next

(* In every state the program reaches, the invariant holds of it.            *)
THEOREM Sound == Spec => []Good(State)
<1>1. Good(State) /\ [Next]_vars => Good(State)'
  BY Steps
<1> QED
  BY <1>1, Starting, PTL DEF Spec

(* Every variable has its type: _update_state_num never takes over a state   *)
(* number that an accessory does not have, and a database that was fetched   *)
(* has the number of a description.                                          *)
THEOREM WellTyped == Spec => []TypeOK
<1>1. Good(State) => TypeOK
  <2> SUFFICES ASSUME Good(State) PROVE TypeOK
    OBVIOUS
  <2>1. Typed(State)
    BY DEF Good
  <2>2. /\ gsn \in Numbers /\ cn \in 1..MaxCn /\ stale \subseteq Chars
        /\ onair \in Chars \cup {None} /\ enabled \subseteq Chars /\ late \subseteq Chars
        /\ desc \in Descriptions \cup {None}
        /\ state \in States \cup {None} /\ cache \in States \cup {None}
        /\ line \in Seq(Tasks) /\ pc \in Requests \cup {"idle", "connect"}
        /\ attempt \in 0..MaxAttempts /\ param \in Numbers \cup {None}
        /\ announced \in 0..MaxCn
    BY <2>1, StateFields DEF Typed
  <2>3. /\ bumped \in BOOLEAN /\ link \in BOOLEAN /\ keyed \in BOOLEAN /\ fetched \in BOOLEAN
        /\ had \in BOOLEAN /\ pending \in BOOLEAN /\ device \in BOOLEAN
        /\ tried \in BOOLEAN /\ update \in BOOLEAN /\ changed \in BOOLEAN
        /\ ahead \in BOOLEAN /\ excused \in BOOLEAN /\ swallowed \in BOOLEAN
        /\ cut \in BOOLEAN
    BY <2>1, StateFields DEF Typed
  <2> QED
    BY <2>2, <2>3 DEF TypeOK
<1> QED
  BY <1>1, Sound, PTL

(* _async_description_update, _async_process_disconnected_events: a value    *)
(* that has changed is not read, with nothing left to be done, only if one   *)
(* of the excuses holds, or the number was taken over without the value.     *)
THEOREM MissedOnlyExcused == Spec => []EventMissedOnly
<1>1. Good(State) => EventMissedOnly
  <2> SUFFICES ASSUME Good(State), line = <<>>, ~link, desc # None, desc.gsn = gsn,
                      stale # {}
               PROVE  excused \/ swallowed
    BY DEF EventMissedOnly, EventMissed, AtRest
  <2>1. Typed(State) /\ Main(State) /\ Places(State)
    BY DEF Good
  <2>2. Later(State) = {} /\ Holder(State) = {}
    BY <2>1, InLine, StateFields DEF Holder
  <2>3. State.pc = "idle"
    BY <2>1, StateFields DEF Places
  <2>4. ~Polls(State) /\ ~Comes(State) /\ ~State.update
    BY <2>1, <2>2, <2>3 DEF Polls, Comes, Places
  <2>5. ~Behind(State)
    BY StateFields DEF Behind
  <2>6. Fine(State)
    BY <2>1, <2>4, <2>5 DEF Main
  <2> QED
    BY <2>2, <2>6, StateFields DEF Fine, Settled
<1> QED
  BY <1>1, Sound, PTL

(* _async_fetch_gatt_database: neither the database in memory nor the one in *)
(* the cache has a later configuration number than the one it is of.         *)
THEOREM NeverLabelledAhead == Spec => []LabelNotAhead
<1>1. Good(State) => LabelNotAhead
  <2> SUFFICES ASSUME Good(State) PROVE LabelNotAhead
    OBVIOUS
  <2>1. Label(state, cn) /\ Label(cache, cn)
    BY StateFields DEF Good, Labels
  <2> QED
    BY <2>1 DEF Label, LabelNotAhead
<1> QED
  BY <1>1, Sound, PTL

(* _populate_accessories_and_characteristics: when nothing is left to be     *)
(* done the listeners know the database in use, or its operation has failed. *)
THEOREM DatabasesAnnounced == Spec => []ConfigAnnounced
<1>1. Good(State) => ConfigAnnounced
  <2> SUFFICES ASSUME Good(State), line = <<>>, state # None
               PROVE  announced = state.db \/ cut
    BY DEF ConfigAnnounced
  <2>1. Places(State) /\ Told(State)
    BY DEF Good
  <2>2. ~State.changed
    BY <2>1, StateFields DEF Places
  <2> QED
    BY <2>1, <2>2, StateFields DEF Told
<1> QED
  BY <1>1, Sound, PTL
=============================================================================
