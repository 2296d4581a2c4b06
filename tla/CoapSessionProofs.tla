------------------------- MODULE CoapSessionProofs -------------------------
(***************************************************************************)
(* Theorems about CoapSession, for any number of callers and of contexts,   *)
(* any operations, window and bound.                                        *)
(*                                                                          *)
(* The steps are functions of the state, so the invariant is an operator on *)
(* states too: Inv(s, R), where R holds the caller whose step is being      *)
(* taken, between the moment it leaves what it was waiting for and the next *)
(* await.  There is a lemma for each way a function changes the state, and  *)
(* one for each function composed of them.                                  *)
(***************************************************************************)
EXTENDS CoapSession, SequenceTheorems, TLAPS

States ==
  [enc : Contexts \cup {None}, session : [Contexts -> SessionType],
   task : [Callers -> TaskType], info : BOOLEAN, subs : BOOLEAN, future : BOOLEAN,
   shutdown : BOOLEAN, mover : Contexts \cup {None}, orphans : SUBSET Contexts]

-----------------------------------------------------------------------------
(* The lines for the locks.                                                  *)

Once(line) == \A i, j \in 1..Len(line) : line[i] = line[j] => i = j

(* rest is line without c, and its first is still its first.                 *)
Shortened(rest, line, c) ==
  /\ rest \in Seq(Callers) /\ Once(rest)
  /\ \A i \in 1..Len(rest) : rest[i] # c /\ \E j \in 1..Len(line) : rest[i] = line[j]
  /\ line # <<>> /\ line[1] # c => rest # <<>> /\ rest[1] = line[1]
  /\ line # <<>> /\ line[1] = c => rest = Tail(line)

LEMMA Removed ==
  ASSUME NEW line \in Seq(Callers), NEW c \in Callers, Once(line),
         NEW rest, rest = RemoveFirst(line, c)
  PROVE  Shortened(rest, line, c)
<1>1. CASE \A i \in 1..Len(line) : line[i] # c
  <2>1. rest = line
    BY <1>1, Zenon DEF RemoveFirst
  <2>2. line # <<>> => 1 \in 1..Len(line)
    OBVIOUS
  <2> QED
    BY <1>1, <2>1, <2>2 DEF Once, Shortened
<1>2. ASSUME NEW p \in 1..Len(line), line[p] = c
      PROVE  /\ rest \in Seq(Callers) /\ Len(rest) = Len(line) - 1
             /\ \A i \in 1..Len(rest) : rest[i] = IF i < p THEN line[i] ELSE line[i + 1]
  <2> DEFINE I == {i \in 1..Len(line) : line[i] = c}
  <2>1. I = {p}
    BY <1>2 DEF Once
  <2>2. Min(I) = p
    BY <2>1 DEF Min
  <2>3. rest = RemoveAt(line, p)
    BY <1>2, <2>1, <2>2, Zenon DEF RemoveFirst, SelectInSeq
  <2> DEFINE a == SubSeq(line, 1, p - 1)
             b == SubSeq(line, p + 1, Len(line))
             n == Len(line)
  <2>4. n \in Nat /\ p \in 1..n
    OBVIOUS
  <2>5. /\ a \in Seq(Callers) /\ Len(a) = p - 1
        /\ \A i \in 1..p - 1 : a[i] = line[i]
    BY SubSeqProperties
  <2>6. /\ b \in Seq(Callers) /\ Len(b) = n - p
        /\ \A i \in 1..n - p : b[i] = line[p + i]
    BY SubSeqProperties
  <2>7. rest = a \o b
    BY <2>3 DEF RemoveAt
  <2> HIDE DEF a, b, n
  <2>8. /\ rest \in Seq(Callers) /\ Len(rest) = n - 1
        /\ \A i \in 1..n - 1 : rest[i] = IF i < p THEN a[i] ELSE b[i - (p - 1)]
    <3>1. Len(a) \in Nat /\ Len(b) \in Nat
      BY <2>5, <2>6
    <3>2. /\ a \o b \in Seq(Callers) /\ Len(a \o b) = Len(a) + Len(b)
          /\ \A i \in 1..Len(a) + Len(b) :
               (a \o b)[i] = IF i <= Len(a) THEN a[i] ELSE b[i - Len(a)]
      BY <2>5, <2>6, ConcatProperties
    <3> QED
      BY <2>4, <2>5, <2>6, <2>7, <3>1, <3>2
  <2>9. ASSUME NEW i \in 1..n - 1
        PROVE  rest[i] = IF i < p THEN line[i] ELSE line[i + 1]
    <3>1. CASE i < p
      BY <2>4, <2>5, <2>8, <3>1
    <3>2. CASE i >= p
      <4>1. i - (p - 1) \in 1..n - p /\ p + (i - (p - 1)) = i + 1
        BY <2>4, <3>2
      <4> QED
        BY <2>4, <2>6, <2>8, <3>2, <4>1
    <3> QED
      BY <2>4, <3>1, <3>2
  <2> QED
    BY <2>8, <2>9 DEF n
<1>3. ASSUME NEW p \in 1..Len(line), line[p] = c PROVE Shortened(rest, line, c)
  <2>1. /\ rest \in Seq(Callers) /\ Len(rest) = Len(line) - 1
        /\ \A i \in 1..Len(rest) : rest[i] = IF i < p THEN line[i] ELSE line[i + 1]
    BY <1>2, <1>3
  <2>2. Once(rest)
    BY <2>1 DEF Once
  <2>3. ASSUME NEW i \in 1..Len(rest)
        PROVE  rest[i] # c /\ \E j \in 1..Len(line) : rest[i] = line[j]
    BY <1>3, <2>1 DEF Once
  <2>4. line # <<>> /\ line[1] # c => rest # <<>> /\ rest[1] = line[1]
    BY <1>3, <2>1
  <2>5. ASSUME line # <<>>, line[1] = c PROVE rest = Tail(line)
    <3>1. p = 1
      BY <1>3, <2>5 DEF Once
    <3> QED
      BY <2>1, <2>5, <3>1
  <2> QED
    BY <2>1, <2>2, <2>3, <2>4, <2>5 DEF Shortened
<1> QED
  BY <1>1, <1>2, <1>3

-----------------------------------------------------------------------------
(* The invariant.                                                            *)

Opened == [Blank EXCEPT !.net = "open"]
Connects(s, R) ==
  /\ \A c, d \in Callers : s.task[c].connecting /\ s.task[d].connecting => c = d
  /\ s.future <=> \E c \in Callers : s.task[c].connecting
  /\ \A c \in Callers \ R :
       /\ s.task[c].phase = "wait" => s.future
       /\ s.task[c].phase \in {"idle", "wait", "woken"} => ~s.task[c].connecting
       /\ s.task[c].phase = "verify" => s.task[c].connecting
Refers(s, R) ==
  /\ \A k \in Contexts : s.session[k].net = "free" =>
       /\ s.session[k] = Blank /\ k \notin {s.enc, s.mover}
       /\ \A c \in Callers : s.task[c].ctx # k
  /\ \A c \in Callers \ R :
       /\ s.task[c].phase \in Posting \cup {"verify"} => s.task[c].ctx # None
       /\ s.task[c].phase = "verify" =>
            /\ s.session[s.task[c].ctx] = Opened
            /\ s.task[c].ctx \notin {s.enc, s.mover} /\ ~Connected(s)
            /\ \A d \in Callers \ {c} : s.task[d].ctx # s.task[c].ctx
Shuts(s, R) ==
  /\ s.enc # None /\ ~s.session[s.enc].held => s.session[s.enc].net = "shut"
  /\ s.mover # None => s.session[s.mover].net = "shut"
  /\ \A c \in Callers \ R : s.task[c].phase = "ending" => s.session[s.task[c].ctx].net = "shut"
MeetsAt(x) == x.net = "open" => x.got <= x.send /\ x.recv <= x.got /\ x.got <= x.recv + x.lag

Meets(s) == \A k \in Contexts : MeetsAt(s.session[k])

Lost(s, R) ==
  /\ \A k \in Contexts : s.session[k].net = "open" =>
       \/ k = s.enc \/ k \in s.orphans
       \/ \E c \in Callers \ R : s.task[c].ctx = k /\ s.task[c].phase = "verify"
  /\ Connected(s) /\ s.session[s.enc].net = "shut" =>
       \/ s.enc \in s.orphans \/ s.enc = s.mover
       \/ \E c \in Callers \ R : s.task[c].ctx = s.enc /\ s.task[c].phase = "ending"
Lines(s, R) ==
  /\ \A k \in Contexts : LET line == s.session[k].line IN
       /\ \A i \in 1..Len(line) :
            line[i] \notin R /\ s.task[line[i]].ctx = k /\ s.task[line[i]].phase \in Posting
       /\ Once(line)
  /\ \A c \in Callers \ R : s.task[c].phase \in {"await", "ending"} =>
       LET line == s.session[s.task[c].ctx].line IN line # <<>> /\ line[1] = c
EffectOf(what, op) ==
  IF what = "resubscribe" \/ (what = "operation" /\ op = "subscribe") THEN "on"
  ELSE IF what = "operation" /\ op \in {"unsubscribe", "close"} THEN "off" ELSE "none"
Effect(t) == EffectOf(t.post, t.op)
Value(v) == IF v THEN "on" ELSE "off"
Says(s, k, v) ==
  LET line == s.session[k].line
      effect(i) == Effect(s.task[line[i]])
  IN  /\ \A i \in 1..Len(line) :
           (\A j \in 1..Len(line) : j > i => effect(j) = "none") => effect(i) \in {"none", Value(v)}
      /\ (\A i \in 1..Len(line) : effect(i) = "none") => s.session[k].subscribed = v
Live(s) == Connected(s) /\ s.session[s.enc].net = "open" /\ ~s.session[s.enc].hurt

Witness(s, c) ==
  s.task[c].connecting /\ s.task[c].ctx = s.enc /\ s.task[c].post \in {"gatt", "values"}

Agree(s, R) ==
  Live(s) => \/ Says(s, s.enc, s.subs)
             \/ s.subs /\ Says(s, s.enc, FALSE) /\ \E c \in Callers \ R : Witness(s, c)

Inv(s, R) ==
  s \in States /\ Connects(s, R) /\ Refers(s, R) /\ Shuts(s, R) /\ Meets(s) /\ Lost(s, R)
  /\ Lines(s, R)

Good(s) == Inv(s, {}) /\ Agree(s, {})

Busy(s, c) == Inv(s, {c}) /\ Agree(s, {c})

-----------------------------------------------------------------------------
(* How the state may change.                                                 *)

(* A caller that is not at work on a context takes a step.                   *)
LEMMA Runs ==
  ASSUME NEW s, NEW c \in Callers, Inv(s, {}), s.task[c].phase \in {"idle", "wait", "woken"}
  PROVE  Inv(s, {c})
<1>1. Connects(s, {c}) /\ Refers(s, {c}) /\ Shuts(s, {c}) /\ Lost(s, {c})
  BY DEF Inv, Connects, Refers, Shuts, Lost
<1>2. Lines(s, {c})
  BY DEF Inv, Lines, Posting
<1> QED
  BY <1>1, <1>2 DEF Inv

(* What the invariant does not speak of.                                     *)
LEMMA Aside ==
  ASSUME NEW s, NEW t \in States, NEW R, Inv(s, R),
         t.enc = s.enc, t.mover = s.mover, t.future = s.future, t.orphans = s.orphans,
         t.session = s.session, t.task = s.task
  PROVE  Inv(t, R)
<1>1. Connects(t, R) /\ Refers(t, R) /\ Shuts(t, R) /\ Meets(t) /\ Lost(t, R) /\ Lines(t, R)
  BY DEF Inv, Connects, Refers, Shuts, Meets, Lost, Lines, Connected
<1> QED
  BY <1>1 DEF Inv

(* The running caller's own record, but for its context.                     *)
LEMMA Own ==
  ASSUME NEW s, NEW t \in States, NEW c \in Callers, Inv(s, {c}),
         t.enc = s.enc, t.mover = s.mover, t.future = s.future, t.orphans = s.orphans,
         t.session = s.session, \A d \in Callers \ {c} : t.task[d] = s.task[d],
         t.task[c].ctx = s.task[c].ctx, t.task[c].connecting = s.task[c].connecting
  PROVE  Inv(t, {c})
<1>1. Connects(t, {c})
  BY DEF Inv, Connects
<1>2. Refers(t, {c}) /\ Shuts(t, {c}) /\ Meets(t) /\ Lost(t, {c})
  BY DEF Inv, Refers, Shuts, Meets, Lost, Connected
<1>3. Lines(t, {c})
  <2>1. \A k \in Contexts : \A i \in 1..Len(s.session[k].line) :
          s.session[k].line[i] \in Callers \ {c}
    BY DEF Inv, Lines, States, SessionType
  <2> QED
    BY <2>1 DEF Inv, Lines
<1> QED
  BY <1>1, <1>2, <1>3 DEF Inv

(* The counters of a session, or its history, are changed.                   *)
LEMMA Counted ==
  ASSUME NEW s, NEW t \in States, NEW R, NEW k \in Contexts, Inv(s, R),
         t.enc = s.enc, t.mover = s.mover, t.future = s.future, t.orphans = s.orphans,
         t.task = s.task, \A j \in Contexts \ {k} : t.session[j] = s.session[j],
         t.session[k].net = s.session[k].net, t.session[k].held = s.session[k].held,
         t.session[k].line = s.session[k].line, MeetsAt(t.session[k]),
         s.session[k].net # "free",
         \A d \in Callers \ R : s.task[d].phase = "verify" => s.task[d].ctx # k
  PROVE  Inv(t, R)
<1>1. /\ \A j \in Contexts : /\ t.session[j].net = s.session[j].net
                             /\ t.session[j].held = s.session[j].held
                             /\ t.session[j].line = s.session[j].line
      /\ Connected(t) <=> Connected(s)
      /\ s \in States
  BY DEF Connected, States, Inv
<1>2. Connects(t, R) /\ Meets(t) /\ Lines(t, R)
  <2>1. \A c \in Callers : s.task[c].ctx \in Contexts \cup {None}
    BY <1>1 DEF States, TaskType
  <2>2. Meets(t)
    BY <1>1 DEF Inv, Meets
  <2>3. Connects(t, R)
    BY DEF Inv, Connects
  <2>4. \A c \in Callers \ R : s.task[c].phase \in {"await", "ending"} => s.task[c].ctx \in Contexts
    BY <2>1 DEF Inv, Refers, Posting
  <2>5. Lines(t, R)
    BY <1>1, <2>4 DEF Inv, Lines
  <2> QED
    BY <2>2, <2>3, <2>5
<1>3. Refers(t, R)
  <2>1. ASSUME NEW j \in Contexts, t.session[j].net = "free"
        PROVE  /\ t.session[j] = Blank /\ j \notin {t.enc, t.mover}
               /\ \A c \in Callers : t.task[c].ctx # j
    <3>1. s.session[j].net = "free" /\ t.session[j] = s.session[j]
      BY <1>1, <2>1
    <3> QED
      BY <3>1 DEF Inv, Refers
  <2>2. ASSUME NEW c \in Callers \ R, s.task[c].phase = "verify"
        PROVE  t.session[s.task[c].ctx] = Opened
    <3>1. s.task[c].ctx \in Contexts \ {k}
      BY <1>1, <2>2 DEF Inv, Refers, States, TaskType
    <3> QED
      BY <2>2, <3>1 DEF Inv, Refers
  <2>3. ASSUME NEW c \in Callers \ R
        PROVE  /\ t.task[c].phase \in Posting \cup {"verify"} => t.task[c].ctx # None
               /\ t.task[c].phase = "verify" =>
                    /\ t.task[c].ctx \notin {t.enc, t.mover} /\ ~Connected(t)
                    /\ \A d \in Callers \ {c} : t.task[d].ctx # t.task[c].ctx
    BY <1>1, <2>3 DEF Inv, Refers
  <2> QED
    BY <2>1, <2>2, <2>3 DEF Refers
<1>4. Shuts(t, R) /\ Lost(t, R)
  <2>1. \A c \in Callers \ R : s.task[c].phase = "ending" => s.task[c].ctx \in Contexts
    BY <1>1 DEF Inv, Refers, Posting, States, TaskType
  <2>2. Shuts(t, R)
    BY <1>1, <2>1 DEF Inv, Shuts, States
  <2>3. Lost(t, R)
    <3>1. Connected(t) => t.enc \in Contexts
      BY <1>1 DEF Connected, States
    <3> QED
      BY <1>1, <3>1 DEF Inv, Lost
  <2> QED
    BY <2>2, <2>3
<1> QED
  BY <1>2, <1>3, <1>4 DEF Inv

(* The running caller's context is its own no more than anybody's.           *)
LEMMA CtxOf ==
  ASSUME NEW s, NEW c \in Callers, Inv(s, {}), s.task[c].phase \in Posting
  PROVE  /\ s.task[c].ctx \in Contexts /\ s.session[s.task[c].ctx].net # "free"
         /\ \A d \in Callers : s.task[d].phase = "verify" => s.task[d].ctx # s.task[c].ctx
<1>1. s.task[c].ctx \in Contexts
  BY DEF Inv, Refers, States, TaskType
<1>2. s.session[s.task[c].ctx].net # "free"
  BY <1>1 DEF Inv, Refers
<1>3. \A d \in Callers : s.task[d].phase = "verify" => s.task[d].ctx # s.task[c].ctx
  BY DEF Inv, Refers, Posting
<1> QED
  BY <1>1, <1>2, <1>3

(* All there is to know of it.                                               *)
LEMMA AtWork ==
  ASSUME NEW s, NEW c \in Callers, Good(s), s.task[c].phase \in {"lock", "await", "ending"}
  PROVE  LET k == s.task[c].ctx
         IN  /\ s \in States /\ Inv(s, {}) /\ k \in Contexts
             /\ s.session[k] \in SessionType /\ s.session[k].net # "free"
             /\ Once(s.session[k].line) /\ MeetsAt(s.session[k])
             /\ s.task[c].phase = "ending" => s.session[k].net = "shut"
             /\ \A d \in Callers : s.task[d].phase = "verify" => s.task[d].ctx # k
<1>1. s \in States /\ Inv(s, {}) /\ c \in Callers \ {} /\ s.task[c].phase \in Posting
  BY DEF Good, Inv, Posting
<1> DEFINE k == s.task[c].ctx
<1>2. /\ k \in Contexts /\ s.session[k].net # "free"
      /\ \A d \in Callers : s.task[d].phase = "verify" => s.task[d].ctx # k
  BY <1>1, CtxOf
<1>3. s.session[k] \in SessionType
  BY <1>1, <1>2 DEF States
<1>4. MeetsAt(s.session[k])
  BY <1>1, <1>2 DEF Inv, Meets
<1>5. Once(s.session[k].line)
  BY <1>1, <1>2 DEF Inv, Lines
<1>6. s.task[c].phase = "ending" => s.session[k].net = "shut"
  BY <1>1 DEF Inv, Shuts
<1> QED
  BY <1>1, <1>2, <1>3, <1>4, <1>5, <1>6

(* c leaves the line; its session's counters may change, it may be closed.   *)
Left(s, t, c, k) ==
  /\ t.enc = s.enc /\ t.mover = s.mover /\ t.future = s.future /\ s.orphans \subseteq t.orphans
  /\ t.task = s.task /\ \A j \in Contexts \ {k} : t.session[j] = s.session[j]
  /\ t.session[k].net = s.session[k].net
  /\ t.session[k].held = s.session[k].held \/ (s.session[k].net = "shut" /\ ~t.session[k].held)
  /\ t.session[k].line = RemoveFirst(s.session[k].line, c) /\ MeetsAt(t.session[k])
  /\ s.task[c].phase = "ending" => k \in t.orphans \/ ~t.session[k].held

LEMMA Leaves ==
  ASSUME NEW s, NEW t \in States, NEW c \in Callers, NEW k, Inv(s, {}),
         s.task[c].phase \in Posting, k = s.task[c].ctx, Left(s, t, c, k)
  PROVE  Inv(t, {c})
<1>0. /\ t.enc = s.enc /\ t.mover = s.mover /\ t.future = s.future /\ s.orphans \subseteq t.orphans
      /\ t.task = s.task /\ \A j \in Contexts \ {k} : t.session[j] = s.session[j]
      /\ t.session[k].net = s.session[k].net /\ MeetsAt(t.session[k])
      /\ t.session[k].held = s.session[k].held \/ (s.session[k].net = "shut" /\ ~t.session[k].held)
      /\ s.task[c].phase = "ending" => k \in t.orphans \/ ~t.session[k].held
  BY DEF Left
<1>1. /\ k \in Contexts /\ s.session[k].net # "free" /\ s \in States
      /\ \A d \in Callers : s.task[d].phase = "verify" => s.task[d].ctx # k
  BY CtxOf DEF Inv
<1>2. \A j \in Contexts : t.session[j].net = s.session[j].net
  BY <1>0, <1>1
<1>3. /\ \A j \in Contexts : t.session[j].held => s.session[j].held
      /\ Connected(t) => Connected(s)
  BY <1>0, <1>1 DEF Connected, States
<1>4. Connects(t, {c}) /\ Meets(t)
  BY <1>0, <1>1, SMTT(30) DEF Inv, Connects, Meets
<1>5. Refers(t, {c})
  <2>1. ASSUME NEW j \in Contexts, t.session[j].net = "free"
        PROVE  /\ t.session[j] = Blank /\ j \notin {t.enc, t.mover}
               /\ \A d \in Callers : t.task[d].ctx # j
    <3>1. s.session[j].net = "free" /\ t.session[j] = s.session[j]
      BY <1>0, <1>1, <1>2, <2>1
    <3> QED
      BY <1>0, <3>1 DEF Inv, Refers
  <2>2. ASSUME NEW d \in Callers \ {c}, s.task[d].phase = "verify"
        PROVE  t.session[s.task[d].ctx] = Opened
    <3>1. s.task[d].ctx \in Contexts \ {k}
      BY <1>0, <1>1, <2>2 DEF Inv, Refers, States, TaskType
    <3> QED
      BY <1>0, <2>2, <3>1 DEF Inv, Refers
  <2>3. ASSUME NEW d \in Callers \ {c}
        PROVE  /\ t.task[d].phase \in Posting \cup {"verify"} => t.task[d].ctx # None
               /\ t.task[d].phase = "verify" =>
                    /\ t.task[d].ctx \notin {t.enc, t.mover} /\ ~Connected(t)
                    /\ \A e \in Callers \ {d} : t.task[e].ctx # t.task[d].ctx
    BY <1>0, <1>3, <2>3 DEF Inv, Refers
  <2> QED
    BY <1>0, <2>1, <2>2, <2>3, ZenonT(30) DEF Refers
<1>6. Shuts(t, {c})
  <2>1. t.enc # None /\ ~t.session[t.enc].held => t.session[t.enc].net = "shut"
    <3>1. CASE t.enc = k
      BY <1>0, <1>1, <1>2, <3>1 DEF Inv, Shuts
    <3>2. CASE t.enc # k
      BY <1>0, <1>1, <3>2 DEF Inv, Shuts, States
    <3> QED
      BY <3>1, <3>2, SMTT(30)
  <2>2. t.mover # None => t.session[t.mover].net = "shut"
    BY <1>0, <1>1, <1>2 DEF Inv, Shuts, States
  <2>3. \A d \in Callers \ {c} : t.task[d].phase = "ending" => t.session[t.task[d].ctx].net = "shut"
    <3>1. \A d \in Callers : s.task[d].phase = "ending" => s.task[d].ctx \in Contexts
      BY <1>0, CtxOf DEF Posting
    <3> QED
      BY <1>0, <1>2, <3>1, SMTT(30) DEF Inv, Shuts
  <2> QED
    BY <2>1, <2>2, <2>3 DEF Shuts
<1>7. Lost(t, {c})
  <2>1. ASSUME NEW j \in Contexts, t.session[j].net = "open"
        PROVE  \/ j = t.enc \/ j \in t.orphans
               \/ \E d \in Callers \ {c} : t.task[d].ctx = j /\ t.task[d].phase = "verify"
    BY <1>0, <1>2, <2>1 DEF Inv, Lost, Posting
  <2>2. ASSUME Connected(t), t.session[t.enc].net = "shut"
        PROVE  \/ t.enc \in t.orphans \/ t.enc = t.mover
               \/ \E d \in Callers \ {c} : t.task[d].ctx = t.enc /\ t.task[d].phase = "ending"
    <3>1. /\ t.enc \in Contexts /\ Connected(s) /\ s.session[s.enc].net = "shut"
          /\ t.session[t.enc].held
      BY <1>0, <1>1, <1>2, <1>3, <2>2 DEF Connected, States
    <3> QED
      BY <1>0, <3>1 DEF Inv, Lost
  <2> QED
    BY <2>1, <2>2 DEF Lost
<1>8. Lines(t, {c})
  <2> DEFINE L(u, j) == u.session[j].line
  <2>0. /\ t.task = s.task /\ \A j \in Contexts \ {k} : t.session[j] = s.session[j]
        /\ t.session[k].line = RemoveFirst(s.session[k].line, c)
    BY DEF Left
  <2>1. /\ \A j \in Contexts : L(s, j) \in Seq(Callers) /\ Once(L(s, j))
        /\ \A j \in Contexts : \A i \in 1..Len(L(s, j)) :
              s.task[L(s, j)[i]].ctx = j /\ s.task[L(s, j)[i]].phase \in Posting
    <3>1. \A j \in Contexts : L(s, j) \in Seq(Callers)
      BY <1>1 DEF States, SessionType
    <3>2. /\ \A j \in Contexts : Once(L(s, j))
          /\ \A j \in Contexts : \A i \in 1..Len(L(s, j)) :
                s.task[L(s, j)[i]].ctx = j /\ s.task[L(s, j)[i]].phase \in Posting
      BY SMTT(30) DEF Inv, Lines
    <3> QED
      BY <3>1, <3>2
  <2>2. /\ Once(L(t, k))
        /\ \A i \in 1..Len(L(t, k)) : L(t, k)[i] # c /\ \E j \in 1..Len(L(s, k)) : L(t, k)[i] = L(s, k)[j]
        /\ L(s, k) # <<>> /\ L(s, k)[1] # c => L(t, k) # <<>> /\ L(t, k)[1] = L(s, k)[1]
    <3> DEFINE old == L(s, k)
               new == L(t, k)
    <3>1. new = RemoveFirst(old, c) /\ old \in Seq(Callers) /\ Once(old)
      BY <1>1, <2>0, <2>1
    <3> HIDE DEF old, new
    <3>2. Shortened(new, old, c)
      BY <3>1, Removed
    <3>3. /\ Once(new)
          /\ \A i \in 1..Len(new) : new[i] # c /\ \E j \in 1..Len(old) : new[i] = old[j]
          /\ old # <<>> /\ old[1] # c => new # <<>> /\ new[1] = old[1]
      BY <3>2 DEF Shortened
    <3> QED
      BY <3>3, ZenonT(30) DEF old, new
  <2>3. \A j \in Contexts \ {k} : L(t, j) = L(s, j)
    BY <2>0
  <2>6. \A d \in Callers : s.task[d].phase \in {"await", "ending"} =>
          L(s, s.task[d].ctx) # <<>> /\ L(s, s.task[d].ctx)[1] = d
    BY DEF Inv, Lines
  <2> HIDE DEF L
  <2>4. ASSUME NEW j \in Contexts
        PROVE  /\ Once(L(t, j))
               /\ \A i \in 1..Len(L(t, j)) :
                    /\ L(t, j)[i] # c /\ t.task[L(t, j)[i]].ctx = j
                    /\ t.task[L(t, j)[i]].phase \in Posting
    <3>1. CASE j = k
      <4>1. \A i \in 1..Len(L(s, k)) :
               t.task[L(s, k)[i]].ctx = k /\ t.task[L(s, k)[i]].phase \in Posting
        BY <1>1, <2>0, <2>1
      <4>2. ASSUME NEW i \in 1..Len(L(t, k))
            PROVE  /\ L(t, k)[i] # c /\ t.task[L(t, k)[i]].ctx = k
                   /\ t.task[L(t, k)[i]].phase \in Posting
        <5>1. PICK n \in 1..Len(L(s, k)) : L(t, k)[i] = L(s, k)[n]
          BY <2>2
        <5> QED
          BY <2>2, <4>1, <5>1
      <4> QED
        BY <2>2, <3>1, <4>2
    <3>2. CASE j # k
      BY <2>0, <2>1, <2>3, <3>2
    <3> QED
      BY <3>1, <3>2
  <2>5. ASSUME NEW d \in Callers \ {c}, t.task[d].phase \in {"await", "ending"}
        PROVE  L(t, t.task[d].ctx) # <<>> /\ L(t, t.task[d].ctx)[1] = d
    <3>1. /\ t.task[d].ctx \in Contexts
          /\ L(s, t.task[d].ctx) # <<>> /\ L(s, t.task[d].ctx)[1] = d
      <4>1. t.task[d].ctx \in Contexts
        BY <2>0, <2>5, CtxOf DEF Posting
      <4>2. s.task[d].phase \in {"await", "ending"} /\ s.task[d].ctx = t.task[d].ctx
        BY <2>0, <2>5
      <4> QED
        BY <2>6, <4>1, <4>2
    <3>2. CASE t.task[d].ctx = k
      BY <2>2, <3>1, <3>2
    <3>3. CASE t.task[d].ctx # k
      BY <2>3, <3>1, <3>3
    <3> QED
      BY <3>2, <3>3
  <2> QED
    BY <2>4, <2>5 DEF Lines, L
<1> QED
  BY <1>4, <1>5, <1>6, <1>7, <1>8 DEF Inv

-----------------------------------------------------------------------------
(* What the subscriptions depend on.                                         *)

LEMMA SaysSame ==
  ASSUME NEW s, NEW t, NEW k, NEW v, Says(s, k, v),
         t.session[k].line = s.session[k].line, t.session[k].subscribed = s.session[k].subscribed,
         \A i \in 1..Len(s.session[k].line) :
           Effect(t.task[s.session[k].line[i]]) = Effect(s.task[s.session[k].line[i]])
  PROVE  Says(t, k, v)
  BY DEF Says

(* The session in use, those in line for it and a connector are the same.    *)
Carried(s, t, R, Q) ==
  /\ Live(s) /\ t.session[s.enc].line = s.session[s.enc].line
  /\ t.session[s.enc].subscribed = s.session[s.enc].subscribed
  /\ \A i \in 1..Len(s.session[s.enc].line) :
       Effect(t.task[s.session[s.enc].line[i]]) = Effect(s.task[s.session[s.enc].line[i]])
  /\ \A c \in Callers \ R : Witness(s, c) => c \notin Q /\ Witness(t, c)

LEMMA AgreeSame ==
  ASSUME NEW s, NEW t, NEW R, NEW Q, Agree(s, R), t.enc = s.enc, t.subs = s.subs,
         Live(t) => Carried(s, t, R, Q)
  PROVE  Agree(t, Q)
<1> USE DEF Carried
<1> SUFFICES ASSUME Live(t)
             PROVE  \/ Says(t, t.enc, t.subs)
                    \/ t.subs /\ Says(t, t.enc, FALSE) /\ \E c \in Callers \ Q : Witness(t, c)
  BY DEF Agree
<1>1. CASE Says(s, s.enc, s.subs)
  BY <1>1, SaysSame
<1>2. CASE s.subs /\ Says(s, s.enc, FALSE) /\ \E c \in Callers \ R : Witness(s, c)
  <2>1. Says(t, s.enc, FALSE)
    BY <1>2, SaysSame
  <2> QED
    BY <1>2, <2>1
<1> QED
  BY <1>1, <1>2 DEF Agree

(* Those in line are other callers.                                          *)
LEMMA InLine ==
  ASSUME NEW s, NEW R, Inv(s, R), NEW k \in Contexts, NEW i \in 1..Len(s.session[k].line)
  PROVE  s.session[k].line[i] \in Callers \ R
<1>1. s.session[k].line \in Seq(Callers)
  BY DEF Inv, States, SessionType
<1>2. s.session[k].line[i] \notin R
  BY DEF Inv, Lines
<1> QED
  BY <1>1, <1>2

-----------------------------------------------------------------------------
(* The end of a call.                                                        *)

(* t is s with another session at k, or another task of c.                   *)
SetSession(s, t, k, x) ==
  /\ t \in States /\ t.enc = s.enc /\ t.mover = s.mover /\ t.future = s.future
  /\ t.orphans = s.orphans /\ t.subs = s.subs /\ t.task = s.task
  /\ t.session[k] = x /\ \A j \in Contexts \ {k} : t.session[j] = s.session[j]

SetTask(s, t, c, x) ==
  /\ t \in States /\ t.enc = s.enc /\ t.mover = s.mover /\ t.future = s.future
  /\ t.orphans = s.orphans /\ t.subs = s.subs /\ t.session = s.session
  /\ t.task[c] = x /\ \A d \in Callers \ {c} : t.task[d] = s.task[d]

SessionWith(s, k, x) == [s EXCEPT !.session[k] = x]
TaskWith(s, c, x) == [s EXCEPT !.task[c] = x]

LEMMA SessionSet ==
  ASSUME NEW s \in States, NEW k \in Contexts, NEW x \in SessionType,
         NEW t, t = SessionWith(s, k, x)
  PROVE  SetSession(s, t, k, x)
<1> DEFINE f == [s.session EXCEPT ![k] = x]
<1>1. /\ f \in [Contexts -> SessionType] /\ f[k] = x
      /\ \A j \in Contexts \ {k} : f[j] = s.session[j]
  BY DEF States
<1>2. t = [s EXCEPT !.session = f]
  BY DEF SessionWith
<1> HIDE DEF f
<1>3. t \in States /\ t.session = f
  BY <1>1, <1>2 DEF States
<1>4. /\ t.enc = s.enc /\ t.mover = s.mover /\ t.future = s.future
      /\ t.orphans = s.orphans /\ t.subs = s.subs /\ t.task = s.task
  BY <1>2 DEF States
<1> QED
  BY <1>1, <1>3, <1>4 DEF SetSession

LEMMA TaskSet ==
  ASSUME NEW s \in States, NEW c \in Callers, NEW x \in TaskType,
         NEW t, t = TaskWith(s, c, x)
  PROVE  SetTask(s, t, c, x)
<1> DEFINE f == [s.task EXCEPT ![c] = x]
<1>1. /\ f \in [Callers -> TaskType] /\ f[c] = x
      /\ \A d \in Callers \ {c} : f[d] = s.task[d]
  BY DEF States
<1>2. t = [s EXCEPT !.task = f]
  BY DEF TaskWith
<1> HIDE DEF f
<1>3. t \in States /\ t.task = f
  BY <1>1, <1>2 DEF States
<1>4. /\ t.enc = s.enc /\ t.mover = s.mover /\ t.future = s.future
      /\ t.orphans = s.orphans /\ t.subs = s.subs /\ t.session = s.session
  BY <1>2 DEF States
<1> QED
  BY <1>1, <1>3, <1>4 DEF SetTask

(* What the finally clause leaves.                                           *)
Released(s, t, c) ==
  /\ t \in States /\ t.enc = s.enc /\ t.session = s.session /\ t.subs = s.subs
  /\ t.mover = s.mover /\ t.orphans = s.orphans
  /\ t.future <=> (s.future /\ ~s.task[c].connecting)
  /\ ~t.task[c].connecting /\ t.task[c].ctx = s.task[c].ctx
  /\ t.task[c].op = s.task[c].op
  /\ s.task[c].connecting => \A d \in Callers \ {c} : t.task[d].phase # "wait"
  /\ \A d \in Callers \ {c} :
       /\ t.task[d].ctx = s.task[d].ctx /\ t.task[d].connecting = s.task[d].connecting
       /\ t.task[d].op = s.task[d].op /\ t.task[d].post = s.task[d].post
       /\ \/ t.task[d].phase = s.task[d].phase
          \/ s.task[d].phase = "wait" /\ t.task[d].phase = "woken"

LEMMA ReleaseFields ==
  ASSUME NEW s \in States, NEW c \in Callers, NEW t, t = ReleaseWaiters(s, c)
  PROVE  Released(s, t, c)
<1>1. CASE ~s.task[c].connecting
  <2>1. t = s
    BY <1>1 DEF ReleaseWaiters
  <2> QED
    BY <1>1, <2>1 DEF Released
<1>2. CASE s.task[c].connecting
  <2> DEFINE f == [d \in Callers |->
                    IF d = c THEN [s.task[d] EXCEPT !.connecting = FALSE]
                    ELSE IF s.task[d].phase = "wait" THEN [s.task[d] EXCEPT !.phase = "woken"]
                    ELSE s.task[d]]
  <2>1. t = [s EXCEPT !.future = FALSE, !.task = f]
    BY <1>2 DEF ReleaseWaiters, States
  <2> DEFINE one == [s.task[c] EXCEPT !.connecting = FALSE]
             woken(d) == [s.task[d] EXCEPT !.phase = "woken"]
  <2>5. /\ one \in TaskType /\ ~one.connecting /\ one.ctx = s.task[c].ctx
        /\ one.op = s.task[c].op
    <3>1. s.task[c] \in TaskType
      BY DEF States
    <3> QED
      BY <3>1 DEF TaskType
  <2>6. ASSUME NEW d \in Callers
        PROVE  /\ woken(d) \in TaskType /\ woken(d).phase = "woken"
               /\ woken(d).ctx = s.task[d].ctx /\ woken(d).connecting = s.task[d].connecting
               /\ woken(d).op = s.task[d].op /\ woken(d).post = s.task[d].post
               /\ s.task[d] \in TaskType
    <3>1. s.task[d] \in TaskType
      BY DEF States
    <3> QED
      BY <3>1 DEF TaskType, Phases
  <2>7. f = [d \in Callers |-> IF d = c THEN one
                              ELSE IF s.task[d].phase = "wait" THEN woken(d) ELSE s.task[d]]
    BY Zenon
  <2> HIDE DEF f, one, woken
  <2>2. /\ f \in [Callers -> TaskType]
        /\ ~f[c].connecting /\ f[c].ctx = s.task[c].ctx /\ f[c].op = s.task[c].op
        /\ \A d \in Callers \ {c} :
              /\ f[d].phase # "wait"
              /\ f[d].ctx = s.task[d].ctx /\ f[d].connecting = s.task[d].connecting
              /\ f[d].op = s.task[d].op /\ f[d].post = s.task[d].post
              /\ \/ f[d].phase = s.task[d].phase
                 \/ s.task[d].phase = "wait" /\ f[d].phase = "woken"
    BY <2>5, <2>6, <2>7
  <2>3. t \in States /\ t.task = f /\ t.future = FALSE
    <3>1. f \in [Callers -> TaskType]
      BY <2>2
    <3> QED
      BY <2>1, <3>1 DEF States
  <2>4. /\ t.enc = s.enc /\ t.session = s.session /\ t.subs = s.subs
        /\ t.mover = s.mover /\ t.orphans = s.orphans
    BY <2>1 DEF States
  <2> QED
    BY <1>2, <2>2, <2>3, <2>4 DEF Released
<1> QED
  BY <1>1, <1>2

LEMMA Releases ==
  ASSUME NEW s, NEW c \in Callers, Inv(s, {c}), NEW t, t = ReleaseWaiters(s, c)
  PROVE  Inv(t, {c})
<1>0. Released(s, t, c) /\ s \in States
  BY ReleaseFields DEF Inv
<1>1. Connects(t, {c})
  <2>1. \A d, e \in Callers : t.task[d].connecting /\ t.task[e].connecting => d = e
    BY <1>0 DEF Inv, Connects, Released
  <2>2. t.future <=> \E d \in Callers : t.task[d].connecting
    BY <1>0 DEF Inv, Connects, Released
  <2>3. ASSUME NEW d \in Callers \ {c}
        PROVE  /\ t.task[d].phase = "wait" => t.future
               /\ t.task[d].phase \in {"idle", "wait", "woken"} => ~t.task[d].connecting
               /\ t.task[d].phase = "verify" => t.task[d].connecting
    BY <1>0 DEF Inv, Connects, Released
  <2> QED
    BY <2>1, <2>2, <2>3 DEF Connects
<1>2. Refers(t, {c})
  <2>1. Connected(t) <=> Connected(s)
    BY <1>0 DEF Connected, Released
  <2>2. \A d \in Callers : t.task[d].ctx = s.task[d].ctx
    BY <1>0 DEF Released
  <2>3. ASSUME NEW j \in Contexts, t.session[j].net = "free"
        PROVE  /\ t.session[j] = Blank /\ j \notin {t.enc, t.mover}
               /\ \A d \in Callers : t.task[d].ctx # j
    BY <1>0, <2>2, <2>3 DEF Inv, Refers, Released
  <2>4. ASSUME NEW d \in Callers \ {c}
        PROVE  /\ t.task[d].phase \in Posting \cup {"verify"} =>
                    t.task[d].ctx # None /\ s.task[d].phase = t.task[d].phase
    BY <1>0 DEF Inv, Refers, Released, Posting
  <2>5. ASSUME NEW d \in Callers \ {c}, t.task[d].phase = "verify"
        PROVE  /\ t.session[t.task[d].ctx] = Opened
               /\ t.task[d].ctx \notin {t.enc, t.mover} /\ ~Connected(t)
               /\ \A e \in Callers \ {d} : t.task[e].ctx # t.task[d].ctx
    BY <1>0, <2>1, <2>2, <2>4, <2>5 DEF Inv, Refers, Released
  <2> QED
    BY <2>3, <2>4, <2>5 DEF Refers
<1>3. Shuts(t, {c}) /\ Meets(t)
  BY <1>0 DEF Inv, Shuts, Meets, Released
<1>4. Lost(t, {c})
  BY <1>0 DEF Inv, Lost, Connected, Released
<1>5. Lines(t, {c})
  <2>1. \A k \in Contexts : \A i \in 1..Len(s.session[k].line) :
          s.session[k].line[i] \in Callers \ {c}
    BY InLine
  <2>2. ASSUME NEW d \in Callers \ {c}
        PROVE  /\ t.task[d].ctx = s.task[d].ctx
               /\ s.task[d].phase \in Posting => t.task[d].phase \in Posting
               /\ t.task[d].phase \in {"await", "ending"} => t.task[d].phase = s.task[d].phase
    BY <1>0 DEF Released, Posting
  <2>3. t.session = s.session
    BY <1>0 DEF Released
  <2> QED
    BY <2>1, <2>2, <2>3 DEF Inv, Lines
<1> QED
  BY <1>0, <1>1, <1>2, <1>3, <1>4, <1>5 DEF Inv, Released

LEMMA ReleaseAgree ==
  ASSUME NEW s, NEW c \in Callers, Busy(s, c), NEW t, t = ReleaseWaiters(s, c)
  PROVE  Busy(t, c)
<1>0. s \in States /\ Inv(s, {c}) /\ Agree(s, {c})
  BY DEF Busy, Inv
<1>1. Released(s, t, c) /\ t.enc = s.enc /\ t.subs = s.subs /\ t.session = s.session
  BY <1>0, ReleaseFields DEF Released
<1>2. ASSUME Live(t) PROVE Carried(s, t, {c}, {c})
  <2>1. Live(s) /\ s.enc \in Contexts
    BY <1>0, <1>1, <1>2 DEF Live, Connected, States
  <2>2. \A i \in 1..Len(s.session[s.enc].line) : s.session[s.enc].line[i] \in Callers \ {c}
    BY <1>0, <2>1, InLine
  <2>3. \A d \in Callers \ {c} : Effect(t.task[d]) = Effect(s.task[d])
    BY <1>1 DEF Effect, Released
  <2>4. \A d \in Callers \ {c} : Witness(s, d) => Witness(t, d)
    BY <1>1 DEF Witness, Released
  <2> QED
    BY <1>1, <2>1, <2>2, <2>3, <2>4 DEF Carried
<1>3. Agree(t, {c})
  BY <1>0, <1>1, <1>2, AgreeSame
<1> QED
  BY <1>0, <1>3, Releases DEF Busy

LEMMA EndedType == Ended \in TaskType
  BY DEF Ended, TaskType, Phases, Operations, Posts

(* The task's record is thrown away, once nobody waits for it.               *)
LEMMA Ends ==
  ASSUME NEW s, NEW c \in Callers, Busy(s, c), ~s.task[c].connecting,
         NEW t, t = TaskWith(s, c, Ended)
  PROVE  Good(t)
<1>0. s \in States /\ Inv(s, {c}) /\ Agree(s, {c})
  BY DEF Busy, Inv
<1>1. /\ t \in States /\ t.enc = s.enc /\ t.mover = s.mover /\ t.future = s.future
      /\ t.orphans = s.orphans /\ t.session = s.session /\ t.subs = s.subs
      /\ t.task[c] = Ended /\ \A d \in Callers \ {c} : t.task[d] = s.task[d]
  BY <1>0, EndedType, TaskSet DEF SetTask
<1>2. ~t.task[c].connecting /\ t.task[c].ctx = None /\ t.task[c].phase = "idle"
  BY <1>1 DEF Ended
<1>3. Connects(t, {})
  BY <1>0, <1>1, <1>2 DEF Inv, Connects
<1>4. Refers(t, {}) /\ Meets(t)
  <2>1. Meets(t) /\ (Connected(t) <=> Connected(s))
    BY <1>0, <1>1 DEF Inv, Meets, Connected
  <2>2. \A k \in Contexts : k # None
    BY ContextsAssumption
  <2> QED
    BY <1>0, <1>1, <1>2, <2>1, <2>2 DEF Inv, Refers, Posting
<1>5. Shuts(t, {}) /\ Lost(t, {})
  <2>1. Connected(t) <=> Connected(s)
    BY <1>1 DEF Connected
  <2> QED
    BY <1>0, <1>1, <1>2, <2>1 DEF Inv, Shuts, Lost
<1>6. \A k \in Contexts : \A i \in 1..Len(s.session[k].line) :
          s.session[k].line[i] \in Callers \ {c}
  BY <1>0, InLine
<1>7. Lines(t, {})
  BY <1>0, <1>1, <1>2, <1>6 DEF Inv, Lines
<1>8. Agree(t, {})
  <2>1. ASSUME Live(t) PROVE Carried(s, t, {c}, {})
    <3>1. Live(s) /\ s.enc \in Contexts
      BY <1>0, <1>1, <2>1 DEF Live, Connected, States
    <3> QED
      BY <1>1, <1>6, <3>1 DEF Witness, Carried
  <2> QED
    BY <1>0, <1>1, <2>1, AgreeSame
<1> QED
  BY <1>1, <1>3, <1>4, <1>5, <1>7, <1>8 DEF Good, Inv

LEMMA Returns ==
  ASSUME NEW s, NEW c \in Callers, Busy(s, c)
  PROVE  Good(Return(s, c))
<1> DEFINE t == ReleaseWaiters(s, c)
<1>1. s \in States
  BY DEF Busy, Inv
<1>2. Busy(t, c) /\ ~t.task[c].connecting
  BY <1>1, ReleaseAgree, ReleaseFields DEF Released
<1>3. Return(s, c) = TaskWith(t, c, Ended)
  BY DEF Return, TaskWith
<1> HIDE DEF t
<1> QED
  BY <1>2, <1>3, Ends

(* An exception excuses the caller's session.                                *)
LEMMA Raises ==
  ASSUME NEW s, NEW c \in Callers, Inv(s, {c}), s.enc # s.task[c].ctx => Agree(s, {})
  PROVE  Good(Raise(s, c))
<1> DEFINE k == s.task[c].ctx
           x == [s.session[k] EXCEPT !.hurt = TRUE]
           t == SessionWith(s, k, x)
<1>0. s \in States /\ k \in Contexts \cup {None}
  BY DEF Inv, States, TaskType
<1>1. CASE k # None /\ s.session[k].net = "open"
  <2>1. k \in Contexts
    BY <1>0, <1>1
  <2>9. Raise(s, c) = Return(t, c)
    BY <1>1 DEF Raise, SessionWith
  <2>10. s.session[k] \in SessionType
    BY <1>0, <2>1 DEF States
  <2>2. s.session[k] \in SessionType /\ x \in SessionType
    BY <2>10 DEF SessionType
  <2>3. SetSession(s, t, k, x)
    BY <1>0, <2>1, <2>2, SessionSet
  <2>4. /\ x.net = s.session[k].net /\ x.held = s.session[k].held
        /\ x.line = s.session[k].line /\ x.hurt
        /\ x.got = s.session[k].got /\ x.send = s.session[k].send
        /\ x.recv = s.session[k].recv /\ x.lag = s.session[k].lag
    BY <2>2 DEF SessionType
  <2> HIDE DEF x, t
  <2>5. MeetsAt(x)
    BY <2>1, <2>4 DEF Inv, Meets, MeetsAt
  <2>6. \A d \in Callers \ {c} : s.task[d].phase = "verify" => s.task[d].ctx # k
    BY DEF Inv, Refers
  <2>7. Inv(t, {c})
    BY <1>1, <2>1, <2>3, <2>4, <2>5, <2>6, Counted DEF SetSession
  <2>8. Agree(t, {c})
    <3>1. CASE s.enc = k
      BY <2>3, <2>4, <3>1 DEF Agree, Live, SetSession
    <3>2. CASE s.enc # k
      <4>1. \A d \in Callers \ {} : Witness(s, d) => d \notin {c} /\ Witness(t, d)
        BY <2>3, <3>2 DEF Witness, SetSession
      <4>2. Live(t) => Live(s) /\ t.session[s.enc] = s.session[s.enc]
        BY <1>0, <2>3, <3>2 DEF Live, Connected, States, SetSession
      <4>3. Live(t) => Carried(s, t, {}, {c})
        BY <2>3, <4>1, <4>2 DEF Carried, SetSession
      <4> QED
        BY <2>3, <3>2, <4>3, AgreeSame DEF SetSession
    <3> QED
      BY <3>1, <3>2
  <2> QED
    BY <2>7, <2>8, <2>9, Returns DEF Busy
<1>2. CASE ~(k # None /\ s.session[k].net = "open")
  <2>1. Agree(s, {c})
    <3>1. CASE s.enc = k
      BY <1>2, <3>1 DEF Agree, Live, Connected
    <3>2. CASE s.enc # k
      <4>1. \A d \in Callers \ {} : Witness(s, d) => d \notin {c} /\ Witness(s, d)
        BY <3>2 DEF Witness
      <4> QED
        BY <3>2, <4>1, AgreeSame DEF Carried
    <3> QED
      BY <3>1, <3>2
  <2> QED
    BY <1>2, <2>1, Returns DEF Busy, Raise
<1> QED
  BY <1>1, <1>2

-----------------------------------------------------------------------------
(* The lock.                                                                 *)

LEMMA SessionsTyped ==
  ASSUME NEW s \in States, NEW k \in Contexts
  PROVE  s.session[k] \in SessionType
  BY DEF States

LEMMA TasksTyped ==
  ASSUME NEW s \in States, NEW c \in Callers
  PROVE  s.task[c] \in TaskType
  BY DEF States

(* c has left the line, and its call fails.                                  *)
LEMMA Fails ==
  ASSUME NEW s, NEW t \in States, NEW c \in Callers, NEW k, Good(s),
         s.task[c].phase \in Posting, k = s.task[c].ctx, Left(s, t, c, k), t.subs = s.subs
  PROVE  Good(Raise(t, c))
<1>1. Inv(t, {c})
  BY Leaves DEF Good
<1>2. ASSUME t.enc # k PROVE Agree(t, {})
  <2>1. ASSUME Live(t) PROVE Carried(s, t, {}, {})
    <3>1. t.enc \in Contexts /\ t.session[s.enc] = s.session[s.enc]
      BY <1>2, <2>1 DEF Live, Connected, States, Left
    <3> QED
      BY <2>1, <3>1 DEF Carried, Live, Connected, Witness, Left
  <2> QED
    BY <2>1, AgreeSame DEF Good, Left
<1>3. t.task[c].ctx = k
  BY DEF Left
<1> QED
  BY <1>1, <1>2, <1>3, Raises

LEMMA Unlocks ==
  ASSUME NEW s \in States, NEW c \in Callers, s.task[c].ctx \in Contexts,
         Once(s.session[s.task[c].ctx].line)
  PROVE  LET x == s.session[s.task[c].ctx]
         IN  SetSession(s, Unlock(s, c), s.task[c].ctx,
                        [x EXCEPT !.line = RemoveFirst(x.line, c)])
<1> DEFINE k == s.task[c].ctx
           x == [s.session[k] EXCEPT !.line = RemoveFirst(s.session[k].line, c)]
<1>1. s.session[k] \in SessionType
  BY SessionsTyped
<1>2. RemoveFirst(s.session[k].line, c) \in Seq(Callers)
  <2>1. s.session[k].line \in Seq(Callers)
    BY <1>1, SMTT(30) DEF SessionType
  <2> QED
    BY <2>1, Removed DEF Shortened
<1>3. x \in SessionType
  BY <1>1, <1>2 DEF SessionType
<1>4. Unlock(s, c) = SessionWith(s, k, x)
  BY DEF Unlock, SessionWith
<1> HIDE DEF x
<1>5. SetSession(s, Unlock(s, c), k, x)
  BY <1>3, <1>4, SessionSet
<1> QED
  BY <1>5 DEF x

(* A call fails that had its place in line.                                  *)
LEMMA Drops ==
  ASSUME NEW s, NEW c \in Callers, Good(s), s.task[c].phase \in {"lock", "await"}
  PROVE  Good(Raise(Unlock(s, c), c))
<1> DEFINE k == s.task[c].ctx
           y == s.session[k]
           x == [y EXCEPT !.line = RemoveFirst(y.line, c)]
           t == Unlock(s, c)
<1>1. s \in States /\ k \in Contexts /\ Once(y.line) /\ MeetsAt(y)
  BY AtWork
<1>2. SetSession(s, t, k, x)
  BY <1>1, Unlocks
<1>3. /\ x.net = y.net /\ x.held = y.held /\ x.line = RemoveFirst(y.line, c)
      /\ x.got = y.got /\ x.send = y.send /\ x.recv = y.recv /\ x.lag = y.lag
  BY <1>1, SessionsTyped DEF SessionType
<1>4. MeetsAt(x)
  BY <1>1, <1>3 DEF MeetsAt
<1> HIDE DEF x, t
<1>5. t \in States /\ t.subs = s.subs /\ Left(s, t, c, k)
  BY <1>2, <1>3, <1>4 DEF SetSession, Left
<1>6. s.task[c].phase \in Posting
  BY DEF Posting
<1>7. Good(Raise(t, c))
  BY <1>5, <1>6, Fails
<1> QED
  BY <1>7 DEF t

(* c goes from the line to its request.                                      *)
LEMMA Sits ==
  ASSUME NEW s, NEW c \in Callers, Good(s), s.task[c].phase = "lock",
         s.session[s.task[c].ctx].line # <<>>, s.session[s.task[c].ctx].line[1] = c,
         NEW t, NEW a, SetTask(s, t, c, a), a.phase = "await", a.ctx = s.task[c].ctx,
         a.connecting = s.task[c].connecting, a.post = s.task[c].post, a.op = s.task[c].op
  PROVE  Good(t)
<1>1. s \in States
  BY DEF Good, Inv
<1>2. SetTask(s, t, c, a)
  OBVIOUS
<1>3. \A d \in Callers : /\ t.task[d].ctx = s.task[d].ctx
                         /\ t.task[d].connecting = s.task[d].connecting
                         /\ Effect(t.task[d]) = Effect(s.task[d])
                         /\ t.task[d].post = s.task[d].post
                         /\ t.task[d].phase = s.task[d].phase \/ (d = c /\ t.task[d].phase = "await")
  BY <1>1, <1>2 DEF SetTask, Effect
<1>4. Connects(t, {}) /\ Meets(t)
  BY <1>2, <1>3 DEF SetTask, Good, Inv, Connects, Meets
<1>5. Refers(t, {})
  <2>1. Connected(t) <=> Connected(s)
    BY <1>2 DEF Connected, SetTask
  <2>2. \A j \in Contexts : t.session[j].net = "free" =>
          /\ t.session[j] = Blank /\ j \notin {t.enc, t.mover}
          /\ \A d \in Callers : t.task[d].ctx # j
    BY <1>2, <1>3 DEF SetTask, Good, Inv, Refers
  <2>3. \A d \in Callers \ {} :
          /\ t.task[d].phase \in Posting => s.task[d].phase \in Posting
          /\ t.task[d].phase = "verify" => s.task[d].phase = "verify"
    BY <1>3 DEF Posting
  <2>6. Refers(s, {})
    BY DEF Good, Inv
  <2>4. ASSUME NEW d \in Callers \ {}, t.task[d].phase \in Posting \cup {"verify"}
        PROVE  t.task[d].ctx # None
    <3>1. s.task[d].phase \in Posting \cup {"verify"} /\ t.task[d].ctx = s.task[d].ctx
      BY <1>3, <2>3, <2>4
    <3>2. s.task[d].ctx # None
      BY <2>6, <3>1 DEF Refers
    <3> QED
      BY <3>1, <3>2
  <2>5. ASSUME NEW d \in Callers \ {}, t.task[d].phase = "verify"
        PROVE  /\ t.session[t.task[d].ctx] = Opened
               /\ t.task[d].ctx \notin {t.enc, t.mover} /\ ~Connected(t)
               /\ \A e \in Callers \ {d} : t.task[e].ctx # t.task[d].ctx
    <3>1. /\ s.session[s.task[d].ctx] = Opened
          /\ s.task[d].ctx \notin {s.enc, s.mover} /\ ~Connected(s)
          /\ \A e \in Callers \ {d} : s.task[e].ctx # s.task[d].ctx
      <4>1. s.task[d].phase = "verify"
        BY <2>3, <2>5
      <4> QED
        BY <2>6, <4>1 DEF Refers
    <3> QED
      BY <1>2, <1>3, <2>1, <3>1 DEF SetTask
  <2> QED
    BY <2>2, <2>4, <2>5 DEF Refers
<1>6. Shuts(t, {}) /\ Lost(t, {})
  <2>1. Connected(t) <=> Connected(s)
    BY <1>2 DEF Connected, SetTask
  <2>2. ASSUME NEW d \in Callers
        PROVE  /\ t.task[d].ctx = s.task[d].ctx
               /\ t.task[d].phase = "ending" => s.task[d].phase = "ending"
               /\ s.task[d].phase = "ending" => t.task[d].phase = "ending"
               /\ s.task[d].phase = "verify" => t.task[d].phase = "verify"
    BY <1>3
  <2>3. Shuts(t, {})
    BY <1>2, <2>2 DEF SetTask, Good, Inv, Shuts
  <2>4. Lost(t, {})
    BY <1>2, <2>1, <2>2 DEF SetTask, Good, Inv, Lost
  <2> QED
    BY <2>3, <2>4
<1>7. Lines(t, {})
  <2>1. ASSUME NEW k \in Contexts, NEW i \in 1..Len(t.session[k].line)
        PROVE  t.task[t.session[k].line[i]].ctx = k
               /\ t.task[t.session[k].line[i]].phase \in Posting
    <3> DEFINE d == t.session[k].line[i]
    <3>1. /\ i \in 1..Len(s.session[k].line) /\ d = s.session[k].line[i]
          /\ s.session[k].line[i] \in Callers
      BY <1>2, <2>1, InLine DEF SetTask, Good
    <3>2. s.task[d].ctx = k /\ s.task[d].phase \in Posting
      BY <3>1 DEF Good, Inv, Lines
    <3> HIDE DEF d
    <3>3. t.task[d].ctx = k /\ t.task[d].phase \in Posting
      BY <1>3, <3>1, <3>2 DEF Posting
    <3> QED
      BY <3>3 DEF d
  <2>2. \A k \in Contexts : Once(t.session[k].line)
    BY <1>2 DEF SetTask, Good, Inv, Lines
  <2>3. ASSUME NEW d \in Callers, t.task[d].phase \in {"await", "ending"}
        PROVE  LET line == t.session[t.task[d].ctx].line IN line # <<>> /\ line[1] = d
    <3>1. t.session[t.task[d].ctx].line = s.session[s.task[d].ctx].line
      BY <1>2, <1>3 DEF SetTask
    <3>2. CASE d = c
      BY <3>1, <3>2
    <3>3. CASE d # c
      <4>1. s.task[d].phase \in {"await", "ending"} /\ d \in Callers \ {}
        BY <1>3, <2>3, <3>3
      <4> QED
        BY <3>1, <4>1 DEF Good, Inv, Lines
    <3> QED
      BY <3>2, <3>3
  <2> QED
    BY <2>1, <2>2, <2>3 DEF Lines
<1>8. Agree(t, {})
  <2>1. ASSUME Live(t) PROVE Carried(s, t, {}, {})
    <3>1. Live(s) /\ s.enc \in Contexts
      BY <1>1, <1>2, <2>1 DEF Live, Connected, States, SetTask
    <3>2. \A i \in 1..Len(s.session[s.enc].line) : s.session[s.enc].line[i] \in Callers
      BY <3>1, InLine DEF Good
    <3> QED
      BY <1>2, <1>3, <3>1, <3>2 DEF Carried, Witness, SetTask
  <2> QED
    BY <1>2, <2>1, AgreeSame DEF SetTask, Good
<1> QED
  BY <1>2, <1>4, <1>5, <1>6, <1>7, <1>8 DEF Good, Inv, SetTask

LEMMA Sends ==
  ASSUME NEW s, NEW c \in Callers, Good(s), s.task[c].phase = "lock",
         s.session[s.task[c].ctx].line # <<>>, s.session[s.task[c].ctx].line[1] = c
  PROVE  Good(Send(s, c))
<1> DEFINE k == s.task[c].ctx
           y == s.session[k]
           x == [y EXCEPT !.send = y.send + 1]
           t == SessionWith(s, k, x)
<1>1. /\ s \in States /\ k \in Contexts /\ MeetsAt(y) /\ s.session[k].net # "free"
      /\ \A d \in Callers \ {} : s.task[d].phase = "verify" => s.task[d].ctx # k
  BY AtWork
<1>2. /\ y \in SessionType /\ x \in SessionType
      /\ x.net = y.net /\ x.held = y.held /\ x.line = y.line /\ x.hurt = y.hurt
      /\ x.got = y.got /\ x.send = y.send + 1 /\ x.recv = y.recv /\ x.lag = y.lag
      /\ x.subscribed = y.subscribed
  <2>1. y \in SessionType
    BY <1>1, SessionsTyped
  <2> HIDE DEF y
  <2> QED
    BY <2>1 DEF SessionType
<1>3. Send(s, c) = IF y.held THEN TaskWith(t, c, [t.task[c] EXCEPT !.phase = "await"])
                   ELSE Raise(Unlock(t, c), c)
  BY DEF Send, TaskWith, SessionWith
<1>4. MeetsAt(x)
  <2>1. y.got \in Nat /\ y.send \in Nat
    BY <1>2 DEF SessionType
  <2> HIDE DEF x, y
  <2> QED
    BY <1>1, <1>2, <2>1, SMTT(30) DEF MeetsAt
<1>5. SetSession(s, t, k, x)
  BY <1>1, <1>2, SessionSet, SMTT(30)
<1> HIDE DEF t, x
<1>6. Inv(t, {})
  <2>1. /\ t \in States /\ t.enc = s.enc /\ t.mover = s.mover /\ t.future = s.future
        /\ t.orphans = s.orphans /\ t.task = s.task /\ t.session[k] = x
        /\ \A j \in Contexts \ {k} : t.session[j] = s.session[j]
    BY <1>5 DEF SetSession
  <2>2. Inv(s, {})
    BY DEF Good
  <2> QED
    BY <1>1, <1>2, <1>4, <2>1, <2>2, Counted
<1>7. Agree(t, {})
  <2>1. ASSUME Live(t) PROVE Carried(s, t, {}, {})
    <3>1. s.enc \in Contexts
      BY <1>1, <1>5, <2>1 DEF Live, Connected, States, SetSession
    <3>2. /\ t.session[s.enc].line = s.session[s.enc].line
          /\ t.session[s.enc].subscribed = s.session[s.enc].subscribed
          /\ t.session[s.enc].net = s.session[s.enc].net
          /\ t.session[s.enc].held = s.session[s.enc].held
          /\ t.session[s.enc].hurt = s.session[s.enc].hurt
      BY <1>2, <1>5, <3>1 DEF SetSession
    <3> QED
      BY <1>5, <2>1, <3>2 DEF Carried, Witness, Live, Connected, SetSession
  <2> QED
    BY <1>5, <2>1, AgreeSame DEF SetSession, Good
<1>8. Good(t) /\ t.task[c].phase = "lock"
      /\ t.session[t.task[c].ctx].line # <<>> /\ t.session[t.task[c].ctx].line[1] = c
  BY <1>2, <1>5, <1>6, <1>7 DEF Good, SetSession
<1>9. CASE y.held
  <2> DEFINE a == [t.task[c] EXCEPT !.phase = "await"]
  <2>1. t.task[c] \in TaskType /\ t \in States
    BY <1>8, TasksTyped DEF Good, Inv
  <2>2. /\ a \in TaskType /\ a.phase = "await" /\ a.ctx = t.task[c].ctx
        /\ a.connecting = t.task[c].connecting /\ a.post = t.task[c].post /\ a.op = t.task[c].op
    BY <2>1 DEF TaskType, Phases
  <2>3. Send(s, c) = TaskWith(t, c, a)
    BY <1>3, <1>9
  <2> HIDE DEF a
  <2>4. SetTask(t, Send(s, c), c, a)
    BY <2>1, <2>2, <2>3, TaskSet
  <2> QED
    BY <1>8, <2>2, <2>4, Sits
<1>10. CASE ~y.held
  BY <1>3, <1>8, <1>10, Drops
<1> QED
  BY <1>9, <1>10

-----------------------------------------------------------------------------
(* A request joins the line.                                                 *)

(* c may post: the effect is what the pairing wants, or there is none.       *)
Ready(s, c, what) ==
  Live(s) =>
    \/ EffectOf(what, s.task[c].op) = Value(s.subs)
    \/ EffectOf(what, s.task[c].op) = "none" /\ Says(s, s.enc, s.subs)
    \/ /\ EffectOf(what, s.task[c].op) = "none" /\ s.subs /\ Says(s, s.enc, FALSE)
       /\ \/ \E d \in Callers \ {c} : Witness(s, d)
          \/ s.task[c].connecting /\ what \in {"gatt", "values"}

Joined(s, t, c, what) ==
  /\ t \in States /\ t.enc = s.enc /\ t.mover = s.mover /\ t.future = s.future
  /\ t.orphans = s.orphans /\ t.subs = s.subs
  /\ \A j \in Contexts \ {s.enc} : t.session[j] = s.session[j]
  /\ t.session[s.enc].net = s.session[s.enc].net
  /\ t.session[s.enc].held = s.session[s.enc].held
  /\ t.session[s.enc].hurt = s.session[s.enc].hurt
  /\ t.session[s.enc].subscribed = s.session[s.enc].subscribed
  /\ MeetsAt(s.session[s.enc]) => MeetsAt(t.session[s.enc])
  /\ t.session[s.enc].line = Append(s.session[s.enc].line, c)
  /\ \A d \in Callers \ {c} : t.task[d] = s.task[d]
  /\ t.task[c].phase = "lock" /\ t.task[c].ctx = s.enc /\ t.task[c].post = what
  /\ t.task[c].op = s.task[c].op /\ t.task[c].connecting = s.task[c].connecting

LEMMA JoinsInv ==
  ASSUME NEW s, NEW t, NEW c \in Callers, NEW what, Inv(s, {c}), s.enc # None,
         Joined(s, t, c, what)
  PROVE  Inv(t, {})
<1> DEFINE k == s.enc
<1>1. s \in States /\ t \in States /\ k \in Contexts /\ s.session[k].net # "free"
  BY DEF Inv, States, Refers, Joined
<1>2. /\ \A j \in Contexts : /\ t.session[j].net = s.session[j].net
                             /\ t.session[j].held = s.session[j].held
      /\ Connected(t) <=> Connected(s)
      /\ t.enc = s.enc /\ t.mover = s.mover /\ t.orphans = s.orphans /\ t.future = s.future
  BY <1>1 DEF Connected, Joined
<1>3. Connects(t, {})
  BY DEF Inv, Connects, Joined
<1>4. Meets(t)
  BY <1>1 DEF Inv, Meets, Joined
<1>5. Refers(t, {})
  <2>1. ASSUME NEW j \in Contexts, t.session[j].net = "free"
        PROVE  /\ t.session[j] = Blank /\ j \notin {t.enc, t.mover}
               /\ \A d \in Callers : t.task[d].ctx # j
    <3>1. s.session[j].net = "free" /\ j # k /\ t.session[j] = s.session[j]
      BY <1>1, <1>2, <2>1 DEF Joined
    <3> QED
      BY <1>2, <3>1 DEF Inv, Refers, Joined
  <2>2. ASSUME NEW d \in Callers \ {}, t.task[d].phase \in Posting \cup {"verify"}
        PROVE  t.task[d].ctx # None
    BY <2>2 DEF Inv, Refers, Joined
  <2>3. ASSUME NEW d \in Callers \ {}, t.task[d].phase = "verify"
        PROVE  /\ t.session[t.task[d].ctx] = Opened
               /\ t.task[d].ctx \notin {t.enc, t.mover} /\ ~Connected(t)
               /\ \A e \in Callers \ {d} : t.task[e].ctx # t.task[d].ctx
    <3>1. d # c /\ t.task[d] = s.task[d] /\ s.task[d].phase = "verify"
      BY <2>3 DEF Joined
    <3>2. /\ s.session[s.task[d].ctx] = Opened
          /\ s.task[d].ctx \notin {s.enc, s.mover} /\ ~Connected(s)
          /\ \A e \in Callers \ {d} : s.task[e].ctx # s.task[d].ctx
          /\ s.task[d].ctx # None
      BY <3>1 DEF Inv, Refers
    <3>3. s.task[d].ctx \in Contexts \ {k}
      BY <1>1, <3>2, TasksTyped DEF TaskType
    <3> QED
      BY <1>2, <3>1, <3>2, <3>3 DEF Joined
  <2> QED
    BY <2>1, <2>2, <2>3 DEF Refers
<1>6. Shuts(t, {}) /\ Lost(t, {})
  <2>1. \A d \in Callers \ {} : t.task[d].phase = "ending" =>
          s.task[d].phase = "ending" /\ d # c /\ t.task[d].ctx = s.task[d].ctx
            /\ s.task[d].ctx \in Contexts
    BY <1>1, TasksTyped DEF Inv, Refers, Posting, TaskType, Joined
  <2>2. Shuts(t, {})
    BY <1>1, <1>2, <2>1 DEF Inv, Shuts, States
  <2>3. Lost(t, {})
    BY <1>1, <1>2 DEF Inv, Lost, Joined
  <2> QED
    BY <2>2, <2>3
<1>7. Lines(t, {})
  <2> DEFINE L(u, j) == u.session[j].line
  <2>1. \A j \in Contexts : /\ L(s, j) \in Seq(Callers) /\ Once(L(s, j))
                            /\ \A i \in 1..Len(L(s, j)) :
                                 /\ L(s, j)[i] \in Callers \ {c}
                                 /\ s.task[L(s, j)[i]].ctx = j
                                 /\ s.task[L(s, j)[i]].phase \in Posting
    <3>1. \A j \in Contexts : L(s, j) \in Seq(Callers)
      BY <1>1, SessionsTyped DEF SessionType
    <3>2. \A j \in Contexts : Once(L(s, j)) /\ \A i \in 1..Len(L(s, j)) :
                                 /\ s.task[L(s, j)[i]].ctx = j
                                 /\ s.task[L(s, j)[i]].phase \in Posting
      BY DEF Inv, Lines
    <3> QED
      BY <3>1, <3>2, InLine
  <2>2. \A j \in Contexts \ {k} : L(t, j) = L(s, j)
    BY DEF Joined
  <2>3. L(t, k) = Append(L(s, k), c)
    BY DEF Joined
  <2>4. \A d \in Callers \ {c} : t.task[d] = s.task[d]
    BY DEF Joined
  <2>5. t.task[c].ctx = k /\ t.task[c].phase \in Posting /\ t.task[c].phase = "lock"
    BY DEF Joined, Posting
  <2>6. \A d \in Callers \ {c} : s.task[d].phase \in {"await", "ending"} =>
          /\ s.task[d].ctx \in Contexts
          /\ L(s, s.task[d].ctx) # <<>> /\ L(s, s.task[d].ctx)[1] = d
    <3>1. \A d \in Callers \ {c} : s.task[d].phase \in {"await", "ending"} =>
            s.task[d].ctx \in Contexts
      BY <1>1, TasksTyped DEF Inv, Refers, Posting, TaskType
    <3> QED
      BY <3>1 DEF Inv, Lines
  <2> HIDE DEF L, k
  <2>7. k \in Contexts
    BY <1>1
  <2>8. ASSUME NEW j \in Contexts
        PROVE  /\ Once(L(t, j))
               /\ \A i \in 1..Len(L(t, j)) :
                    t.task[L(t, j)[i]].ctx = j /\ t.task[L(t, j)[i]].phase \in Posting
    <3>1. CASE j # k
      BY <2>1, <2>2, <2>4, <3>1
    <3>2. CASE j = k
      <4> DEFINE n == Len(L(s, k))
      <4>1. n \in Nat /\ Len(L(t, k)) = n + 1 /\ L(t, k)[n + 1] = c
            /\ \A i \in 1..n : L(t, k)[i] = L(s, k)[i]
        BY <2>1, <2>3, <2>7
      <4> HIDE DEF n
      <4>2. \A i \in 1..n : L(t, k)[i] \in Callers \ {c} /\ t.task[L(t, k)[i]].ctx = k
                            /\ t.task[L(t, k)[i]].phase \in Posting
        BY <2>1, <2>4, <2>7, <4>1 DEF n
      <4>3. Once(L(t, k))
        <5>1. \A i, e \in 1..n : L(t, k)[i] = L(t, k)[e] => i = e
          BY <2>1, <2>7, <4>1 DEF Once, n
        <5> QED
          BY <4>1, <4>2, <5>1 DEF Once
      <4>4. \A i \in 1..Len(L(t, k)) : i \in 1..n \/ i = n + 1
        BY <4>1
      <4> QED
        BY <2>5, <3>2, <4>1, <4>2, <4>3, <4>4
    <3> QED
      BY <3>1, <3>2
  <2>9. ASSUME NEW d \in Callers \ {}, t.task[d].phase \in {"await", "ending"}
        PROVE  L(t, t.task[d].ctx) # <<>> /\ L(t, t.task[d].ctx)[1] = d
    <3>1. d \in Callers \ {c} /\ t.task[d] = s.task[d]
      BY <2>4, <2>5, <2>9
    <3>2. /\ s.task[d].ctx \in Contexts
          /\ L(s, s.task[d].ctx) # <<>> /\ L(s, s.task[d].ctx)[1] = d
      BY <2>6, <2>9, <3>1
    <3>3. CASE s.task[d].ctx = k
      <4>1. L(s, k) \in Seq(Callers) /\ L(s, k) # <<>> /\ L(s, k)[1] = d
        BY <2>1, <3>2, <3>3
      <4>2. Append(L(s, k), c) # <<>> /\ Append(L(s, k), c)[1] = d
        BY <4>1
      <4> QED
        BY <2>3, <3>1, <3>3, <4>2
    <3>4. CASE s.task[d].ctx # k
      BY <2>2, <3>1, <3>2, <3>4, SMTT(30)
    <3> QED
      BY <3>3, <3>4
  <2> QED
    BY <2>8, <2>9 DEF Lines, L
<1> QED
  BY <1>1, <1>3, <1>4, <1>5, <1>6, <1>7 DEF Inv

(* A request without an effect leaves what the line says.                    *)
LEMMA JoinsSame ==
  ASSUME NEW s, NEW t, NEW c \in Callers, NEW what, NEW v, Inv(s, {c}), s.enc # None,
         Joined(s, t, c, what), EffectOf(what, s.task[c].op) = "none", Says(s, s.enc, v)
  PROVE  Says(t, s.enc, v)
<1> DEFINE old == s.session[s.enc].line
           new == t.session[s.enc].line
           n == Len(old)
<1>1. s.enc \in Contexts /\ old \in Seq(Callers)
      /\ \A i \in 1..Len(old) : old[i] \in Callers \ {c}
  <2>1. s \in States /\ s.enc \in Contexts
    BY DEF Inv, States
  <2> QED
    BY <2>1, SessionsTyped, InLine DEF SessionType
<1>2. /\ n \in Nat /\ Len(new) = n + 1 /\ new[n + 1] = c
      /\ \A i \in 1..n : new[i] = old[i]
  <2>1. new = Append(old, c)
    BY DEF Joined
  <2> HIDE DEF old, new
  <2> QED
    BY <1>1, <2>1
<1>3. ASSUME NEW i \in 1..n PROVE Effect(t.task[new[i]]) = Effect(s.task[old[i]])
  <2>1. \A d \in Callers \ {c} : t.task[d] = s.task[d]
    BY DEF Joined
  <2> HIDE DEF old, new
  <2>2. new[i] = old[i] /\ old[i] \in Callers \ {c}
    BY <1>1, <1>2
  <2> QED
    BY <2>1, <2>2
<1>4. Effect(t.task[new[n + 1]]) = "none"
  BY <1>2 DEF Joined, Effect
<1>5. t.session[s.enc].subscribed = s.session[s.enc].subscribed
  BY DEF Joined
<1>6. /\ \A i \in 1..n :
           (\A j \in 1..n : j > i => Effect(s.task[old[j]]) = "none")
             => Effect(s.task[old[i]]) \in {"none", Value(v)}
      /\ (\A i \in 1..n : Effect(s.task[old[i]]) = "none") => s.session[s.enc].subscribed = v
  BY SMTT(30) DEF Says
<1> DEFINE e(i) == Effect(t.task[new[i]])
<1>7. /\ \A i \in 1..n : (\A j \in 1..n : j > i => e(j) = "none") => e(i) \in {"none", Value(v)}
      /\ (\A i \in 1..n : e(i) = "none") => t.session[s.enc].subscribed = v
      /\ e(n + 1) = "none"
  <2> DEFINE f(i) == Effect(s.task[old[i]])
  <2>1. (\A i \in 1..n : e(i) = f(i)) /\ e(n + 1) = "none"
    BY <1>3, <1>4, ZenonT(30)
  <2>2. /\ \A i \in 1..n : (\A j \in 1..n : j > i => f(j) = "none") => f(i) \in {"none", Value(v)}
        /\ (\A i \in 1..n : f(i) = "none") => s.session[s.enc].subscribed = v
    BY <1>6
  <2> HIDE DEF e, f, n
  <2> QED
    BY <1>5, <2>1, <2>2
<1> HIDE DEF n, e, new, old
<1>8. /\ \A i \in 1..n + 1 :
           (\A j \in 1..n + 1 : j > i => e(j) = "none") => e(i) \in {"none", Value(v)}
      /\ (\A i \in 1..n + 1 : e(i) = "none") => t.session[s.enc].subscribed = v
  BY <1>2, <1>7, SMTT(30)
<1> QED
  BY <1>2, <1>8, ZenonT(30) DEF Says, e, new

(* One with an effect says it all.                                           *)
LEMMA JoinsLast ==
  ASSUME NEW s, NEW t, NEW c \in Callers, NEW what, NEW v \in BOOLEAN, Inv(s, {c}),
         s.enc # None, Joined(s, t, c, what), EffectOf(what, s.task[c].op) = Value(v)
  PROVE  Says(t, s.enc, v)
<1> DEFINE old == s.session[s.enc].line
           new == t.session[s.enc].line
           n == Len(old)
<1>1. s.enc \in Contexts /\ old \in Seq(Callers)
  <2>1. s \in States /\ s.enc \in Contexts
    BY DEF Inv, States
  <2> QED
    BY <2>1, SessionsTyped DEF SessionType
<1>2. n \in Nat /\ Len(new) = n + 1 /\ new[n + 1] = c
  <2>1. new = Append(old, c)
    BY DEF Joined
  <2> HIDE DEF old, new
  <2> QED
    BY <1>1, <2>1
<1> DEFINE e(i) == Effect(t.task[new[i]])
<1>3. e(n + 1) = Value(v) /\ Value(v) # "none"
  BY <1>2 DEF Joined, Effect, Value
<1> HIDE DEF n, e, new, old
<1>4. /\ \A i \in 1..n + 1 :
           (\A j \in 1..n + 1 : j > i => e(j) = "none") => e(i) \in {"none", Value(v)}
      /\ ~\A i \in 1..n + 1 : e(i) = "none"
  BY <1>2, <1>3
<1> QED
  BY <1>2, <1>4, ZenonT(30) DEF Says, e, new

LEMMA Joins ==
  ASSUME NEW s, NEW t, NEW c \in Callers, NEW what, Inv(s, {c}), s.enc # None,
         Joined(s, t, c, what), Ready(s, c, what)
  PROVE  Good(t)
<1>1. Inv(t, {}) /\ s \in States
  BY JoinsInv DEF Inv
<1>2. t.enc = s.enc /\ t.subs = s.subs /\ s.subs \in BOOLEAN
  BY <1>1 DEF Joined, States
<1>3. \A d \in Callers \ {c} : Witness(s, d) => Witness(t, d)
  BY DEF Witness, Joined
<1>4. s.task[c].connecting /\ what \in {"gatt", "values"} => Witness(t, c)
  BY DEF Witness, Joined
<1>5. ASSUME Live(t)
      PROVE  \/ Says(t, t.enc, t.subs)
             \/ t.subs /\ Says(t, t.enc, FALSE) /\ \E d \in Callers \ {} : Witness(t, d)
  <2>1. Live(s)
    BY <1>5 DEF Live, Connected, Joined
  <2>2. CASE EffectOf(what, s.task[c].op) = Value(s.subs)
    BY <1>2, <2>2, JoinsLast
  <2>3. CASE EffectOf(what, s.task[c].op) = "none" /\ Says(s, s.enc, s.subs)
    BY <1>2, <2>3, JoinsSame
  <2>4. CASE /\ EffectOf(what, s.task[c].op) = "none" /\ s.subs /\ Says(s, s.enc, FALSE)
             /\ \/ \E d \in Callers \ {c} : Witness(s, d)
                \/ s.task[c].connecting /\ what \in {"gatt", "values"}
    <3>1. Says(t, s.enc, FALSE)
      BY <2>4, JoinsSame
    <3>2. \E d \in Callers \ {} : Witness(t, d)
      BY <1>3, <1>4, <2>4
    <3> QED
      BY <1>2, <2>4, <3>1, <3>2
  <2> QED
    BY <2>1, <2>2, <2>3, <2>4 DEF Ready
<1> QED
  BY <1>1, <1>5 DEF Good, Agree

LEMMA Enters ==
  ASSUME NEW s, NEW c \in Callers, NEW what \in Posts, Inv(s, {c}), Ready(s, c, what)
  PROVE  Good(Post(s, c, what))
<1> DEFINE k == s.enc
           a == [s.task[c] EXCEPT !.ctx = k, !.post = what, !.phase = "lock"]
           x == [s.session[k] EXCEPT !.line = Append(s.session[k].line, c)]
           f == [s.task EXCEPT ![c] = a]
           g == [s.session EXCEPT ![k] = x]
           t == [s EXCEPT !.task = f, !.session = g]
<1>1. s \in States
  BY DEF Inv
<1>2. CASE k = None
  <2>1. Agree(s, {})
    BY <1>2 DEF Agree, Live, Connected
  <2> QED
    BY <1>2, <2>1, Raises DEF Post
<1>3. CASE k # None
  <2>1. k \in Contexts
    BY <1>1, <1>3 DEF States
  <2>2. s.session[k] \in SessionType /\ s.task[c] \in TaskType
    BY <1>1, <2>1, SessionsTyped, TasksTyped
  <2>3. Post(s, c, what) = IF s.session[k].line = <<>> THEN Send(t, c) ELSE t
    BY <1>3 DEF Post
  <2>4. /\ x \in SessionType /\ x.line = Append(s.session[k].line, c)
        /\ x.net = s.session[k].net /\ x.held = s.session[k].held /\ x.hurt = s.session[k].hurt
        /\ x.subscribed = s.session[k].subscribed
        /\ x.got = s.session[k].got /\ x.send = s.session[k].send
        /\ x.recv = s.session[k].recv /\ x.lag = s.session[k].lag
    <3>1. Append(s.session[k].line, c) \in Seq(Callers)
      BY <2>2 DEF SessionType
    <3> QED
      BY <2>2, <3>1 DEF SessionType
  <2>5. /\ a \in TaskType /\ a.ctx = k /\ a.post = what /\ a.phase = "lock"
        /\ a.op = s.task[c].op /\ a.connecting = s.task[c].connecting
    BY <2>1, <2>2 DEF TaskType, Phases
  <2>6. MeetsAt(s.session[k]) => MeetsAt(x)
    BY <2>4 DEF MeetsAt
  <2> HIDE DEF a, x
  <2>7. /\ f \in [Callers -> TaskType] /\ f[c] = a
        /\ \A d \in Callers \ {c} : f[d] = s.task[d]
    BY <1>1, <2>5 DEF States
  <2>8. /\ g \in [Contexts -> SessionType] /\ g[k] = x
        /\ \A j \in Contexts \ {k} : g[j] = s.session[j]
    BY <1>1, <2>1, <2>4 DEF States
  <2> HIDE DEF f, g
  <2>9. /\ t \in States /\ t.task = f /\ t.session = g
        /\ t.enc = s.enc /\ t.mover = s.mover /\ t.future = s.future
        /\ t.orphans = s.orphans /\ t.subs = s.subs
    BY <1>1, <2>7, <2>8 DEF States
  <2> HIDE DEF t
  <2>10. Joined(s, t, c, what)
    BY <2>4, <2>5, <2>6, <2>7, <2>8, <2>9 DEF Joined
  <2>11. Good(t)
    BY <1>3, <2>10, Joins
  <2>12. CASE s.session[k].line = <<>>
    <3>1. t.session[t.task[c].ctx].line = <<c>> /\ t.task[c].phase = "lock"
      BY <2>12, <2>10 DEF Joined
    <3> QED
      BY <2>3, <2>11, <2>12, <3>1, Sends
  <2> QED
    BY <2>3, <2>11, <2>12
<1> QED
  BY <1>2, <1>3

-----------------------------------------------------------------------------
(* The operations.                                                           *)

LEMMA AgreeMore ==
  ASSUME NEW s, NEW c \in Callers, Agree(s, {c})
  PROVE  Agree(s, {})
  BY DEF Agree

LEMMA Plain ==
  ASSUME NEW s, NEW c \in Callers, NEW what \in Posts, Busy(s, c),
         EffectOf(what, s.task[c].op) = "none"
  PROVE  Good(Post(s, c, what))
<1>1. Inv(s, {c}) /\ Ready(s, c, what)
  BY DEF Busy, Agree, Ready
<1> QED
  BY <1>1, Enters

(* The pairing's own record of the subscriptions is changed with the call.   *)
LEMMA Wishes ==
  ASSUME NEW s, NEW c \in Callers, NEW what \in Posts, NEW v \in BOOLEAN, Inv(s, {c}),
         EffectOf(what, s.task[c].op) = Value(v), NEW t, t = [s EXCEPT !.subs = v]
  PROVE  Good(Post(t, c, what))
<1>1. s \in States
  BY DEF Inv
<1>2. /\ t \in States /\ t.enc = s.enc /\ t.mover = s.mover /\ t.future = s.future
      /\ t.orphans = s.orphans /\ t.session = s.session /\ t.task = s.task /\ t.subs = v
  BY <1>1 DEF States
<1>3. Inv(t, {c})
  BY <1>2, Aside
<1>4. Ready(t, c, what)
  BY <1>2 DEF Ready
<1> QED
  BY <1>3, <1>4, Enters

LEMMA Operates ==
  ASSUME NEW s, NEW c \in Callers, Busy(s, c)
  PROVE  Good(Operate(s, c))
<1> DEFINE op == s.task[c].op
<1>1. s \in States /\ Inv(s, {c}) /\ Agree(s, {}) /\ op \in Operations
  BY AgreeMore, TasksTyped DEF Busy, Inv, TaskType
<1>2. "operation" \in Posts /\ "gatt" \in Posts
  BY DEF Posts
<1>3. CASE op = "read"
  <2>1. EffectOf("operation", op) = "none"
    BY <1>3 DEF EffectOf
  <2> QED
    BY <1>2, <1>3, <2>1, Plain DEF Operate
<1>4. CASE op = "write"
  <2>1. EffectOf("operation", op) = "none"
    BY <1>4 DEF EffectOf
  <2>2. Operate(s, c) = IF s.info THEN Post(s, c, "operation") ELSE Raise(s, c)
    BY <1>4 DEF Operate
  <2> QED
    BY <1>1, <1>2, <2>1, <2>2, Plain, Raises
<1>5. CASE op = "list"
  <2>1. EffectOf("gatt", op) = "none"
    BY <1>5 DEF EffectOf
  <2> QED
    BY <1>2, <1>5, <2>1, Plain DEF Operate
<1>6. CASE op = "subscribe"
  <2>1. EffectOf("operation", op) = Value(TRUE)
    BY <1>6 DEF EffectOf, Value
  <2>2. Operate(s, c) = IF s.subs THEN Return(s, c)
                        ELSE Post([s EXCEPT !.subs = TRUE], c, "operation")
    BY <1>6 DEF Operate
  <2>3. Good(Post([s EXCEPT !.subs = TRUE], c, "operation"))
    BY <1>1, <1>2, <2>1, Wishes
  <2> QED
    BY <2>2, <2>3, Returns
<1>7. CASE op \in {"unsubscribe", "close"}
  <2>1. EffectOf("operation", op) = Value(FALSE)
    BY <1>7 DEF EffectOf, Value
  <2>2. Good(Post([s EXCEPT !.subs = FALSE], c, "operation"))
    BY <1>1, <1>2, <2>1, Wishes
  <2>3. \/ Operate(s, c) = Post([s EXCEPT !.subs = FALSE], c, "operation")
        \/ Operate(s, c) = Return(s, c)
    BY <1>7 DEF Operate
  <2> QED
    BY <2>2, <2>3, Returns
<1> QED
  BY <1>1, <1>3, <1>4, <1>5, <1>6, <1>7 DEF Operations

(* After connect: until the subscription is made again, a connector that is  *)
(* still at it stands for it.                                                *)
LEMMA AfterConnects ==
  ASSUME NEW s, NEW c \in Callers, Inv(s, {c}), Agree(s, {})
  PROVE  Good(AfterConnect(s, c))
<1>1. CASE s.subs
  <2>1. "resubscribe" \in Posts
    BY DEF Posts
  <2>2. Ready(s, c, "resubscribe")
    BY <1>1 DEF Ready, EffectOf, Value
  <2> QED
    BY <1>1, <2>1, <2>2, Enters DEF AfterConnect
<1>2. CASE ~s.subs
  <2>1. Busy(s, c)
    BY <1>2 DEF Busy, Agree
  <2>2. Busy(ReleaseWaiters(s, c), c)
    BY <2>1, ReleaseAgree
  <2> QED
    BY <1>2, <2>2, Operates DEF AfterConnect
<1> QED
  BY <1>1, <1>2

LEMMA Proceeds ==
  ASSUME NEW s, NEW c \in Callers, Inv(s, {c}), Agree(s, {})
  PROVE  Good(Proceed(s, c))
<1> DEFINE what == s.task[c].post
<1>1. s \in States /\ what \in Posts
  BY TasksTyped DEF Inv, TaskType
<1>2. ASSUME ~Witness(s, c) PROVE Busy(s, c)
  BY <1>2 DEF Busy, Agree
<1>3. CASE what = "gatt"
  <2> DEFINE t == [s EXCEPT !.info = TRUE]
  <2>1. /\ t \in States /\ t.enc = s.enc /\ t.mover = s.mover /\ t.future = s.future
        /\ t.orphans = s.orphans /\ t.session = s.session /\ t.task = s.task /\ t.subs = s.subs
    BY <1>1 DEF States
  <2>2. Proceed(s, c) = Post(t, c, "values")
    BY <1>3 DEF Proceed
  <2> HIDE DEF t
  <2>3. Inv(t, {c})
    BY <2>1, Aside
  <2>4. Ready(t, c, "values")
    <3>1. EffectOf("values", t.task[c].op) = "none"
      BY DEF EffectOf
    <3>2. \A v \in BOOLEAN : Says(s, s.enc, v) => Says(t, t.enc, v)
      BY <2>1 DEF Says
    <3>3. s.subs \in BOOLEAN /\ (Live(t) => Live(s))
      BY <1>1, <2>1 DEF States, Live, Connected
    <3>4. \A d \in Callers : Witness(s, d) => Witness(t, d) /\ t.task[d].connecting
      BY <2>1 DEF Witness
    <3> QED
      BY <2>1, <3>1, <3>2, <3>3, <3>4 DEF Agree, Ready
  <2>5. "values" \in Posts
    BY DEF Posts
  <2> QED
    BY <2>2, <2>3, <2>4, <2>5, Enters
<1>4. CASE what = "values"
  <2>1. Proceed(s, c) = IF s.task[c].connecting THEN AfterConnect(s, c) ELSE Return(s, c)
    BY <1>4 DEF Proceed
  <2>2. ~s.task[c].connecting => Busy(s, c)
    BY <1>2 DEF Witness
  <2> QED
    BY <2>1, <2>2, AfterConnects, Returns
<1>5. CASE what \in {"resubscribe", "operation"}
  <2>1. Busy(s, c)
    BY <1>2, <1>5 DEF Witness
  <2>2. Busy(ReleaseWaiters(s, c), c)
    BY <2>1, ReleaseAgree
  <2>3. \/ Proceed(s, c) = Operate(ReleaseWaiters(s, c), c)
        \/ Proceed(s, c) = Return(s, c)
    BY <1>5 DEF Proceed
  <2> QED
    BY <2>1, <2>2, <2>3, Operates, Returns
<1> QED
  BY <1>1, <1>3, <1>4, <1>5 DEF Posts

-----------------------------------------------------------------------------
(* The end of a session.                                                     *)

(* c goes on to wait for the shutdown of its context.                        *)
Closed(s, t, c, k) ==
  /\ t \in States /\ t.enc = s.enc /\ t.mover = s.mover /\ t.future = s.future
  /\ t.orphans = s.orphans /\ t.subs = s.subs
  /\ \A j \in Contexts \ {k} : t.session[j] = s.session[j]
  /\ t.session[k].net = "shut" /\ t.session[k].held = s.session[k].held
  /\ t.session[k].line = s.session[k].line
  /\ \A d \in Callers \ {c} : t.task[d] = s.task[d]
  /\ t.task[c].phase = "ending" /\ t.task[c].ctx = k /\ t.task[c].post = s.task[c].post
  /\ t.task[c].op = s.task[c].op /\ t.task[c].connecting = s.task[c].connecting

LEMMA Closes ==
  ASSUME NEW s, NEW t, NEW c \in Callers, NEW k, Good(s), s.task[c].phase = "await",
         k = s.task[c].ctx, Closed(s, t, c, k)
  PROVE  Good(t)
<1>1. /\ s \in States /\ t \in States /\ k \in Contexts /\ s.session[k].net # "free"
      /\ \A d \in Callers : s.task[d].phase = "verify" => s.task[d].ctx # k
      /\ t.session[k].line = s.session[k].line /\ t.session[k].net = "shut"
      /\ \A j \in Contexts \ {k} : t.session[j] = s.session[j]
  <2>1. /\ s \in States /\ k \in Contexts /\ s.session[k].net # "free"
        /\ \A d \in Callers : s.task[d].phase = "verify" => s.task[d].ctx # k
    BY AtWork
  <2> QED
    BY <2>1 DEF Closed
<1>2. /\ \A j \in Contexts : /\ t.session[j].held = s.session[j].held
                             /\ t.session[j].line = s.session[j].line
                             /\ t.session[j].net = s.session[j].net \/ t.session[j].net = "shut"
      /\ Connected(t) <=> Connected(s)
      /\ t.enc = s.enc /\ t.mover = s.mover /\ t.orphans = s.orphans /\ t.future = s.future
      /\ t.subs = s.subs
  BY <1>1 DEF Connected, States, Closed
<1>3. \A d \in Callers : /\ t.task[d].ctx = s.task[d].ctx
                         /\ t.task[d].connecting = s.task[d].connecting
                         /\ t.task[d].post = s.task[d].post
                         /\ Effect(t.task[d]) = Effect(s.task[d])
                         /\ t.task[d].phase = s.task[d].phase \/ (d = c /\ t.task[d].phase = "ending")
  BY DEF Closed, Effect
<1>4. Connects(t, {})
  BY <1>2, <1>3 DEF Good, Inv, Connects
<1>5. Meets(t)
  BY <1>1 DEF Good, Inv, Meets, MeetsAt
<1>6. Refers(t, {})
  <2>1. ASSUME NEW j \in Contexts, t.session[j].net = "free"
        PROVE  /\ t.session[j] = Blank /\ j \notin {t.enc, t.mover}
               /\ \A d \in Callers : t.task[d].ctx # j
    <3>1. j # k /\ t.session[j] = s.session[j]
      BY <1>1, <2>1
    <3> QED
      BY <1>2, <1>3, <2>1, <3>1 DEF Good, Inv, Refers
  <2>2. \A d \in Callers \ {} : t.task[d].phase \in Posting \cup {"verify"} =>
           s.task[d].phase \in Posting \cup {"verify"}
    BY <1>3 DEF Posting
  <2>3. \A d \in Callers \ {} : s.task[d].phase \in Posting \cup {"verify"} =>
           s.task[d].ctx # None
    BY DEF Good, Inv, Refers
  <2>4. ASSUME NEW d \in Callers \ {}, t.task[d].phase = "verify"
        PROVE  /\ t.session[t.task[d].ctx] = Opened
               /\ t.task[d].ctx \notin {t.enc, t.mover} /\ ~Connected(t)
               /\ \A e \in Callers \ {d} : t.task[e].ctx # t.task[d].ctx
    <3>1. s.task[d].phase = "verify" /\ s.task[d].ctx # k /\ t.task[d].ctx = s.task[d].ctx
      BY <1>1, <1>3, <2>4
    <3>2. /\ s.session[s.task[d].ctx] = Opened
          /\ s.task[d].ctx \notin {s.enc, s.mover} /\ ~Connected(s)
          /\ \A e \in Callers \ {d} : s.task[e].ctx # s.task[d].ctx
          /\ s.task[d].ctx # None
      BY <3>1 DEF Good, Inv, Refers
    <3>3. s.task[d].ctx \in Contexts \ {k}
      BY <1>1, <3>1, <3>2, TasksTyped DEF TaskType
    <3> QED
      BY <1>1, <1>2, <1>3, <3>1, <3>2, <3>3
  <2> QED
    BY <1>3, <2>1, <2>2, <2>3, <2>4 DEF Refers
<1>7. Shuts(t, {})
  <2>1. t.enc # None => t.enc \in Contexts
    BY <1>1 DEF States
  <2>2. t.mover # None => t.mover \in Contexts
    BY <1>1 DEF States
  <2>3. ASSUME NEW d \in Callers \ {}, t.task[d].phase = "ending"
        PROVE  t.session[t.task[d].ctx].net = "shut"
    <3>1. CASE d = c
      BY <1>1, <3>1 DEF Closed
    <3>2. CASE d # c
      <4>1. s.task[d].phase = "ending" /\ t.task[d].ctx = s.task[d].ctx
        BY <1>3, <2>3, <3>2
      <4>2. s.task[d].ctx \in Contexts /\ s.session[s.task[d].ctx].net = "shut"
        <5>1. s.session[s.task[d].ctx].net = "shut"
          BY <4>1 DEF Good, Inv, Shuts
        <5>2. s.task[d].ctx \in Contexts
          BY <4>1, AtWork
        <5> QED
          BY <5>1, <5>2
      <4> QED
        BY <1>2, <4>1, <4>2
    <3> QED
      BY <3>1, <3>2
  <2> QED
    BY <1>2, <2>1, <2>2, <2>3 DEF Good, Inv, Shuts
<1>8. Lost(t, {})
  <2>1. ASSUME NEW j \in Contexts, t.session[j].net = "open"
        PROVE  \/ j = t.enc \/ j \in t.orphans
               \/ \E d \in Callers \ {} : t.task[d].ctx = j /\ t.task[d].phase = "verify"
    <3>1. s.session[j].net = "open"
      BY <1>2, <2>1
    <3>2. \A d \in Callers : s.task[d].phase = "verify" => t.task[d].phase = "verify"
      BY <1>3
    <3> QED
      BY <1>2, <1>3, <3>1, <3>2 DEF Good, Inv, Lost
  <2>2. ASSUME Connected(t), t.session[t.enc].net = "shut"
        PROVE  \/ t.enc \in t.orphans \/ t.enc = t.mover
               \/ \E d \in Callers \ {} : t.task[d].ctx = t.enc /\ t.task[d].phase = "ending"
    <3>1. CASE t.enc = k
      BY <3>1 DEF Closed
    <3>2. CASE t.enc # k
      <4>1. t.enc \in Contexts
        BY <1>1, <2>2 DEF Connected, States
      <4>2. s.session[s.enc].net = "shut" /\ Connected(s)
        BY <1>1, <1>2, <2>2, <3>2, <4>1
      <4>3. \A d \in Callers : s.task[d].phase = "ending" => t.task[d].phase = "ending"
        BY <1>3
      <4> QED
        BY <1>2, <1>3, <4>2, <4>3 DEF Good, Inv, Lost
    <3> QED
      BY <3>1, <3>2
  <2> QED
    BY <2>1, <2>2 DEF Lost
<1>9. Lines(t, {})
  <2>1. ASSUME NEW j \in Contexts, NEW i \in 1..Len(t.session[j].line)
        PROVE  t.task[t.session[j].line[i]].ctx = j
               /\ t.task[t.session[j].line[i]].phase \in Posting
    <3> DEFINE d == t.session[j].line[i]
    <3>1. /\ i \in 1..Len(s.session[j].line) /\ d = s.session[j].line[i]
          /\ s.session[j].line[i] \in Callers
      BY <1>2, <2>1, InLine DEF Good
    <3>2. s.task[d].ctx = j /\ s.task[d].phase \in Posting
      BY <3>1 DEF Good, Inv, Lines
    <3> HIDE DEF d
    <3>3. t.task[d].ctx = j /\ t.task[d].phase \in Posting
      BY <1>3, <3>1, <3>2 DEF Posting
    <3> QED
      BY <3>3 DEF d
  <2>2. \A j \in Contexts : Once(t.session[j].line)
    BY <1>2 DEF Good, Inv, Lines
  <2>3. ASSUME NEW d \in Callers, t.task[d].phase \in {"await", "ending"}
        PROVE  LET line == t.session[t.task[d].ctx].line IN line # <<>> /\ line[1] = d
    <3>1. s.task[d].phase \in {"await", "ending"} /\ t.task[d].ctx = s.task[d].ctx
      BY <1>3, <2>3
    <3>2. s.task[d].ctx \in Contexts
      BY <3>1, AtWork
    <3>3. t.session[t.task[d].ctx].line = s.session[s.task[d].ctx].line
      BY <1>2, <3>1, <3>2
    <3>4. d \in Callers \ {}
      OBVIOUS
    <3> QED
      BY <3>1, <3>3, <3>4 DEF Good, Inv, Lines
  <2> QED
    BY <2>1, <2>2, <2>3 DEF Lines
<1>10. Agree(t, {})
  <2>1. ASSUME Live(t) PROVE Carried(s, t, {}, {})
    <3>1. t.enc \in Contexts \ {k}
      BY <1>1, <2>1 DEF Live, Connected, States
    <3>2. Live(s) /\ t.session[s.enc] = s.session[s.enc]
      BY <1>1, <1>2, <2>1, <3>1 DEF Live
    <3>3. \A i \in 1..Len(s.session[s.enc].line) : s.session[s.enc].line[i] \in Callers
      BY <1>2, <3>1, InLine DEF Good
    <3>4. \A d \in Callers : Witness(s, d) => Witness(t, d)
      BY <1>2, <1>3 DEF Witness
    <3> QED
      BY <1>3, <3>2, <3>3, <3>4 DEF Carried
  <2> QED
    BY <1>2, <2>1, AgreeSame DEF Good
<1> QED
  BY <1>1, <1>4, <1>5, <1>6, <1>7, <1>8, <1>9, <1>10 DEF Good, Inv

-----------------------------------------------------------------------------
(* The actions, as functions of the state.                                   *)

(* A caller that is not at work on a context starts, or starts again.        *)
LEMMA Starts ==
  ASSUME NEW s, NEW t \in States, NEW c \in Callers, Good(s),
         s.task[c].phase \in {"idle", "wait", "woken"},
         t.enc = s.enc, t.mover = s.mover, t.future = s.future, t.orphans = s.orphans,
         t.session = s.session, t.subs = s.subs,
         \A d \in Callers \ {c} : t.task[d] = s.task[d],
         t.task[c].ctx = s.task[c].ctx, t.task[c].connecting = s.task[c].connecting
  PROVE  Busy(t, c) /\ ~t.task[c].connecting
<1>1. Inv(s, {c}) /\ ~s.task[c].connecting /\ s \in States
  <2>1. ~s.task[c].connecting
    BY DEF Good, Inv, Connects
  <2> QED
    BY <2>1, Runs DEF Good, Inv
<1>2. Inv(t, {c})
  BY <1>1, Own
<1>3. ASSUME Live(t) PROVE Carried(s, t, {}, {c})
  <2>1. Live(s) /\ s.enc \in Contexts
    BY <1>1, <1>3 DEF Live, Connected, States
  <2>2. \A i \in 1..Len(s.session[s.enc].line) : s.session[s.enc].line[i] \in Callers \ {c}
    BY <1>1, <2>1, InLine
  <2>3. \A d \in Callers : Witness(s, d) => d # c /\ Witness(t, d)
    BY <1>1 DEF Witness
  <2> QED
    BY <2>1, <2>2, <2>3 DEF Carried
<1>4. Agree(t, {c})
  BY <1>3, AgreeSame DEF Good
<1> QED
  BY <1>1, <1>2, <1>4 DEF Busy

(* It waits on the condition.                                                *)
LEMMA Waits ==
  ASSUME NEW s, NEW c \in Callers, Busy(s, c), s.future, ~s.task[c].connecting,
         NEW t, NEW a, SetTask(s, t, c, a), a.phase = "wait", a.ctx = s.task[c].ctx,
         a.connecting = s.task[c].connecting
  PROVE  Good(t)
<1>0. s \in States /\ t \in States /\ Inv(s, {c}) /\ Agree(s, {c})
  BY DEF Busy, Inv, SetTask
<1>1. /\ t.enc = s.enc /\ t.mover = s.mover /\ t.future = s.future
      /\ t.orphans = s.orphans /\ t.session = s.session /\ t.subs = s.subs
      /\ \A d \in Callers \ {c} : t.task[d] = s.task[d]
      /\ t.task[c].ctx = s.task[c].ctx /\ t.task[c].connecting = s.task[c].connecting
      /\ ~t.task[c].connecting /\ t.task[c].phase = "wait"
  BY DEF SetTask
<1>2. Inv(t, {c})
  BY <1>0, <1>1, Own
<1>3. Connects(t, {})
  BY <1>1, <1>2 DEF Inv, Connects
<1>4. Refers(t, {}) /\ Shuts(t, {}) /\ Lines(t, {}) /\ Meets(t)
  <2>1. Refers(t, {})
    BY <1>1, <1>2 DEF Inv, Refers, Posting
  <2>2. Shuts(t, {}) /\ Meets(t)
    BY <1>1, <1>2, SMTT(30) DEF Inv, Shuts
  <2>3. Lines(t, {})
    BY <1>1, <1>2 DEF Inv, Lines
  <2> QED
    BY <2>1, <2>2, <2>3
<1>5. Lost(t, {})
  BY <1>1, <1>2 DEF Inv, Lost
<1>6. Agree(t, {})
  <2>1. ASSUME Live(t) PROVE Carried(s, t, {c}, {})
    <3>1. Live(s) /\ s.enc \in Contexts
      BY <1>0, <1>1, <2>1 DEF Live, Connected, States
    <3>2. \A i \in 1..Len(s.session[s.enc].line) : s.session[s.enc].line[i] \in Callers \ {c}
      BY <1>0, <3>1, InLine
    <3>3. \A d \in Callers \ {c} : Witness(s, d) => Witness(t, d)
      BY <1>1 DEF Witness
    <3> QED
      BY <1>1, <3>1, <3>2, <3>3 DEF Carried
  <2> QED
    BY <1>0, <1>1, <2>1, AgreeSame
<1> QED
  BY <1>0, <1>3, <1>4, <1>5, <1>6 DEF Good, Inv

(* It connects, on a context nobody uses.                                    *)
Connecting(s, t, c, k) ==
  /\ t \in States /\ t.enc = s.enc /\ t.mover = s.mover /\ t.orphans = s.orphans
  /\ t.future /\ t.session[k] = Opened
  /\ \A j \in Contexts \ {k} : t.session[j] = s.session[j]
  /\ \A d \in Callers \ {c} : t.task[d] = s.task[d]
  /\ t.task[c].phase = "verify" /\ t.task[c].ctx = k /\ t.task[c].connecting

LEMMA OpenedFields ==
  /\ Opened \in SessionType /\ Opened.net = "open" /\ Opened.line = <<>> /\ ~Opened.held
  /\ MeetsAt(Opened) /\ ~Opened.subscribed /\ ~Opened.hurt
  /\ Blank \in SessionType /\ Blank.net = "free" /\ Blank.line = <<>>
<1>1. <<>> \in Seq(Callers)
  OBVIOUS
<1>2. Blank \in SessionType /\ Blank.net = "free" /\ Blank.line = <<>>
  BY <1>1 DEF Blank, SessionType
<1>3. /\ Opened \in SessionType /\ Opened.net = "open" /\ Opened.line = <<>> /\ ~Opened.held
      /\ ~Opened.subscribed /\ ~Opened.hurt
      /\ Opened.got = 0 /\ Opened.send = 0 /\ Opened.recv = 0 /\ Opened.lag = 0
  BY <1>2 DEF Opened, Blank, SessionType
<1>4. MeetsAt(Opened)
  BY <1>3 DEF MeetsAt
<1> QED
  BY <1>2, <1>3, <1>4

LEMMA Verifies ==
  ASSUME NEW s, NEW t, NEW c \in Callers, NEW k \in Contexts, Inv(s, {c}),
         s.session[k].net = "free", ~s.future, ~Connected(s), Connecting(s, t, c, k)
  PROVE  Good(t)
<1>1. /\ s \in States /\ t \in States /\ s.session[k] = Blank
      /\ k \notin {s.enc, s.mover} /\ \A d \in Callers : s.task[d].ctx # k
  BY DEF Inv, Refers, Connecting
<1>2. \A d \in Callers : ~s.task[d].connecting
  BY DEF Inv, Connects
<1>3. \A d \in Callers \ {c} : /\ t.task[d] = s.task[d] /\ ~t.task[d].connecting
                               /\ t.task[d].phase # "verify"
  BY <1>2 DEF Inv, Connects, Connecting
<1>4. /\ \A j \in Contexts : t.session[j].line = s.session[j].line
      /\ t.session[k].net = "open" /\ t.session[k].line = <<>> /\ MeetsAt(t.session[k])
      /\ t.enc = s.enc /\ t.mover = s.mover /\ t.orphans = s.orphans /\ t.future
      /\ t.task[c].phase = "verify" /\ t.task[c].ctx = k /\ t.task[c].connecting
      /\ \A j \in Contexts \ {k} : t.session[j] = s.session[j]
  BY <1>1, OpenedFields DEF Connecting
<1>5. ~Connected(t)
  BY <1>1, <1>4 DEF Connected, States
<1>6. Connects(t, {})
  BY <1>3, <1>4 DEF Connects
<1>7. Refers(t, {})
  <2>1. ASSUME NEW j \in Contexts, t.session[j].net = "free"
        PROVE  /\ t.session[j] = Blank /\ j \notin {t.enc, t.mover}
               /\ \A d \in Callers : t.task[d].ctx # j
    <3>1. j # k
      BY <1>4, <2>1
    <3> QED
      BY <1>3, <1>4, <2>1, <3>1 DEF Inv, Refers
  <2>2. k # None
    BY ContextsAssumption
  <2>3. ASSUME NEW d \in Callers \ {}, t.task[d].phase \in Posting \cup {"verify"}
        PROVE  t.task[d].ctx # None
    BY <1>3, <1>4, <2>2, <2>3 DEF Inv, Refers
  <2>4. ASSUME NEW d \in Callers \ {}, t.task[d].phase = "verify"
        PROVE  /\ t.session[t.task[d].ctx] = Opened
               /\ t.task[d].ctx \notin {t.enc, t.mover} /\ ~Connected(t)
               /\ \A e \in Callers \ {d} : t.task[e].ctx # t.task[d].ctx
    BY <1>1, <1>3, <1>4, <1>5, <2>4 DEF Connecting
  <2> QED
    BY <2>1, <2>3, <2>4 DEF Refers
<1>8. Shuts(t, {})
  <2>1. ASSUME NEW d \in Callers \ {}, t.task[d].phase = "ending"
        PROVE  t.session[t.task[d].ctx].net = "shut"
    <3>1. d # c /\ t.task[d] = s.task[d] /\ s.task[d].ctx # k
      BY <1>1, <1>3, <1>4, <2>1
    <3>2. s.task[d].ctx # None /\ s.session[s.task[d].ctx].net = "shut"
      BY <2>1, <3>1 DEF Inv, Refers, Shuts, Posting
    <3> QED
      BY <1>1, <1>4, <3>1, <3>2, TasksTyped DEF TaskType
  <2> QED
    BY <1>1, <1>4, <2>1 DEF Inv, Shuts, States
<1>9. Meets(t)
  BY <1>4 DEF Inv, Meets
<1>10. Lost(t, {})
  <2>1. ASSUME NEW j \in Contexts, t.session[j].net = "open"
        PROVE  \/ j = t.enc \/ j \in t.orphans
               \/ \E d \in Callers \ {} : t.task[d].ctx = j /\ t.task[d].phase = "verify"
    <3>1. CASE j = k
      BY <1>4, <3>1
    <3>2. CASE j # k
      BY <1>3, <1>4, <2>1, <3>2 DEF Inv, Lost
    <3> QED
      BY <3>1, <3>2
  <2> QED
    BY <1>5, <2>1 DEF Lost
<1>11. Lines(t, {})
  <2>1. ASSUME NEW j \in Contexts, NEW i \in 1..Len(t.session[j].line)
        PROVE  t.task[t.session[j].line[i]].ctx = j
               /\ t.task[t.session[j].line[i]].phase \in Posting
    <3>1. /\ i \in 1..Len(s.session[j].line) /\ t.session[j].line = s.session[j].line
          /\ s.session[j].line[i] \in Callers \ {c}
      BY <1>4, <2>1, InLine
    <3> QED
      BY <1>3, <3>1 DEF Inv, Lines
  <2>2. \A j \in Contexts : Once(t.session[j].line)
    BY <1>4 DEF Inv, Lines
  <2>3. ASSUME NEW d \in Callers, t.task[d].phase \in {"await", "ending"}
        PROVE  LET line == t.session[t.task[d].ctx].line IN line # <<>> /\ line[1] = d
    <3>1. d # c /\ t.task[d] = s.task[d] /\ s.task[d].ctx # k
      BY <1>1, <1>3, <1>4, <2>3
    <3>2. s.task[d].ctx \in Contexts
      BY <1>1, <2>3, <3>1, TasksTyped DEF Inv, Refers, Posting, TaskType
    <3> QED
      BY <1>4, <2>3, <3>1, <3>2 DEF Inv, Lines
  <2> QED
    BY <2>1, <2>2, <2>3 DEF Lines
<1> QED
  BY <1>1, <1>5, <1>6, <1>7, <1>8, <1>9, <1>10, <1>11 DEF Good, Inv, Agree, Live

(* Pair-verify has ended well: the new context is the connection's.          *)
Verifying(s, t, c, k) ==
  /\ t \in States /\ t.enc = k /\ t.mover = s.mover /\ t.orphans = s.orphans
  /\ t.future = s.future /\ t.subs = s.subs /\ t.task = s.task
  /\ \A j \in Contexts \ {k} : t.session[j] = s.session[j]
  /\ t.session[k] = [Opened EXCEPT !.held = TRUE]

LEMMA VerifierAlone ==
  ASSUME NEW s, NEW c \in Callers, Good(s), s.task[c].phase = "verify"
  PROVE  /\ s.task[c].ctx \in Contexts /\ s.session[s.task[c].ctx] = Opened
         /\ s.task[c].ctx \notin {s.enc, s.mover} /\ ~Connected(s) /\ s.task[c].connecting
         /\ \A d \in Callers \ {c} :
              s.task[d].phase # "verify" /\ s.task[d].ctx # s.task[c].ctx
         /\ \A j \in Contexts : \A i \in 1..Len(s.session[j].line) :
              s.session[j].line[i] \in Callers \ {c}
<1>1. s \in States /\ c \in Callers \ {}
  BY DEF Good, Inv
<1>2. /\ s.task[c].ctx # None /\ s.session[s.task[c].ctx] = Opened
      /\ s.task[c].ctx \notin {s.enc, s.mover} /\ ~Connected(s)
      /\ \A d \in Callers \ {c} : s.task[d].ctx # s.task[c].ctx
  BY <1>1 DEF Good, Inv, Refers
<1>3. s.task[c].connecting /\ \A d \in Callers \ {c} : s.task[d].phase # "verify"
  BY <1>1 DEF Good, Inv, Connects
<1>4. s.task[c].ctx \in Contexts
  BY <1>1, <1>2, TasksTyped DEF TaskType
<1>5. ASSUME NEW j \in Contexts, NEW i \in 1..Len(s.session[j].line)
      PROVE  s.session[j].line[i] \in Callers \ {c}
  <2>1. s.session[j].line[i] \in Callers
    BY InLine DEF Good
  <2>2. s.task[s.session[j].line[i]].phase \in Posting
    BY DEF Good, Inv, Lines
  <2> QED
    BY <2>1, <2>2 DEF Posting
<1> QED
  BY <1>2, <1>3, <1>4, <1>5

LEMMA Enlists ==
  ASSUME NEW s, NEW t, NEW c \in Callers, NEW k, Good(s), s.task[c].phase = "verify",
         k = s.task[c].ctx, Verifying(s, t, c, k)
  PROVE  Good(Post(t, c, "gatt"))
<1>1. /\ k \in Contexts /\ s.session[k] = Opened /\ k \notin {s.enc, s.mover} /\ ~Connected(s)
      /\ s.task[c].connecting
      /\ \A d \in Callers \ {c} : s.task[d].phase # "verify" /\ s.task[d].ctx # k
      /\ \A j \in Contexts : \A i \in 1..Len(s.session[j].line) :
              s.session[j].line[i] \in Callers \ {c}
  BY VerifierAlone
<1>2. /\ t.session[k].net = "open" /\ t.session[k].held /\ t.session[k].line = <<>>
      /\ ~t.session[k].subscribed /\ MeetsAt(t.session[k])
      /\ s.session[k].net = "open" /\ s.session[k].line = <<>>
  BY <1>1, OpenedFields DEF Verifying, Opened, Blank, MeetsAt
<1>3. /\ s \in States /\ t \in States /\ t.enc = k /\ t.mover = s.mover /\ t.orphans = s.orphans
      /\ t.future = s.future /\ t.subs = s.subs /\ t.task = s.task
      /\ \A j \in Contexts \ {k} : t.session[j] = s.session[j]
  BY DEF Good, Inv, Verifying
<1>4. Connects(t, {c}) /\ Meets(t)
  BY <1>2, <1>3 DEF Good, Inv, Connects, Meets
<1>5. Refers(t, {c})
  <2>1. ASSUME NEW j \in Contexts, t.session[j].net = "free"
        PROVE  /\ t.session[j] = Blank /\ j \notin {t.enc, t.mover}
               /\ \A d \in Callers : t.task[d].ctx # j
    BY <1>2, <1>3, <2>1 DEF Good, Inv, Refers
  <2>2. ASSUME NEW d \in Callers \ {c}
        PROVE  /\ t.task[d].phase \in Posting \cup {"verify"} => t.task[d].ctx # None
               /\ t.task[d].phase # "verify"
    BY <1>1, <1>3 DEF Good, Inv, Refers
  <2> QED
    BY <2>1, <2>2 DEF Refers
<1>6. Shuts(t, {c})
  <2>1. ASSUME NEW d \in Callers \ {c}, t.task[d].phase = "ending"
        PROVE  t.session[t.task[d].ctx].net = "shut"
    <3>1. s.task[d].ctx \in Contexts
      BY <1>3, <2>1, AtWork
    <3>2. s.session[s.task[d].ctx].net = "shut"
      BY <1>3, <2>1 DEF Good, Inv, Shuts
    <3> QED
      BY <1>2, <1>3, <3>1, <3>2
  <2>2. t.mover # None => t.session[t.mover].net = "shut"
    BY <1>1, <1>3 DEF Good, Inv, Shuts, States
  <2> QED
    BY <1>2, <1>3, <2>1, <2>2 DEF Shuts
<1>7. Lost(t, {c})
  <2>1. ASSUME NEW j \in Contexts, t.session[j].net = "open"
        PROVE  j = t.enc \/ j \in t.orphans
    <3>1. CASE j = k
      BY <1>3, <3>1
    <3>2. CASE j # k
      <4>1. s.session[j].net = "open"
        BY <1>3, <2>1, <3>2
      <4>2. j # s.enc
        BY <1>1, <4>1, ContextsAssumption DEF Good, Inv, Shuts, Connected
      <4>3. \A d \in Callers \ {} : ~(s.task[d].ctx = j /\ s.task[d].phase = "verify")
        BY <1>1, <3>2
      <4> QED
        BY <1>3, <4>1, <4>2, <4>3 DEF Good, Inv, Lost
    <3> QED
      BY <3>1, <3>2
  <2> QED
    BY <1>2, <1>3, <2>1 DEF Lost
<1>8. Lines(t, {c})
  <2>0. \A j \in Contexts : t.session[j].line = s.session[j].line
    BY <1>2, <1>3
  <2>1. ASSUME NEW j \in Contexts, NEW i \in 1..Len(t.session[j].line)
        PROVE  /\ t.session[j].line[i] \notin {c} /\ t.task[t.session[j].line[i]].ctx = j
               /\ t.task[t.session[j].line[i]].phase \in Posting
    <3>1. t.session[j].line = s.session[j].line /\ i \in 1..Len(s.session[j].line)
      BY <2>0, <2>1
    <3>2. /\ s.task[s.session[j].line[i]].ctx = j
          /\ s.task[s.session[j].line[i]].phase \in Posting
      BY <3>1 DEF Good, Inv, Lines
    <3> QED
      BY <1>1, <1>3, <3>1, <3>2
  <2>2. \A j \in Contexts : Once(t.session[j].line)
    BY <2>0 DEF Good, Inv, Lines
  <2>3. ASSUME NEW d \in Callers \ {c}, t.task[d].phase \in {"await", "ending"}
        PROVE  LET line == t.session[t.task[d].ctx].line IN line # <<>> /\ line[1] = d
    <3>1. s.task[d].ctx \in Contexts /\ t.task[d] = s.task[d]
      BY <1>3, <2>3, AtWork
    <3> QED
      BY <2>0, <2>3, <3>1 DEF Good, Inv, Lines
  <2> QED
    BY <2>1, <2>2, <2>3 DEF Lines
<1>9. Ready(t, c, "gatt")
  <2>1. EffectOf("gatt", t.task[c].op) = "none"
    BY DEF EffectOf
  <2>2. Says(t, k, FALSE)
    BY <1>2 DEF Says
  <2>3. t.subs \in BOOLEAN
    BY <1>3 DEF States
  <2> QED
    BY <1>1, <1>3, <2>1, <2>2, <2>3 DEF Ready
<1>10. "gatt" \in Posts
  BY DEF Posts
<1> QED
  BY <1>3, <1>4, <1>5, <1>6, <1>7, <1>8, <1>9, <1>10, Enters DEF Inv

(* Or badly: its context is shut down, or lost.                              *)
Forsaken(s, t, c, k) ==
  /\ t \in States /\ t.enc = s.enc /\ t.mover = s.mover /\ s.orphans \subseteq t.orphans
  /\ t.future = s.future /\ t.subs = s.subs /\ t.task = s.task
  /\ \A j \in Contexts \ {k} : t.session[j] = s.session[j]
  /\ t.session[k].line = s.session[k].line
  /\ \/ t.session[k].net = "shut"
     \/ t.session[k] = s.session[k] /\ k \in t.orphans

LEMMA Forsakes ==
  ASSUME NEW s, NEW t, NEW c \in Callers, NEW k, Good(s), s.task[c].phase = "verify",
         k = s.task[c].ctx, Forsaken(s, t, c, k)
  PROVE  Good(Raise(t, c))
<1>1. /\ k \in Contexts /\ s.session[k] = Opened /\ k \notin {s.enc, s.mover} /\ ~Connected(s)
      /\ \A d \in Callers \ {c} : s.task[d].phase # "verify" /\ s.task[d].ctx # k
      /\ \A j \in Contexts : \A i \in 1..Len(s.session[j].line) :
              s.session[j].line[i] \in Callers \ {c}
  BY VerifierAlone
<1>3. /\ s \in States /\ t \in States /\ t.enc = s.enc /\ t.mover = s.mover
      /\ s.orphans \subseteq t.orphans
      /\ t.future = s.future /\ t.subs = s.subs /\ t.task = s.task
      /\ \A j \in Contexts \ {k} : t.session[j] = s.session[j]
      /\ \A j \in Contexts : t.session[j].line = s.session[j].line
      /\ t.session[k].net # "free"
      /\ t.session[k].net = "open" => k \in t.orphans
      /\ MeetsAt(t.session[k])
      /\ ~Connected(t)
  BY <1>1, OpenedFields DEF Good, Inv, Forsaken, MeetsAt, Connected, States
<1>4. Connects(t, {c}) /\ Meets(t)
  BY <1>3 DEF Good, Inv, Connects, Meets
<1>5. Refers(t, {c})
  <2>1. ASSUME NEW j \in Contexts, t.session[j].net = "free"
        PROVE  /\ t.session[j] = Blank /\ j \notin {t.enc, t.mover}
               /\ \A d \in Callers : t.task[d].ctx # j
    BY <1>3, <2>1 DEF Good, Inv, Refers
  <2>2. ASSUME NEW d \in Callers \ {c}
        PROVE  /\ t.task[d].phase \in Posting \cup {"verify"} => t.task[d].ctx # None
               /\ t.task[d].phase # "verify"
    BY <1>1, <1>3 DEF Good, Inv, Refers
  <2> QED
    BY <2>1, <2>2 DEF Refers
<1>6. Shuts(t, {c})
  <2>1. ASSUME NEW d \in Callers \ {c}, t.task[d].phase = "ending"
        PROVE  t.session[t.task[d].ctx].net = "shut"
    <3>1. s.task[d].ctx \in Contexts \ {k}
      BY <1>1, <1>3, <2>1, AtWork
    <3>2. s.session[s.task[d].ctx].net = "shut"
      BY <1>3, <2>1 DEF Good, Inv, Shuts
    <3> QED
      BY <1>3, <3>1, <3>2
  <2>2. /\ t.mover # None => t.session[t.mover].net = "shut"
        /\ t.enc # None /\ ~t.session[t.enc].held => t.session[t.enc].net = "shut"
    BY <1>1, <1>3 DEF Good, Inv, Shuts, States
  <2> QED
    BY <2>1, <2>2 DEF Shuts
<1>7. Lost(t, {c})
  <2>1. ASSUME NEW j \in Contexts, t.session[j].net = "open"
        PROVE  j = t.enc \/ j \in t.orphans
    <3>1. CASE j = k
      BY <1>3, <2>1, <3>1
    <3>2. CASE j # k
      <4>1. s.session[j].net = "open"
        BY <1>3, <2>1, <3>2
      <4>3. \A d \in Callers \ {} : ~(s.task[d].ctx = j /\ s.task[d].phase = "verify")
        BY <1>1, <3>2
      <4> QED
        BY <1>3, <4>1, <4>3 DEF Good, Inv, Lost
    <3> QED
      BY <3>1, <3>2
  <2> QED
    BY <1>3, <2>1 DEF Lost
<1>9. /\ \A j \in Contexts : Once(s.session[j].line)
      /\ \A j \in Contexts : \A i \in 1..Len(s.session[j].line) :
           /\ s.task[s.session[j].line[i]].ctx = j
           /\ s.task[s.session[j].line[i]].phase \in Posting
      /\ \A d \in Callers : s.task[d].phase \in {"await", "ending"} =>
           s.session[s.task[d].ctx].line # <<>> /\ s.session[s.task[d].ctx].line[1] = d
  <2>1. Lines(s, {})
    BY DEF Good, Inv
  <2> QED
    BY <2>1 DEF Lines
<1>8. Lines(t, {c})
  <2>1. ASSUME NEW j \in Contexts, NEW i \in 1..Len(t.session[j].line)
        PROVE  /\ t.session[j].line[i] \notin {c} /\ t.task[t.session[j].line[i]].ctx = j
               /\ t.task[t.session[j].line[i]].phase \in Posting
    <3>1. t.session[j].line = s.session[j].line /\ t.task = s.task
      BY <1>3
    <3>2. /\ s.session[j].line[i] \notin {c} /\ s.task[s.session[j].line[i]].ctx = j
          /\ s.task[s.session[j].line[i]].phase \in Posting
      BY <1>1, <1>9, <2>1, <3>1
    <3> QED
      BY <3>1, <3>2
  <2>2. \A j \in Contexts : Once(t.session[j].line)
    BY <1>3, <1>9
  <2>3. ASSUME NEW d \in Callers \ {c}, t.task[d].phase \in {"await", "ending"}
        PROVE  LET line == t.session[t.task[d].ctx].line IN line # <<>> /\ line[1] = d
    <3>1. t.task[d] = s.task[d] /\ s.task[d].phase \in {"await", "ending"}
      BY <1>3, <2>3
    <3>2. s.task[d].ctx \in Contexts
      BY <3>1, AtWork
    <3>3. t.session[s.task[d].ctx].line = s.session[s.task[d].ctx].line
      BY <1>3, <3>2
    <3>4. s.session[s.task[d].ctx].line # <<>> /\ s.session[s.task[d].ctx].line[1] = d
      BY <1>9, <3>1
    <3> QED
      BY <3>1, <3>3, <3>4
  <2> QED
    BY <2>1, <2>2, <2>3 DEF Lines
<1> QED
  BY <1>3, <1>4, <1>5, <1>6, <1>7, <1>8, Raises DEF Inv, Agree, Live

-----------------------------------------------------------------------------
(* The new state is tidied.                                                  *)

Tidied(s, t) ==
  /\ t \in States /\ t.enc = s.enc /\ t.task = s.task /\ t.subs = s.subs
  /\ t.future = s.future /\ t.mover = s.mover
  /\ \A k \in Contexts : t.session[k] = Tidy(s, k)
  /\ t.orphans = s.orphans \ {k \in Contexts : Garbage(s, k)}

LEMMA TidyFields ==
  ASSUME NEW s, NEW k \in Contexts, Good(s)
  PROVE  /\ Tidy(s, k) \in SessionType
         /\ Tidy(s, k).line = s.session[k].line
         /\ ~Garbage(s, k) => /\ Tidy(s, k).net = s.session[k].net
                              /\ Tidy(s, k).held = s.session[k].held
         /\ s.session[k].net = "open" => Tidy(s, k) = s.session[k] /\ ~Garbage(s, k)
         /\ Tidy(s, k).net = "free" => Tidy(s, k) = Blank /\ Garbage(s, k)
<1> DEFINE y == s.session[k]
<1>1. s \in States /\ y \in SessionType
  BY SessionsTyped DEF Good, Inv
<1>2. CASE Garbage(s, k)
  <2>1. y.line = <<>>
    <3>1. ASSUME NEW i \in 1..Len(y.line) PROVE FALSE
      <4>1. y.line[i] \in Callers /\ s.task[y.line[i]].ctx = k
        BY InLine DEF Good, Inv, Lines
      <4> QED
        BY <1>2, <4>1 DEF Garbage
    <3>2. y.line \in Seq(Callers)
      BY <1>1 DEF SessionType
    <3> HIDE DEF y
    <3> QED
      BY <3>1, <3>2
  <2>2. Tidy(s, k) = Blank
    BY <1>2 DEF Tidy
  <2>3. y.net # "open"
    BY <1>2 DEF Garbage
  <2> QED
    BY <1>2, <2>1, <2>2, <2>3, OpenedFields
<1>3. CASE ~Garbage(s, k) /\ y.net = "shut"
  <2> DEFINE z == [Blank EXCEPT !.net = "shut", !.held = y.held, !.line = y.line]
  <2>1. Tidy(s, k) = z
    BY <1>3 DEF Tidy
  <2>2. y.held \in BOOLEAN /\ y.line \in Seq(Callers)
    BY <1>1 DEF SessionType
  <2> HIDE DEF y
  <2>3. z \in SessionType /\ z.net = "shut" /\ z.held = y.held /\ z.line = y.line
    BY <2>2, OpenedFields DEF SessionType
  <2> HIDE DEF z
  <2> QED
    BY <1>3, <2>1, <2>3 DEF y
<1>4. CASE ~Garbage(s, k) /\ y.net # "shut"
  <2>1. Tidy(s, k) = y
    BY <1>4 DEF Tidy
  <2>2. y.net # "free"
    BY <1>4 DEF Good, Inv, Refers, Garbage
  <2> QED
    BY <1>1, <1>4, <2>1, <2>2
<1> QED
  BY <1>2, <1>3, <1>4

LEMMA Tidies ==
  ASSUME NEW s, NEW t, Good(s), Tidied(s, t)
  PROVE  Good(t)
<1>1. /\ s \in States /\ t \in States /\ t.enc = s.enc /\ t.task = s.task /\ t.subs = s.subs
      /\ t.future = s.future /\ t.mover = s.mover
      /\ \A k \in Contexts : k \in t.orphans <=> k \in s.orphans /\ ~Garbage(s, k)
  BY DEF Good, Inv, Tidied
<1>2. \A k \in Contexts :
        /\ t.session[k].line = s.session[k].line
        /\ ~Garbage(s, k) => /\ t.session[k].net = s.session[k].net
                             /\ t.session[k].held = s.session[k].held
        /\ s.session[k].net = "open" => t.session[k] = s.session[k] /\ ~Garbage(s, k)
        /\ t.session[k].net = "free" => t.session[k] = Blank /\ Garbage(s, k)
  BY TidyFields DEF Tidied
<1>3. /\ s.enc # None => s.enc \in Contexts /\ ~Garbage(s, s.enc)
      /\ s.mover # None => s.mover \in Contexts /\ ~Garbage(s, s.mover)
      /\ \A c \in Callers : s.task[c].ctx # None =>
           s.task[c].ctx \in Contexts /\ ~Garbage(s, s.task[c].ctx)
      /\ \A k \in Contexts : Garbage(s, k) =>
           /\ k \notin {s.enc, s.mover} /\ \A c \in Callers : s.task[c].ctx # k
           /\ s.session[k].net # "open"
  BY <1>1, TasksTyped DEF States, TaskType, Garbage
<1>4. Connected(t) <=> Connected(s)
  BY <1>1, <1>2, <1>3 DEF Connected
<1>5. \A k \in Contexts : t.session[k].net = "open" =>
        s.session[k].net = "open" /\ t.session[k] = s.session[k]
  <2>1. ASSUME NEW k \in Contexts, t.session[k].net = "open" PROVE s.session[k].net = "open"
    <3>1. CASE Garbage(s, k)
      BY <2>1, <3>1, OpenedFields DEF Tidied, Tidy
    <3>2. CASE ~Garbage(s, k)
      BY <1>2, <2>1, <3>2
    <3> QED
      BY <3>1, <3>2
  <2> QED
    BY <1>2, <2>1
<1>6. Connects(t, {})
  BY <1>1 DEF Good, Inv, Connects
<1>7. Refers(t, {})
  <2>1. ASSUME NEW j \in Contexts, t.session[j].net = "free"
        PROVE  /\ t.session[j] = Blank /\ j \notin {t.enc, t.mover}
               /\ \A d \in Callers : t.task[d].ctx # j
    BY <1>1, <1>2, <1>3, <2>1
  <2>2. ASSUME NEW d \in Callers \ {}
        PROVE  /\ t.task[d].phase \in Posting \cup {"verify"} => t.task[d].ctx # None
               /\ t.task[d].phase = "verify" =>
                    /\ t.task[d].ctx \notin {t.enc, t.mover} /\ ~Connected(t)
                    /\ \A e \in Callers \ {d} : t.task[e].ctx # t.task[d].ctx
    BY <1>1, <1>4 DEF Good, Inv, Refers
  <2>3. ASSUME NEW d \in Callers \ {}, t.task[d].phase = "verify"
        PROVE  t.session[t.task[d].ctx] = Opened
    <3>1. s.session[s.task[d].ctx] = Opened /\ s.task[d].ctx # None
      BY <1>1, <2>3 DEF Good, Inv, Refers
    <3> QED
      BY <1>1, <1>2, <1>3, <3>1, OpenedFields
  <2> QED
    BY <2>1, <2>2, <2>3 DEF Refers
<1>8. Shuts(t, {})
  <2>1. ASSUME NEW d \in Callers \ {}, t.task[d].phase = "ending"
        PROVE  t.session[t.task[d].ctx].net = "shut"
    <3>1. s.session[s.task[d].ctx].net = "shut"
      BY <1>1, <2>1 DEF Good, Inv, Shuts
    <3>2. s.task[d].ctx \in Contexts
      BY <1>1, <2>1, AtWork
    <3>3. s.task[d].ctx # None
      BY <3>2, ContextsAssumption
    <3> QED
      BY <1>1, <1>2, <1>3, <3>1, <3>3
  <2> QED
    BY <1>1, <1>2, <1>3, <2>1 DEF Good, Inv, Shuts
<1>9. Meets(t)
  <2>1. ASSUME NEW k \in Contexts PROVE MeetsAt(t.session[k])
    <3>1. CASE t.session[k].net = "open"
      BY <1>5, <3>1 DEF Good, Inv, Meets
    <3>2. CASE t.session[k].net # "open"
      BY <3>2 DEF MeetsAt
    <3> QED
      BY <3>1, <3>2
  <2> QED
    BY <2>1 DEF Meets
<1>10. Lost(t, {})
  <2>1. ASSUME NEW j \in Contexts, t.session[j].net = "open"
        PROVE  \/ j = t.enc \/ j \in t.orphans
               \/ \E d \in Callers \ {} : t.task[d].ctx = j /\ t.task[d].phase = "verify"
    <3>1. s.session[j].net = "open" /\ ~Garbage(s, j)
      BY <1>2, <1>5, <2>1
    <3> QED
      BY <1>1, <3>1 DEF Good, Inv, Lost
  <2>2. ASSUME Connected(t), t.session[t.enc].net = "shut"
        PROVE  \/ t.enc \in t.orphans \/ t.enc = t.mover
               \/ \E d \in Callers \ {} : t.task[d].ctx = t.enc /\ t.task[d].phase = "ending"
    <3>1. s.enc \in Contexts /\ ~Garbage(s, s.enc) /\ s.session[s.enc].net = "shut"
      BY <1>1, <1>2, <1>3, <2>2 DEF Connected
    <3> QED
      BY <1>1, <1>4, <2>2, <3>1 DEF Good, Inv, Lost
  <2> QED
    BY <2>1, <2>2 DEF Lost
<1>11. Lines(t, {})
  <2>1. ASSUME NEW j \in Contexts
        PROVE  LET line == t.session[j].line IN
               /\ \A i \in 1..Len(line) :
                    line[i] \notin {} /\ t.task[line[i]].ctx = j /\ t.task[line[i]].phase \in Posting
               /\ Once(line)
    BY <1>1, <1>2 DEF Good, Inv, Lines
  <2>2. ASSUME NEW d \in Callers \ {}, t.task[d].phase \in {"await", "ending"}
        PROVE  LET line == t.session[t.task[d].ctx].line IN line # <<>> /\ line[1] = d
    <3>1. s.task[d].ctx \in Contexts
      BY <1>1, <2>2, AtWork
    <3> QED
      BY <1>1, <1>2, <2>2, <3>1 DEF Good, Inv, Lines
  <2> QED
    BY <2>1, <2>2 DEF Lines
<1>12. Agree(t, {})
  <2>1. ASSUME Live(t) PROVE Carried(s, t, {}, {})
    <3>1. t.enc \in Contexts
      BY <1>1, <2>1 DEF Live, Connected, States
    <3>2. Live(s) /\ t.session[s.enc] = s.session[s.enc]
      BY <1>1, <1>4, <1>5, <2>1, <3>1 DEF Live
    <3> QED
      BY <1>1, <3>2 DEF Carried, Witness
  <2> QED
    BY <1>1, <2>1, AgreeSame DEF Good
<1> QED
  BY <1>1, <1>6, <1>7, <1>8, <1>9, <1>10, <1>11, <1>12 DEF Good, Inv

LEMMA Becomes ==
  ASSUME NEW new, Good(new), Become(new)
  PROVE  Good(State')
<1>1. new \in States
  BY DEF Good, Inv
<1>2. /\ enc' = new.enc /\ task' = new.task /\ info' = new.info /\ subs' = new.subs
      /\ future' = new.future /\ shutdown' = new.shutdown /\ mover' = new.mover
      /\ session' = [k \in Contexts |-> Tidy(new, k)]
      /\ orphans' = new.orphans \ {k \in Contexts : Garbage(new, k)}
  BY DEF Become
<1>3. [k \in Contexts |-> Tidy(new, k)] \in [Contexts -> SessionType]
  BY TidyFields
<1> DEFINE t == State'
<1>4. /\ t = [enc |-> enc', session |-> session', task |-> task', info |-> info',
          subs |-> subs', future |-> future', shutdown |-> shutdown',
          mover |-> mover', orphans |-> orphans']
  BY DEF State
<1> HIDE DEF t
<1>5. /\ t.enc = enc' /\ t.session = session' /\ t.task = task' /\ t.info = info'
      /\ t.subs = subs' /\ t.future = future' /\ t.shutdown = shutdown'
      /\ t.mover = mover' /\ t.orphans = orphans'
  BY <1>4
<1>6. t \in States
  BY <1>1, <1>2, <1>3, <1>4 DEF States
<1>7. Tidied(new, t)
  BY <1>2, <1>5, <1>6 DEF Tidied
<1> QED
  BY <1>7, Tidies DEF t

-----------------------------------------------------------------------------
(* Requests that end.                                                        *)

LEMMA SetTwice ==
  ASSUME NEW s, NEW t, NEW u, NEW k, NEW x, NEW y, SetSession(s, t, k, x), SetSession(t, u, k, y)
  PROVE  SetSession(s, u, k, y)
  BY DEF SetSession

(* What the accessory has made of it.                                        *)
Taken(x, y, e) ==
  /\ y \in SessionType
  /\ y.net = x.net /\ y.held = x.held /\ y.line = x.line /\ y.hurt = x.hurt
  /\ y.send = x.send /\ y.recv = x.recv /\ y.lag = x.lag /\ y.got = x.got + 1
  /\ y.subscribed = IF e = "none" THEN x.subscribed ELSE e = "on"

LEMMA AcceptedFields ==
  ASSUME NEW s \in States, NEW c \in Callers, s.task[c].ctx \in Contexts,
         NEW t, t = Accepted(s, c)
  PROVE  LET k == s.task[c].ctx
         IN  /\ SetSession(s, t, k, t.session[k])
             /\ Taken(s.session[k], t.session[k], Effect(s.task[c]))
<1> DEFINE k == s.task[c].ctx
           a == s.task[c]
           y == s.session[k]
           v == IF a.post = "resubscribe" \/ (a.post = "operation" /\ a.op = "subscribe") THEN TRUE
                ELSE IF a.post = "operation" /\ a.op \in {"unsubscribe", "close"} THEN FALSE
                ELSE y.subscribed
           x == [y EXCEPT !.got = y.got + 1, !.subscribed = v]
<1>1. t = SessionWith(s, k, x)
  BY DEF Accepted, SessionWith
<1>2. y \in SessionType
  BY SessionsTyped
<1>3. y.got \in Nat /\ y.subscribed \in BOOLEAN /\ y.got + 1 \in Nat
  <2> HIDE DEF y
  <2> QED
    BY <1>2 DEF SessionType
<1>4. v \in BOOLEAN /\ v = (IF Effect(a) = "none" THEN y.subscribed ELSE Effect(a) = "on")
  BY <1>3 DEF Effect, EffectOf
<1> HIDE DEF v, y, a
<1>5. /\ x \in SessionType /\ x.net = y.net /\ x.held = y.held /\ x.line = y.line
      /\ x.hurt = y.hurt /\ x.send = y.send /\ x.recv = y.recv /\ x.lag = y.lag
      /\ x.got = y.got + 1 /\ x.subscribed = v
  BY <1>2, <1>3, <1>4 DEF SessionType
<1> HIDE DEF x
<1>6. Taken(y, x, Effect(a))
  BY <1>4, <1>5 DEF Taken
<1>7. SetSession(s, t, k, x)
  BY <1>1, <1>5, SessionSet
<1>8. t.session[k] = x
  BY <1>7 DEF SetSession
<1> QED
  BY <1>6, <1>7, <1>8 DEF y, a

(* The request at the head of the line is answered, and its caller leaves.   *)
Served(s, t, c, k) ==
  /\ t \in States /\ t.enc = s.enc /\ t.mover = s.mover /\ t.future = s.future
  /\ t.orphans = s.orphans /\ t.subs = s.subs /\ t.task = s.task
  /\ \A j \in Contexts \ {k} : t.session[j] = s.session[j]
  /\ t.session[k].net = s.session[k].net /\ t.session[k].held = s.session[k].held
  /\ t.session[k].hurt = s.session[k].hurt /\ MeetsAt(t.session[k])
  /\ t.session[k].line = RemoveFirst(s.session[k].line, c)
  /\ t.session[k].subscribed = IF Effect(s.task[c]) = "none" THEN s.session[k].subscribed
                               ELSE Effect(s.task[c]) = "on"

LEMMA ServedSays ==
  ASSUME NEW s, NEW t, NEW c \in Callers, NEW k \in Contexts, NEW v \in BOOLEAN,
         s.session[k].line \in Seq(Callers), s.session[k].line # <<>>,
         s.session[k].line[1] = c, Once(s.session[k].line),
         Served(s, t, c, k), Says(s, k, v)
  PROVE  Says(t, k, v)
<1> DEFINE old == s.session[k].line
           new == t.session[k].line
           n == Len(new)
           e(i) == Effect(s.task[old[i]])
<1>1. new = RemoveFirst(old, c) /\ old \in Seq(Callers) /\ Once(old) /\ old # <<>> /\ old[1] = c
  BY DEF Served
<1>2. new = Tail(old)
  <2> HIDE DEF old, new
  <2>1. Shortened(new, old, c)
    BY <1>1, Removed
  <2> QED
    BY <1>1, <2>1 DEF Shortened
<1>3. n \in Nat /\ Len(old) = n + 1 /\ \A i \in 1..n : new[i] = old[i + 1]
  <2> HIDE DEF old, new
  <2> QED
    BY <1>1, <1>2
<1>4. /\ \A i \in 1..Len(old) :
           (\A j \in 1..Len(old) : j > i => e(j) = "none") => e(i) \in {"none", Value(v)}
      /\ (\A i \in 1..Len(old) : e(i) = "none") => s.session[k].subscribed = v
  BY DEF Says
<1>5. \A i \in 1..n : Effect(t.task[new[i]]) = e(i + 1)
  BY <1>3 DEF Served
<1>6. t.session[k].subscribed = IF e(1) = "none" THEN s.session[k].subscribed ELSE e(1) = "on"
  BY <1>1 DEF Served
<1>7. \A i \in 1..n : i + 1 \in 1..Len(old)
  BY <1>3
<1>8. \A j \in 1..Len(old) : j = 1 \/ (j - 1 \in 1..n /\ j = (j - 1) + 1)
  BY <1>3
<1> HIDE DEF e, old, new, n
<1>9. ASSUME NEW i \in 1..n, \A j \in 1..n : j > i => e(j + 1) = "none"
      PROVE  e(i + 1) \in {"none", Value(v)}
  <2>1. ASSUME NEW j \in 1..Len(old), j > i + 1 PROVE e(j) = "none"
    <3>1. j - 1 \in 1..n /\ j - 1 > i /\ (j - 1) + 1 = j
      BY <1>3, <2>1
    <3>2. e((j - 1) + 1) = "none"
      BY <1>9, <3>1
    <3> QED
      BY <3>1, <3>2
  <2> QED
    BY <1>4, <1>7, <2>1
<1>10. ASSUME \A i \in 1..n : e(i + 1) = "none" PROVE t.session[k].subscribed = v
  <2>1. ASSUME NEW j \in 1..Len(old), j # 1 PROVE e(j) = "none"
    <3>1. j - 1 \in 1..n /\ j = (j - 1) + 1
      BY <1>8, <2>1
    <3>2. e((j - 1) + 1) = "none"
      BY <1>10, <3>1
    <3> QED
      BY <3>1, <3>2
  <2>2. 1 \in 1..Len(old)
    BY <1>3
  <2>3. CASE e(1) = "none"
    <3>1. \A j \in 1..Len(old) : e(j) = "none"
      BY <2>1, <2>3
    <3> QED
      BY <1>4, <1>6, <2>3, <3>1
  <2>4. CASE e(1) # "none"
    <3>1. \A j \in 1..Len(old) : j > 1 => e(j) = "none"
      BY <2>1
    <3>2. e(1) = Value(v)
      BY <1>4, <2>2, <2>4, <3>1
    <3> QED
      BY <1>6, <2>4, <3>2 DEF Value
  <2> QED
    BY <2>3, <2>4
<1>11. /\ \A i \in 1..n :
            (\A j \in 1..n : j > i => Effect(t.task[new[j]]) = "none")
              => Effect(t.task[new[i]]) \in {"none", Value(v)}
       /\ (\A i \in 1..n : Effect(t.task[new[i]]) = "none") => t.session[k].subscribed = v
  BY <1>5, <1>9, <1>10
<1> QED
  BY <1>11 DEF Says, n, new

LEMMA Serves ==
  ASSUME NEW s, NEW t, NEW c \in Callers, NEW k, Good(s), s.task[c].phase = "await",
         k = s.task[c].ctx, Served(s, t, c, k)
  PROVE  Inv(t, {c}) /\ Agree(t, {})
<1>1. s \in States /\ t \in States /\ k \in Contexts
  BY AtWork, Zenon DEF Served
<1>2. Left(s, t, c, k) /\ s.task[c].phase \in Posting
  BY DEF Served, Left, Posting
<1>3. Inv(t, {c})
  BY <1>1, <1>2, Leaves DEF Good
<1>4. /\ s.session[k].line \in Seq(Callers) /\ s.session[k].line # <<>>
      /\ s.session[k].line[1] = c /\ Once(s.session[k].line)
  <2>1. s.session[k].line \in Seq(Callers)
    BY <1>1, SessionsTyped DEF SessionType
  <2> QED
    BY <1>1, <2>1 DEF Good, Inv, Lines
<1>5. t.enc = s.enc /\ t.subs = s.subs /\ t.task = s.task /\ s.subs \in BOOLEAN
  BY <1>1 DEF Served, States
<1>6. CASE s.enc # k
  <2>1. ASSUME Live(t) PROVE Carried(s, t, {}, {})
    <3>1. t.enc \in Contexts /\ t.session[s.enc] = s.session[s.enc]
      BY <1>1, <1>6, <2>1 DEF Live, Connected, States, Served
    <3> QED
      BY <1>5, <2>1, <3>1 DEF Carried, Live, Connected, Witness
  <2> QED
    BY <1>3, <1>5, <2>1, AgreeSame DEF Good
<1>7. CASE s.enc = k
  <2> SUFFICES ASSUME Live(t)
               PROVE  \/ Says(t, t.enc, t.subs)
                      \/ t.subs /\ Says(t, t.enc, FALSE) /\ \E d \in Callers \ {} : Witness(t, d)
    BY <1>3 DEF Agree
  <2>1. Live(s)
    BY <1>7 DEF Live, Connected, Served
  <2>2. \A v \in BOOLEAN : Says(s, k, v) => Says(t, k, v)
    BY <1>1, <1>4, ServedSays
  <2>3. \A d \in Callers : Witness(s, d) => Witness(t, d)
    BY <1>5 DEF Witness
  <2> QED
    BY <1>5, <1>7, <2>1, <2>2, <2>3 DEF Good, Agree
<1> QED
  BY <1>6, <1>7

-----------------------------------------------------------------------------
(* The actions.                                                              *)

LEMMA StateFields ==
  /\ State.enc = enc /\ State.session = session /\ State.task = task /\ State.info = info
  /\ State.subs = subs /\ State.future = future /\ State.shutdown = shutdown
  /\ State.mover = mover /\ State.orphans = orphans
  BY DEF State

LEMMA CallKeeps ==
  ASSUME NEW c \in Callers, NEW op \in Calls, Good(State), Call(c, op)
  PROVE  Good(State')
<1> DEFINE a == [State.task[c] EXCEPT !.op = op]
           s == TaskWith(State, c, a)
<1>1. State \in States /\ State.task[c] \in TaskType /\ op \in Operations
  BY CallsAssumption, TasksTyped DEF Good, Inv
<1>2. /\ a \in TaskType /\ a.ctx = State.task[c].ctx /\ a.phase = State.task[c].phase
      /\ a.connecting = State.task[c].connecting
  BY <1>1 DEF TaskType
<1>3. Become(EnsureConnected(s, c)) /\ Fresh # {} /\ State.task[c].phase = "idle"
  BY StateFields DEF Call, TaskWith
<1> HIDE DEF a
<1>4. SetTask(State, s, c, a)
  BY <1>1, <1>2, TaskSet
<1> HIDE DEF s
<1>5. Busy(s, c) /\ ~s.task[c].connecting
  BY <1>2, <1>3, <1>4, Starts DEF SetTask
<1>6. CASE shutdown \/ Connected(s)
  BY <1>3, <1>5, <1>6, Operates, Becomes DEF EnsureConnected
<1>7. CASE ~shutdown /\ ~Connected(s) /\ s.future
  <2> DEFINE b == [s.task[c] EXCEPT !.phase = "wait"]
  <2>1. s \in States /\ s.task[c] \in TaskType
    BY <1>5, TasksTyped DEF Busy, Inv
  <2>2. /\ b \in TaskType /\ b.phase = "wait" /\ b.ctx = s.task[c].ctx
        /\ b.connecting = s.task[c].connecting
    BY <2>1 DEF TaskType, Phases
  <2>3. EnsureConnected(s, c) = TaskWith(s, c, b)
    BY <1>7 DEF EnsureConnected, TaskWith
  <2> HIDE DEF b
  <2>4. SetTask(s, EnsureConnected(s, c), c, b)
    BY <2>1, <2>2, <2>3, TaskSet
  <2> QED
    BY <1>3, <1>5, <1>7, <2>2, <2>4, Waits, Becomes
<1>8. CASE ~shutdown /\ ~Connected(s) /\ ~s.future
  <2> DEFINE k == CHOOSE x \in Fresh : TRUE
             b == [s.task[c] EXCEPT !.phase = "verify", !.ctx = k, !.connecting = TRUE]
             y == [s.session[k] EXCEPT !.net = "open"]
             f == [s.task EXCEPT ![c] = b]
             g == [s.session EXCEPT ![k] = y]
             t == [s EXCEPT !.future = TRUE, !.session = g, !.task = f]
  <2>1. k \in Fresh
    BY <1>3
  <2>2. k \in Contexts /\ s.session[k].net = "free" /\ s \in States /\ s.task[c] \in TaskType
    BY <1>4, <1>5, <2>1, StateFields, TasksTyped DEF Fresh, SetTask, Busy, Inv
  <2>3. EnsureConnected(s, c) = t
    BY <1>8 DEF EnsureConnected
  <2> HIDE DEF k
  <2>4. b \in TaskType /\ b.phase = "verify" /\ b.ctx = k /\ b.connecting
    BY <2>2 DEF TaskType, Phases
  <2>5. y = Opened
    BY <1>5, <2>2 DEF Busy, Inv, Refers, Opened
  <2> HIDE DEF b, y
  <2>6. /\ f \in [Callers -> TaskType] /\ f[c] = b
        /\ \A d \in Callers \ {c} : f[d] = s.task[d]
    BY <2>2, <2>4 DEF States
  <2>7. /\ g \in [Contexts -> SessionType] /\ g[k] = Opened
        /\ \A j \in Contexts \ {k} : g[j] = s.session[j]
    BY <2>2, <2>5, OpenedFields DEF States
  <2> HIDE DEF f, g
  <2>8. /\ t \in States /\ t.task = f /\ t.session = g /\ t.future
        /\ t.enc = s.enc /\ t.mover = s.mover /\ t.orphans = s.orphans
    BY <2>2, <2>6, <2>7 DEF States
  <2> HIDE DEF t
  <2>9. Connecting(s, t, c, k)
    BY <2>4, <2>6, <2>7, <2>8 DEF Connecting
  <2>10. Good(t)
    BY <1>5, <1>8, <2>2, <2>9, Verifies DEF Busy
  <2> QED
    BY <1>3, <2>3, <2>10, Becomes
<1> QED
  BY <1>6, <1>7, <1>8

LEMMA ShutdownKeeps ==
  ASSUME NEW c \in Callers, Good(State), Shutdown(c)
  PROVE  Good(State')
<1> DEFINE s == [State EXCEPT !.shutdown = TRUE]
           a == [s.task[c] EXCEPT !.op = "close"]
           t == TaskWith(s, c, a)
<1>1. /\ State.task[c].phase = "idle"
      /\ Become(IF Connected(s) THEN Operate(t, c) ELSE s)
  BY StateFields DEF Shutdown, TaskWith
<1>2. State \in States
  BY DEF Good, Inv
<1>3. /\ s \in States /\ s.enc = State.enc /\ s.mover = State.mover /\ s.future = State.future
      /\ s.orphans = State.orphans /\ s.session = State.session /\ s.task = State.task
      /\ s.subs = State.subs
  BY <1>2 DEF States
<1> HIDE DEF s
<1>4. /\ a \in TaskType /\ a.ctx = State.task[c].ctx
      /\ a.connecting = State.task[c].connecting
  <2>1. s.task[c] \in TaskType
    BY <1>3, TasksTyped
  <2> QED
    BY <1>3, <2>1 DEF TaskType, Operations
<1> HIDE DEF a
<1>5. SetTask(s, t, c, a)
  BY <1>3, <1>4, TaskSet
<1> HIDE DEF t
<1>6. Busy(t, c)
  BY <1>1, <1>3, <1>4, <1>5, Starts DEF SetTask
<1>7. Inv(s, {})
  BY <1>3, Aside DEF Good
<1>8. Live(s) => Carried(State, s, {}, {})
  BY <1>3 DEF Carried, Live, Connected, Witness
<1>9. Good(s)
  BY <1>3, <1>7, <1>8, AgreeSame DEF Good
<1> QED
  BY <1>1, <1>6, <1>9, Operates, Becomes

LEMMA WokenKeeps ==
  ASSUME NEW c \in Callers, Good(State), Woken(c)
  PROVE  Good(State')
<1>1. State \in States /\ State.task[c].phase = "woken"
  BY StateFields DEF Good, Inv, Woken
<1>2. Busy(State, c)
  BY <1>1, Starts
<1>3. Good(Raise(State, c))
  BY <1>2, Raises DEF Good, Busy
<1> QED
  BY <1>2, <1>3, Operates, Becomes DEF Woken

LEMMA VerifiedKeeps ==
  ASSUME NEW c \in Callers, Good(State), Verified(c)
  PROVE  Good(State')
<1> DEFINE s == State
           k == s.task[c].ctx
           x == [s.session[k] EXCEPT !.held = TRUE]
           t == [s EXCEPT !.enc = k, !.session[k] = x]
<1>1. s.task[c].phase = "verify" /\ Become(Post(t, c, "gatt"))
  BY StateFields DEF Verified
<1>2. k \in Contexts /\ s.session[k] = Opened /\ s \in States
  BY <1>1, VerifierAlone DEF Good, Inv
<1> HIDE DEF s
<1>3. x = [Opened EXCEPT !.held = TRUE] /\ x \in SessionType
  BY <1>2, OpenedFields DEF SessionType
<1> HIDE DEF x
<1>4. Verifying(s, t, c, k)
  BY <1>2, <1>3 DEF Verifying, States
<1> HIDE DEF k, t
<1>5. Good(Post(t, c, "gatt"))
  BY <1>1, <1>4, Enlists DEF s, k
<1> QED
  BY <1>1, <1>5, Becomes

LEMMA Shut ==
  ASSUME NEW s \in States, NEW k \in Contexts, NEW t, t = ShutNet(s, k)
  PROVE  /\ SetSession(s, t, k, t.session[k])
         /\ t.session[k].net = "shut" /\ t.session[k].held = s.session[k].held
         /\ t.session[k].line = s.session[k].line
<1> DEFINE y == s.session[k]
           x == [y EXCEPT !.net = "shut"]
<1>1. y \in SessionType
  BY SessionsTyped
<1>2. t = SessionWith(s, k, x)
  BY DEF ShutNet, SessionWith
<1> HIDE DEF y
<1>3. x \in SessionType /\ x.net = "shut" /\ x.held = y.held /\ x.line = y.line
  BY <1>1 DEF SessionType
<1> HIDE DEF x
<1>4. SetSession(s, t, k, x)
  BY <1>2, <1>3, SessionSet
<1> QED
  BY <1>3, <1>4 DEF SetSession, y

LEMMA VerifyFailsKeeps ==
  ASSUME NEW c \in Callers, Good(State), VerifyFails(c)
  PROVE  Good(State')
<1> DEFINE k == State.task[c].ctx
           t == ShutNet(State, k)
<1>1. State.task[c].phase = "verify" /\ Become(Raise(t, c))
  BY StateFields DEF VerifyFails
<1>2. k \in Contexts /\ State \in States
  BY <1>1, VerifierAlone DEF Good, Inv
<1>3. Forsaken(State, t, c, k)
  BY <1>2, Shut DEF SetSession, Forsaken
<1> HIDE DEF k, t
<1>4. Good(Raise(t, c))
  BY <1>1, <1>3, Forsakes DEF k
<1> QED
  BY <1>1, <1>4, Becomes

LEMMA GrantedKeeps ==
  ASSUME NEW c \in Callers, Good(State), Granted(c)
  PROVE  Good(State')
<1>1. State.task[c].phase = "lock" /\ State \in States
  BY StateFields DEF Granted, Good, Inv
<1>2. /\ State.session[State.task[c].ctx].line # <<>>
      /\ State.session[State.task[c].ctx].line[1] = c
  BY StateFields DEF Granted
<1> QED
  BY <1>1, <1>2, Sends, Becomes DEF Granted

LEMMA EndsSession ==
  ASSUME NEW s \in States, NEW c \in Callers, NEW k \in Contexts, k = s.task[c].ctx,
         NEW u, SetSession(s, u, k, u.session[k]),
         u.session[k].held = s.session[k].held, u.session[k].line = s.session[k].line
  PROVE  Closed(s, EndSession(u, c), c, k)
<1> DEFINE v == ShutNet(u, k)
           a == [v.task[c] EXCEPT !.phase = "ending"]
<1>1. u \in States /\ u.task = s.task
  BY DEF SetSession
<1>2. /\ SetSession(u, v, k, v.session[k]) /\ v.session[k].net = "shut"
      /\ v.session[k].held = u.session[k].held /\ v.session[k].line = u.session[k].line
  BY <1>1, Shut
<1>3. EndSession(u, c) = TaskWith(v, c, a)
  BY <1>1 DEF EndSession, TaskWith
<1> HIDE DEF v
<1>4. v \in States /\ v.task = s.task /\ v.task[c] \in TaskType
  BY <1>1, <1>2, TasksTyped DEF SetSession
<1>5. /\ a \in TaskType /\ a.phase = "ending" /\ a.ctx = s.task[c].ctx
      /\ a.post = s.task[c].post /\ a.op = s.task[c].op
      /\ a.connecting = s.task[c].connecting
  BY <1>4 DEF TaskType, Phases
<1> HIDE DEF a
<1>6. SetTask(v, EndSession(u, c), c, a)
  BY <1>3, <1>4, <1>5, TaskSet
<1> QED
  BY <1>2, <1>4, <1>5, <1>6 DEF Closed, SetSession, SetTask

(* post_bytes gives the session up.                                          *)
LEMMA GivesUp ==
  ASSUME NEW s, NEW c \in Callers, NEW k, NEW u, Good(s), s.task[c].phase = "await",
         k = s.task[c].ctx, SetSession(s, u, k, u.session[k]),
         u.session[k].held = s.session[k].held, u.session[k].line = s.session[k].line
  PROVE  Good(EndSession(u, c)) /\ Good(Unreadable(u, c))
<1>1. s \in States /\ k \in Contexts
  BY AtWork, Zenon
<1>2. Good(EndSession(u, c))
  <2>1. Closed(s, EndSession(u, c), c, k)
    BY <1>1, EndsSession
  <2> QED
    BY <2>1, Closes
<1>3. Good(Unreadable(u, c))
  <2> DEFINE y == u.session[k]
             x == [y EXCEPT !.recv = 0, !.send = 0]
             w == SessionWith(u, k, x)
  <2>1. u \in States /\ u.task = s.task
    BY DEF SetSession
  <2>2. y \in SessionType /\ Unreadable(u, c) = EndSession(w, c)
    BY <1>1, <2>1, SessionsTyped DEF Unreadable, SessionWith
  <2>3. y.held = s.session[k].held /\ y.line = s.session[k].line
    OBVIOUS
  <2> HIDE DEF y
  <2>4. x \in SessionType /\ x.held = y.held /\ x.line = y.line
    BY <2>2 DEF SessionType
  <2> HIDE DEF x
  <2>5. SetSession(u, w, k, x)
    BY <1>1, <2>1, <2>4, SessionSet
  <2> HIDE DEF w
  <2>6. w.session[k] = x /\ SetSession(s, w, k, w.session[k])
    BY <2>5 DEF SetSession
  <2>7. Good(EndSession(w, c))
    <3>1. w.session[k].held = s.session[k].held /\ w.session[k].line = s.session[k].line
      BY <2>3, <2>4, <2>6
    <3>2. Closed(s, EndSession(w, c), c, k)
      BY <1>1, <2>6, <3>1, EndsSession
    <3> QED
      BY <3>2, Closes
  <2> QED
    BY <2>2, <2>7
<1> QED
  BY <1>2, <1>3

LEMMA SameSession ==
  ASSUME NEW s \in States, NEW k \in Contexts
  PROVE  SetSession(s, s, k, s.session[k])
  BY DEF SetSession

LEMMA AnsweredKeeps ==
  ASSUME NEW c \in Callers, Good(State), Answered(c)
  PROVE  Good(State')
<1> DEFINE s == State
           k == s.task[c].ctx
           e == Effect(s.task[c])
           u == Accepted(s, c)
           y == u.session[k]
           n == s.session[k].got
           x == [y EXCEPT !.recv = n + 1, !.lag = 0]
           v == SessionWith(u, k, x)
           t == Unlock(v, c)
<1>1. /\ s.task[c].phase = "await" /\ s.session[k].net = "open"
      /\ s.session[k].send = n + 1
      /\ \/ Become(Proceed(t, c)) \/ Become(Raise(t, c))
         \/ Become(Unreadable(u, c))
  BY StateFields DEF Answered, InStep, SessionWith
<1>2. /\ s \in States /\ k \in Contexts /\ Once(s.session[k].line)
      /\ s.session[k] \in SessionType
  BY <1>1, AtWork, Zenon
<1>3. SetSession(s, u, k, y) /\ Taken(s.session[k], y, e)
  BY <1>2, AcceptedFields
<1>4. n \in Nat
  BY <1>2 DEF SessionType
<1> HIDE DEF s, u, y, n, e
<1>5. /\ x \in SessionType /\ x.net = y.net /\ x.held = y.held /\ x.line = y.line
      /\ x.hurt = y.hurt /\ x.subscribed = y.subscribed /\ x.send = y.send /\ x.got = y.got
      /\ x.recv = n + 1 /\ x.lag = 0
  <2>1. y \in SessionType /\ n + 1 \in Nat
    BY <1>3, <1>4 DEF Taken
  <2> QED
    BY <2>1 DEF SessionType
<1> HIDE DEF x
<1>6. SetSession(u, v, k, x)
  BY <1>2, <1>3, <1>5, SessionSet DEF SetSession
<1>7. SetSession(s, v, k, x)
  BY <1>3, <1>6, SetTwice
<1> HIDE DEF v
<1>8. v \in States /\ v.task[c].ctx = k /\ v.session[k] = x /\ x.line = s.session[k].line
  BY <1>3, <1>5, <1>7, SMTT(30) DEF SetSession, Taken
<1> DEFINE z == [x EXCEPT !.line = RemoveFirst(x.line, c)]
<1>9. SetSession(v, t, k, z)
  BY <1>2, <1>8, Unlocks
<1>10. /\ z.net = x.net /\ z.held = x.held /\ z.line = RemoveFirst(x.line, c)
       /\ z.hurt = x.hurt /\ z.subscribed = x.subscribed /\ z.send = x.send /\ z.got = x.got
       /\ z.recv = x.recv /\ z.lag = x.lag
  BY <1>5 DEF SessionType
<1> HIDE DEF z, t
<1>11. SetSession(s, t, k, z)
  BY <1>7, <1>9, SetTwice
<1>12. MeetsAt(z)
  <2>1. z.got = n + 1 /\ z.send = n + 1 /\ z.recv = n + 1 /\ z.lag = 0
    BY <1>1, <1>3, <1>5, <1>10 DEF Taken, n
  <2> QED
    BY <1>4, <2>1 DEF MeetsAt
<1>13. Served(s, t, c, k)
  <2>1. /\ z.net = s.session[k].net /\ z.held = s.session[k].held /\ z.hurt = s.session[k].hurt
        /\ z.line = RemoveFirst(s.session[k].line, c)
        /\ z.subscribed = IF e = "none" THEN s.session[k].subscribed ELSE e = "on"
    BY <1>3, <1>5, <1>8, <1>10 DEF Taken
  <2> HIDE DEF k
  <2> QED
    BY <1>11, <1>12, <2>1 DEF Served, SetSession, e
<1>14. Good(s) /\ s.task[c].phase = "await"
  BY <1>1 DEF s
<1>15. Inv(t, {c}) /\ Agree(t, {})
  BY <1>13, <1>14, Serves
<1>16. Good(Proceed(t, c)) /\ Good(Raise(t, c))
  BY <1>15, Proceeds, Raises
<1>17. Good(Unreadable(u, c))
  <2>1. y.held = s.session[k].held /\ y.line = s.session[k].line
    BY <1>3 DEF Taken
  <2> HIDE DEF k
  <2> QED
    BY <1>3, <1>14, <2>1, GivesUp DEF y, k
<1> QED
  BY <1>1, <1>16, <1>17, Becomes

LEMMA RefusedKeeps ==
  ASSUME NEW c \in Callers, Good(State), Refused(c) \/ TimedOut(c)
  PROVE  Good(State')
<1>1. State.task[c].phase = "await"
      /\ (Become(Unreadable(State, c)) \/ Become(EndSession(State, c)))
  BY StateFields DEF Refused, TimedOut
<1>2. State \in States /\ State.task[c].ctx \in Contexts
  BY <1>1, AtWork
<1>3. Good(EndSession(State, c)) /\ Good(Unreadable(State, c))
  BY <1>1, <1>2, SameSession, GivesUp
<1> QED
  BY <1>1, <1>3, Becomes

LEMMA AbortedKeeps ==
  ASSUME NEW c \in Callers, Good(State), Aborted(c)
  PROVE  Good(State')
<1>1. State.task[c].phase = "await" /\ Become(Raise(Unlock(State, c), c))
  BY StateFields DEF Aborted
<1> QED
  BY <1>1, Drops, Becomes

LEMMA ShutDoneKeeps ==
  ASSUME NEW c \in Callers, Good(State), ShutDone(c)
  PROVE  Good(State')
<1> DEFINE s == State
           k == s.task[c].ctx
           v == Unlock(s, c)
           y == v.session[k]
           x == [y EXCEPT !.held = FALSE]
           t == SessionWith(v, k, x)
<1>1. s.task[c].phase = "ending" /\ Become(Raise(t, c))
  BY StateFields DEF ShutDone, SessionWith
<1>2. /\ s \in States /\ k \in Contexts /\ Once(s.session[k].line)
      /\ MeetsAt(s.session[k]) /\ s.session[k].net = "shut" /\ s.session[k] \in SessionType
  BY <1>1, AtWork, ZenonT(30)
<1> DEFINE z == [s.session[k] EXCEPT !.line = RemoveFirst(s.session[k].line, c)]
<1>3. SetSession(s, v, k, z)
  BY <1>2, Unlocks, ZenonT(30)
<1>4. z.net = "shut" /\ z.line = RemoveFirst(s.session[k].line, c)
  BY <1>2 DEF SessionType
<1> HIDE DEF s, v, z
<1>5. y = z /\ v \in States /\ v.session[k] = z
  BY <1>3 DEF SetSession
<1>6. y \in SessionType
  BY <1>2, <1>5, SessionsTyped
<1> HIDE DEF y
<1>7. x \in SessionType /\ x.net = y.net /\ x.line = y.line /\ ~x.held
  BY <1>6 DEF SessionType
<1> HIDE DEF x
<1>8. SetSession(v, t, k, x)
  BY <1>2, <1>5, <1>7, SessionSet
<1> HIDE DEF t
<1>9. SetSession(s, t, k, x)
  BY <1>3, <1>8, SetTwice
<1>10. MeetsAt(x)
  BY <1>4, <1>5, <1>7 DEF MeetsAt
<1>11. /\ x.net = s.session[k].net /\ x.line = RemoveFirst(s.session[k].line, c)
  BY <1>2, <1>4, <1>5, <1>7
<1> HIDE DEF k
<1>12. t \in States /\ t.subs = s.subs /\ Left(s, t, c, k)
  BY <1>2, <1>7, <1>9, <1>10, <1>11 DEF SetSession, Left
<1>13. Good(s) /\ s.task[c].phase \in Posting
  BY <1>1 DEF s, Posting
<1>14. Good(Raise(t, c))
  BY <1>12, <1>13, Fails DEF k
<1> QED
  BY <1>1, <1>14, Becomes

LEMMA CutFields ==
  ASSUME NEW s \in States, NEW k \in Contexts, NEW t, t = [s EXCEPT !.orphans = s.orphans \cup {k}]
  PROVE  /\ t \in States /\ t.enc = s.enc /\ t.mover = s.mover /\ t.future = s.future
         /\ t.subs = s.subs /\ t.session = s.session /\ t.task = s.task
         /\ t.orphans = s.orphans \cup {k}
  BY DEF States

(* The answer to a cancelled request: the accessory has acted, nobody reads. *)
LEMMA Late ==
  ASSUME NEW s, NEW c \in Callers, NEW k, Good(s), s.task[c].phase = "await",
         k = s.task[c].ctx, s.session[k].send = s.session[k].got + 1
  PROVE  Good(Raise(Unlock(Accepted([s EXCEPT !.session[k].lag = @ + 1], c), c), c))
<1> DEFINE y == s.session[k]
           x == [y EXCEPT !.lag = y.lag + 1]
           v == SessionWith(s, k, x)
           u == Accepted(v, c)
           t == Unlock(u, c)
<1>1. [s EXCEPT !.session[k].lag = @ + 1] = v
  BY SMTT(30) DEF SessionWith
<1>2. /\ s \in States /\ k \in Contexts /\ Once(y.line) /\ MeetsAt(y) /\ y \in SessionType
  BY AtWork
<1>0. y.send = y.got + 1
  OBVIOUS
<1>14. s.task[c].phase \in Posting /\ s.task[c].phase # "ending"
  BY DEF Posting
<1> HIDE DEF y
<1>3. y.lag \in Nat /\ y.got \in Nat /\ y.recv \in Nat
  BY <1>2 DEF SessionType
<1>4. /\ x \in SessionType /\ x.net = y.net /\ x.held = y.held /\ x.line = y.line
      /\ x.send = y.send /\ x.recv = y.recv /\ x.got = y.got /\ x.lag = y.lag + 1
  BY <1>2, <1>3 DEF SessionType
<1> HIDE DEF x
<1>5. SetSession(s, v, k, x)
  BY <1>2, <1>4, SessionSet
<1> HIDE DEF v
<1>6. v \in States /\ v.task = s.task /\ v.session[k] = x
  BY <1>5 DEF SetSession
<1> DEFINE z == u.session[k]
<1>7. SetSession(v, u, k, z) /\ Taken(x, z, Effect(s.task[c]))
  BY <1>2, <1>6, AcceptedFields
<1> HIDE DEF u, z
<1>8. SetSession(s, u, k, z)
  BY <1>5, <1>7, SetTwice
<1>9. /\ u \in States /\ u.task = s.task /\ u.session[k] = z /\ z \in SessionType
      /\ z.line = y.line /\ z.net = y.net /\ z.held = y.held
      /\ z.got = y.got + 1 /\ z.send = y.send /\ z.recv = y.recv /\ z.lag = y.lag + 1
  BY <1>4, <1>6, <1>7, SMTT(30) DEF SetSession, Taken
<1> DEFINE w == [z EXCEPT !.line = RemoveFirst(z.line, c)]
<1>10. SetSession(u, t, k, w)
  BY <1>2, <1>9, Unlocks
<1>11. /\ w.net = z.net /\ w.held = z.held /\ w.line = RemoveFirst(z.line, c)
       /\ w.got = z.got /\ w.send = z.send /\ w.recv = z.recv /\ w.lag = z.lag
  BY <1>9 DEF SessionType
<1> HIDE DEF w, t
<1>12. SetSession(s, t, k, w)
  BY <1>8, <1>10, SetTwice
<1>13. MeetsAt(w)
  BY <1>0, <1>2, <1>3, <1>9, <1>11 DEF MeetsAt
<1>15. t \in States /\ t.subs = s.subs /\ Left(s, t, c, k)
  BY <1>9, <1>11, <1>12, <1>13, <1>14 DEF SetSession, Left, y
<1>16. Good(Raise(t, c))
  BY <1>14, <1>15, Fails
<1> QED
  BY <1>1, <1>16 DEF t, u

LEMMA CutShort ==
  ASSUME NEW s, NEW c \in Callers, NEW k, Good(s), s.task[c].phase = "ending",
         k = s.task[c].ctx, NEW u, u = [s EXCEPT !.orphans = s.orphans \cup {k}]
  PROVE  Good(Raise(Unlock(u, c), c))
<1> DEFINE y == s.session[k]
           x == [y EXCEPT !.line = RemoveFirst(y.line, c)]
           t == Unlock(u, c)
<1>1. /\ s \in States /\ k \in Contexts /\ Once(y.line) /\ y.net = "shut" /\ y \in SessionType
  BY AtWork
<1>2. /\ u \in States /\ u.enc = s.enc /\ u.mover = s.mover /\ u.future = s.future
      /\ u.subs = s.subs /\ u.session = s.session /\ u.task = s.task
      /\ u.orphans = s.orphans \cup {k}
  BY <1>1, CutFields, SMTT(30)
<1>3. SetSession(u, t, k, x)
  BY <1>1, <1>2, Unlocks
<1>4. x.net = y.net /\ x.held = y.held /\ x.line = RemoveFirst(y.line, c)
  BY <1>1 DEF SessionType
<1> HIDE DEF x, t
<1>5. MeetsAt(x)
  BY <1>1, <1>4 DEF MeetsAt
<1>6. t \in States /\ t.subs = s.subs /\ Left(s, t, c, k)
  BY <1>1, <1>2, <1>3, <1>4, <1>5 DEF SetSession, Left
<1>7. s.task[c].phase \in Posting
  BY DEF Posting
<1>8. Good(Raise(t, c))
  BY <1>6, <1>7, Fails
<1> QED
  BY <1>8 DEF t

LEMMA CancelKeeps ==
  ASSUME NEW c \in Callers, Good(State), Cancel(c)
  PROVE  Good(State')
<1> DEFINE s == State
           k == s.task[c].ctx
           cut == [s EXCEPT !.orphans = s.orphans \cup {k}]
           late == Accepted([s EXCEPT !.session[k].lag = @ + 1], c)
<1>1. \/ s.task[c].phase \in {"wait", "woken"} /\ Become(Raise(s, c))
      \/ s.task[c].phase = "verify" /\ Become(Raise(cut, c))
      \/ s.task[c].phase \in {"lock", "await"} /\ Become(Raise(Unlock(s, c), c))
      \/ /\ s.task[c].phase = "await" /\ s.session[k].send = s.session[k].got + 1
         /\ Become(Raise(Unlock(late, c), c))
      \/ s.task[c].phase = "ending" /\ Become(Raise(Unlock(cut, c), c))
  BY StateFields DEF Cancel, InStep
<1>2. s \in States /\ Good(s)
  BY DEF Good, Inv
<1>3. CASE s.task[c].phase \in {"wait", "woken"}
  <2>1. Inv(s, {c}) /\ Agree(s, {})
    BY <1>2, <1>3, Runs DEF Good
  <2>2. Good(Raise(s, c))
    BY <2>1, Raises
  <2> QED
    BY <1>1, <1>3, <2>2, Becomes
<1>4. CASE s.task[c].phase = "verify"
  <2>1. k \in Contexts
    BY <1>2, <1>4, VerifierAlone
  <2>2. Forsaken(s, cut, c, k)
    <3> HIDE DEF s, k
    <3>1. /\ cut \in States /\ cut.enc = s.enc /\ cut.mover = s.mover /\ cut.future = s.future
          /\ cut.subs = s.subs /\ cut.session = s.session /\ cut.task = s.task
          /\ cut.orphans = s.orphans \cup {k}
      BY <1>2, <2>1, CutFields
    <3> HIDE DEF cut
    <3> QED
      BY <3>1 DEF Forsaken
  <2> HIDE DEF s, cut
  <2>3. Good(Raise(cut, c))
    BY <1>2, <1>4, <2>2, Forsakes
  <2> QED
    BY <1>1, <1>4, <2>3, Becomes
<1>5. ASSUME s.task[c].phase \in {"lock", "await"}, Become(Raise(Unlock(s, c), c))
      PROVE  Good(State')
  BY <1>2, <1>5, Drops, Becomes
<1>6. ASSUME s.task[c].phase = "await", s.session[k].send = s.session[k].got + 1,
             Become(Raise(Unlock(late, c), c))
      PROVE  Good(State')
  <2>1. Good(Raise(Unlock(late, c), c))
    BY <1>2, <1>6, Late
  <2> QED
    BY <1>6, <2>1, Becomes
<1>7. CASE s.task[c].phase = "ending"
  <2> HIDE DEF s
  <2>1. Good(Raise(Unlock(cut, c), c))
    BY <1>2, <1>7, CutShort
  <2> QED
    BY <1>1, <1>7, <2>1, Becomes
<1> QED
  BY <1>1, <1>3, <1>4, <1>5, <1>6, <1>7

-----------------------------------------------------------------------------
(* The accessory has moved.                                                  *)

Parked(s, t) ==
  /\ t \in States /\ t.enc = s.enc /\ t.mover = s.enc /\ t.orphans = s.orphans
  /\ t.future = s.future /\ t.subs = s.subs /\ t.task = s.task
  /\ \A j \in Contexts \ {s.enc} : t.session[j] = s.session[j]
  /\ t.session[s.enc].net = "shut" /\ t.session[s.enc].line = s.session[s.enc].line

LEMMA Parks ==
  ASSUME NEW s, NEW t, Good(s), Connected(s), Parked(s, t)
  PROVE  Good(t)
<1> DEFINE k == s.enc
<1>1. /\ s \in States /\ t \in States /\ k \in Contexts /\ t.enc = k /\ t.mover = k
      /\ t.orphans = s.orphans /\ t.future = s.future /\ t.subs = s.subs /\ t.task = s.task
      /\ \A j \in Contexts \ {k} : t.session[j] = s.session[j]
      /\ t.session[k].net = "shut" /\ \A j \in Contexts : t.session[j].line = s.session[j].line
  BY DEF Good, Inv, Connected, States, Parked
<1>2. \A d \in Callers : s.task[d].phase # "verify"
  BY VerifierAlone
<1> HIDE DEF k
<1>3. Connects(t, {})
  BY <1>1 DEF Good, Inv, Connects
<1>4. Meets(t)
  BY <1>1 DEF Good, Inv, Meets, MeetsAt
<1>5. Refers(t, {})
  <2>1. ASSUME NEW j \in Contexts, t.session[j].net = "free"
        PROVE  /\ t.session[j] = Blank /\ j \notin {t.enc, t.mover}
               /\ \A d \in Callers : t.task[d].ctx # j
    BY <1>1, <2>1 DEF Good, Inv, Refers
  <2> QED
    BY <1>1, <1>2, <2>1 DEF Good, Inv, Refers
<1>6. Shuts(t, {})
  <2>1. ASSUME NEW d \in Callers \ {}, t.task[d].phase = "ending"
        PROVE  t.session[t.task[d].ctx].net = "shut"
    <3>1. s.session[s.task[d].ctx].net = "shut"
      BY <1>1, <2>1 DEF Good, Inv, Shuts
    <3>2. s.task[d].ctx \in Contexts
      BY <1>1, <2>1, AtWork
    <3> QED
      BY <1>1, <3>1, <3>2
  <2> QED
    BY <1>1, <2>1 DEF Shuts
<1>7. Lost(t, {})
  BY <1>1, <1>2 DEF Good, Inv, Lost, k
<1>8. Lines(t, {})
  <2>1. ASSUME NEW j \in Contexts
        PROVE  LET line == t.session[j].line IN
               /\ \A i \in 1..Len(line) :
                    line[i] \notin {} /\ t.task[line[i]].ctx = j /\ t.task[line[i]].phase \in Posting
               /\ Once(line)
    BY <1>1, ZenonT(30) DEF Good, Inv, Lines
  <2>2. ASSUME NEW d \in Callers \ {}, t.task[d].phase \in {"await", "ending"}
        PROVE  LET line == t.session[t.task[d].ctx].line IN line # <<>> /\ line[1] = d
    <3>1. s.task[d].ctx \in Contexts
      BY <1>1, <2>2, AtWork
    <3> QED
      BY <1>1, <2>2, <3>1 DEF Good, Inv, Lines
  <2> QED
    BY <2>1, <2>2 DEF Lines
<1>9. Agree(t, {})
  BY <1>1 DEF Agree, Live
<1> QED
  BY <1>1, <1>3, <1>4, <1>5, <1>6, <1>7, <1>8, <1>9 DEF Good, Inv

LEMMA MoveKeeps ==
  ASSUME Good(State), Move
  PROVE  Good(State')
<1> DEFINE s == State
           v == ShutNet(s, s.enc)
           t == [v EXCEPT !.mover = s.enc]
<1>1. Connected(s) /\ Become(t)
  BY StateFields DEF Move
<1>2. s \in States /\ s.enc \in Contexts /\ Good(s)
  BY <1>1 DEF Good, Inv, Connected, States
<1> HIDE DEF s
<1>3. /\ SetSession(s, v, s.enc, v.session[s.enc])
      /\ v.session[s.enc].net = "shut" /\ v.session[s.enc].line = s.session[s.enc].line
  BY <1>2, Shut
<1> HIDE DEF v
<1>4. /\ t \in States /\ t.enc = v.enc /\ t.mover = s.enc /\ t.orphans = v.orphans
      /\ t.future = v.future /\ t.subs = v.subs /\ t.task = v.task /\ t.session = v.session
  BY <1>2, <1>3 DEF States, SetSession
<1> HIDE DEF t
<1>5. Parked(s, t)
  BY <1>3, <1>4 DEF Parked, SetSession
<1> QED
  BY <1>1, <1>2, <1>5, Parks, Becomes

LEMMA MovedKeeps ==
  ASSUME Good(State), Moved
  PROVE  Good(State')
<1> DEFINE s == State
           t == [s EXCEPT !.mover = None, !.enc = None,
                          !.orphans = s.orphans \cup ({s.enc} \ {s.mover, None})]
<1>1. s.mover # None /\ Become(t)
  BY StateFields DEF Moved
<1>2. s \in States /\ Good(s)
  BY DEF Good, Inv
<1> HIDE DEF s
<1>3. /\ t \in States /\ t.enc = None /\ t.mover = None
      /\ t.orphans = s.orphans \cup ({s.enc} \ {s.mover, None})
      /\ t.future = s.future /\ t.subs = s.subs /\ t.task = s.task /\ t.session = s.session
  BY <1>2 DEF States
<1> HIDE DEF t
<1>4. ~Connected(t)
  BY <1>3 DEF Connected
<1>5. Connects(t, {}) /\ Meets(t) /\ Lines(t, {})
  BY <1>2, <1>3 DEF Good, Inv, Connects, Meets, Lines
<1>6. Refers(t, {})
  <2>1. ASSUME NEW d \in Callers \ {}, t.task[d].phase = "verify"
        PROVE  t.task[d].ctx # None
    BY <1>2, <1>3, <2>1 DEF Good, Inv, Refers
  <2>2. \A j \in Contexts : j # None
    BY ContextsAssumption
  <2> QED
    BY <1>2, <1>3, <1>4, <2>1, <2>2 DEF Good, Inv, Refers
<1>7. Shuts(t, {})
  BY <1>2, <1>3 DEF Good, Inv, Shuts
<1>8. Lost(t, {})
  <2>1. ASSUME NEW j \in Contexts, t.session[j].net = "open", j = s.enc
        PROVE  j \in t.orphans
    <3>1. j # None /\ j # s.mover
      BY <1>1, <1>2, <1>3, <2>1, ContextsAssumption DEF Good, Inv, Shuts
    <3> QED
      BY <1>3, <2>1, <3>1
  <2> QED
    BY <1>2, <1>3, <1>4, <2>1 DEF Good, Inv, Lost
<1>9. Good(t)
  BY <1>3, <1>4, <1>5, <1>6, <1>7, <1>8 DEF Good, Inv, Agree, Live
<1> QED
  BY <1>1, <1>9, Becomes

-----------------------------------------------------------------------------
LEMMA Starting == Init => Good(State)
<1> SUFFICES ASSUME Init PROVE Good(State)
  OBVIOUS
<1> DEFINE s == State
<1>1. /\ s.enc = None /\ s.mover = None /\ s.session = [k \in Contexts |-> Blank]
      /\ s.task = [c \in Callers |-> Ended] /\ ~s.info /\ ~s.subs /\ ~s.future
      /\ ~s.shutdown /\ s.orphans = {}
  BY StateFields DEF Init
<1>2. s \in States
  BY OpenedFields, EndedType DEF Init, State, States
<1> HIDE DEF s
<1>3. /\ \A c \in Callers : /\ s.task[c].ctx = None /\ s.task[c].phase = "idle"
                            /\ ~s.task[c].connecting
      /\ \A k \in Contexts : s.session[k] = Blank /\ k # None
  BY <1>1, ContextsAssumption DEF Ended
<1>4. Connects(s, {}) /\ Refers(s, {}) /\ Shuts(s, {})
  BY <1>1, <1>3 DEF Connects, Refers, Shuts, Posting
<1>5. Meets(s) /\ Lost(s, {})
  BY <1>1, <1>3, OpenedFields DEF Meets, MeetsAt, Lost, Connected
<1>6. Lines(s, {})
  BY <1>1, <1>3, OpenedFields DEF Lines, Once
<1>7. Agree(s, {})
  BY <1>1 DEF Agree, Live, Connected
<1> QED
  BY <1>2, <1>4, <1>5, <1>6, <1>7 DEF Good, Inv, s

LEMMA Stuttering == Good(State) /\ UNCHANGED vars => Good(State')
<1> SUFFICES ASSUME Good(State), UNCHANGED vars PROVE Good(State')
  OBVIOUS
<1>1. State' = State
  BY DEF State, vars
<1> QED
  BY <1>1

LEMMA Steps == Good(State) /\ [Next]_vars => Good(State')
<1> SUFFICES ASSUME Good(State), [Next]_vars PROVE Good(State')
  OBVIOUS
<1>1. ASSUME NEW c \in Callers, NEW op \in Calls, Call(c, op) PROVE Good(State')
  BY <1>1, CallKeeps
<1>2. ASSUME NEW c \in Callers, Shutdown(c) \/ Cancel(c) PROVE Good(State')
  BY <1>2, ShutdownKeeps, CancelKeeps
<1>3. ASSUME NEW c \in Callers, Woken(c) \/ Verified(c) \/ VerifyFails(c) PROVE Good(State')
  BY <1>3, WokenKeeps, VerifiedKeeps, VerifyFailsKeeps
<1>4. ASSUME NEW c \in Callers, Granted(c) \/ Answered(c) \/ Refused(c) \/ TimedOut(c)
      PROVE  Good(State')
  BY <1>4, GrantedKeeps, AnsweredKeeps, RefusedKeeps
<1>5. ASSUME NEW c \in Callers, Aborted(c) \/ ShutDone(c) PROVE Good(State')
  BY <1>5, AbortedKeeps, ShutDoneKeeps
<1>6. ASSUME Move \/ Moved PROVE Good(State')
  BY <1>6, MoveKeeps, MovedKeeps
<1> QED
  BY <1>1, <1>2, <1>3, <1>4, <1>5, <1>6, Stuttering DEF Next

(* In every state the program reaches, the invariant holds of it.            *)
THEOREM Sound == Spec => []Good(State)
<1>1. Good(State) /\ [Next]_vars => Good(State)'
  BY Steps
<1> QED
  BY <1>1, Starting, PTL DEF Spec

(* Every variable has its type: a caller in line has a context, the counters *)
(* stay natural numbers, also after both are set to zero.                    *)
THEOREM WellTyped == Spec => []TypeOK
<1>1. Good(State) => TypeOK
  <2> SUFFICES ASSUME Good(State) PROVE TypeOK
    OBVIOUS
  <2>1. State \in States
    BY DEF Good, Inv
  <2> QED
    BY <2>1, StateFields DEF States, TypeOK
<1> QED
  BY <1>1, Sound, PTL

(* _ensure_connected: one caller connects at a time, connection_future is    *)
(* set exactly while one does, and whoever waits has somebody to wake it:    *)
(* also if the connector is cancelled, or fails in its first requests.       *)
THEOREM OneConnects == Spec => []OneConnector
<1>1. Good(State) => OneConnector
  <2> SUFFICES ASSUME Good(State) PROVE OneConnector
    OBVIOUS
  <2>1. Connects(State, {})
    BY DEF Good, Inv
  <2> QED
    BY <2>1, StateFields DEF Connects, OneConnector
<1> QED
  BY <1>1, Sound, PTL

(* EncryptionContext: the write counter is never behind what the accessory   *)
(* has seen, so no number is used twice, and the read counter is behind by   *)
(* no more than the answers nobody has read.                                 *)
THEOREM CountersStayInStep == Spec => []CountersMeet
<1>1. Good(State) => CountersMeet
  <2> SUFFICES ASSUME Good(State) PROVE CountersMeet
    OBVIOUS
  <2>1. Meets(State)
    BY DEF Good, Inv
  <2> QED
    BY <2>1, StateFields DEF Meets, MeetsAt, CountersMeet
<1> QED
  BY <1>1, Sound, PTL

(* do_pair_verify, post_bytes and reconnect_soon: a CoAP context that is     *)
(* open has an owner, or is one that a cancellation or a move has cut loose. *)
THEOREM ContextsKept == Spec => []NoContextLost
<1>1. Good(State) => NoContextLost
  <2> SUFFICES ASSUME Good(State) PROVE NoContextLost
    OBVIOUS
  <2>1. Lost(State, {})
    BY DEF Good, Inv
  <2> QED
    BY <2>1, StateFields DEF Lost, Connected, NoContextLost
<1> QED
  BY <1>1, Sound, PTL

(* After connect: on a connection where all is quiet and nothing has failed, *)
(* the accessory sends what the pairing believes it is subscribed to.        *)
THEOREM SubscriptionsKept == Spec => []Resubscribed
<1>1. Good(State) => Resubscribed
  <2> SUFFICES ASSUME Good(State), Connected(State),
                      session[enc].net = "open", ~session[enc].hurt,
                      \A c \in Callers : task[c].ctx # enc
               PROVE  subs = session[enc].subscribed
    BY DEF Resubscribed
  <2> DEFINE s == State
  <2>1. /\ s.enc = enc /\ s.session = session /\ s.task = task /\ s.subs = subs
        /\ s \in States /\ Live(s) /\ s.enc \in Contexts
    BY StateFields DEF Good, Inv, Live, Connected, States
  <2>2. ASSUME NEW i \in 1..Len(s.session[s.enc].line) PROVE FALSE
    <3>1. s.session[s.enc].line[i] \in Callers
      BY <2>1, InLine DEF Good
    <3>2. s.task[s.session[s.enc].line[i]].ctx = s.enc
      BY <2>1 DEF Good, Inv, Lines
    <3> QED
      BY <2>1, <3>1, <3>2
  <2>3. \A c \in Callers : ~Witness(s, c)
    BY <2>1 DEF Witness
  <2>4. Says(s, s.enc, s.subs)
    BY <2>1, <2>3 DEF Good, Agree
  <2> HIDE DEF s
  <2>5. s.session[s.enc].subscribed = s.subs
    BY <2>2, <2>4 DEF Says
  <2> QED
    BY <2>1, <2>5
<1> QED
  BY <1>1, Sound, PTL
=============================================================================
