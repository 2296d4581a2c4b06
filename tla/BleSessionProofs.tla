-------------------------- MODULE BleSessionProofs --------------------------
(***************************************************************************)
(* Theorems about BleSession, for any number of callers, characteristics,   *)
(* links and attempts.                                                      *)
(*                                                                          *)
(* The steps are functions of the state.  Between the moment the holder of  *)
(* the operation lock goes on and its next await the state is Base: all of  *)
(* the invariant that does not depend on where the holder stands.  There is *)
(* a lemma for each function, which says from which of those states it      *)
(* leads to a Good one, and one for each action.                            *)
(***************************************************************************)
EXTENDS BleSession, SequenceTheorems, TLAPS

Fields ==
  {"client", "key", "up", "owed", "pending", "broadcast", "notifications", "subs",
   "timer", "shutdown", "line", "kind", "pc", "attempt", "todo", "how", "target",
   "replied", "closer", "inflight", "sent", "late", "cut", "raised"}

Ends == {"ok", "raise", "retry", "missing"}

Typed(s) ==
  /\ DOMAIN s = Fields
  /\ s.client \in Links \cup {None} /\ s.key \in Links \cup {None}
  /\ s.up \in SUBSET Links /\ s.owed \in SUBSET Links /\ s.raised \in SUBSET Links
  /\ s.pending \in BOOLEAN /\ s.timer \in BOOLEAN /\ s.shutdown \in BOOLEAN
  /\ s.broadcast \in SUBSET Chars /\ s.notifications \in SUBSET Chars
  /\ s.subs \in SUBSET Chars /\ s.sent \in SUBSET Chars /\ s.todo \in SUBSET Chars
  /\ s.line \in Seq(Tasks) /\ s.kind \in [Tasks -> Kinds]
  /\ s.pc \in Counters /\ s.how \in Ends
  /\ s.attempt \in [Tasks -> 0..MaxAttempts] /\ s.target \in Links \cup {None}
  /\ s.replied \in BOOLEAN /\ s.closer \in {"idle", "lock", "disconnect"}
  /\ s.inflight \in BOOLEAN /\ s.late \in BOOLEAN /\ s.cut \in BOOLEAN

(* Operations that connect, and restore the subscriptions in the end.        *)
Ops == {"get", "op", "subscriber"}

Once(q) == \A i, j \in 1..Len(q) : q[i] = q[j] => i = j

(* Who is in line has something to do, and tries left; and the reverse.      *)
Lined(s) == \A t \in Tasks : s.kind[t] # "none" => \E i \in 1..Len(s.line) : s.line[i] = t
Queue(s) ==
  /\ Once(s.line)
  /\ \A i \in 1..Len(s.line) : s.kind[s.line[i]] # "none"
  /\ \A i \in 2..Len(s.line) : s.attempt[s.line[i]] < MaxAttempts
  /\ \A t \in Tasks : s.kind[t] = "none" => s.attempt[t] = 0
  /\ \A t \in Tasks : s.kind[t] = "subscriber" => t = Subscriber
  /\ s.kind[Subscriber] \in {"none", "subscriber"}
  /\ Lined(s)

Linked(s) == s.up \cap s.owed = {} /\ s.up \subseteq {s.client} \cup s.raised

Final(s) == s.shutdown /\ s.closer = "idle" /\ ~s.cut => ~Up(s)

Clean(s) == Up(s) /\ s.key = s.client /\ s.inflight => s.cut

(* A link without keys has its subscriptions still to be restored.           *)
Renewed(s) == Up(s) /\ ~s.late /\ s.key = None => s.pending

(* The connection can be used, and nothing strange has happened to it.       *)
Useful(s) ==
  /\ Up(s) /\ s.key = s.client /\ ~s.shutdown /\ ~s.late /\ s.client \notin s.raised

Enabled(s) == s.subs \subseteq s.broadcast

Covered(s) == Useful(s) /\ ~s.pending => Enabled(s) \/ s.kind[Subscriber] # "none"

(* The holder's requests go out under some keys.                             *)
Keyed(s) == s.kind[Head(s.line)] \in Ops /\ Up(s) => s.key # None \/ s.late

Calm(s) == Linked(s) /\ Final(s) /\ Renewed(s) /\ Covered(s)

Waits == {"rkey", "rsub", "rgsn"}

(* Where the holder stands.                                                  *)
At(s) ==
  /\ s.pc # "idle" => s.line # <<>>
  /\ s.pc \in {"idle", "backoff"} /\ s.line # <<>> => s.attempt[Head(s.line)] < MaxAttempts
  /\ s.pc = "connect" =>
       ~Up(s) /\ s.closer # "disconnect" /\ (s.shutdown /\ s.closer = "idle" => s.cut)
  /\ s.pc = "verify" => s.key = None /\ s.target \in Links
  /\ s.pc = "notify" => Head(s.line) # Subscriber /\ s.todo # {}
  /\ s.pc = "rsub" => s.todo # {}
  /\ s.pc = "closelock" => s.kind[Head(s.line)] \notin Ops
  /\ Clean(s) \/ s.pc \in Encrypted \cup {"closing"}
  /\ s.pc \in Encrypted \cup {"closing"} => Keyed(s)
  /\ s.pc = "work" /\ Head(s.line) = Subscriber =>
       s.todo # {} /\ (Useful(s) => s.subs \subseteq s.broadcast \cup s.todo)
  /\ s.pc \in Waits /\ Head(s.line) = Subscriber /\ Useful(s) =>
       Enabled(s) \/ s.how = "missing"
  /\ s.pc = "rsub" /\ Useful(s) =>
       s.subs \subseteq s.broadcast \cup s.todo \/ s.kind[Subscriber] # "none"

Good(s) == Typed(s) /\ Queue(s) /\ Calm(s) /\ At(s)

Base(s) == Typed(s) /\ Queue(s) /\ Calm(s) /\ Clean(s) /\ s.line # <<>>

(* The subscriber has done its work, or what is missing ends its session.    *)
Done(s) == Head(s.line) = Subscriber /\ Useful(s) => Enabled(s)
Almost(s) == Head(s.line) = Subscriber /\ Useful(s) => Enabled(s) \/ s.how = "missing"

(* t is s, but for the holder's own affairs.                                 *)
Apart(s, t) ==
  /\ t.client = s.client /\ t.key = s.key /\ t.up = s.up /\ t.owed = s.owed
  /\ t.broadcast = s.broadcast /\ t.notifications = s.notifications /\ t.subs = s.subs
  /\ t.timer = s.timer /\ t.shutdown = s.shutdown /\ t.closer = s.closer
  /\ t.sent = s.sent /\ t.late = s.late /\ t.cut = s.cut /\ t.raised = s.raised

Steady(s, t) ==
  /\ Apart(s, t) /\ t.line = s.line /\ t.kind = s.kind /\ t.attempt = s.attempt

LEMMA Apartly ==
  ASSUME NEW s, NEW t, Apart(s, t)
  PROVE  /\ Up(t) <=> Up(s)
         /\ Useful(t) <=> Useful(s)
         /\ Enabled(t) <=> Enabled(s)
         /\ Linked(s) => Linked(t)
         /\ Final(s) => Final(t)
         /\ Renewed(s) /\ (s.pending => t.pending) => Renewed(t)
<1>1. Up(t) <=> Up(s)
  BY DEF Apart, Up
<1>2. Useful(t) <=> Useful(s)
  BY <1>1 DEF Apart, Useful
<1> QED
  BY <1>1, <1>2 DEF Apart, Enabled, Linked, Final, Renewed

(* Nothing but what it does and how far it has come.                         *)
LEMMA Steadily ==
  ASSUME NEW s, NEW t, Steady(s, t), Typed(t), t.pending = s.pending,
         Typed(s), Queue(s), Calm(s), s.line # <<>>
  PROVE  /\ Queue(t) /\ Calm(t) /\ t.line # <<>>
         /\ Up(t) <=> Up(s)
         /\ Useful(t) <=> Useful(s)
         /\ Enabled(t) <=> Enabled(s)
         /\ Keyed(s) => Keyed(t)
         /\ Clean(s) /\ t.inflight = s.inflight => Clean(t)
<1>1. Apart(s, t) /\ t.line = s.line /\ t.kind = s.kind /\ t.attempt = s.attempt
  BY DEF Steady
<1>2. /\ Up(t) <=> Up(s)
      /\ Useful(t) <=> Useful(s)
      /\ Enabled(t) <=> Enabled(s)
      /\ Linked(t) /\ Final(t) /\ Renewed(t)
  BY <1>1, Apartly DEF Calm
<1>3. Queue(t)
  BY <1>1 DEF Queue, Lined
<1>4. Covered(t)
  BY <1>1, <1>2 DEF Calm, Covered
<1>5. Keyed(s) => Keyed(t)
  BY <1>1, <1>2 DEF Keyed, Apart
<1>6. Clean(s) /\ t.inflight = s.inflight => Clean(t)
  BY <1>1, <1>2 DEF Clean, Apart
<1> QED
  BY <1>1, <1>2, <1>3, <1>4, <1>5, <1>6 DEF Calm

(* The first in line.                                                        *)
LEMMA First ==
  ASSUME NEW s, Typed(s), Queue(s), s.line # <<>>
  PROVE  /\ Head(s.line) \in Tasks /\ Head(s.line) = s.line[1] /\ 1 \in 1..Len(s.line)
         /\ s.kind[Head(s.line)] \in Kinds \ {"none"}
         /\ s.attempt[Head(s.line)] \in 0..MaxAttempts
         /\ Head(s.line) = Subscriber <=> s.kind[Head(s.line)] = "subscriber"
<1>1. Head(s.line) \in Tasks /\ Head(s.line) = s.line[1] /\ 1 \in 1..Len(s.line)
  BY DEF Typed
<1>2. s.kind[Head(s.line)] # "none"
  BY <1>1 DEF Queue
<1> QED
  BY <1>1, <1>2 DEF Typed, Queue

-----------------------------------------------------------------------------
(* The end of an operation.                                                  *)

LEMMA ReleaseFields ==
  ASSUME NEW s, Typed(s), s.line # <<>>
  PROVE  LET t == Release(s)
         IN  /\ Typed(t) /\ Apart(s, t) /\ t.line = Tail(s.line) /\ t.kind = s.kind
             /\ t.attempt = s.attempt /\ t.pc = "idle" /\ t.pending = s.pending
             /\ t.inflight = s.inflight
<1> DEFINE t == Release(s)
<1>1. /\ DOMAIN t = Fields /\ Apart(s, t) /\ t.line = Tail(s.line) /\ t.kind = s.kind
      /\ t.attempt = s.attempt /\ t.pc = "idle" /\ t.pending = s.pending
      /\ t.inflight = s.inflight
      /\ t.todo = {} /\ t.how = "ok" /\ t.target = None /\ t.replied = FALSE
  BY DEF Typed, Release, Fields, Apart
<1> HIDE DEF t
<1>2. Tail(s.line) \in Seq(Tasks)
  BY DEF Typed
<1>3. Typed(t)
  BY <1>1, <1>2 DEF Typed, Apart, Counters, Ends
<1> QED
  BY <1>1, <1>3 DEF t

(* The rest of the line.                                                     *)
LEMMA RestOfLine ==
  ASSUME NEW q \in Seq(Tasks), q # <<>>, Once(q)
  PROVE  /\ Tail(q) \in Seq(Tasks) /\ Len(Tail(q)) = Len(q) - 1 /\ Once(Tail(q))
         /\ \A i \in 1..Len(Tail(q)) : Tail(q)[i] = q[i + 1] /\ i + 1 \in 2..Len(q)
                                       /\ Tail(q)[i] # Head(q)
<1>1. /\ Tail(q) \in Seq(Tasks) /\ Len(Tail(q)) = Len(q) - 1 /\ Len(q) \in Nat
      /\ \A i \in 1..Len(Tail(q)) : Tail(q)[i] = q[i + 1]
  OBVIOUS
<1>2. \A i \in 1..Len(Tail(q)) : i + 1 \in 2..Len(q)
  BY <1>1
<1>3. Once(Tail(q))
  BY <1>1, <1>2 DEF Once
<1>4. \A i \in 1..Len(Tail(q)) : Tail(q)[i] # Head(q)
  BY <1>1, <1>2 DEF Once
<1> QED
  BY <1>1, <1>2, <1>3, <1>4

(* Nobody has the lock.                                                      *)
LEMMA Idle ==
  ASSUME NEW t, Typed(t), Queue(t), Calm(t), Clean(t), t.pc = "idle",
         t.line # <<>> => t.attempt[t.line[1]] < MaxAttempts
  PROVE  Good(t)
<1>1. t.line # <<>> => Head(t.line) = t.line[1]
  BY DEF Typed
<1>2. At(t)
  BY <1>1 DEF At, Encrypted, Waits
<1> QED
  BY <1>2 DEF Good

LEMMA EndKeeps ==
  ASSUME NEW s, Base(s), Done(s)
  PROVE  Good(End(s))
<1> DEFINE r == Release(s)
           t == End(s)
           h == Head(s.line)
<1>1. Typed(s) /\ Queue(s) /\ Calm(s) /\ Clean(s) /\ s.line # <<>> /\ s.line \in Seq(Tasks)
  BY DEF Base, Typed
<1>2. /\ Typed(r) /\ Apart(s, r) /\ r.line = Tail(s.line) /\ r.kind = s.kind
      /\ r.attempt = s.attempt /\ r.pc = "idle" /\ r.pending = s.pending
      /\ r.inflight = s.inflight
  BY <1>1, ReleaseFields
<1>3. h \in Tasks
  BY <1>1, First
<1> HIDE DEF r, h
<1>4. t = [r EXCEPT !.kind[h] = "none", !.attempt[h] = 0]
  BY DEF End, r, h
<1>5. /\ DOMAIN t = Fields /\ Apart(r, t) /\ t.line = r.line /\ t.pc = r.pc
      /\ t.pending = r.pending /\ t.inflight = r.inflight /\ t.todo = r.todo
      /\ t.how = r.how /\ t.target = r.target /\ t.replied = r.replied
      /\ t.kind = [r.kind EXCEPT ![h] = "none"] /\ t.attempt = [r.attempt EXCEPT ![h] = 0]
  BY <1>2, <1>4 DEF Typed, Fields, Apart
<1> HIDE DEF t
<1>6. /\ t.kind \in [Tasks -> Kinds] /\ t.attempt \in [Tasks -> 0..MaxAttempts]
      /\ t.kind[h] = "none" /\ t.attempt[h] = 0
      /\ \A x \in Tasks \ {h} : t.kind[x] = s.kind[x] /\ t.attempt[x] = s.attempt[x]
  BY <1>2, <1>3, <1>5, AttemptsAssumption DEF Typed, Kinds
<1>7. /\ Apart(s, t) /\ t.line = Tail(s.line) /\ t.pc = "idle"
      /\ t.pending = s.pending /\ t.inflight = s.inflight
  BY <1>2, <1>5 DEF Apart
<1>8. Typed(t)
  BY <1>2, <1>5, <1>6 DEF Typed, Apart
<1>9. /\ Len(t.line) = Len(s.line) - 1 /\ Once(t.line)
      /\ \A i \in 1..Len(t.line) : t.line[i] = s.line[i + 1] /\ i + 1 \in 2..Len(s.line)
                                   /\ t.line[i] # h
  BY <1>1, <1>7, RestOfLine DEF Queue, h
<1>10. \A i \in 1..Len(t.line) : t.line[i] \in Tasks \ {h}
  BY <1>8, <1>9 DEF Typed
<1>16. ASSUME NEW i \in 1..Len(t.line)
       PROVE  t.kind[t.line[i]] # "none" /\ t.attempt[t.line[i]] < MaxAttempts
  <2>1. t.line[i] \in Tasks \ {h} /\ t.line[i] = s.line[i + 1] /\ i + 1 \in 2..Len(s.line)
    BY <1>9, <1>10
  <2>2. t.kind[t.line[i]] = s.kind[t.line[i]] /\ t.attempt[t.line[i]] = s.attempt[t.line[i]]
    BY <1>6, <2>1
  <2>3. \A j \in 2..Len(s.line) : j \in 1..Len(s.line)
    OBVIOUS
  <2>4. s.kind[s.line[i + 1]] # "none" /\ s.attempt[s.line[i + 1]] < MaxAttempts
    BY <1>1, <2>1, <2>3 DEF Queue
  <2> QED
    BY <2>1, <2>2, <2>4
<1>11. Queue(t)
  <2>1. \A i \in 1..Len(t.line) : t.kind[t.line[i]] # "none" /\ t.attempt[t.line[i]] < MaxAttempts
    BY <1>16
  <2>2. \A x \in Tasks : /\ t.kind[x] = "none" => t.attempt[x] = 0
                         /\ t.kind[x] = "subscriber" => x = Subscriber
    BY <1>1, <1>6 DEF Queue
  <2>3. t.kind[Subscriber] \in {"none", "subscriber"}
    BY <1>1, <1>6 DEF Queue, Tasks
  <2>4. ASSUME NEW x \in Tasks, t.kind[x] # "none"
        PROVE  \E i \in 1..Len(t.line) : t.line[i] = x
    <3>1. x # h /\ s.kind[x] # "none"
      BY <1>6, <2>4
    <3>2. PICK j \in 1..Len(s.line) : s.line[j] = x
      BY <1>1, <3>1 DEF Queue, Lined
    <3>3. s.line[1] = h
      BY <1>1 DEF h
    <3>4. j # 1 /\ Len(s.line) \in Nat
      BY <1>1, <3>1, <3>2, <3>3
    <3>5. j - 1 \in 1..Len(t.line) /\ (j - 1) + 1 = j
      BY <1>9, <3>4
    <3> QED
      BY <1>9, <3>2, <3>5
  <2> QED
    BY <1>9, <2>1, <2>2, <2>3, <2>4 DEF Queue, Lined
<1>12. Calm(t)
  <2>1. Linked(t) /\ Final(t) /\ Renewed(t) /\ (Useful(t) <=> Useful(s))
        /\ (Enabled(t) <=> Enabled(s))
    BY <1>1, <1>7, Apartly DEF Calm
  <2>2. Covered(t)
    <3>1. CASE h = Subscriber
      BY <2>1, <3>1 DEF Done, Covered, h
    <3>2. CASE h # Subscriber
      BY <1>1, <1>6, <1>7, <2>1, <3>2 DEF Calm, Covered, Tasks
    <3> QED
      BY <3>1, <3>2
  <2> QED
    BY <2>1, <2>2 DEF Calm
<1>13. Clean(t)
  BY <1>1, <1>7, Apartly DEF Clean, Apart
<1>14. t.line # <<>> => t.attempt[t.line[1]] < MaxAttempts
  <2>1. t.line # <<>> => 1 \in 1..Len(t.line)
    BY <1>8 DEF Typed
  <2>2. \A i \in 1..Len(t.line) : t.attempt[t.line[i]] < MaxAttempts
    BY <1>16
  <2> QED
    BY <2>1, <2>2
<1>15. Good(t)
  BY <1>7, <1>8, <1>11, <1>12, <1>13, <1>14, Idle
<1> QED
  BY <1>15 DEF t

(* Another lines up.                                                         *)
LEMMA Appended ==
  ASSUME NEW q \in Seq(Tasks), NEW h \in Tasks, Once(q), \A i \in 1..Len(q) : q[i] # h
  PROVE  LET r == Append(q, h)
         IN  /\ r \in Seq(Tasks) /\ Once(r) /\ r # <<>> /\ Len(r) = Len(q) + 1
             /\ \A i \in 1..Len(r) : IF i \in 1..Len(q) THEN r[i] = q[i] ELSE r[i] = h
             /\ q = <<>> => r[1] = h
             /\ q # <<>> => r[1] = q[1] /\ 1 \in 1..Len(q)
<1> DEFINE r == Append(q, h)
<1>1. /\ r \in Seq(Tasks) /\ Len(r) = Len(q) + 1 /\ Len(q) \in Nat
      /\ \A i \in 1..Len(q) : r[i] = q[i]
      /\ r[Len(q) + 1] = h
  OBVIOUS
<1> HIDE DEF r
<1>2. ASSUME NEW i \in 1..Len(r)
      PROVE  IF i \in 1..Len(q) THEN r[i] = q[i] ELSE r[i] = h /\ i = Len(q) + 1
  BY <1>1
<1>3. Once(r)
  BY <1>1, <1>2 DEF Once
<1>4. /\ q = <<>> => r[1] = h
      /\ q # <<>> => r[1] = q[1] /\ 1 \in 1..Len(q)
  BY <1>1
<1>5. r # <<>>
  BY <1>1
<1> QED
  BY <1>1, <1>2, <1>3, <1>4, <1>5 DEF r

LEMMA RetryKeeps ==
  ASSUME NEW s, Base(s), Done(s)
  PROVE  Good(Retry(s))
<1> DEFINE h == Head(s.line)
<1>1. Typed(s) /\ Queue(s) /\ Calm(s) /\ Clean(s) /\ s.line # <<>> /\ s.line \in Seq(Tasks)
  BY DEF Base, Typed
<1>2. h \in Tasks /\ h = s.line[1] /\ s.attempt[h] \in 0..MaxAttempts /\ 1 \in 1..Len(s.line)
      /\ s.kind[h] # "none"
  BY <1>1, First
<1>3. CASE s.attempt[h] >= MaxAttempts
  BY <1>3, EndKeeps DEF Retry
<1>4. CASE s.attempt[h] < MaxAttempts /\ s.kind[h] = "get"
  <2> DEFINE r == Release(s)
             t == [r EXCEPT !.line = Append(r.line, h)]
  <2>1. /\ Typed(r) /\ Apart(s, r) /\ r.line = Tail(s.line) /\ r.kind = s.kind
        /\ r.attempt = s.attempt /\ r.pc = "idle" /\ r.pending = s.pending
        /\ r.inflight = s.inflight
    BY <1>1, ReleaseFields
  <2>2. Retry(s) = t
    BY <1>2, <1>4, AttemptsAssumption DEF Retry
  <2> HIDE DEF r
  <2>3. /\ Len(r.line) = Len(s.line) - 1 /\ Once(r.line) /\ r.line \in Seq(Tasks)
        /\ \A i \in 1..Len(r.line) : r.line[i] = s.line[i + 1] /\ i + 1 \in 2..Len(s.line)
                                     /\ r.line[i] # h
    BY <1>1, <2>1, RestOfLine DEF Queue
  <2> HIDE DEF h
  <2> DEFINE q == Append(r.line, h)
  <2>4. /\ q \in Seq(Tasks) /\ Once(q) /\ q # <<>> /\ Len(q) = Len(r.line) + 1
        /\ \A i \in 1..Len(q) : IF i \in 1..Len(r.line) THEN q[i] = r.line[i] ELSE q[i] = h
        /\ r.line = <<>> => q[1] = h
        /\ r.line # <<>> => q[1] = r.line[1] /\ 1 \in 1..Len(r.line)
    BY <1>2, <2>3, Appended
  <2> HIDE DEF q
  <2>5. t = [r EXCEPT !.line = q]
    BY DEF q
  <2>6. Typed(t) /\ t.line = q
        /\ Apart(s, t) /\ t.kind = s.kind /\ t.attempt = s.attempt /\ t.pc = "idle"
        /\ t.pending = s.pending /\ t.inflight = s.inflight
    BY <2>1, <2>4, <2>5 DEF Typed, Fields, Apart, Steady
  <2> HIDE DEF t
  <2>7. ASSUME NEW i \in 1..Len(r.line)
        PROVE  s.kind[r.line[i]] # "none" /\ s.attempt[r.line[i]] < MaxAttempts
    <3>1. r.line[i] = s.line[i + 1] /\ i + 1 \in 2..Len(s.line)
      BY <2>3
    <3>2. \A j \in 2..Len(s.line) : j \in 1..Len(s.line)
      OBVIOUS
    <3> QED
      BY <1>1, <3>1, <3>2 DEF Queue
  <2>8. \A i \in 1..Len(q) : s.kind[q[i]] # "none" /\ s.attempt[q[i]] < MaxAttempts
    BY <1>2, <1>4, <2>4, <2>7
  <2>9. Queue(t)
    <3>1. \A i \in 2..Len(q) : i \in 1..Len(q)
      BY <2>4
    <3>2. ASSUME NEW x \in Tasks, s.kind[x] # "none" PROVE \E i \in 1..Len(q) : q[i] = x
      <4>1. PICK j \in 1..Len(s.line) : s.line[j] = x
        BY <1>1, <3>2 DEF Queue, Lined
      <4>2. CASE j = 1
        <5>1. Len(r.line) + 1 \in 1..Len(q) /\ Len(r.line) + 1 \notin 1..Len(r.line)
          BY <2>3, <2>4
        <5> QED
          BY <1>2, <2>4, <4>1, <4>2, <5>1
      <4>3. CASE j # 1
        <5>1. j - 1 \in 1..Len(r.line) /\ (j - 1) + 1 = j /\ j - 1 \in 1..Len(q)
          BY <1>1, <2>3, <2>4, <4>3
        <5> QED
          BY <2>3, <2>4, <4>1, <5>1
      <4> QED
        BY <4>2, <4>3
    <3> QED
      BY <1>1, <2>4, <2>6, <2>8, <3>1, <3>2 DEF Queue, Lined
  <2>10. Calm(t) /\ Clean(t)
    BY <1>1, <2>6, Apartly DEF Calm, Clean, Covered, Apart
  <2>11. q # <<>> => 1 \in 1..Len(q)
    BY <2>4
  <2>12. Good(t)
    BY <2>6, <2>8, <2>9, <2>10, <2>11, Idle
  <2> QED
    BY <2>2, <2>12
<1>5. CASE s.attempt[h] < MaxAttempts /\ s.kind[h] # "get"
  <2> DEFINE t == [s EXCEPT !.pc = "backoff", !.todo = {}]
  <2>1. Retry(s) = t
    BY <1>2, <1>5, AttemptsAssumption DEF Retry
  <2>2. Typed(t) /\ Steady(s, t) /\ t.pc = "backoff" /\ t.pending = s.pending
        /\ t.inflight = s.inflight
    BY <1>1 DEF Typed, Fields, Steady, Apart, Counters
  <2> HIDE DEF t
  <2>3. Queue(t) /\ Calm(t) /\ Clean(t) /\ t.line # <<>>
    BY <1>1, <2>2, Steadily
  <2>4. At(t)
    BY <1>5, <2>2, <2>3 DEF At, Encrypted, Waits, Steady
  <2> QED
    BY <2>1, <2>2, <2>3, <2>4 DEF Good
<1>6. s.attempt[h] >= MaxAttempts \/ s.attempt[h] < MaxAttempts
  BY <1>2, AttemptsAssumption
<1> QED
  BY <1>3, <1>4, <1>5, <1>6

LEMMA FinishKeeps ==
  ASSUME NEW s, Base(s), Almost(s)
  PROVE  Good(Finish(s))
<1>1. Typed(s) /\ Queue(s) /\ Calm(s) /\ Clean(s) /\ s.line # <<>>
  BY DEF Base
<1>2. CASE s.how = "missing" /\ s.client # None
  <2> DEFINE t == [s EXCEPT !.pc = "missing", !.todo = {}]
  <2>1. Finish(s) = t
    BY <1>2 DEF Finish
  <2>2. Typed(t) /\ Steady(s, t) /\ t.pc = "missing" /\ t.pending = s.pending
        /\ t.inflight = s.inflight
    BY <1>1 DEF Typed, Fields, Steady, Apart, Counters
  <2> HIDE DEF t
  <2>3. Queue(t) /\ Calm(t) /\ Clean(t) /\ t.line # <<>>
    BY <1>1, <2>2, Steadily
  <2>4. At(t)
    BY <2>2, <2>3 DEF At, Encrypted, Waits
  <2> QED
    BY <2>1, <2>2, <2>3, <2>4 DEF Good
<1>3. CASE s.how = "missing" /\ s.client = None
  <2>1. ~Up(s)
    BY <1>1, <1>3, LinksAssumption DEF Typed, Up
  <2>2. Done(s)
    BY <2>1 DEF Done, Useful
  <2> QED
    BY <1>3, <2>2, RetryKeeps DEF Finish
<1>4. CASE s.how # "missing"
  <2>1. Done(s)
    BY <1>4 DEF Almost, Done
  <2>2. Finish(s) = Retry(s) \/ Finish(s) = End(s)
    BY <1>4 DEF Finish
  <2> QED
    BY <2>1, <2>2, RetryKeeps, EndKeeps
<1> QED
  BY <1>2, <1>3, <1>4

-----------------------------------------------------------------------------
(* The holder goes on.                                                       *)

LEMMA RaiseFields ==
  ASSUME NEW s, NEW h \in Ends, Typed(s)
  PROVE  LET t == Raise(s, h)
         IN  /\ Typed(t) /\ Steady(s, t) /\ t.pending = s.pending /\ t.inflight = s.inflight
             /\ t.how = h /\ t.todo = {} /\ t.pc = s.pc /\ t.target = s.target
             /\ t.replied = s.replied
  BY DEF Typed, Fields, Raise, Steady, Apart

LEMMA RequestKeeps ==
  ASSUME NEW s, NEW at \in Encrypted, Typed(s), Queue(s), Calm(s), s.line # <<>>, Keyed(s),
         at = "work" /\ Head(s.line) = Subscriber =>
           s.todo # {} /\ (Useful(s) => s.subs \subseteq s.broadcast \cup s.todo),
         at # "work" => Almost(s), at = "rsub" => s.todo # {},
         at = "rsub" /\ Useful(s) =>
           s.subs \subseteq s.broadcast \cup s.todo \/ s.kind[Subscriber] # "none"
  PROVE  Good(Request(s, at))
<1> DEFINE t == Request(s, at)
<1>1. /\ Typed(t) /\ Steady(s, t) /\ t.pc = at /\ t.pending = s.pending /\ t.todo = s.todo
      /\ t.how = s.how
  BY DEF Typed, Fields, Steady, Apart, Counters, Request
<1> HIDE DEF t
<1>2. /\ Queue(t) /\ Calm(t) /\ t.line # <<>> /\ (Useful(t) <=> Useful(s)) /\ Keyed(t)
      /\ (Enabled(t) <=> Enabled(s))
  BY <1>1, Steadily
<1>3. t.line = s.line /\ t.subs = s.subs /\ t.broadcast = s.broadcast /\ t.kind = s.kind
  BY <1>1 DEF Steady, Apart
<1>4. At(t)
  BY <1>1, <1>2, <1>3 DEF At, Encrypted, Waits, Almost
<1> QED
  BY <1>1, <1>2, <1>4 DEF Good, t

LEMMA RestoreKeeps ==
  ASSUME NEW s, Base(s), Almost(s), Up(s) => s.key # None \/ s.late
  PROVE  Good(Restore(s))
<1>1. Typed(s) /\ Queue(s) /\ Calm(s) /\ Clean(s) /\ s.line # <<>>
  BY DEF Base
<1>2. CASE s.shutdown \/ ~s.pending \/ ~Up(s)
  BY <1>2, FinishKeeps DEF Restore
<1>3. CASE ~(s.shutdown \/ ~s.pending \/ ~Up(s)) /\ s.subs = {}
  <2> DEFINE t == [s EXCEPT !.pending = FALSE]
  <2>1. Restore(s) = Finish(t)
    BY <1>3 DEF Restore
  <2>2. Typed(t) /\ Steady(s, t) /\ ~t.pending /\ t.inflight = s.inflight /\ t.how = s.how
    BY <1>1 DEF Typed, Fields, Steady, Apart
  <2> HIDE DEF t
  <2>3. Apart(s, t) /\ t.line = s.line /\ t.kind = s.kind /\ t.attempt = s.attempt /\ t.subs = {}
    BY <1>3, <2>2 DEF Steady, Apart
  <2>4. Linked(t) /\ Final(t) /\ (Useful(t) <=> Useful(s)) /\ (Up(t) <=> Up(s)) /\ Enabled(t)
    BY <1>1, <2>3, Apartly DEF Calm, Enabled
  <2>5. Renewed(t) /\ Covered(t) /\ Clean(t) /\ Almost(t)
    BY <1>1, <2>2, <2>3, <2>4 DEF Renewed, Covered, Clean, Apart, Almost
  <2>6. Queue(t)
    BY <1>1, <2>3 DEF Queue, Lined
  <2>7. Base(t)
    BY <1>1, <2>2, <2>3, <2>4, <2>5, <2>6 DEF Base, Calm
  <2> QED
    BY <2>1, <2>5, <2>7, FinishKeeps
<1>4. CASE ~(s.shutdown \/ ~s.pending \/ ~Up(s)) /\ s.subs # {}
  <2>1. Restore(s) = Request(s, "rkey")
    BY <1>4 DEF Restore
  <2>2. Keyed(s)
    BY DEF Keyed
  <2> QED
    BY <1>1, <2>1, <2>2, RequestKeeps DEF Encrypted
<1> QED
  BY <1>2, <1>3, <1>4

(* Without a link nothing is left to be done.                                *)
LEMMA LinkGone ==
  ASSUME NEW s, ~Up(s)
  PROVE  Almost(s) /\ Done(s) /\ Keyed(s) /\ Clean(s) /\ ~Useful(s)
  BY DEF Almost, Done, Keyed, Clean, Useful

LEMMA RaiseBase ==
  ASSUME NEW s, NEW h \in Ends, Base(s)
  PROVE  LET t == Raise(s, h)
         IN  /\ Base(t) /\ t.line = s.line /\ t.kind = s.kind /\ t.key = s.key
             /\ t.late = s.late /\ t.client = s.client /\ t.how = h
             /\ Up(t) <=> Up(s)
             /\ Useful(t) <=> Useful(s)
             /\ Keyed(s) => Keyed(t)
<1> DEFINE t == Raise(s, h)
<1>1. Typed(s) /\ Queue(s) /\ Calm(s) /\ Clean(s) /\ s.line # <<>>
  BY DEF Base
<1>2. /\ Typed(t) /\ Steady(s, t) /\ t.pending = s.pending /\ t.inflight = s.inflight
      /\ t.how = h
  BY <1>1, RaiseFields
<1> HIDE DEF t
<1>3. /\ Queue(t) /\ Calm(t) /\ t.line # <<>> /\ (Useful(t) <=> Useful(s)) /\ Clean(t)
      /\ (Keyed(s) => Keyed(t)) /\ (Up(t) <=> Up(s))
  BY <1>1, <1>2, Steadily
<1> QED
  BY <1>2, <1>3 DEF Base, Steady, Apart, t

LEMMA FailsDown ==
  ASSUME NEW s, Base(s), ~Up(s), NEW h \in Ends
  PROVE  Good(Finish(Raise(s, h)))
<1>1. Base(Raise(s, h)) /\ ~Up(Raise(s, h))
  BY RaiseBase
<1> QED
  BY <1>1, LinkGone, FinishKeeps

LEMMA RestoreNextKeeps ==
  ASSUME NEW s, Base(s), Almost(s), Up(s) => s.key # None \/ s.late,
         Useful(s) => s.subs \subseteq s.broadcast \cup s.todo \/ s.kind[Subscriber] # "none"
  PROVE  Good(RestoreNext(s))
<1>1. Typed(s) /\ Queue(s) /\ Calm(s) /\ Clean(s) /\ s.line # <<>> /\ Keyed(s)
  BY DEF Base, Keyed
<1>2. CASE ~Up(s)
  BY <1>2, FailsDown DEF RestoreNext, Ends
<1>3. CASE Up(s) /\ s.todo # {}
  <2>1. RestoreNext(s) = Request(s, "rsub")
    BY <1>3 DEF RestoreNext
  <2> QED
    BY <1>1, <1>3, <2>1, RequestKeeps DEF Encrypted
<1>4. CASE Up(s) /\ s.todo = {}
  <2> DEFINE t == [s EXCEPT !.pending = FALSE]
  <2>1. RestoreNext(s) = Request(t, "rgsn")
    BY <1>4 DEF RestoreNext
  <2>2. /\ Typed(t) /\ Steady(s, t) /\ ~t.pending /\ t.inflight = s.inflight
        /\ t.how = s.how /\ t.todo = {}
    BY <1>1, <1>4 DEF Typed, Fields, Steady, Apart
  <2> HIDE DEF t
  <2>3. Apart(s, t) /\ t.line = s.line /\ t.kind = s.kind /\ t.attempt = s.attempt
    BY <2>2 DEF Steady
  <2>4. /\ Linked(t) /\ Final(t) /\ (Useful(t) <=> Useful(s)) /\ (Up(t) <=> Up(s))
        /\ (Enabled(t) <=> Enabled(s))
    BY <1>1, <2>3, Apartly DEF Calm
  <2>5. Useful(s) => Enabled(s) \/ s.kind[Subscriber] # "none"
    BY <1>4 DEF Enabled
  <2>6. Renewed(t) /\ Covered(t) /\ Almost(t) /\ Keyed(t)
    BY <1>1, <1>4, <2>2, <2>3, <2>4, <2>5 DEF Renewed, Covered, Almost, Keyed, Apart
  <2>7. Queue(t) /\ t.line # <<>>
    BY <1>1, <2>3 DEF Queue, Lined
  <2> QED
    BY <2>1, <2>2, <2>4, <2>6, <2>7, RequestKeeps DEF Encrypted, Calm
<1> QED
  BY <1>2, <1>3, <1>4

LEMMA ResumeKeeps ==
  ASSUME NEW s, Base(s), Almost(s), Keyed(s)
  PROVE  Good(Resume(s))
<1>1. CASE s.kind[Head(s.line)] \in Ops
  BY <1>1, RestoreKeeps DEF Resume, Ops, Keyed
<1>2. CASE s.kind[Head(s.line)] \notin Ops
  BY <1>2, FinishKeeps DEF Resume, Ops
<1> QED
  BY <1>1, <1>2

LEMMA WorkKeeps ==
  ASSUME NEW s, Base(s), Keyed(s)
  PROVE  Good(Work(s))
<1>1. Typed(s) /\ Queue(s) /\ Calm(s) /\ Clean(s) /\ s.line # <<>>
  BY DEF Base
<1>2. /\ Head(s.line) = Subscriber <=> s.kind[Head(s.line)] = "subscriber"
  BY <1>1, First
<1> DEFINE new == s.subs \ s.broadcast
<1>3. CASE ~Up(s) /\ (s.kind[Head(s.line)] = "subscriber" => new # {})
  <2>1. Work(s) = Resume(Raise(s, "raise"))
    BY <1>3 DEF Work
  <2>2. Base(Raise(s, "raise")) /\ ~Up(Raise(s, "raise"))
    BY <1>3, RaiseBase DEF Ends
  <2> QED
    BY <2>1, <2>2, LinkGone, ResumeKeeps
<1>4. CASE s.kind[Head(s.line)] = "subscriber" /\ new = {}
  <2>1. Work(s) = Resume(s)
    BY <1>4 DEF Work
  <2>2. Almost(s)
    BY <1>4 DEF Almost, Enabled
  <2> QED
    BY <2>1, <2>2, ResumeKeeps
<1>5. CASE s.kind[Head(s.line)] = "subscriber" /\ new # {} /\ Up(s)
  <2> DEFINE t == [s EXCEPT !.todo = new]
  <2>1. Work(s) = Request(t, "work")
    BY <1>5 DEF Work
  <2>2. /\ Typed(t) /\ Steady(s, t) /\ t.pending = s.pending /\ t.inflight = s.inflight
        /\ t.todo = new
    BY <1>1 DEF Typed, Fields, Steady, Apart
  <2> HIDE DEF t
  <2>3. Queue(t) /\ Calm(t) /\ t.line # <<>> /\ Keyed(t)
    BY <1>1, <2>2, Steadily
  <2>4. t.todo # {} /\ t.subs \subseteq t.broadcast \cup t.todo
    BY <1>5, <2>2 DEF Steady, Apart
  <2> QED
    BY <2>1, <2>2, <2>3, <2>4, RequestKeeps DEF Encrypted
<1>6. CASE s.kind[Head(s.line)] # "subscriber" /\ Up(s)
  <2>1. Work(s) = Request(s, "work")
    BY <1>6 DEF Work
  <2> QED
    BY <1>1, <1>2, <1>6, <2>1, RequestKeeps DEF Encrypted
<1> QED
  BY <1>3, <1>4, <1>5, <1>6

LEMMA PopulatedKeeps ==
  ASSUME NEW s, Base(s)
  PROVE  Good(Populated(s))
<1>1. Typed(s) /\ Queue(s) /\ Calm(s) /\ Clean(s) /\ s.line # <<>>
  BY DEF Base
<1>2. CASE s.key # None
  <2>1. Keyed(s)
    BY <1>2 DEF Keyed
  <2> QED
    BY <1>2, <2>1, WorkKeeps DEF Populated
<1>3. CASE s.key = None /\ s.client = None
  <2>1. ~Up(s)
    BY <1>1, <1>3, LinksAssumption DEF Typed, Up
  <2> QED
    BY <1>3, <2>1, FailsDown DEF Populated, Ends
<1>4. CASE s.key = None /\ s.client # None
  <2> DEFINE t == [s EXCEPT !.pc = "verify", !.target = s.client, !.replied = FALSE]
  <2>1. Populated(s) = t
    BY <1>4 DEF Populated
  <2>2. Typed(t) /\ Steady(s, t) /\ t.pc = "verify" /\ t.pending = s.pending
        /\ t.inflight = s.inflight /\ t.target = s.client
    BY <1>1 DEF Typed, Fields, Steady, Apart, Counters
  <2> HIDE DEF t
  <2>3. Queue(t) /\ Calm(t) /\ Clean(t) /\ t.line # <<>>
    BY <1>1, <2>2, Steadily
  <2>4. t.key = None /\ t.target \in Links
    BY <1>1, <1>4, <2>2 DEF Steady, Apart, Typed
  <2>5. At(t)
    BY <2>2, <2>3, <2>4 DEF At, Encrypted, Waits
  <2> QED
    BY <2>1, <2>2, <2>3, <2>5 DEF Good
<1> QED
  BY <1>2, <1>3, <1>4

LEMMA EnsureKeeps ==
  ASSUME NEW s, Base(s)
  PROVE  Good(EnsureConnected(s))
<1>1. Typed(s) /\ Queue(s) /\ Calm(s) /\ Clean(s) /\ s.line # <<>>
  BY DEF Base
<1>2. CASE s.shutdown \/ Up(s)
  BY <1>2, PopulatedKeeps DEF EnsureConnected
<1>3. CASE ~(s.shutdown \/ Up(s))
  <2> DEFINE p == IF s.closer # "idle" THEN "connlock" ELSE "connect"
             t == [s EXCEPT !.pc = p]
  <2>1. EnsureConnected(s) = t
    BY <1>3 DEF EnsureConnected
  <2>2. Typed(t) /\ Steady(s, t) /\ t.pc = p /\ t.pending = s.pending
        /\ t.inflight = s.inflight
    BY <1>1 DEF Typed, Fields, Steady, Apart, Counters
  <2> HIDE DEF t
  <2>3. Queue(t) /\ Calm(t) /\ Clean(t) /\ t.line # <<>> /\ (Up(t) <=> Up(s))
    BY <1>1, <2>2, Steadily
  <2>4. ~Up(t) /\ ~t.shutdown /\ t.closer = s.closer
    BY <1>3, <2>2, <2>3 DEF Steady, Apart
  <2>5. At(t)
    BY <2>2, <2>3, <2>4 DEF At, Encrypted, Waits
  <2> QED
    BY <2>1, <2>2, <2>3, <2>5 DEF Good
<1> QED
  BY <1>2, <1>3

LEMMA NextNotifyKeeps ==
  ASSUME NEW s, Base(s), Head(s.line) # Subscriber
  PROVE  Good(NextNotify(s))
<1>1. Typed(s) /\ Queue(s) /\ Calm(s) /\ Clean(s) /\ s.line # <<>>
  BY DEF Base
<1>2. CASE ~Up(s) \/ s.todo = {}
  BY <1>2, EndKeeps DEF NextNotify, Done
<1>3. CASE ~(~Up(s) \/ s.todo = {})
  <2> DEFINE t == [s EXCEPT !.pc = "notify", !.replied = FALSE]
  <2>1. NextNotify(s) = t
    BY <1>3 DEF NextNotify
  <2>2. Typed(t) /\ Steady(s, t) /\ t.pc = "notify" /\ t.pending = s.pending
        /\ t.inflight = s.inflight /\ t.line = s.line /\ t.todo # {}
    BY <1>1, <1>3 DEF Typed, Fields, Steady, Apart, Counters
  <2> HIDE DEF t
  <2>3. Queue(t) /\ Calm(t) /\ Clean(t) /\ t.line # <<>>
    BY <1>1, <2>2, Steadily
  <2>4. At(t)
    BY <2>2, <2>3 DEF At, Encrypted, Waits
  <2> QED
    BY <2>1, <2>2, <2>3, <2>4 DEF Good
<1> QED
  BY <1>2, <1>3

LEMMA CloseKeeps ==
  ASSUME NEW s, Typed(s), Queue(s), Calm(s), s.line # <<>>, Keyed(s)
  PROVE  Good(CloseThen(s, "closing"))
<1>1. CASE ~Up(s)
  <2>1. Base(s) /\ Almost(s)
    BY <1>1, LinkGone DEF Base
  <2> QED
    BY <1>1, <2>1, ResumeKeeps DEF CloseThen
<1>2. CASE Up(s)
  <2> DEFINE t == [s EXCEPT !.pc = "closing"]
  <2>1. CloseThen(s, "closing") = t
    BY <1>2 DEF CloseThen
  <2>2. Typed(t) /\ Steady(s, t) /\ t.pc = "closing" /\ t.pending = s.pending
    BY DEF Typed, Fields, Steady, Apart, Counters
  <2> HIDE DEF t
  <2>3. Queue(t) /\ Calm(t) /\ t.line # <<>> /\ Keyed(t)
    BY <2>2, Steadily
  <2>4. At(t)
    BY <2>2, <2>3 DEF At, Encrypted, Waits
  <2> QED
    BY <2>1, <2>2, <2>3, <2>4 DEF Good
<1> QED
  BY <1>1, <1>2

LEMMA BeginKeeps ==
  ASSUME NEW s, Base(s), s.attempt[Head(s.line)] < MaxAttempts
  PROVE  Good(Begin(s))
<1> DEFINE h == Head(s.line)
           t == [s EXCEPT !.attempt[h] = @ + 1, !.how = "ok"]
<1>1. Typed(s) /\ Queue(s) /\ Calm(s) /\ Clean(s) /\ s.line # <<>>
  BY DEF Base
<1>2. /\ h \in Tasks /\ h = s.line[1] /\ s.kind[h] \in Kinds \ {"none"}
      /\ s.attempt[h] \in 0..MaxAttempts /\ 1 \in 1..Len(s.line)
      /\ h = Subscriber <=> s.kind[h] = "subscriber"
  BY <1>1, First
<1> HIDE DEF h
<1> DEFINE n == s.attempt[h] + 1
<1>3. n \in 0..MaxAttempts
  BY <1>2, AttemptsAssumption DEF h
<1> HIDE DEF n
<1>4. /\ DOMAIN t = Fields /\ Apart(s, t) /\ t.line = s.line /\ t.kind = s.kind
      /\ t.attempt = [s.attempt EXCEPT ![h] = n] /\ t.how = "ok" /\ t.pc = s.pc
      /\ t.todo = s.todo /\ t.target = s.target /\ t.replied = s.replied
      /\ t.pending = s.pending /\ t.inflight = s.inflight
  BY <1>1 DEF Typed, Fields, Apart, n
<1> HIDE DEF t
<1>5. t.attempt \in [Tasks -> 0..MaxAttempts] /\ \A x \in Tasks \ {h} : t.attempt[x] = s.attempt[x]
  BY <1>1, <1>3, <1>4 DEF Typed
<1>6. Typed(t)
  BY <1>1, <1>4, <1>5 DEF Typed, Apart, Ends
<1>7. Queue(t)
  <2>1. ASSUME NEW i \in 2..Len(t.line) PROVE t.attempt[t.line[i]] < MaxAttempts
    <3>1. i \in 1..Len(s.line) /\ i # 1 /\ s.line[i] \in Tasks /\ i \in 2..Len(s.line)
      BY <1>1, <1>4, <2>1 DEF Typed
    <3>2. s.line[i] # h
      BY <1>1, <1>2, <3>1 DEF Queue, Once
    <3> QED
      BY <1>1, <1>4, <1>5, <3>1, <3>2 DEF Queue
  <2>2. \A x \in Tasks : t.kind[x] = "none" => t.attempt[x] = 0
    BY <1>1, <1>2, <1>4, <1>5 DEF Queue
  <2> QED
    BY <1>1, <1>4, <2>1, <2>2 DEF Queue, Lined
<1>8. /\ Calm(t) /\ Clean(t) /\ (Up(t) <=> Up(s)) /\ t.line # <<>>
  BY <1>1, <1>4, Apartly DEF Calm, Covered, Clean, Apart
<1>9. Base(t)
  BY <1>6, <1>7, <1>8 DEF Base
<1>10. CASE s.kind[h] \in Ops
  <2>1. CASE s.shutdown
    <3>1. Done(s)
      BY <2>1 DEF Done, Useful
    <3>2. Begin(s) = End(s)
      BY <1>10, <2>1 DEF Begin, Ops, h
    <3> QED
      BY <3>1, <3>2, EndKeeps
  <2>2. CASE ~s.shutdown
    <3>1. Begin(s) = EnsureConnected(t)
      BY <1>10, <2>2 DEF Begin, Ops, h, t
    <3> QED
      BY <1>9, <3>1, EnsureKeeps
  <2> QED
    BY <2>1, <2>2
<1>11. CASE s.kind[h] = "notifier"
  <2> DEFINE u == [t EXCEPT !.todo = s.subs \ s.notifications]
  <2>1. Begin(s) = NextNotify(u)
    BY <1>11 DEF Begin, h, t
  <2>2. s.subs \ s.notifications \in SUBSET Chars
    BY <1>1 DEF Typed
  <2>3. Typed(u) /\ Steady(t, u) /\ u.pending = t.pending /\ u.inflight = t.inflight
        /\ u.line = t.line
    BY <1>6, <2>2 DEF Typed, Fields, Steady, Apart
  <2> HIDE DEF u
  <2>4. Queue(u) /\ Calm(u) /\ Clean(u) /\ u.line # <<>>
    BY <1>6, <1>7, <1>8, <2>3, Steadily
  <2>5. Head(u.line) # Subscriber
    BY <1>2, <1>4, <1>11, <2>3 DEF h
  <2> QED
    BY <2>1, <2>3, <2>4, <2>5, NextNotifyKeeps DEF Base
<1>12. CASE s.kind[h] \in {"event", "closeAfter"}
  <2>1. t.kind[Head(t.line)] \notin Ops
    BY <1>4, <1>12 DEF h, Ops
  <2>2. Keyed(t)
    BY <2>1 DEF Keyed
  <2>3. CASE s.kind[h] = "event"
    <3>1. Begin(s) = Work(t)
      BY <2>3 DEF Begin, h, t
    <3> QED
      BY <1>9, <2>2, <3>1, WorkKeeps
  <2>4. CASE s.kind[h] = "closeAfter" /\ s.closer = "idle"
    <3>1. Begin(s) = CloseThen(t, "closing")
      BY <2>4 DEF Begin, h, t
    <3> QED
      BY <1>6, <1>7, <1>8, <2>2, <3>1, CloseKeeps
  <2>5. CASE s.kind[h] = "closeAfter" /\ s.closer # "idle"
    <3> DEFINE u == [t EXCEPT !.pc = "closelock"]
    <3>1. Begin(s) = u
      BY <2>5 DEF Begin, h, t
    <3>2. Typed(u) /\ Steady(t, u) /\ u.pending = t.pending /\ u.inflight = t.inflight
          /\ u.pc = "closelock" /\ u.line = t.line /\ u.kind = t.kind
      BY <1>6 DEF Typed, Fields, Steady, Apart, Counters
    <3> HIDE DEF u
    <3>3. Queue(u) /\ Calm(u) /\ Clean(u) /\ u.line # <<>>
      BY <1>6, <1>7, <1>8, <3>2, Steadily
    <3>4. At(u)
      BY <2>1, <3>2, <3>3 DEF At, Encrypted, Waits
    <3> QED
      BY <3>1, <3>2, <3>3, <3>4 DEF Good
  <2> QED
    BY <1>12, <2>3, <2>4, <2>5
<1> QED
  BY <1>2, <1>10, <1>11, <1>12 DEF Kinds, Ops

-----------------------------------------------------------------------------
(* The steps.                                                                *)

LEMMA StateFields ==
  /\ DOMAIN State = Fields
  /\ State.client = client /\ State.key = key /\ State.up = up /\ State.owed = owed
  /\ State.pending = pending /\ State.broadcast = broadcast
  /\ State.notifications = notifications /\ State.subs = subs /\ State.timer = timer
  /\ State.shutdown = shutdown /\ State.line = line /\ State.kind = kind /\ State.pc = pc
  /\ State.attempt = attempt /\ State.todo = todo /\ State.how = how
  /\ State.target = target /\ State.replied = replied /\ State.closer = closer
  /\ State.inflight = inflight /\ State.sent = sent /\ State.late = late
  /\ State.cut = cut /\ State.raised = raised
  BY DEF State, Fields

(* What Become leaves out is of no consequence.                              *)
LEMMA Becomes ==
  ASSUME NEW t, Good(t), Become(t)
  PROVE  Good(State')
<1> DEFINE u == State'
<1>1. /\ DOMAIN u = Fields /\ u.client = t.client /\ u.key = t.key /\ u.up = t.up
      /\ u.owed = t.owed /\ u.pending = t.pending /\ u.broadcast = t.broadcast
      /\ u.notifications = t.notifications /\ u.subs = t.subs /\ u.timer = t.timer
      /\ u.shutdown = t.shutdown /\ u.line = t.line /\ u.kind = t.kind /\ u.pc = t.pc
      /\ u.attempt = t.attempt /\ u.todo = t.todo /\ u.how = t.how
      /\ u.target = t.target /\ u.replied = t.replied /\ u.closer = t.closer /\ u.cut = t.cut
      /\ u.inflight = (t.inflight /\ Up(t)) /\ u.late = (t.late /\ Up(t))
      /\ u.sent = (IF Up(t) THEN t.sent ELSE {})
      /\ u.raised = t.raised \cap (t.up \cup t.owed)
  BY DEF State, Become, Fields
<1> HIDE DEF u
<1>2. Typed(t) /\ Queue(t) /\ Calm(t) /\ At(t)
  BY DEF Good
<1>3. Typed(u)
  BY <1>1, <1>2 DEF Typed
<1>4. Up(u) <=> Up(t)
  BY <1>1 DEF Up
<1>5. Useful(u) <=> Useful(t)
  BY <1>1, <1>2, <1>4 DEF Useful, Up
<1>6. Queue(u)
  BY <1>1, <1>2 DEF Queue, Lined
<1>7. Calm(u)
  <2>1. Linked(u)
    BY <1>1, <1>2 DEF Calm, Linked
  <2>2. Final(u) /\ Renewed(u)
    BY <1>1, <1>2, <1>4 DEF Calm, Final, Renewed
  <2>3. Covered(u)
    BY <1>1, <1>2, <1>5 DEF Calm, Covered, Enabled
  <2> QED
    BY <2>1, <2>2, <2>3 DEF Calm
<1>8. /\ Clean(t) => Clean(u)
      /\ Keyed(t) => Keyed(u)
      /\ Enabled(t) <=> Enabled(u)
  BY <1>1, <1>4 DEF Clean, Keyed, Enabled
<1>9. At(u)
  BY <1>1, <1>2, <1>4, <1>5, <1>8 DEF At
<1> QED
  BY <1>3, <1>6, <1>7, <1>9 DEF Good, u

(* The holder stands where nothing is under way.                             *)
LEMMA Holding ==
  ASSUME NEW s, Good(s), s.pc # "idle"
  PROVE  /\ Typed(s) /\ Queue(s) /\ Calm(s) /\ At(s) /\ s.line # <<>>
         /\ Head(s.line) \in Tasks /\ s.kind[Head(s.line)] \in Kinds \ {"none"}
         /\ Head(s.line) = Subscriber <=> s.kind[Head(s.line)] = "subscriber"
         /\ s.pc \notin Encrypted \cup {"closing"} => Base(s)
<1>1. Typed(s) /\ Queue(s) /\ Calm(s) /\ At(s)
  BY DEF Good
<1>2. s.line # <<>>
  BY <1>1 DEF At
<1>3. s.pc \notin Encrypted \cup {"closing"} => Clean(s)
  BY <1>1 DEF At
<1> QED
  BY <1>1, <1>2, <1>3, First DEF Base

(* All that the invariant speaks of, but for what the holder is doing.       *)
Alike(s, t) ==
  /\ t.client = s.client /\ t.key = s.key /\ t.up = s.up /\ t.owed = s.owed
  /\ t.pending = s.pending /\ t.broadcast = s.broadcast /\ t.subs = s.subs
  /\ t.shutdown = s.shutdown /\ t.line = s.line /\ t.kind = s.kind /\ t.attempt = s.attempt
  /\ t.closer = s.closer /\ t.late = s.late /\ t.cut = s.cut /\ t.raised = s.raised

LEMMA Alikes ==
  ASSUME NEW s, NEW t, Alike(s, t), Queue(s), Calm(s)
  PROVE  /\ Queue(t) /\ Calm(t)
         /\ Up(t) <=> Up(s)
         /\ Useful(t) <=> Useful(s)
         /\ Enabled(t) <=> Enabled(s)
         /\ Keyed(t) <=> Keyed(s)
         /\ Clean(s) /\ (t.inflight => s.inflight) => Clean(t)
<1>1. (Up(t) <=> Up(s)) /\ (Enabled(t) <=> Enabled(s))
  BY DEF Alike, Up, Enabled
<1>2. Useful(t) <=> Useful(s)
  BY <1>1 DEF Alike, Useful
<1>3. Queue(t)
  BY DEF Alike, Queue, Lined
<1>4. Linked(t) /\ Final(t) /\ Renewed(t) /\ Covered(t)
  BY <1>1, <1>2 DEF Alike, Calm, Linked, Final, Renewed, Covered
<1>5. Keyed(t) <=> Keyed(s)
  BY <1>1 DEF Alike, Keyed
<1>6. Clean(s) /\ (t.inflight => s.inflight) => Clean(t)
  BY <1>1 DEF Alike, Clean
<1> QED
  BY <1>1, <1>2, <1>3, <1>4, <1>5, <1>6 DEF Calm

LEMMA TakeLockKeeps == Good(State) /\ TakeLock => Good(State')
<1> SUFFICES ASSUME Good(State), TakeLock PROVE Good(State')
  OBVIOUS
<1>1. /\ State.line # <<>> /\ State.pc = "idle" /\ Become(Begin(State))
  BY StateFields DEF TakeLock
<1>2. Base(State) /\ State.attempt[Head(State.line)] < MaxAttempts
  BY <1>1 DEF Good, Base, At, Encrypted
<1> QED
  BY <1>1, <1>2, BeginKeeps, Becomes

LEMMA BackoffKeeps == Good(State) /\ Backoff => Good(State')
<1> SUFFICES ASSUME Good(State), Backoff PROVE Good(State')
  OBVIOUS
<1>1. State.pc = "backoff" /\ Become(Begin(State))
  BY StateFields DEF Backoff
<1>2. Base(State) /\ State.attempt[Head(State.line)] < MaxAttempts
  BY <1>1 DEF Good, Base, At, Encrypted
<1> QED
  BY <1>1, <1>2, BeginKeeps, Becomes

LEMMA ConnLockKeeps == Good(State) /\ ConnLock => Good(State')
<1> SUFFICES ASSUME Good(State), ConnLock PROVE Good(State')
  OBVIOUS
<1>1. State.pc = "connlock" /\ Become(EnsureConnected(State))
  BY StateFields DEF ConnLock
<1>2. Base(State)
  BY <1>1, Holding DEF Encrypted
<1> QED
  BY <1>1, <1>2, EnsureKeeps, Becomes

(* The new link is one that nothing has been said of.                        *)
LEMMA ConnectedKeeps == Good(State) /\ Connected => Good(State')
<1> SUFFICES ASSUME Good(State), Connected PROVE Good(State')
  OBVIOUS
<1> DEFINE fresh == Links \ (up \cup owed \cup {client, key})
           l == CHOOSE x \in fresh : TRUE
           s == State
           r == s.raised \ {l}
           t == [s EXCEPT !.client = l, !.up = s.up \cup {l}, !.pending = TRUE,
                          !.inflight = FALSE, !.sent = {}, !.late = FALSE,
                          !.cut = s.cut /\ s.shutdown, !.raised = r]
<1>1. s.pc = "connect" /\ l \in fresh /\ Become(Populated(t))
  <2>1. fresh # {} => l \in fresh
    OBVIOUS
  <2> HIDE DEF l
  <2>2. shutdown = s.shutdown
    BY StateFields
  <2>3. pc = "connect" /\ fresh # {}
    BY DEF Connected
  <2>4. Become(Populated(t))
    BY <2>2 DEF Connected, l
  <2> QED
    BY <2>1, <2>3, <2>4, StateFields
<1>2. /\ Typed(s) /\ Queue(s) /\ Calm(s) /\ At(s) /\ s.line # <<>>
  BY <1>1, Holding
<1>3. l \in Links /\ l \notin s.up /\ l \notin s.owed /\ l # s.client /\ l # s.key
  BY <1>1, StateFields
<1>4. ~Up(s) /\ s.closer # "disconnect" /\ (s.shutdown /\ s.closer = "idle" => s.cut)
  BY <1>1, <1>2 DEF At
<1> HIDE DEF s, l, r
<1>5. /\ DOMAIN t = Fields /\ t.client = l /\ t.key = s.key /\ t.up = s.up \cup {l}
      /\ t.owed = s.owed /\ t.pending = TRUE /\ t.broadcast = s.broadcast
      /\ t.notifications = s.notifications /\ t.subs = s.subs /\ t.timer = s.timer
      /\ t.shutdown = s.shutdown /\ t.line = s.line /\ t.kind = s.kind /\ t.pc = s.pc
      /\ t.attempt = s.attempt /\ t.todo = s.todo /\ t.how = s.how
      /\ t.target = s.target /\ t.replied = s.replied /\ t.closer = s.closer
      /\ t.inflight = FALSE /\ t.late = FALSE /\ t.cut = (s.cut /\ s.shutdown)
      /\ t.sent = {} /\ t.raised = r
  BY <1>2 DEF Typed, Fields
<1> HIDE DEF t
<1>6. Typed(t)
  BY <1>2, <1>3, <1>5 DEF Typed, r
<1>7. Queue(t)
  BY <1>2, <1>5 DEF Queue, Lined
<1>8. Linked(t)
  BY <1>2, <1>3, <1>4, <1>5 DEF Calm, Linked, Up, r
<1>9. Final(t) /\ Renewed(t) /\ Covered(t) /\ Clean(t)
  BY <1>4, <1>5 DEF Final, Renewed, Covered, Clean
<1>10. Base(t)
  BY <1>2, <1>5, <1>6, <1>7, <1>8, <1>9 DEF Base, Calm
<1> QED
  BY <1>1, <1>10, PopulatedKeeps, Becomes DEF t

LEMMA ConnectFailsKeeps == Good(State) /\ ConnectFails => Good(State')
<1> SUFFICES ASSUME Good(State), ConnectFails PROVE Good(State')
  OBVIOUS
<1>1. State.pc = "connect" /\ Become(Finish(Raise(State, "raise")))
  BY StateFields DEF ConnectFails
<1>2. Base(State) /\ ~Up(State)
  BY <1>1, Holding DEF At, Encrypted
<1> QED
  BY <1>1, <1>2, FailsDown, Becomes DEF Ends

LEMMA RepliedKeeps == Good(State) /\ Replied => Good(State')
<1> SUFFICES ASSUME Good(State), Replied PROVE Good(State')
  OBVIOUS
<1> DEFINE s == State
           t == [s EXCEPT !.replied = TRUE]
<1>1. Become(t) /\ Typed(s) /\ Queue(s) /\ Calm(s) /\ At(s)
  BY DEF Replied, Good
<1> HIDE DEF s
<1>2. /\ Typed(t) /\ Alike(s, t) /\ t.inflight = s.inflight /\ t.pc = s.pc
      /\ t.todo = s.todo /\ t.how = s.how /\ t.target = s.target
  BY <1>1 DEF Typed, Fields, Alike
<1> HIDE DEF t
<1>3. /\ Queue(t) /\ Calm(t) /\ (Up(t) <=> Up(s)) /\ (Useful(t) <=> Useful(s))
      /\ (Enabled(t) <=> Enabled(s)) /\ (Keyed(t) <=> Keyed(s))
      /\ (Clean(s) => Clean(t))
  BY <1>1, <1>2, Alikes
<1>4. At(t)
  BY <1>1, <1>2, <1>3 DEF At, Alike
<1> QED
  BY <1>1, <1>2, <1>3, <1>4, Becomes DEF Good

LEMMA VerifiedKeeps == Good(State) /\ Verified => Good(State')
<1> SUFFICES ASSUME Good(State), Verified PROVE Good(State')
  OBVIOUS
<1> DEFINE s == State
           k == SetKeys(s)
           t == [k EXCEPT !.replied = FALSE, !.inflight = FALSE]
<1>1. s.pc = "verify" /\ Become(Work(t))
  BY StateFields DEF Verified
<1>2. /\ Typed(s) /\ Queue(s) /\ Calm(s) /\ At(s) /\ s.line # <<>>
  BY <1>1, Holding
<1>3. s.key = None /\ s.target \in Links
  BY <1>1, <1>2 DEF At
<1> HIDE DEF s
<1>4. /\ DOMAIN t = Fields /\ t.key = s.target
      /\ t.client = s.client /\ t.up = s.up /\ t.owed = s.owed
      /\ t.pending = s.pending /\ t.broadcast = s.broadcast
      /\ t.notifications = s.notifications /\ t.subs = s.subs /\ t.timer = s.timer
      /\ t.shutdown = s.shutdown /\ t.line = s.line /\ t.kind = s.kind /\ t.pc = s.pc
      /\ t.attempt = s.attempt /\ t.todo = s.todo /\ t.how = s.how
      /\ t.target = None /\ t.replied = FALSE /\ t.closer = s.closer
      /\ t.inflight = FALSE /\ t.late = s.late /\ t.cut = s.cut
      /\ t.sent = s.sent /\ t.raised = s.raised
  BY <1>2 DEF Typed, Fields, SetKeys
<1> HIDE DEF t
<1>5. Typed(t)
  BY <1>2, <1>3, <1>4 DEF Typed
<1>6. Queue(t) /\ Linked(t) /\ Final(t) /\ (Up(t) <=> Up(s))
  BY <1>2, <1>4 DEF Queue, Lined, Calm, Linked, Final, Up
<1>7. t.key # None
  BY <1>3, <1>4, LinksAssumption
<1>8. Renewed(t) /\ Clean(t) /\ Keyed(t)
  BY <1>4, <1>7 DEF Renewed, Clean, Keyed
<1>9. Covered(t)
  BY <1>2, <1>3, <1>4, <1>6 DEF Calm, Renewed, Covered, Useful
<1>10. Base(t)
  BY <1>2, <1>4, <1>5, <1>6, <1>8, <1>9 DEF Base, Calm
<1> QED
  BY <1>1, <1>8, <1>10, WorkKeeps, Becomes DEF t

LEMMA VerifyFailsKeeps == Good(State) /\ VerifyFails => Good(State')
<1> SUFFICES ASSUME Good(State), VerifyFails PROVE Good(State')
  OBVIOUS
<1> DEFINE s == State
<1>1. PICK h \in {"raise", "retry"} :
        Become(Finish([Raise(s, h) EXCEPT !.replied = FALSE, !.target = None]))
  BY DEF VerifyFails
<1>2. s.pc = "verify"
  BY StateFields DEF VerifyFails
<1>3. Base(s) /\ s.key = None
  BY <1>2, Holding DEF Encrypted, At
<1> HIDE DEF s
<1> DEFINE u == Raise(s, h)
           t == [u EXCEPT !.replied = FALSE, !.target = None]
<1>4. Base(u) /\ u.key = None
  BY <1>1, <1>3, RaiseBase DEF Ends
<1> HIDE DEF u
<1>5. Typed(u) /\ Queue(u) /\ Calm(u) /\ Clean(u) /\ u.line # <<>>
  BY <1>4 DEF Base
<1>6. Typed(t) /\ Alike(u, t) /\ t.inflight = u.inflight
  BY <1>5 DEF Typed, Fields, Alike
<1> HIDE DEF t
<1>7. Queue(t) /\ Calm(t) /\ Clean(t) /\ (Useful(t) <=> Useful(u))
  BY <1>5, <1>6, Alikes
<1>8. Base(t)
  BY <1>5, <1>6, <1>7 DEF Base, Alike
<1>9. ~Useful(u)
  BY <1>4, <1>5, LinksAssumption DEF Useful, Up, Typed
<1>10. Almost(t)
  BY <1>7, <1>9 DEF Almost
<1> QED
  BY <1>1, <1>8, <1>10, FinishKeeps, Becomes DEF t, u

(* start_notify has returned, or failed.                                     *)
LEMMA NotifyKeeps == Good(State) /\ (NotifyStarted \/ NotifyFails) => Good(State')
<1> SUFFICES ASSUME Good(State), NotifyStarted \/ NotifyFails PROVE Good(State')
  OBVIOUS
<1> DEFINE s == State
           i == CHOOSE x \in todo : TRUE
           n == s.notifications \cup {i}
           d == s.todo \ {i}
           e == IF Up(s) THEN s.sent \cup {i} ELSE s.sent
           t == [s EXCEPT !.notifications = n, !.todo = d, !.sent = e]
           u == [s EXCEPT !.todo = d]
<1>1. s.pc = "notify"
  BY StateFields DEF NotifyStarted, NotifyFails
<1>2. /\ Base(s) /\ Typed(s) /\ Queue(s) /\ Calm(s) /\ s.line # <<>>
      /\ Head(s.line) # Subscriber /\ s.todo # {}
  BY <1>1, Holding DEF Encrypted, At
<1>3. Become(NextNotify(t)) \/ Become(NextNotify(u))
  BY StateFields DEF NotifyStarted, NotifyFails
<1>4. i \in s.todo
  BY <1>2, StateFields
<1>5. /\ d \in SUBSET Chars /\ n \in SUBSET Chars /\ e \in SUBSET Chars
  BY <1>2, <1>4 DEF Typed
<1> HIDE DEF s, d, n, e
<1>6. /\ Typed(t) /\ Alike(s, t) /\ t.inflight = s.inflight
      /\ Typed(u) /\ Alike(s, u) /\ u.inflight = s.inflight
  BY <1>2, <1>5 DEF Typed, Fields, Alike
<1> HIDE DEF t, u
<1>7. Base(t) /\ Base(u) /\ Head(t.line) # Subscriber /\ Head(u.line) # Subscriber
  BY <1>2, <1>6, Alikes DEF Base, Alike
<1> QED
  BY <1>3, <1>7, NextNotifyKeeps, Becomes

(* An answer: the event is enabled, or the operation is done, or goes on.    *)
LEMMA AnsweredKeeps == Good(State) /\ Answered => Good(State')
<1> SUFFICES ASSUME Good(State), Answered PROVE Good(State')
  OBVIOUS
<1> DEFINE st == State
           i == CHOOSE x \in todo : TRUE
           b == st.broadcast \cup {i}
           d == st.todo \ {i}
           f == st.subs \ st.broadcast
           s == [st EXCEPT !.inflight = FALSE]
           enabled == [s EXCEPT !.broadcast = b, !.todo = d]
           keyed == [s EXCEPT !.todo = f]
           timed == [s EXCEPT !.timer = TRUE]
<1>1. st.pc \in Encrypted /\ Up(st) /\ st.key = st.client
  BY StateFields DEF Answered
<1>2. /\ Typed(st) /\ Queue(st) /\ Calm(st) /\ At(st) /\ st.line # <<>>
      /\ Head(st.line) = Subscriber <=> st.kind[Head(st.line)] = "subscriber"
      /\ st.kind[Head(st.line)] # "none"
  BY <1>1, Holding DEF Encrypted
<1>3. /\ s.broadcast = st.broadcast /\ s.todo = st.todo /\ s.timer = st.timer /\ s.subs = st.subs
  BY <1>2 DEF Typed, Fields
<1>4. \/ st.pc = "work" /\ st.todo # {} /\ enabled.todo = {} /\ Become(Resume(enabled))
      \/ st.pc = "work" /\ st.todo # {} /\ enabled.todo # {} /\ Become(Request(enabled, "work"))
      \/ st.pc = "work" /\ st.todo = {} /\ Become(Resume(s))
      \/ st.pc = "rkey" /\ Become(RestoreNext(keyed))
      \/ st.pc = "rsub" /\ Become(RestoreNext(enabled))
      \/ st.pc = "rgsn" /\ Become(Finish(timed))
  BY <1>3, StateFields DEF Answered, Encrypted
<1>5. st.todo # {} => i \in st.todo
  BY StateFields
<1>6. st.key # None
  BY <1>1, <1>2, LinksAssumption DEF Typed, Up
<1>7. /\ b \in SUBSET (Chars \cup {i}) /\ d \in SUBSET Chars /\ f \in SUBSET Chars
      /\ st.todo # {} => b \in SUBSET Chars
  BY <1>2, <1>5 DEF Typed
<1>8. /\ st.broadcast \subseteq b /\ st.broadcast \cup st.todo \subseteq b \cup d
      /\ st.subs \subseteq st.broadcast \cup f
  OBVIOUS
<1> HIDE DEF st, i, b, d, f
(* The state without the request under way.                                  *)
<1>9. /\ Typed(s) /\ Alike(st, s) /\ ~s.inflight /\ s.how = st.how /\ s.todo = st.todo
  BY <1>2 DEF Typed, Fields, Alike
<1> HIDE DEF s
<1>10. /\ Queue(s) /\ Calm(s) /\ Up(s) /\ (Useful(s) <=> Useful(st)) /\ Clean(s)
       /\ (Enabled(s) <=> Enabled(st)) /\ s.line # <<>> /\ s.key # None
       /\ s.line = st.line /\ s.kind = st.kind /\ s.subs = st.subs /\ s.broadcast = st.broadcast
  BY <1>1, <1>2, <1>6, <1>9, Alikes DEF Clean, Alike
<1>11. Base(s)
  BY <1>9, <1>10 DEF Base
(* And with an event more enabled.                                           *)
<1>12. ASSUME st.todo # {}
       PROVE  /\ Base(enabled) /\ Keyed(enabled) /\ Up(enabled) /\ enabled.key # None
              /\ enabled.line = st.line /\ enabled.kind = st.kind
              /\ enabled.how = st.how /\ enabled.subs = st.subs
              /\ enabled.broadcast = b /\ enabled.todo = d
              /\ Useful(enabled) <=> Useful(st)
              /\ Enabled(st) => Enabled(enabled)
  <2>1. /\ Typed(enabled) /\ enabled.broadcast = b /\ enabled.todo = d
        /\ enabled.client = s.client /\ enabled.key = s.key /\ enabled.up = s.up
        /\ enabled.owed = s.owed /\ enabled.pending = s.pending /\ enabled.subs = s.subs
        /\ enabled.shutdown = s.shutdown /\ enabled.line = s.line /\ enabled.kind = s.kind
        /\ enabled.attempt = s.attempt /\ enabled.closer = s.closer /\ enabled.late = s.late
        /\ enabled.cut = s.cut /\ enabled.raised = s.raised /\ enabled.inflight = s.inflight
        /\ enabled.how = s.how
    BY <1>7, <1>9, <1>12 DEF Typed, Fields
  <2> HIDE DEF enabled
  <2>2. Up(enabled) /\ (Useful(enabled) <=> Useful(s))
    BY <1>10, <2>1 DEF Up, Useful
  <2>3. Enabled(s) => Enabled(enabled)
    BY <1>8, <1>10, <2>1 DEF Enabled
  <2>4. Queue(enabled)
    BY <1>10, <2>1 DEF Queue, Lined
  <2>5. Linked(enabled) /\ Final(enabled) /\ Renewed(enabled) /\ Covered(enabled)
    BY <1>10, <2>1, <2>2, <2>3 DEF Calm, Linked, Final, Renewed, Covered
  <2>6. Clean(enabled) /\ Keyed(enabled)
    BY <1>9, <1>10, <2>1 DEF Clean, Keyed
  <2> QED
    BY <1>9, <1>10, <2>1, <2>2, <2>3, <2>4, <2>5, <2>6 DEF Base, Calm
<1>13. Keyed(s)
  BY <1>10 DEF Keyed
<1>14. CASE st.pc = "work" /\ st.todo # {} /\ enabled.todo = {} /\ Become(Resume(enabled))
  <2>1. Almost(enabled)
    <3>1. ASSUME Head(st.line) = Subscriber, Useful(st) PROVE st.subs \subseteq b
      <4>1. st.subs \subseteq st.broadcast \cup st.todo
        BY <1>2, <1>14, <3>1 DEF At
      <4>2. d = {}
        BY <1>12, <1>14
      <4> QED
        BY <1>8, <4>1, <4>2
    <3> QED
      BY <1>12, <1>14, <3>1 DEF Almost, Enabled
  <2> QED
    BY <1>12, <1>14, <2>1, ResumeKeeps, Becomes
<1>15. CASE st.pc = "work" /\ st.todo # {} /\ enabled.todo # {} /\ Become(Request(enabled, "work"))
  <2>1. Head(st.line) = Subscriber /\ Useful(st) => st.subs \subseteq b \cup d
    BY <1>2, <1>8, <1>15 DEF At
  <2>2. Typed(enabled) /\ Queue(enabled) /\ Calm(enabled) /\ enabled.line # <<>>
    BY <1>12, <1>15 DEF Base
  <2>3. Good(Request(enabled, "work"))
    BY <1>12, <1>15, <2>1, <2>2, RequestKeeps DEF Encrypted
  <2> QED
    BY <1>15, <2>3, Becomes
<1>16. CASE st.pc = "work" /\ st.todo = {} /\ Become(Resume(s))
  <2>1. Head(st.line) # Subscriber
    BY <1>2, <1>16 DEF At
  <2>2. Almost(s)
    BY <1>10, <2>1 DEF Almost
  <2> QED
    BY <1>11, <1>13, <1>16, <2>2, ResumeKeeps, Becomes
<1>17. CASE st.pc = "rkey" /\ Become(RestoreNext(keyed))
  <2>1. /\ Typed(keyed) /\ Alike(s, keyed) /\ keyed.inflight = s.inflight
        /\ keyed.how = s.how /\ keyed.todo = f
    BY <1>7, <1>9 DEF Typed, Fields, Alike
  <2> HIDE DEF keyed
  <2>2. /\ Base(keyed) /\ (Useful(keyed) <=> Useful(s)) /\ (Enabled(keyed) <=> Enabled(s))
    BY <1>10, <2>1, Alikes DEF Base, Alike
  <2>3. keyed.subs \subseteq keyed.broadcast \cup keyed.todo /\ keyed.key # None
    BY <1>8, <1>10, <2>1 DEF Alike
  <2>4. Almost(keyed)
    BY <1>2, <1>9, <1>10, <1>17, <2>1, <2>2 DEF At, Almost, Waits, Alike
  <2> QED
    BY <1>17, <2>2, <2>3, <2>4, RestoreNextKeeps, Becomes
<1>18. CASE st.pc = "rsub" /\ Become(RestoreNext(enabled))
  <2>1. st.todo # {}
    BY <1>2, <1>18 DEF At
  <2>2. Almost(enabled)
    BY <1>2, <1>12, <1>18, <2>1 DEF At, Almost, Waits
  <2>3. Useful(st) => st.subs \subseteq b \cup d \/ st.kind[Subscriber] # "none"
    BY <1>2, <1>8, <1>18 DEF At
  <2> QED
    BY <1>12, <1>18, <2>1, <2>2, <2>3, RestoreNextKeeps, Becomes
<1>19. CASE st.pc = "rgsn" /\ Become(Finish(timed))
  <2>1. /\ Typed(timed) /\ Alike(s, timed) /\ timed.inflight = s.inflight
        /\ timed.how = s.how
    BY <1>9 DEF Typed, Fields, Alike
  <2> HIDE DEF timed
  <2>2. /\ Base(timed) /\ (Useful(timed) <=> Useful(s)) /\ (Enabled(timed) <=> Enabled(s))
    BY <1>10, <2>1, Alikes DEF Base, Alike
  <2>3. Almost(timed)
    BY <1>2, <1>9, <1>10, <1>19, <2>1, <2>2 DEF At, Almost, Waits, Alike
  <2> QED
    BY <1>19, <2>2, <2>3, FinishKeeps, Becomes
<1> QED
  BY <1>4, <1>14, <1>15, <1>16, <1>17, <1>18, <1>19

LEMMA RefusedKeeps == Good(State) /\ Refused => Good(State')
<1> SUFFICES ASSUME Good(State), Refused PROVE Good(State')
  OBVIOUS
<1> DEFINE st == State
           s == [st EXCEPT !.inflight = FALSE]
<1>1. st.pc = "work" /\ st.todo = {} /\ Up(st) /\ st.key = st.client
      /\ Become(Resume(Raise(s, "raise")))
  BY StateFields DEF Refused
<1>2. Typed(st) /\ Queue(st) /\ Calm(st) /\ At(st) /\ st.line # <<>>
  BY <1>1, Holding
<1>3. Head(st.line) # Subscriber /\ st.key # None
  BY <1>1, <1>2, LinksAssumption DEF At, Typed, Up
<1> HIDE DEF st
<1>4. Typed(s) /\ Alike(st, s) /\ ~s.inflight
  BY <1>2 DEF Typed, Fields, Alike
<1> HIDE DEF s
<1>5. Base(s) /\ Head(s.line) # Subscriber /\ s.key # None
  BY <1>2, <1>3, <1>4, Alikes DEF Base, Clean, Alike
<1>6. LET t == Raise(s, "raise") IN Base(t) /\ Head(t.line) # Subscriber /\ t.key # None
  BY <1>5, RaiseBase DEF Ends
<1> QED
  BY <1>1, <1>6, ResumeKeeps, Becomes DEF Almost, Keyed

(* The link has gone: whatever comes next, it comes to an end.               *)
LEMMA GoneKeeps ==
  ASSUME NEW s, Base(s), ~Up(s), NEW h \in Ends
  PROVE  Good(Finish(Raise(s, h))) /\ Good(Resume(Raise(s, h))) /\ Good(Resume(s))
<1>1. Base(Raise(s, h)) /\ ~Up(Raise(s, h))
  BY RaiseBase
<1> QED
  BY <1>1, LinkGone, FinishKeeps, ResumeKeeps

LEMMA AnsweredTooLateKeeps == Good(State) /\ AnsweredTooLate => Good(State')
<1> SUFFICES ASSUME Good(State), AnsweredTooLate PROVE Good(State')
  OBVIOUS
<1> DEFINE st == State
           s == [st EXCEPT !.inflight = FALSE]
<1>1. st.pc # "idle" /\ ~Up(st)
      /\ (Become(Resume(Raise(s, "raise"))) \/ Become(Finish(Raise(s, "raise"))))
  BY StateFields DEF AnsweredTooLate, Encrypted
<1>2. Typed(st) /\ Queue(st) /\ Calm(st) /\ st.line # <<>>
  BY <1>1, Holding
<1> HIDE DEF st
<1>3. Typed(s) /\ Alike(st, s) /\ ~s.inflight
  BY <1>2 DEF Typed, Fields, Alike
<1> HIDE DEF s
<1>4. Base(s) /\ ~Up(s)
  BY <1>1, <1>2, <1>3, Alikes DEF Base, Clean, Alike
<1> QED
  BY <1>1, <1>4, GoneKeeps, Becomes DEF Ends

(* An error, a timeout or a cancellation of a request closes the link.       *)
LEMMA FailKeepsGood ==
  ASSUME NEW s, NEW h \in Ends, Good(s), s.pc \in Encrypted
  PROVE  Good(FailAndClose(s, h))
<1> DEFINE t == Raise(s, h)
<1>1. Typed(s) /\ Queue(s) /\ Calm(s) /\ s.line # <<>> /\ Keyed(s)
  BY Holding DEF Encrypted, At
<1>2. Typed(t) /\ Steady(s, t) /\ t.pending = s.pending
  BY <1>1, RaiseFields
<1> HIDE DEF t
<1>3. Queue(t) /\ Calm(t) /\ t.line # <<>> /\ Keyed(t)
  BY <1>1, <1>2, Steadily
<1>4. Good(CloseThen(t, "closing"))
  BY <1>2, <1>3, CloseKeeps
<1> QED
  BY <1>4 DEF FailAndClose, t

LEMMA RequestFailsKeeps == Good(State) /\ RequestFails => Good(State')
<1> SUFFICES ASSUME Good(State), RequestFails PROVE Good(State')
  OBVIOUS
<1>1. PICK h \in {"raise", "retry"} : Become(FailAndClose(State, h))
  BY DEF RequestFails
<1>2. State.pc \in Encrypted /\ h \in Ends
  BY StateFields DEF RequestFails, Ends
<1> QED
  BY <1>1, <1>2, FailKeepsGood, Becomes

LEMMA MissingKeeps == Good(State) /\ Missing => Good(State')
<1> SUFFICES ASSUME Good(State), Missing PROVE Good(State')
  OBVIOUS
<1> DEFINE st == State
           s == [st EXCEPT !.inflight = FALSE]
           t == Raise(s, "missing")
<1>1. st.pc \in Encrypted
      /\ \/ st.kind[Head(st.line)] \notin Ops /\ Become(End(t))
         \/ Become(Resume(t)) \/ Become(Finish(t))
  BY StateFields DEF Missing, Ops
<1>2. /\ Typed(st) /\ Queue(st) /\ Calm(st) /\ st.line # <<>> /\ Keyed(st)
      /\ Head(st.line) = Subscriber <=> st.kind[Head(st.line)] = "subscriber"
  BY <1>1, Holding DEF Encrypted, At
<1> HIDE DEF st
<1>3. Typed(s) /\ Alike(st, s) /\ ~s.inflight
  BY <1>2 DEF Typed, Fields, Alike
<1> HIDE DEF s
<1>4. Base(s) /\ Keyed(s) /\ s.line = st.line /\ s.kind = st.kind
  BY <1>1, <1>2, <1>3, Alikes DEF Base, Clean, Alike
<1>5. Base(t) /\ Keyed(t) /\ t.how = "missing" /\ t.line = st.line
  BY <1>4, RaiseBase DEF Ends
<1> HIDE DEF t
<1>6. Almost(t)
  BY <1>5 DEF Almost
<1>7. st.kind[Head(st.line)] \notin Ops => Done(t)
  BY <1>2, <1>5 DEF Done, Ops
<1> QED
  BY <1>1, <1>5, <1>6, <1>7, EndKeeps, ResumeKeeps, FinishKeeps, Becomes

-----------------------------------------------------------------------------
(* The client's link is given up.                                            *)

(* t has lost what s had of its connection: its link is down, or forgotten.  *)
Parted(s, t) ==
  /\ Typed(t) /\ t.up \cap t.owed = {} /\ ~Up(t)
  /\ t.up \subseteq {t.client} \cup t.raised
  /\ t.line = s.line /\ t.kind = s.kind /\ t.attempt = s.attempt
  /\ t.closer = s.closer /\ t.shutdown = s.shutdown /\ t.cut = s.cut /\ t.pc = s.pc
  /\ t.todo = s.todo /\ t.how = s.how /\ t.target = s.target /\ t.key = None

LEMMA PartedCalm ==
  ASSUME NEW s, NEW t, Parted(s, t), Queue(s)
  PROVE  Typed(t) /\ Queue(t) /\ Calm(t) /\ Clean(t) /\ Keyed(t) /\ Almost(t) /\ Done(t)
         /\ ~Up(t) /\ ~Useful(t)
<1>1. Queue(t)
  BY DEF Parted, Queue, Lined
<1>2. ~Up(t) /\ Clean(t) /\ Keyed(t) /\ Almost(t) /\ Done(t) /\ ~Useful(t)
  BY LinkGone DEF Parted
<1>3. Linked(t) /\ Final(t) /\ Renewed(t) /\ Covered(t)
  BY <1>2 DEF Parted, Linked, Final, Renewed, Covered
<1> QED
  BY <1>1, <1>2, <1>3 DEF Calm, Parted

LEMMA DroppedParts ==
  ASSUME NEW s, Typed(s), Linked(s)
  PROVE  /\ Parted(s, Dropped(s)) /\ Parted(s, Abandoned(s))
         /\ s.client # None => Parted(s, Reset([s EXCEPT !.up = s.up \ {s.client},
                                                         !.owed = s.owed \ {s.client}]))
<1> DEFINE p == s.up \ {s.client}
           o == s.owed \ {s.client}
           r == s.raised \cup ({s.client} \ {None})
<1>1. /\ p \in SUBSET Links /\ o \in SUBSET Links /\ r \in SUBSET Links
      /\ p \cap o = {} /\ s.up \cap s.owed = {} /\ p \subseteq s.raised
      /\ s.up \subseteq r /\ s.client \notin p /\ None \notin p /\ None \notin s.up
      /\ None \in Links \cup {None} /\ {} \in SUBSET Chars
  BY LinksAssumption DEF Typed, Linked
<1> DEFINE d == Dropped(s)
           a == Abandoned(s)
           m == Reset([s EXCEPT !.up = p, !.owed = o])
<1>2. /\ DOMAIN d = Fields /\ d.client = None /\ d.key = None /\ d.up = p
      /\ d.owed = o /\ d.pending = FALSE /\ d.broadcast = {}
      /\ d.notifications = {} /\ d.subs = s.subs /\ d.timer = s.timer
      /\ d.shutdown = s.shutdown /\ d.line = s.line /\ d.kind = s.kind /\ d.pc = s.pc
      /\ d.attempt = s.attempt /\ d.todo = s.todo /\ d.how = s.how
      /\ d.target = s.target /\ d.replied = s.replied /\ d.closer = s.closer
      /\ d.inflight = s.inflight /\ d.late = s.late /\ d.cut = s.cut
      /\ d.sent = s.sent /\ d.raised = s.raised
  BY DEF Typed, Fields, Dropped, Forget, Reset
<1>3. /\ DOMAIN a = Fields /\ a.client = None /\ a.key = None /\ a.up = s.up
      /\ a.owed = s.owed /\ a.pending = FALSE /\ a.broadcast = {}
      /\ a.notifications = {} /\ a.subs = s.subs /\ a.timer = s.timer
      /\ a.shutdown = s.shutdown /\ a.line = s.line /\ a.kind = s.kind /\ a.pc = s.pc
      /\ a.attempt = s.attempt /\ a.todo = s.todo /\ a.how = s.how
      /\ a.target = s.target /\ a.replied = s.replied /\ a.closer = s.closer
      /\ a.inflight = s.inflight /\ a.late = s.late /\ a.cut = s.cut
      /\ a.sent = s.sent /\ a.raised = r
  BY DEF Typed, Fields, Abandoned, Forget, Reset
<1>4. /\ DOMAIN m = Fields /\ m.client = s.client /\ m.key = None /\ m.up = p
      /\ m.owed = o /\ m.pending = FALSE /\ m.broadcast = {}
      /\ m.notifications = {} /\ m.subs = s.subs /\ m.timer = s.timer
      /\ m.shutdown = s.shutdown /\ m.line = s.line /\ m.kind = s.kind /\ m.pc = s.pc
      /\ m.attempt = s.attempt /\ m.todo = s.todo /\ m.how = s.how
      /\ m.target = s.target /\ m.replied = s.replied /\ m.closer = s.closer
      /\ m.inflight = s.inflight /\ m.late = s.late /\ m.cut = s.cut
      /\ m.sent = s.sent /\ m.raised = s.raised
  BY DEF Typed, Fields, Reset
<1> HIDE DEF p, o, r, d, a, m
<1>5. Parted(s, d)
  BY <1>1, <1>2 DEF Parted, Typed, Up
<1>6. Parted(s, a)
  BY <1>1, <1>3 DEF Parted, Typed, Up
<1>7. Parted(s, m)
  BY <1>1, <1>4 DEF Parted, Typed, Up
<1> QED
  BY <1>5, <1>6, <1>7 DEF d, a, m, p, o

LEMMA MissingDoneKeeps == Good(State) /\ MissingDone => Good(State')
<1> SUFFICES ASSUME Good(State), MissingDone PROVE Good(State')
  OBVIOUS
<1> DEFINE s == State
           m == Reset([s EXCEPT !.up = s.up \ {s.client}, !.owed = s.owed \ {s.client}])
           r == s.raised \cup ({s.client} \ {None})
           a == [s EXCEPT !.raised = r]
<1>1. s.pc = "missing"
      /\ \/ s.client = None /\ Become(Retry(s))
         \/ s.client # None /\ Become(Retry(m))
         \/ Become(Retry(a))
  BY StateFields DEF MissingDone
<1>9. Base(s)
  BY <1>1, Holding DEF Encrypted
<1>2. Base(s) /\ Typed(s) /\ Queue(s) /\ Calm(s) /\ Clean(s) /\ s.line # <<>>
  BY <1>9 DEF Base
<1> HIDE DEF s
<1>3. ASSUME s.client = None PROVE Good(Retry(s))
  <2>1. ~Up(s)
    BY <1>2, <1>3, LinksAssumption DEF Typed, Up
  <2> QED
    BY <1>2, <2>1, LinkGone, RetryKeeps
<1>4. ASSUME s.client # None PROVE Good(Retry(m))
  <2>1. Parted(s, m)
    BY <1>2, <1>4, DroppedParts DEF Calm
  <2> HIDE DEF m
  <2>2. Base(m) /\ Done(m)
    BY <1>2, <2>1, PartedCalm DEF Base, Parted
  <2> QED
    BY <2>2, RetryKeeps
<1>5. Good(Retry(a))
  <2>1. r \in SUBSET Links /\ s.raised \subseteq r
    BY <1>2 DEF Typed
  <2>2. s.client \in Links => s.client \in r
    BY LinksAssumption
  <2> HIDE DEF r
  <2>3. /\ Typed(a) /\ a.raised = r
        /\ a.client = s.client /\ a.key = s.key /\ a.up = s.up /\ a.owed = s.owed
        /\ a.pending = s.pending /\ a.broadcast = s.broadcast /\ a.subs = s.subs
        /\ a.shutdown = s.shutdown /\ a.line = s.line /\ a.kind = s.kind
        /\ a.attempt = s.attempt /\ a.closer = s.closer /\ a.late = s.late /\ a.cut = s.cut
        /\ a.inflight = s.inflight
    BY <1>2, <2>1 DEF Typed, Fields
  <2> HIDE DEF a
  <2>4. (Up(a) <=> Up(s)) /\ ~Useful(a)
    BY <1>2, <2>2, <2>3 DEF Useful, Up, Typed
  <2>5. Queue(a) /\ Clean(a)
    BY <1>2, <2>3, <2>4 DEF Queue, Lined, Clean
  <2>6. Linked(a) /\ Final(a) /\ Renewed(a) /\ Covered(a)
    BY <1>2, <2>1, <2>3, <2>4 DEF Calm, Linked, Final, Renewed, Covered
  <2>7. Base(a) /\ Done(a)
    BY <1>2, <2>3, <2>4, <2>5, <2>6 DEF Base, Calm, Done
  <2> QED
    BY <2>7, RetryKeeps
<1> QED
  BY <1>1, <1>3, <1>4, <1>5, Becomes

LEMMA ClosingDoneKeeps == Good(State) /\ ClosingDone => Good(State')
<1> SUFFICES ASSUME Good(State), ClosingDone PROVE Good(State')
  OBVIOUS
<1> DEFINE s == State
<1>1. s.pc = "closing" /\ (Become(Resume(Dropped(s))) \/ Become(Resume(Abandoned(s))))
  BY StateFields DEF ClosingDone
<1>2. Typed(s) /\ Queue(s) /\ Calm(s) /\ s.line # <<>>
  BY <1>1, Holding
<1> HIDE DEF s
<1>3. ASSUME NEW t, Parted(s, t) PROVE Good(Resume(t))
  <2>1. Base(t) /\ Almost(t) /\ Keyed(t)
    BY <1>2, <1>3, PartedCalm DEF Base, Parted
  <2> QED
    BY <2>1, ResumeKeeps
<1>4. Parted(s, Dropped(s)) /\ Parted(s, Abandoned(s))
  BY <1>2, DroppedParts DEF Calm
<1> QED
  BY <1>1, <1>3, <1>4, Becomes

LEMMA CloseLockKeeps == Good(State) /\ CloseLock => Good(State')
<1> SUFFICES ASSUME Good(State), CloseLock PROVE Good(State')
  OBVIOUS
<1>1. State.pc = "closelock" /\ Become(CloseThen(State, "closing"))
  BY StateFields DEF CloseLock
<1>2. /\ Typed(State) /\ Queue(State) /\ Calm(State) /\ State.line # <<>>
      /\ State.kind[Head(State.line)] \notin Ops
  BY <1>1, Holding DEF At
<1>3. Keyed(State)
  BY <1>2 DEF Keyed
<1> QED
  BY <1>1, <1>2, <1>3, CloseKeeps, Becomes

-----------------------------------------------------------------------------
(* close() and shutdown().                                                   *)

(* t is s, but for the closer's own affairs.                                 *)
Beside(s, t) ==
  /\ Typed(t) /\ t.client = s.client /\ t.key = s.key /\ t.up = s.up /\ t.owed = s.owed
  /\ t.pending = s.pending /\ t.broadcast = s.broadcast /\ t.subs = s.subs
  /\ t.line = s.line /\ t.kind = s.kind /\ t.attempt = s.attempt /\ t.pc = s.pc
  /\ t.todo = s.todo /\ t.how = s.how /\ t.target = s.target /\ t.inflight = s.inflight
  /\ t.late = s.late /\ t.raised = s.raised
  /\ (s.shutdown => t.shutdown) /\ (s.cut => t.cut)

LEMMA BesideKeeps ==
  ASSUME NEW s, NEW t, Good(s), Beside(s, t), Final(t),
         s.pc = "connect" =>
           t.closer # "disconnect" /\ (t.shutdown /\ t.closer = "idle" => t.cut)
  PROVE  Good(t)
<1>1. Queue(s) /\ Linked(s) /\ Renewed(s) /\ Covered(s) /\ At(s)
  BY DEF Good, Calm
<1>2. /\ Up(t) <=> Up(s)
      /\ Enabled(t) <=> Enabled(s)
      /\ Useful(t) => Useful(s)
  BY DEF Beside, Up, Enabled, Useful
<1>3. Queue(t)
  BY <1>1 DEF Beside, Queue, Lined
<1>4. Linked(t) /\ Renewed(t) /\ Covered(t)
  BY <1>1, <1>2 DEF Beside, Linked, Renewed, Covered
<1>5. /\ Clean(s) => Clean(t)
      /\ Keyed(s) => Keyed(t)
  BY <1>2 DEF Beside, Clean, Keyed
<1>6. At(t)
  <2>1. /\ t.pc # "idle" => t.line # <<>>
        /\ t.pc \in {"idle", "backoff"} /\ t.line # <<>> =>
             t.attempt[Head(t.line)] < MaxAttempts
        /\ t.pc = "connect" =>
             ~Up(t) /\ t.closer # "disconnect" /\ (t.shutdown /\ t.closer = "idle" => t.cut)
        /\ t.pc = "verify" => t.key = None /\ t.target \in Links
        /\ t.pc = "notify" => Head(t.line) # Subscriber /\ t.todo # {}
        /\ t.pc = "rsub" => t.todo # {}
        /\ t.pc = "closelock" => t.kind[Head(t.line)] \notin Ops
        /\ Clean(t) \/ t.pc \in Encrypted \cup {"closing"}
        /\ t.pc \in Encrypted \cup {"closing"} => Keyed(t)
    BY <1>1, <1>2, <1>5 DEF At, Beside
  <2>2. /\ t.pc = "work" /\ Head(t.line) = Subscriber =>
             t.todo # {} /\ (Useful(t) => t.subs \subseteq t.broadcast \cup t.todo)
        /\ t.pc \in Waits /\ Head(t.line) = Subscriber /\ Useful(t) =>
             Enabled(t) \/ t.how = "missing"
        /\ t.pc = "rsub" /\ Useful(t) =>
             t.subs \subseteq t.broadcast \cup t.todo \/ t.kind[Subscriber] # "none"
    BY <1>1, <1>2 DEF At, Beside
  <2> QED
    BY <2>1, <2>2 DEF At
<1> QED
  BY <1>3, <1>4, <1>6 DEF Good, Calm, Beside

(* The closer waits for the lock, disconnects, or has nothing to do.         *)
LEMMA CloseNowKeeps ==
  ASSUME NEW s, NEW u, Good(s), s.closer # "disconnect", Typed(u),
         \A f \in Fields \ {"shutdown"} : u[f] = s[f], s.shutdown => u.shutdown
  PROVE  Good(CloseNow(u))
<1> DEFINE w == IF ConnectionLocked(u) THEN "lock" ELSE IF Up(u) THEN "disconnect" ELSE "idle"
           t == CloseNow(u)
<1>1. t = [u EXCEPT !.closer = w]
  BY DEF CloseNow
<1>2. w \in {"idle", "lock", "disconnect"}
  OBVIOUS
<1> HIDE DEF w
<1>3. /\ Typed(t) /\ t.closer = w
      /\ \A f \in Fields \ {"closer"} : t[f] = u[f]
  BY <1>1, <1>2 DEF Typed, Fields
<1> HIDE DEF t
<1>4. /\ u.pc = s.pc /\ u.client = s.client /\ u.up = s.up
      /\ t.client = s.client /\ t.up = s.up /\ t.shutdown = u.shutdown
  BY <1>3 DEF Fields
<1>5. Beside(s, t)
  BY <1>3 DEF Beside, Fields
<1>6. Final(t)
  BY <1>3, <1>4 DEF Final, Up, w
<1>7. s.pc = "connect" => w = "lock"
  BY <1>4 DEF w, ConnectionLocked
<1> QED
  BY <1>3, <1>5, <1>6, <1>7, BesideKeeps DEF t

LEMMA CloseStepKeeps ==
  Good(State) /\ (Close \/ Shutdown \/ CloserGoesOn) => Good(State')
<1> SUFFICES ASSUME Good(State), Close \/ Shutdown \/ CloserGoesOn PROVE Good(State')
  OBVIOUS
<1> DEFINE s == State
           d == [s EXCEPT !.shutdown = TRUE]
<1>1. s.closer # "disconnect" /\ (Become(CloseNow(s)) \/ Become(CloseNow(d)))
  BY StateFields DEF Close, Shutdown, CloserGoesOn
<1>2. Typed(s)
  BY DEF Good
<1> HIDE DEF s
<1>3. Typed(d) /\ d.shutdown = TRUE /\ \A f \in Fields \ {"shutdown"} : d[f] = s[f]
  BY <1>2 DEF Typed, Fields
<1> HIDE DEF d
<1>4. Good(s)
  BY DEF s
<1>5. Good(CloseNow(s))
  BY <1>1, <1>2, <1>4, CloseNowKeeps
<1>6. Good(CloseNow(d))
  BY <1>1, <1>3, <1>4, CloseNowKeeps
<1> QED
  BY <1>1, <1>5, <1>6, Becomes

LEMMA CloserCancelledKeeps == Good(State) /\ CloserCancelled => Good(State')
<1> SUFFICES ASSUME Good(State), CloserCancelled PROVE Good(State')
  OBVIOUS
<1> DEFINE s == State
           t == [s EXCEPT !.closer = "idle", !.cut = TRUE]
<1>1. Become(t) /\ Typed(s) /\ Good(s)
  BY DEF CloserCancelled, Good
<1> HIDE DEF s
<1>2. /\ Typed(t) /\ t.closer = "idle" /\ t.cut = TRUE
      /\ \A f \in Fields \ {"closer", "cut"} : t[f] = s[f]
  BY <1>1 DEF Typed, Fields
<1> HIDE DEF t
<1>3. Beside(s, t)
  BY <1>2 DEF Beside, Fields
<1>4. Final(t)
  BY <1>2 DEF Final
<1> QED
  BY <1>1, <1>2, <1>3, <1>4, BesideKeeps, Becomes

(* The client's link is gone, and the connection was not being opened.       *)
LEMMA CloserDoneKeeps == Good(State) /\ CloserDone => Good(State')
<1> SUFFICES ASSUME Good(State), CloserDone PROVE Good(State')
  OBVIOUS
<1> DEFINE s == State
<1>1. /\ s.closer = "disconnect"
      /\ \/ Become([Dropped(s) EXCEPT !.closer = "idle"])
         \/ Become([Abandoned(s) EXCEPT !.closer = "idle"])
  BY StateFields DEF CloserDone
<1>2. Typed(s) /\ Queue(s) /\ Linked(s) /\ At(s)
  BY DEF Good, Calm
<1> HIDE DEF s
<1>3. ASSUME NEW u, Parted(s, u) PROVE Good([u EXCEPT !.closer = "idle"])
  <2> DEFINE t == [u EXCEPT !.closer = "idle"]
  <2>1. Typed(u) /\ Queue(u) /\ Calm(u) /\ ~Up(u)
    BY <1>2, <1>3, PartedCalm
  <2>2. Typed(t) /\ \A f \in Fields \ {"closer"} : t[f] = u[f]
    BY <2>1 DEF Typed, Fields
  <2> HIDE DEF t
  <2>3. ~Up(t) /\ Queue(t)
    BY <2>1, <2>2 DEF Up, Queue, Lined, Fields
  <2>4. Clean(t) /\ Keyed(t) /\ ~Useful(t)
    BY <2>3, LinkGone
  <2>5. Linked(t) /\ Final(t) /\ Renewed(t) /\ Covered(t)
    BY <2>1, <2>2, <2>3, <2>4 DEF Calm, Linked, Final, Renewed, Covered, Fields
  <2>6. /\ t.pc = s.pc /\ t.line = s.line /\ t.kind = s.kind /\ t.attempt = s.attempt
        /\ t.todo = s.todo /\ t.target = s.target /\ t.key = None
    BY <1>3, <2>2 DEF Parted, Fields
  <2>7. At(t)
    BY <1>1, <1>2, <2>3, <2>4, <2>6 DEF At
  <2> QED
    BY <2>2, <2>3, <2>5, <2>7 DEF Good, Calm, t
<1>4. Parted(s, Dropped(s)) /\ Parted(s, Abandoned(s))
  BY <1>2, DroppedParts
<1> QED
  BY <1>1, <1>3, <1>4, Becomes

-----------------------------------------------------------------------------
(* Tasks line up, and are cancelled.                                         *)

(* Task x lines up; the subscriber with what is new to subscribe to.         *)
Joins(s, t, x) ==
  /\ Typed(t) /\ t.client = s.client /\ t.key = s.key /\ t.up = s.up /\ t.owed = s.owed
  /\ t.pending = s.pending /\ t.broadcast = s.broadcast /\ t.shutdown = s.shutdown
  /\ t.attempt = s.attempt /\ t.pc = s.pc /\ t.todo = s.todo /\ t.how = s.how
  /\ t.target = s.target /\ t.closer = s.closer /\ t.inflight = s.inflight
  /\ t.late = s.late /\ t.cut = s.cut /\ t.raised = s.raised
  /\ t.subs = s.subs \/ x = Subscriber
  /\ t.line = Append(s.line, x)
  /\ t.kind[x] # "none" /\ (t.kind[x] = "subscriber" <=> x = Subscriber)
  /\ \A y \in Tasks \ {x} : t.kind[y] = s.kind[y]

LEMMA JoinsKeeps ==
  ASSUME NEW s, NEW t, NEW x \in Tasks, Good(s), s.kind[x] = "none", Joins(s, t, x)
  PROVE  Good(t)
<1>1. Typed(s) /\ Queue(s) /\ Linked(s) /\ Final(s) /\ Renewed(s) /\ Covered(s) /\ At(s)
  BY DEF Good, Calm
<1>2. /\ s.line \in Seq(Tasks) /\ Once(s.line) /\ Len(s.line) \in Nat
      /\ \A i \in 1..Len(s.line) : s.line[i] \in Tasks \ {x}
  BY <1>1 DEF Typed, Queue
<1>3. /\ Once(t.line) /\ t.line # <<>> /\ Len(t.line) = Len(s.line) + 1
      /\ \A i \in 1..Len(t.line) :
           IF i \in 1..Len(s.line) THEN t.line[i] = s.line[i] ELSE t.line[i] = x
      /\ s.line = <<>> => t.line[1] = x
      /\ s.line # <<>> => t.line[1] = s.line[1] /\ 1 \in 1..Len(s.line)
  BY <1>2, Appended DEF Joins
<1>4. Head(t.line) = t.line[1] /\ (s.line # <<>> => Head(s.line) = s.line[1])
  BY <1>2, <1>3 DEF Joins, Typed
<1>5. Queue(t)
  <2>1. ASSUME NEW i \in 1..Len(t.line) PROVE t.kind[t.line[i]] # "none"
    BY <1>1, <1>2, <1>3 DEF Joins, Queue
  <2>2. ASSUME NEW i \in 2..Len(t.line) PROVE t.attempt[t.line[i]] < MaxAttempts
    <3>1. CASE i \in 1..Len(s.line)
      <4>1. i \in 2..Len(s.line) /\ t.line[i] = s.line[i]
        BY <1>2, <1>3, <3>1
      <4> QED
        BY <1>1, <4>1 DEF Joins, Queue
    <3>2. CASE i \notin 1..Len(s.line)
      <4>1. t.line[i] = x /\ s.attempt[x] = 0
        BY <1>1, <1>3, <3>2 DEF Queue
      <4> QED
        BY <4>1, AttemptsAssumption DEF Joins
    <3> QED
      BY <3>1, <3>2
  <2>3. \A y \in Tasks : /\ t.kind[y] = "none" => t.attempt[y] = 0
                         /\ t.kind[y] = "subscriber" => y = Subscriber
    BY <1>1 DEF Joins, Queue
  <2>4. t.kind[Subscriber] \in {"none", "subscriber"}
    BY <1>1 DEF Joins, Queue, Tasks
  <2>5. ASSUME NEW y \in Tasks, t.kind[y] # "none" PROVE \E i \in 1..Len(t.line) : t.line[i] = y
    <3>1. CASE y = x
      <4>1. Len(t.line) \in 1..Len(t.line) /\ Len(t.line) \notin 1..Len(s.line)
        BY <1>2, <1>3
      <4> QED
        BY <1>3, <3>1, <4>1
    <3>2. CASE y # x
      <4>1. PICK i \in 1..Len(s.line) : s.line[i] = y
        BY <1>1, <2>5, <3>2 DEF Joins, Queue, Lined
      <4>2. i \in 1..Len(t.line)
        BY <1>2, <1>3
      <4> QED
        BY <1>3, <4>1, <4>2
    <3> QED
      BY <3>1, <3>2
  <2> QED
    BY <1>3, <2>1, <2>2, <2>3, <2>4, <2>5 DEF Queue, Lined
<1>6. /\ Up(t) <=> Up(s)
      /\ Useful(t) <=> Useful(s)
      /\ t.subs = s.subs => (Enabled(t) <=> Enabled(s))
  BY DEF Joins, Up, Useful, Enabled
<1>7. t.kind[Subscriber] = "none" => s.kind[Subscriber] = "none" /\ t.subs = s.subs
  BY DEF Joins, Tasks
<1>8. Linked(t) /\ Final(t) /\ Renewed(t) /\ Covered(t)
  BY <1>1, <1>6, <1>7 DEF Joins, Linked, Final, Renewed, Covered
<1>9. Clean(s) => Clean(t)
  BY <1>6 DEF Joins, Clean
<1>10. ASSUME s.line # <<>>
       PROVE  /\ Head(t.line) = Head(s.line) /\ Head(s.line) \in Tasks \ {x}
              /\ t.kind[Head(t.line)] = s.kind[Head(s.line)]
  BY <1>2, <1>3, <1>4, <1>10 DEF Joins
<1>11. ASSUME s.line # <<>> PROVE Keyed(s) => Keyed(t)
  BY <1>6, <1>10, <1>11 DEF Keyed, Joins
<1>12. Head(s.line) = Subscriber /\ s.line # <<>> => t.subs = s.subs
  BY <1>10 DEF Joins
<1>13. At(t)
  <2>1. CASE s.line = <<>>
    <3>1. t.pc = "idle" /\ Clean(t)
      BY <1>1, <1>9, <2>1 DEF At, Joins, Encrypted
    <3>2. t.attempt[Head(t.line)] = 0
      BY <1>1, <1>3, <1>4, <2>1 DEF Queue, Joins
    <3> QED
      BY <3>1, <3>2, AttemptsAssumption DEF At, Encrypted, Waits
  <2>2. CASE s.line # <<>>
    <3>1. /\ t.pc \in {"idle", "backoff"} => t.attempt[Head(t.line)] < MaxAttempts
          /\ t.pc = "connect" =>
               ~Up(t) /\ t.closer # "disconnect" /\ (t.shutdown /\ t.closer = "idle" => t.cut)
          /\ t.pc = "verify" => t.key = None /\ t.target \in Links
          /\ t.pc = "notify" => Head(t.line) # Subscriber /\ t.todo # {}
          /\ t.pc = "rsub" => t.todo # {}
          /\ t.pc = "closelock" => t.kind[Head(t.line)] \notin Ops
          /\ Clean(t) \/ t.pc \in Encrypted \cup {"closing"}
          /\ t.pc \in Encrypted \cup {"closing"} => Keyed(t)
      BY <1>1, <1>6, <1>9, <1>10, <1>11, <2>2 DEF At, Joins
    <3>2. /\ t.pc = "work" /\ Head(t.line) = Subscriber =>
               t.todo # {} /\ (Useful(t) => t.subs \subseteq t.broadcast \cup t.todo)
          /\ t.pc \in Waits /\ Head(t.line) = Subscriber /\ Useful(t) =>
               Enabled(t) \/ t.how = "missing"
          /\ t.pc = "rsub" /\ Useful(t) =>
               t.subs \subseteq t.broadcast \cup t.todo \/ t.kind[Subscriber] # "none"
      BY <1>1, <1>6, <1>7, <1>10, <1>12, <2>2 DEF At, Joins
    <3> QED
      BY <1>3, <3>1, <3>2 DEF At
  <2> QED
    BY <2>1, <2>2
<1> QED
  BY <1>5, <1>8, <1>13 DEF Good, Calm, Joins

LEMMA LineUpJoins ==
  ASSUME NEW s, Typed(s), NEW x \in Tasks, NEW k \in Kinds \ {"none"},
         k = "subscriber" <=> x = Subscriber
  PROVE  Joins(s, LineUp(s, x, k), x)
<1> DEFINE t == LineUp(s, x, k)
           q == Append(s.line, x)
           w == [s.kind EXCEPT ![x] = k]
<1>1. q \in Seq(Tasks)
  BY DEF Typed
<1>2. w \in [Tasks -> Kinds] /\ w[x] = k /\ \A y \in Tasks \ {x} : w[y] = s.kind[y]
  BY DEF Typed
<1>3. /\ DOMAIN t = Fields /\ t.line = q /\ t.kind = w
      /\ \A f \in Fields \ {"line", "kind"} : t[f] = s[f]
  BY DEF LineUp, Typed, Fields
<1> HIDE DEF t, w, q
<1>4. Typed(t)
  BY <1>1, <1>2, <1>3 DEF Typed, Fields
<1> QED
  BY <1>2, <1>3, <1>4 DEF Joins, Fields, t, q

LEMMA CallKeeps ==
  ASSUME NEW c \in Callers, NEW k \in {"get", "op", "closeAfter"}
  PROVE  Good(State) /\ Call(c, k) => Good(State')
<1> SUFFICES ASSUME Good(State), Call(c, k) PROVE Good(State')
  OBVIOUS
<1>1. State.kind[c] = "none" /\ Become(LineUp(State, c, k)) /\ Typed(State)
  BY StateFields DEF Call, Good
<1>2. c \in Tasks /\ c # Subscriber /\ k \in Kinds \ {"none", "subscriber"}
  BY CallersAssumption DEF Tasks, Subscriber, Kinds
<1>3. Joins(State, LineUp(State, c, k), c)
  BY <1>1, <1>2, LineUpJoins
<1> QED
  BY <1>1, <1>2, <1>3, JoinsKeeps, Becomes

LEMMA SubscribeKeeps ==
  ASSUME NEW i \in Chars
  PROVE  Good(State) /\ Subscribe(i) => Good(State')
<1> SUFFICES ASSUME Good(State), Subscribe(i) PROVE Good(State')
  OBVIOUS
<1> DEFINE st == State
           b == st.subs \cup {i}
           s == [st EXCEPT !.subs = b]
           u == [s EXCEPT !.timer = TRUE]
           t == LineUp(u, Subscriber, "subscriber")
<1>1. st.kind[Subscriber] = "none" /\ Become(IF Up(s) THEN t ELSE s)
  BY StateFields DEF Subscribe
<1>2. Good(st) /\ Typed(st) /\ Queue(st) /\ Linked(st) /\ Renewed(st) /\ At(st)
      /\ b \in SUBSET Chars
  BY DEF Good, Calm, Typed
<1> HIDE DEF st, b
<1>3. Typed(s) /\ s.subs = b /\ \A f \in Fields \ {"subs"} : s[f] = st[f]
  BY <1>2 DEF Typed, Fields
<1> HIDE DEF s
<1>4. Typed(u) /\ u.timer = TRUE /\ \A f \in Fields \ {"timer"} : u[f] = s[f]
  BY <1>3 DEF Typed, Fields
<1> HIDE DEF u
<1>5. CASE Up(s)
  <2>1. Joins(u, t, Subscriber)
    BY <1>4, LineUpJoins DEF Tasks, Kinds
  <2> HIDE DEF t
  <2>2. /\ u.client = st.client /\ u.key = st.key /\ u.up = st.up /\ u.owed = st.owed
        /\ u.pending = st.pending /\ u.broadcast = st.broadcast
        /\ u.shutdown = st.shutdown /\ u.attempt = st.attempt /\ u.pc = st.pc
        /\ u.todo = st.todo /\ u.how = st.how /\ u.target = st.target
        /\ u.closer = st.closer /\ u.inflight = st.inflight /\ u.late = st.late
        /\ u.cut = st.cut /\ u.raised = st.raised /\ u.line = st.line /\ u.kind = st.kind
    BY <1>3, <1>4 DEF Fields
  <2>3. Joins(st, t, Subscriber)
    BY <2>1, <2>2 DEF Joins
  <2>4. Subscriber \in Tasks
    BY DEF Tasks
  <2> QED
    BY <1>1, <1>2, <1>5, <2>3, <2>4, JoinsKeeps, Becomes
<1>6. CASE ~Up(s)
  <2>1. ~Up(st) /\ s.line = st.line /\ s.kind = st.kind /\ s.attempt = st.attempt
        /\ s.up = st.up /\ s.owed = st.owed /\ s.client = st.client /\ s.raised = st.raised
    BY <1>3, <1>6 DEF Up, Fields
  <2>2. /\ s.pc = st.pc /\ s.closer = st.closer /\ s.shutdown = st.shutdown
        /\ s.cut = st.cut /\ s.key = st.key /\ s.target = st.target /\ s.todo = st.todo
    BY <1>3 DEF Fields
  <2>3. Clean(s) /\ Keyed(s) /\ ~Useful(s)
    BY <1>6, LinkGone
  <2>4. Queue(s)
    BY <1>2, <2>1 DEF Queue, Lined
  <2>5. Linked(s) /\ Final(s) /\ Renewed(s) /\ Covered(s)
    BY <1>2, <1>6, <2>1, <2>3 DEF Linked, Final, Renewed, Covered
  <2>6. At(s)
    BY <1>2, <1>6, <2>1, <2>2, <2>3 DEF At
  <2> QED
    BY <1>1, <1>3, <1>6, <2>4, <2>5, <2>6, Becomes DEF Good, Calm
<1> QED
  BY <1>5, <1>6

LEMMA TimerFiresKeeps == Good(State) /\ TimerFires => Good(State')
<1> SUFFICES ASSUME Good(State), TimerFires PROVE Good(State')
  OBVIOUS
<1> DEFINE s == State
           u == [s EXCEPT !.timer = FALSE]
           t == LineUp(u, Notifier, "notifier")
<1>1. s.kind[Notifier] = "none" /\ Become(t) /\ Good(s) /\ Typed(s)
  BY StateFields DEF TimerFires, Good
<1> HIDE DEF s
<1>2. Typed(u) /\ \A f \in Fields \ {"timer"} : u[f] = s[f]
  BY <1>1 DEF Typed, Fields
<1> HIDE DEF u
<1>3. Notifier \in Tasks /\ Notifier # Subscriber
  BY DEF Tasks, Notifier, Subscriber
<1>4. Joins(u, t, Notifier)
  BY <1>2, <1>3, LineUpJoins DEF Kinds
<1> HIDE DEF t
<1>5. /\ u.client = s.client /\ u.key = s.key /\ u.up = s.up /\ u.owed = s.owed
      /\ u.pending = s.pending /\ u.broadcast = s.broadcast /\ u.subs = s.subs
      /\ u.shutdown = s.shutdown /\ u.attempt = s.attempt /\ u.pc = s.pc
      /\ u.todo = s.todo /\ u.how = s.how /\ u.target = s.target
      /\ u.closer = s.closer /\ u.inflight = s.inflight /\ u.late = s.late
      /\ u.cut = s.cut /\ u.raised = s.raised /\ u.line = s.line /\ u.kind = s.kind
  BY <1>2 DEF Fields
<1>6. Joins(s, t, Notifier)
  BY <1>4, <1>5 DEF Joins
<1> QED
  BY <1>1, <1>3, <1>6, JoinsKeeps, Becomes

LEMMA NotifiedKeeps == Good(State) /\ Notified => Good(State')
<1> SUFFICES ASSUME Good(State), Notified PROVE Good(State')
  OBVIOUS
<1>1. State.kind[Event] = "none" /\ Become(LineUp(State, Event, "event")) /\ Typed(State)
  BY StateFields DEF Notified, Good
<1>2. Event \in Tasks /\ Event # Subscriber
  BY DEF Tasks, Event, Subscriber
<1>3. Joins(State, LineUp(State, Event, "event"), Event)
  BY <1>1, <1>2, LineUpJoins DEF Kinds
<1> QED
  BY <1>1, <1>2, <1>3, JoinsKeeps, Becomes

LEMMA CancelHolderKeeps == Good(State) /\ CancelHolder => Good(State')
<1> SUFFICES ASSUME Good(State), CancelHolder PROVE Good(State')
  OBVIOUS
<1> DEFINE s == State
           t == [s EXCEPT !.cut = TRUE]
<1>1. /\ s.pc # "idle" /\ Head(s.line) \in Callers
      /\ \/ s.pc \in Encrypted /\ Become(FailAndClose(s, "raise"))
         \/ s.pc = "closing" /\ Become(Resume(Raise(t, "raise")))
         \/ s.pc \notin Encrypted \cup {"closing"} /\ Become(End(s))
  BY StateFields DEF CancelHolder
<1>2. /\ Good(s) /\ Typed(s) /\ Queue(s) /\ Calm(s) /\ At(s) /\ s.line # <<>>
      /\ s.pc \notin Encrypted \cup {"closing"} => Base(s)
  BY <1>1, Holding
<1>3. Head(s.line) # Subscriber
  BY <1>1, CallersAssumption DEF Subscriber
<1> HIDE DEF s
<1>4. CASE s.pc \in Encrypted /\ Become(FailAndClose(s, "raise"))
  BY <1>2, <1>4, FailKeepsGood, Becomes DEF Ends
<1>5. CASE s.pc = "closing" /\ Become(Resume(Raise(t, "raise")))
  <2>1. Typed(t) /\ t.cut = TRUE /\ \A f \in Fields \ {"cut"} : t[f] = s[f]
    BY <1>2 DEF Typed, Fields
  <2> HIDE DEF t
  <2>2. /\ t.client = s.client /\ t.key = s.key /\ t.up = s.up /\ t.owed = s.owed
        /\ t.pending = s.pending /\ t.broadcast = s.broadcast /\ t.subs = s.subs
        /\ t.shutdown = s.shutdown /\ t.attempt = s.attempt /\ t.late = s.late
        /\ t.raised = s.raised /\ t.line = s.line /\ t.kind = s.kind
    BY <2>1 DEF Fields
  <2>3. Queue(t)
    BY <1>2, <2>2 DEF Queue, Lined
  <2>4. Linked(t) /\ Final(t) /\ Renewed(t) /\ Covered(t) /\ Clean(t)
    BY <1>2, <2>1, <2>2
      DEF Calm, Linked, Final, Renewed, Covered, Clean, Useful, Enabled, Up
  <2>5. Keyed(t)
    BY <1>2, <1>5, <2>2 DEF At, Keyed, Up
  <2>6. Base(t)
    BY <1>2, <2>1, <2>2, <2>3, <2>4 DEF Base, Calm
  <2> DEFINE u == Raise(t, "raise")
  <2>7. Base(u) /\ Keyed(u) /\ u.line = s.line
    BY <2>2, <2>5, <2>6, RaiseBase DEF Ends
  <2> HIDE DEF u
  <2>8. Almost(u)
    BY <1>3, <2>7 DEF Almost
  <2>9. Good(Resume(u))
    BY <2>7, <2>8, ResumeKeeps
  <2> QED
    BY <1>5, <2>9, Becomes DEF u
<1>6. CASE s.pc \notin Encrypted \cup {"closing"} /\ Become(End(s))
  <2>1. Done(s)
    BY <1>3 DEF Done
  <2> QED
    BY <1>2, <1>6, <2>1, EndKeeps, Becomes
<1> QED
  BY <1>1, <1>4, <1>5, <1>6

(* r is q without its p-th.                                                  *)
Without(r, q, p) ==
  /\ r \in Seq(Tasks) /\ Len(r) = Len(q) - 1
  /\ \A i \in 1..Len(r) : r[i] = IF i < p THEN q[i] ELSE q[i + 1]

LEMMA Removed ==
  ASSUME NEW q \in Seq(Tasks), NEW p \in 1..Len(q), NEW c, q[p] = c, Once(q),
         NEW rest, rest = RemoveFirst(q, c)
  PROVE  Without(rest, q, p)
<1> DEFINE I == {i \in 1..Len(q) : q[i] = c}
           a == SubSeq(q, 1, p - 1)
           b == SubSeq(q, p + 1, Len(q))
           n == Len(q)
<1>1. I = {p}
  BY DEF Once
<1>2. Min(I) = p
  BY <1>1 DEF Min
<1>3. rest = RemoveAt(q, p)
  BY <1>1, <1>2, Zenon DEF RemoveFirst, SelectInSeq
<1>4. n \in Nat /\ p \in 1..n
  OBVIOUS
<1>5. a \in Seq(Tasks) /\ Len(a) = p - 1 /\ \A i \in 1..p - 1 : a[i] = q[i]
  BY SubSeqProperties
<1>6. b \in Seq(Tasks) /\ Len(b) = n - p /\ \A i \in 1..n - p : b[i] = q[p + i]
  BY SubSeqProperties
<1>7. rest = a \o b
  BY <1>3 DEF RemoveAt
<1> HIDE DEF a, b, n
<1>8. /\ rest \in Seq(Tasks) /\ Len(rest) = n - 1
      /\ \A i \in 1..n - 1 : rest[i] = IF i < p THEN a[i] ELSE b[i - (p - 1)]
  <2>1. Len(a) \in Nat /\ Len(b) \in Nat
    BY <1>5, <1>6
  <2>2. /\ a \o b \in Seq(Tasks) /\ Len(a \o b) = Len(a) + Len(b)
        /\ \A i \in 1..Len(a) + Len(b) :
             (a \o b)[i] = IF i <= Len(a) THEN a[i] ELSE b[i - Len(a)]
    BY <1>5, <1>6, ConcatProperties
  <2> QED
    BY <1>4, <1>5, <1>6, <1>7, <2>1, <2>2
<1>9. ASSUME NEW i \in 1..n - 1
      PROVE  rest[i] = IF i < p THEN q[i] ELSE q[i + 1]
  <2>1. CASE i < p
    BY <1>4, <1>5, <1>8, <2>1
  <2>2. CASE i >= p
    <3>1. i - (p - 1) \in 1..n - p /\ p + (i - (p - 1)) = i + 1
      BY <1>4, <2>2
    <3> QED
      BY <1>4, <1>6, <1>8, <2>2, <3>1
  <2> QED
    BY <1>4, <2>1, <2>2
<1> QED
  BY <1>8, <1>9 DEF n, Without

(* A task of the user leaves the line it waits in.                           *)
LEMMA CancelWaitingKeeps ==
  ASSUME NEW c \in Callers
  PROVE  Good(State) /\ CancelWaiting(c) => Good(State')
<1> SUFFICES ASSUME Good(State), CancelWaiting(c) PROVE Good(State')
  OBVIOUS
<1> DEFINE s == State
           q == RemoveFirst(s.line, c)
           k == [s.kind EXCEPT ![c] = "none"]
           a == [s.attempt EXCEPT ![c] = 0]
           t == [s EXCEPT !.kind[c] = "none", !.attempt[c] = 0,
                          !.line = RemoveFirst(@, c)]
<1>1. s.kind[c] # "none" /\ (s.pc # "idle" => Head(s.line) # c) /\ Become(t)
  BY StateFields DEF CancelWaiting
<1>2. Typed(s) /\ Queue(s) /\ Linked(s) /\ Final(s) /\ Renewed(s) /\ Covered(s) /\ At(s)
  BY DEF Good, Calm
<1>3. c \in Tasks /\ c # Subscriber
  BY CallersAssumption DEF Tasks, Subscriber
<1> HIDE DEF s
<1>4. PICK p \in 1..Len(s.line) : s.line[p] = c
  BY <1>1, <1>2, <1>3 DEF Queue, Lined
<1>5. /\ q \in Seq(Tasks) /\ Len(q) = Len(s.line) - 1 /\ Len(s.line) \in Nat
      /\ \A i \in 1..Len(q) : q[i] = IF i < p THEN s.line[i] ELSE s.line[i + 1]
  <2>1. s.line \in Seq(Tasks) /\ Once(s.line)
    BY <1>2 DEF Typed, Queue
  <2>2. q = RemoveFirst(s.line, c)
    OBVIOUS
  <2> HIDE DEF q
  <2>3. Without(q, s.line, p)
    BY <1>4, <2>1, <2>2, Removed
  <2> QED
    BY <2>1, <2>3 DEF Without
<1>6. /\ k \in [Tasks -> Kinds] /\ k[c] = "none" /\ \A x \in Tasks \ {c} : k[x] = s.kind[x]
      /\ a \in [Tasks -> 0..MaxAttempts] /\ a[c] = 0
      /\ \A x \in Tasks \ {c} : a[x] = s.attempt[x]
  BY <1>2, <1>3, AttemptsAssumption DEF Typed, Kinds
<1>7. /\ DOMAIN t = Fields /\ t.line = q /\ t.kind = k /\ t.attempt = a
      /\ \A f \in Fields \ {"line", "kind", "attempt"} : t[f] = s[f]
  BY <1>2 DEF Typed, Fields
<1> HIDE DEF t, q, k, a
<1>8. Typed(t)
  BY <1>2, <1>5, <1>6, <1>7 DEF Typed, Fields
<1>9. ASSUME NEW i \in 1..Len(q)
      PROVE  \E j \in 1..Len(s.line) : q[i] = s.line[j] /\ j # p /\ (i > 1 => j > 1)
  <2>1. CASE i < p
    BY <1>4, <1>5, <2>1
  <2>2. CASE i >= p
    BY <1>4, <1>5, <2>2
  <2> QED
    BY <1>5, <2>1, <2>2
<1>10. \A i \in 1..Len(q) : q[i] \in Tasks \ {c}
  <2>1. \A j \in 1..Len(s.line) : s.line[j] \in Tasks /\ (s.line[j] = c => j = p)
    BY <1>2, <1>4 DEF Typed, Queue, Once
  <2> QED
    BY <1>9, <2>1
<1>11. Once(q)
  <2> SUFFICES ASSUME NEW i \in 1..Len(q), NEW j \in 1..Len(q), q[i] = q[j] PROVE i = j
    BY DEF Once
  <2> DEFINE f == IF i < p THEN i ELSE i + 1
             g == IF j < p THEN j ELSE j + 1
  <2>1. f \in 1..Len(s.line) /\ q[i] = s.line[f]
    BY <1>4, <1>5
  <2>2. g \in 1..Len(s.line) /\ q[j] = s.line[g]
    BY <1>4, <1>5
  <2>3. f = g => i = j
    BY <1>4, <1>5
  <2> HIDE DEF f, g
  <2>4. f = g
    BY <1>2, <2>1, <2>2 DEF Queue, Once
  <2> QED
    BY <2>3, <2>4
<1>12. ASSUME NEW i \in 1..Len(q)
       PROVE  k[q[i]] # "none" /\ (i > 1 => a[q[i]] < MaxAttempts)
  <2>1. PICK j \in 1..Len(s.line) : q[i] = s.line[j] /\ j # p /\ (i > 1 => j > 1)
    BY <1>9
  <2>2. j > 1 => j \in 2..Len(s.line)
    BY <1>5
  <2>3. s.kind[q[i]] # "none" /\ (i > 1 => s.attempt[q[i]] < MaxAttempts)
    BY <1>2, <2>1, <2>2 DEF Queue
  <2> QED
    BY <1>6, <1>10, <2>3
<1>13. Lined(t)
  <2> SUFFICES ASSUME NEW x \in Tasks, k[x] # "none" PROVE \E i \in 1..Len(q) : q[i] = x
    BY <1>7 DEF Lined
  <2>1. x # c /\ s.kind[x] # "none"
    BY <1>6
  <2>2. PICK j \in 1..Len(s.line) : s.line[j] = x
    BY <1>2, <2>1 DEF Queue, Lined
  <2>3. j # p
    BY <1>4, <2>1, <2>2
  <2>4. CASE j < p
    BY <1>4, <1>5, <2>2, <2>4
  <2>5. CASE j > p
    <3>1. j - 1 \in 1..Len(q) /\ ~(j - 1 < p) /\ (j - 1) + 1 = j
      BY <1>4, <1>5, <2>5
    <3> QED
      BY <1>5, <2>2, <3>1
  <2> QED
    BY <1>5, <2>3, <2>4, <2>5
<1>14. Queue(t)
  <2>1. \A i \in 2..Len(q) : i \in 1..Len(q) /\ i > 1
    BY <1>5
  <2>2. \A x \in Tasks : /\ k[x] = "none" => a[x] = 0
                         /\ k[x] = "subscriber" => x = Subscriber
    BY <1>2, <1>6 DEF Queue
  <2>3. k[Subscriber] = s.kind[Subscriber] /\ s.kind[Subscriber] \in {"none", "subscriber"}
    BY <1>2, <1>3, <1>6 DEF Queue, Tasks
  <2> QED
    BY <1>7, <1>11, <1>12, <1>13, <2>1, <2>2, <2>3 DEF Queue
<1>15. /\ t.client = s.client /\ t.key = s.key /\ t.up = s.up /\ t.owed = s.owed
       /\ t.pending = s.pending /\ t.broadcast = s.broadcast /\ t.subs = s.subs
       /\ t.shutdown = s.shutdown /\ t.pc = s.pc /\ t.todo = s.todo /\ t.how = s.how
       /\ t.target = s.target /\ t.closer = s.closer /\ t.inflight = s.inflight
       /\ t.late = s.late /\ t.cut = s.cut /\ t.raised = s.raised
       /\ t.kind[Subscriber] = s.kind[Subscriber]
  BY <1>3, <1>6, <1>7 DEF Fields, Tasks
<1>16. (Up(t) <=> Up(s)) /\ (Useful(t) <=> Useful(s)) /\ (Enabled(t) <=> Enabled(s))
  BY <1>15 DEF Up, Useful, Enabled
<1>17. Linked(t) /\ Final(t) /\ Renewed(t) /\ Covered(t)
  BY <1>2, <1>15, <1>16 DEF Linked, Final, Renewed, Covered
<1>18. Clean(s) => Clean(t)
  BY <1>15, <1>16 DEF Clean
<1>19. /\ q # <<>> => Head(q) = q[1] /\ 1 \in 1..Len(q) /\ (p # 1 => q[1] = s.line[1])
       /\ Head(s.line) = s.line[1] /\ s.line # <<>> /\ s.line[1] \in Tasks
       /\ p # 1 => q # <<>>
  BY <1>2, <1>4, <1>5 DEF Typed
<1>20. t.pc # "idle" => /\ q # <<>> /\ Head(q) = Head(s.line)
                        /\ k[Head(q)] = s.kind[Head(s.line)]
                        /\ a[Head(q)] = s.attempt[Head(s.line)]
  BY <1>1, <1>4, <1>6, <1>15, <1>19
<1>21. t.pc = "idle" /\ q # <<>> => a[Head(q)] < MaxAttempts
  <2>1. CASE p = 1 /\ q # <<>>
    <3>1. 2 \in 2..Len(s.line) /\ q[1] = s.line[2]
      BY <1>5, <1>19, <2>1
    <3>2. s.attempt[s.line[2]] < MaxAttempts
      BY <1>2, <3>1 DEF Queue
    <3> QED
      BY <1>6, <1>10, <1>19, <2>1, <3>1, <3>2
  <2>2. CASE p # 1 /\ t.pc = "idle"
    <3>1. s.attempt[s.line[1]] < MaxAttempts
      BY <1>2, <1>15, <1>19, <2>2 DEF At
    <3> QED
      BY <1>6, <1>10, <1>19, <2>2, <3>1
  <2> QED
    BY <2>1, <2>2
<1>22. At(t)
  <2>1. CASE t.pc = "idle"
    <3>1. Clean(t)
      BY <1>2, <1>15, <1>18, <2>1 DEF At, Encrypted
    <3> QED
      BY <1>7, <1>21, <2>1, <3>1 DEF At, Encrypted, Waits
  <2>2. CASE t.pc # "idle"
    <3>1. Keyed(s) => Keyed(t)
      BY <1>7, <1>15, <1>16, <1>20, <2>2 DEF Keyed
    <3> QED
      BY <1>2, <1>7, <1>15, <1>16, <1>18, <1>20, <2>2, <3>1 DEF At
  <2> QED
    BY <2>1, <2>2
<1> QED
  BY <1>8, <1>14, <1>17, <1>22, <1>1, Becomes DEF Good, Calm

-----------------------------------------------------------------------------
(* The links.                                                                *)

LEMMA LinkDropsKeeps ==
  ASSUME NEW l \in Links
  PROVE  Good(State) /\ LinkDrops(l) => Good(State')
<1> SUFFICES ASSUME Good(State), LinkDrops(l) PROVE Good(State')
  OBVIOUS
<1> DEFINE s == State
           p == s.up \ {l}
           o == s.owed \cup {l}
           t == [s EXCEPT !.up = p, !.owed = o]
<1>1. Become(t)
  BY DEF LinkDrops
<1>2. Typed(s) /\ Queue(s) /\ Linked(s) /\ Final(s) /\ Renewed(s) /\ Covered(s) /\ At(s)
  BY DEF Good, Calm
<1> HIDE DEF s
<1>3. p \in SUBSET Links /\ o \in SUBSET Links
  BY <1>2 DEF Typed
<1>4. t.up = p /\ t.owed = o /\ Typed(t) /\ \A f \in Fields \ {"up", "owed"} : t[f] = s[f]
  BY <1>2, <1>3 DEF Typed, Fields
<1> HIDE DEF t
<1>5. /\ t.client = s.client /\ t.key = s.key /\ t.subs = s.subs /\ t.how = s.how
      /\ t.pending = s.pending /\ t.broadcast = s.broadcast /\ t.line = s.line
      /\ t.shutdown = s.shutdown /\ t.pc = s.pc /\ t.todo = s.todo /\ t.kind = s.kind
      /\ t.target = s.target /\ t.closer = s.closer /\ t.inflight = s.inflight
      /\ t.late = s.late /\ t.cut = s.cut /\ t.raised = s.raised /\ t.attempt = s.attempt
  BY <1>4 DEF Fields
<1>6. (Up(t) => Up(s)) /\ (Useful(t) => Useful(s)) /\ (Enabled(t) <=> Enabled(s))
  BY <1>4, <1>5 DEF Up, Useful, Enabled
<1>7. Queue(t)
  BY <1>2, <1>5 DEF Queue, Lined
<1>8. Linked(t)
  BY <1>2, <1>4, <1>5 DEF Linked
<1>9. Final(t) /\ Renewed(t) /\ Covered(t)
  BY <1>2, <1>5, <1>6 DEF Final, Renewed, Covered
<1>10. (Clean(s) => Clean(t)) /\ (Keyed(s) => Keyed(t))
  BY <1>5, <1>6 DEF Clean, Keyed
<1>11. At(t)
  BY <1>2, <1>5, <1>6, <1>10 DEF At
<1> QED
  BY <1>1, <1>4, <1>7, <1>8, <1>9, <1>11, Becomes DEF Good, Calm

(* If it was the client's link that went, it is not up; if not, it is late.  *)
LEMMA CallbackKeeps ==
  ASSUME NEW l \in Links
  PROVE  Good(State) /\ Callback(l) => Good(State')
<1> SUFFICES ASSUME Good(State), Callback(l) PROVE Good(State')
  OBVIOUS
<1> DEFINE s == State
           r == Reset(s)
           o == s.owed \ {l}
           e == s.late \/ (l # s.client /\ Up(s))
           t == [r EXCEPT !.owed = o, !.late = e]
<1>1. l \in s.owed /\ Become(t)
  <2>1. Reset(State).owed = s.owed /\ Reset(State).late = s.late
    BY StateFields DEF Reset, Fields
  <2> QED
    BY <2>1, StateFields DEF Callback
<1>2. Typed(s) /\ Queue(s) /\ Linked(s) /\ Final(s) /\ At(s)
  BY DEF Good, Calm
<1> HIDE DEF s
<1>3. Up(s) => l # s.client
  BY <1>1, <1>2 DEF Linked, Up
<1>4. /\ o \in SUBSET Links /\ e \in BOOLEAN /\ None \in Links \cup {None}
      /\ {} \in SUBSET Chars /\ (Up(s) => e)
  BY <1>2, <1>3 DEF Typed
<1> HIDE DEF o, e
<1>5. /\ DOMAIN t = Fields /\ t.owed = o /\ t.late = e /\ t.key = None /\ t.pending = FALSE
      /\ t.broadcast = {} /\ t.notifications = {}
      /\ \A f \in Fields \ {"owed", "late", "key", "pending", "broadcast", "notifications"} :
           t[f] = s[f]
  BY <1>2 DEF Typed, Fields, Reset
<1> HIDE DEF t
<1>6. Typed(t)
  BY <1>2, <1>4, <1>5 DEF Typed, Fields
<1>7. /\ t.client = s.client /\ t.up = s.up /\ t.line = s.line /\ t.kind = s.kind
      /\ t.shutdown = s.shutdown /\ t.pc = s.pc /\ t.todo = s.todo /\ t.how = s.how
      /\ t.target = s.target /\ t.closer = s.closer /\ t.inflight = s.inflight
      /\ t.cut = s.cut /\ t.raised = s.raised /\ t.attempt = s.attempt
  BY <1>5 DEF Fields
<1>8. (Up(t) <=> Up(s)) /\ (Up(t) => t.late) /\ ~Useful(t)
  BY <1>4, <1>5, <1>7 DEF Up, Useful
<1>9. Queue(t) /\ Final(t)
  BY <1>2, <1>7, <1>8 DEF Queue, Lined, Final
<1>10. Linked(t)
  BY <1>2, <1>5, <1>7 DEF Linked, o
<1>11. Renewed(t) /\ Covered(t) /\ Keyed(t)
  BY <1>8 DEF Renewed, Covered, Keyed
<1>12. Clean(t)
  BY <1>2, <1>5, <1>7, LinksAssumption DEF Clean, Up, Typed
<1>13. At(t)
  BY <1>2, <1>5, <1>7, <1>8, <1>11, <1>12 DEF At
<1> QED
  BY <1>1, <1>6, <1>9, <1>10, <1>11, <1>13, Becomes DEF Good, Calm

-----------------------------------------------------------------------------
LEMMA Starting == Init => Good(State)
<1> SUFFICES ASSUME Init PROVE Good(State)
  OBVIOUS
<1> DEFINE s == State
<1>1. /\ DOMAIN s = Fields /\ s.client = None /\ s.key = None /\ s.up = {} /\ s.owed = {}
      /\ s.raised = {} /\ s.pending = FALSE /\ s.timer = FALSE /\ s.shutdown = FALSE
      /\ s.broadcast = {} /\ s.notifications = {} /\ s.sent = {} /\ s.todo = {}
      /\ s.subs = {} /\ s.line = <<>> /\ s.kind = [t \in Tasks |-> "none"]
      /\ s.attempt = [t \in Tasks |-> 0] /\ s.pc = "idle" /\ s.how = "ok"
      /\ s.target = None /\ s.replied = FALSE /\ s.closer = "idle"
      /\ s.inflight = FALSE /\ s.late = FALSE /\ s.cut = FALSE
  BY StateFields DEF Init
<1> HIDE DEF s
<1>2. Typed(s)
  <2>1. s.kind \in [Tasks -> Kinds]
    BY <1>1 DEF Kinds
  <2>2. 0 \in 0..MaxAttempts
    BY AttemptsAssumption
  <2>3. s.attempt \in [Tasks -> 0..MaxAttempts]
    BY <1>1, <2>2
  <2>4. /\ DOMAIN s = Fields /\ s.line \in Seq(Tasks) /\ s.pc \in Counters /\ s.how \in Ends
        /\ s.closer \in {"idle", "lock", "disconnect"}
    BY <1>1 DEF Counters, Ends
  <2>5. /\ s.client \in Links \cup {None} /\ s.key \in Links \cup {None}
        /\ s.target \in Links \cup {None}
        /\ s.up \in SUBSET Links /\ s.owed \in SUBSET Links /\ s.raised \in SUBSET Links
        /\ s.broadcast \in SUBSET Chars /\ s.notifications \in SUBSET Chars
        /\ s.subs \in SUBSET Chars /\ s.sent \in SUBSET Chars /\ s.todo \in SUBSET Chars
    BY <1>1
  <2>6. /\ s.pending \in BOOLEAN /\ s.timer \in BOOLEAN /\ s.shutdown \in BOOLEAN
        /\ s.replied \in BOOLEAN /\ s.inflight \in BOOLEAN /\ s.late \in BOOLEAN
        /\ s.cut \in BOOLEAN
    BY <1>1
  <2> QED
    BY <2>1, <2>3, <2>4, <2>5, <2>6 DEF Typed
<1>3. ~Up(s)
  BY <1>1 DEF Up
<1>4. Clean(s) /\ ~Useful(s)
  BY <1>3, LinkGone
<1>5. Queue(s)
  BY <1>1 DEF Queue, Once, Lined, Tasks
<1>6. Linked(s) /\ Final(s) /\ Renewed(s) /\ Covered(s)
  BY <1>1, <1>3, <1>4 DEF Linked, Final, Renewed, Covered
<1> QED
  BY <1>1, <1>2, <1>4, <1>5, <1>6, Idle DEF Calm, s

LEMMA Stuttering == Good(State) /\ UNCHANGED vars => Good(State')
<1> SUFFICES ASSUME Good(State), UNCHANGED vars PROVE Good(State')
  OBVIOUS
<1>1. State' = State
  BY DEF State, vars, sessionVars, taskVars
<1> QED
  BY <1>1

LEMMA Steps == Good(State) /\ [Next]_vars => Good(State')
<1> SUFFICES ASSUME Good(State), [Next]_vars PROVE Good(State')
  OBVIOUS
<1>1. ASSUME TakeLock \/ Backoff \/ ConnLock \/ Connected \/ ConnectFails \/ Replied
      PROVE  Good(State')
  BY <1>1, TakeLockKeeps, BackoffKeeps, ConnLockKeeps, ConnectedKeeps, ConnectFailsKeeps,
     RepliedKeeps
<1>2. ASSUME Verified \/ VerifyFails \/ NotifyStarted \/ NotifyFails PROVE Good(State')
  BY <1>2, VerifiedKeeps, VerifyFailsKeeps, NotifyKeeps
<1>3. ASSUME Answered \/ Refused \/ AnsweredTooLate \/ RequestFails \/ Missing
      PROVE  Good(State')
  BY <1>3, AnsweredKeeps, RefusedKeeps, AnsweredTooLateKeeps, RequestFailsKeeps, MissingKeeps
<1>4. ASSUME MissingDone \/ ClosingDone \/ CloseLock PROVE Good(State')
  BY <1>4, MissingDoneKeeps, ClosingDoneKeeps, CloseLockKeeps
<1>5. ASSUME CloserGoesOn \/ CloserDone \/ CloserCancelled \/ Close \/ Shutdown
      PROVE  Good(State')
  BY <1>5, CloseStepKeeps, CloserDoneKeeps, CloserCancelledKeeps
<1>6. ASSUME NEW c \in Callers, NEW k \in {"get", "op", "closeAfter"}, Call(c, k)
      PROVE  Good(State')
  BY <1>6, CallKeeps
<1>7. ASSUME NEW c \in Callers, CancelWaiting(c) PROVE Good(State')
  BY <1>7, CancelWaitingKeeps
<1>8. ASSUME NEW i \in Chars, Subscribe(i) PROVE Good(State')
  BY <1>8, SubscribeKeeps
<1>9. ASSUME CancelHolder \/ TimerFires \/ Notified PROVE Good(State')
  BY <1>9, CancelHolderKeeps, TimerFiresKeeps, NotifiedKeeps
<1>10. ASSUME NEW l \in Links, LinkDrops(l) \/ Callback(l) PROVE Good(State')
  BY <1>10, LinkDropsKeeps, CallbackKeeps
<1> QED
  BY <1>1, <1>2, <1>3, <1>4, <1>5, <1>6, <1>7, <1>8, <1>9, <1>10, Stuttering DEF Next

(* In every state the program reaches, the invariant holds of it.            *)
THEOREM Sound == Spec => []Good(State)
<1>1. Good(State) /\ [Next]_vars => Good(State)'
  BY Steps
<1> QED
  BY <1>1, Starting, PTL DEF Spec

(* Every variable has its type: retry_bluetooth_connection_error makes no    *)
(* more attempts at an operation than its limit, however many have failed.   *)
THEOREM WellTyped == Spec => []TypeOK
<1>1. Good(State) => TypeOK
  <2> SUFFICES ASSUME Good(State) PROVE TypeOK
    OBVIOUS
  <2>1. Typed(State)
    BY DEF Good
  <2> QED
    BY <2>1, StateFields DEF Typed, Ends, TypeOK
<1> QED
  BY <1>1, Sound, PTL

(* ble_request and _close_while_locked: a request that was begun and not     *)
(* completed leaves no connection that can still be used under its keys.     *)
THEOREM CountersStayInStep == Spec => []CountersInStep
<1>1. Good(State) => CountersInStep
  <2> SUFFICES ASSUME Good(State) PROVE CountersInStep
    OBVIOUS
  <2>1. Clean(State) \/ State.pc \in Encrypted \cup {"closing"}
    BY DEF Good, At
  <2> QED
    BY <2>1, StateFields DEF Clean, CountersInStep
<1> QED
  BY <1>1, Sound, PTL

(* _populate_accessories_and_characteristics: every operation has keys when  *)
(* its requests go out, however many connections it has seen, unless the     *)
(* callback of an older link has taken them.                                 *)
THEOREM KeysBeforeRequests == Spec => []NeverInTheClear
<1>1. Good(State) => NeverInTheClear
  <2> SUFFICES ASSUME Good(State), State.pc \in Encrypted PROVE NeverInTheClear
    BY StateFields DEF NeverInTheClear
  <2>1. Keyed(State)
    BY DEF Good, At
  <2> QED
    BY <2>1, StateFields DEF Keyed, Ops, NeverInTheClear
<1> QED
  BY <1>1, Sound, PTL

(* _async_restore_subscriptions: when nobody is at work on a connection and  *)
(* no restoration is pending, every subscription has its broadcast events.   *)
THEOREM SubscriptionsRestored == Spec => []Restored
<1>1. Good(State) => Restored
  <2> SUFFICES ASSUME Good(State), line = <<>>, Up(State), key = client, ~pending,
                      ~shutdown, ~late, client \notin raised
               PROVE  subs \subseteq broadcast
    BY DEF Restored
  <2>1. Lined(State) /\ Covered(State)
    BY DEF Good, Calm, Queue
  <2>2. State.kind[Subscriber] = "none"
    BY <2>1, StateFields DEF Lined, Tasks
  <2>3. Useful(State)
    BY StateFields DEF Useful
  <2> QED
    BY <2>1, <2>2, <2>3, StateFields DEF Covered, Enabled
<1> QED
  BY <1>1, Sound, PTL

(* _close_while_locked: the pairing forgets no link that is up, but for the  *)
(* one whose disconnect raised.                                              *)
THEOREM LinksKept == Spec => []NoLinkLost
<1>1. Good(State) => NoLinkLost
  <2> SUFFICES ASSUME Good(State) PROVE NoLinkLost
    OBVIOUS
  <2>1. Linked(State)
    BY DEF Good, Calm
  <2> QED
    BY <2>1, StateFields DEF Linked, NoLinkLost
<1> QED
  BY <1>1, Sound, PTL

(* shutdown(): once it has closed the connection no operation that was under *)
(* way, waited for a lock or was to be tried again opens another.            *)
THEOREM ShutdownStays == Spec => []ShutdownIsFinal
<1>1. Good(State) => ShutdownIsFinal
  <2> SUFFICES ASSUME Good(State) PROVE ShutdownIsFinal
    OBVIOUS
  <2>1. Final(State)
    BY DEF Good, Calm
  <2> QED
    BY <2>1, StateFields DEF Final, ShutdownIsFinal
<1> QED
  BY <1>1, Sound, PTL
=============================================================================
