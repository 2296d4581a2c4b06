------------------------- MODULE HttpPipelineProofs -------------------------
(***************************************************************************)
(* The semaphore of HttpPipeline is conserved, its variables keep their     *)
(* types, on an open transport no answer is owed to a request that has      *)
(* given up, a request is answered with its own answer or not at all, and   *)
(* every step of the pipeline is one of RequestReply or none: for any       *)
(* number of callers and any number of permits.                             *)
(*                                                                          *)
(* And what the pipeline takes for granted, that messages arrive as a       *)
(* whole: however the bytes of HttpResponse are cut, for any bodies, sizes  *)
(* of blocks and length of the text.                                        *)
(***************************************************************************)
EXTENDS HttpPipeline, HttpResponse, FiniteSetTheorems, SequenceTheorems,
  WellFoundedInduction, TLAPS

Phases == {"idle", "done"} \cup Pending

Semaphores == [permits : Nat, queue : Seq(Requests), phase : [Requests -> Phases]]

Held(s) == {q \in Requests : s.phase[q] \in Holding}

(* The queue holds requests that wait, each once.                            *)
Orderly(s) ==
  /\ s \in Semaphores
  /\ \A i \in 1..Len(s.queue) : s.phase[s.queue[i]] = "queued"
  /\ \A i, j \in 1..Len(s.queue) : s.queue[i] = s.queue[j] => i = j

(* The permits and those who hold one add up.                                *)
Sound(s) == Orderly(s) /\ s.permits + Cardinality(Held(s)) = Permits

(* The same while r holds one, whatever its phase says yet.                  *)
SoundBut(s, r) ==
  /\ Orderly(s)
  /\ s.phase[r] # "queued"
  /\ s.permits + Cardinality(Held(s) \ {r}) + 1 = Permits

-----------------------------------------------------------------------------
(* Sets of holders.                                                          *)

LEMMA RequestsFinite == IsFiniteSet(Requests)
  BY RequestsAssumption, FS_AddElement DEF Requests

LEMMA HeldFinite ==
  ASSUME NEW s
  PROVE  IsFiniteSet(Held(s)) /\ Cardinality(Held(s)) \in Nat
  BY RequestsFinite, FS_Subset, FS_CardinalityType DEF Held

(* The first n of a queue without repetitions are n requests.                *)
LEMMA CardinalityOfFirst ==
  ASSUME NEW s, Orderly(s), NEW n \in 0..Len(s.queue)
  PROVE  LET F == {s.queue[i] : i \in 1..n}
         IN  F \subseteq Requests /\ IsFiniteSet(F) /\ Cardinality(F) = n
<1> DEFINE F == {s.queue[i] : i \in 1..n}
           f == [i \in 1..n |-> s.queue[i]]
<1>1. s.queue \in Seq(Requests) /\ Len(s.queue) \in Nat
  BY DEF Orderly, Semaphores
<1>2. F \subseteq Requests
  BY <1>1
<1>3. IsFiniteSet(F)
  BY <1>2, RequestsFinite, FS_Subset
<1>4. f \in Bijection(1..n, F)
  <2>1. f \in [1..n -> F]
    OBVIOUS
  <2>2. \A i, j \in 1..n : f[i] = f[j] => i = j
    BY <1>1 DEF Orderly
  <2>3. \A q \in F : \E i \in 1..n : f[i] = q
    OBVIOUS
  <2> QED
    BY <2>1, <2>2, <2>3 DEF Bijection, Injection, Surjection, IsInjective
<1>5. IsFiniteSet(1..n) /\ Cardinality(1..n) = n
  BY FS_Interval, n \in Nat, <1>1
<1>6. Cardinality(F) = n
  <2>1. ExistsBijection(1..n, F)
    BY <1>4 DEF ExistsBijection
  <2> QED
    BY <1>3, <1>5, <2>1, FS_Bijection
<1> QED
  BY <1>2, <1>3, <1>6

-----------------------------------------------------------------------------
(* The operations of the semaphore.                                          *)

LEMMA WakeSound ==
  ASSUME NEW s, Sound(s), NEW n \in Nat, n <= s.permits, n <= Len(s.queue)
  PROVE  /\ Sound(Wake(s, n))
         /\ \A q \in Requests : s.phase[q] # "queued" => Wake(s, n).phase[q] = s.phase[q]
<1> DEFINE t == Wake(s, n)
           F == {s.queue[i] : i \in 1..n}
<1>1. /\ s.permits \in Nat /\ s.queue \in Seq(Requests) /\ Len(s.queue) \in Nat
      /\ s.phase \in [Requests -> Phases]
      /\ \A i \in 1..Len(s.queue) : s.phase[s.queue[i]] = "queued"
      /\ \A i, j \in 1..Len(s.queue) : s.queue[i] = s.queue[j] => i = j
  BY DEF Sound, Orderly, Semaphores
<1>2. /\ t.permits = s.permits - n
      /\ t.queue = SubSeq(s.queue, n + 1, Len(s.queue))
      /\ t.phase = [r \in Requests |-> IF \E i \in 1..n : s.queue[i] = r
                                       THEN "woken" ELSE s.phase[r]]
  BY DEF Wake
<1>15. \A q \in Requests : (\A j \in 1..n : s.queue[j] # q) => t.phase[q] = s.phase[q]
  BY <1>2
<1> HIDE DEF t
<1>3. /\ t.queue \in Seq(Requests)
      /\ Len(t.queue) = Len(s.queue) - n
      /\ \A i \in 1..Len(t.queue) : t.queue[i] = s.queue[i + n]
  <2> DEFINE l == Len(s.queue)
             q == s.queue
  <2>1. n + 1 \in Int /\ l \in Int /\ \A i \in (n + 1)..l : q[i] \in Requests
    BY <1>1
  <2> HIDE DEF q
  <2>2. /\ SubSeq(q, n + 1, l) \in Seq(Requests)
        /\ Len(SubSeq(q, n + 1, l)) = IF n + 1 <= l THEN l - (n + 1) + 1 ELSE 0
        /\ \A i \in 1..(l - (n + 1) + 1) : SubSeq(q, n + 1, l)[i] = q[(n + 1) + i - 1]
    <3> HIDE DEF l
    <3> QED
      BY <2>1, SubSeqProperties
  <2>3. l - (n + 1) + 1 = l - n /\ (n + 1 > l => l - n = 0)
    BY <1>1
  <2>4. \A i \in Int : (n + 1) + i - 1 = i + n
    OBVIOUS
  <2>5. t.queue = SubSeq(q, n + 1, l)
    BY <1>2 DEF q
  <2> HIDE DEF l
  <2>6. t.queue \in Seq(Requests) /\ Len(t.queue) = l - n
    BY <1>1, <2>1, <2>2, <2>3, <2>5
  <2>7. \A i \in 1..(l - n) : t.queue[i] = q[i + n]
    BY <2>2, <2>3, <2>4, <2>5
  <2> QED
    BY <2>6, <2>7 DEF l, q
<1>4. t.permits \in Nat
  BY <1>1, <1>2
<1>5. t.phase \in [Requests -> Phases]
  BY <1>1, <1>2 DEF Phases, Pending
<1>6. t \in Semaphores
  BY <1>3, <1>4, <1>5 DEF Semaphores, Wake, t
<1>7. \A i \in 1..Len(t.queue) : t.phase[t.queue[i]] = "queued"
  <2> SUFFICES ASSUME NEW i \in 1..Len(t.queue) PROVE t.phase[t.queue[i]] = "queued"
    OBVIOUS
  <2> DEFINE k == i + n
  <2>1. k \in 1..Len(s.queue) /\ k > n
    BY <1>1, <1>3
  <2>4. t.queue[i] = s.queue[k]
    BY <1>3
  <2> HIDE DEF k
  <2>2. \A j \in 1..n : j \in 1..Len(s.queue) /\ s.queue[j] # s.queue[k]
    BY <1>1, <2>1
  <2>3. s.queue[k] \in Requests /\ s.phase[s.queue[k]] = "queued"
    BY <1>1, <2>1
  <2> QED
    BY <2>2, <2>3, <2>4, <1>15
<1>8. \A i, j \in 1..Len(t.queue) : t.queue[i] = t.queue[j] => i = j
  BY <1>1, <1>3
<1>9. Held(t) = Held(s) \cup F /\ Held(s) \cap F = {}
  <2>1. \A j \in 1..n : j \in 1..Len(s.queue) /\ s.queue[j] \in Requests
    BY <1>1
  <2> QED
    BY <1>1, <1>2, <2>1 DEF Held, Holding
<1>10. Cardinality(F) = n /\ IsFiniteSet(F)
  BY CardinalityOfFirst, <1>1, n \in 0..Len(s.queue) DEF Sound
<1>11. Cardinality(Held(t)) = Cardinality(Held(s)) + n
  <2>1. Held(s) \cap F = {} /\ IsFiniteSet(Held(s)) /\ IsFiniteSet(F)
    BY <1>9, <1>10, HeldFinite
  <2>2. Cardinality(Held(s) \cup F)
          = Cardinality(Held(s)) + Cardinality(F) - Cardinality({})
    <3> HIDE DEF F
    <3> QED
      BY <2>1, FS_Union
  <2>3. Cardinality({}) = 0
    BY FS_EmptySet
  <2> QED
    BY <1>9, <1>10, <2>2, <2>3, HeldFinite
<1>12. t.permits + Cardinality(Held(t)) = Permits
  BY <1>1, <1>2, <1>11, HeldFinite DEF Sound
<1>13. \A q \in Requests : s.phase[q] # "queued" => t.phase[q] = s.phase[q]
  <2>1. \A j \in 1..n : s.phase[s.queue[j]] = "queued"
    BY <1>1
  <2> QED
    BY <1>15, <2>1
<1> QED
  <2>1. Sound(t)
    BY <1>6, <1>7, <1>8, <1>12 DEF Sound, Orderly
  <2> QED
    BY <2>1, <1>13 DEF t

LEMMA WakeAllSound ==
  ASSUME NEW s, Sound(s)
  PROVE  /\ Sound(WakeAll(s))
         /\ \A q \in Requests : s.phase[q] # "queued" => WakeAll(s).phase[q] = s.phase[q]
<1>1. s.permits \in Nat /\ Len(s.queue) \in Nat
  BY DEF Sound, Orderly, Semaphores
<1> DEFINE n == Smaller(s.permits, Len(s.queue))
<1>2. n \in Nat /\ n <= s.permits /\ n <= Len(s.queue)
  BY <1>1 DEF Smaller
<1> HIDE DEF n
<1>3. WakeAll(s) = Wake(s, n)
  BY DEF WakeAll, n
<1> QED
  BY <1>2, <1>3, WakeSound

(* The fields that a request which ends, or goes on, changes.                *)
LEMMA PhaseSet ==
  ASSUME NEW s \in Semaphores, NEW r \in Requests, NEW p \in Phases
  PROVE  LET t == [s EXCEPT !.phase[r] = p]
         IN  /\ t \in Semaphores /\ t.permits = s.permits /\ t.queue = s.queue
             /\ t.phase = [s.phase EXCEPT ![r] = p]
<1>1. [s.phase EXCEPT ![r] = p] \in [Requests -> Phases]
  BY DEF Semaphores
<1> QED
  BY <1>1 DEF Semaphores

LEMMA PermitsSet ==
  ASSUME NEW s \in Semaphores, NEW n \in Nat
  PROVE  LET t == [s EXCEPT !.permits = n]
         IN  /\ t \in Semaphores /\ t.permits = n /\ t.queue = s.queue
             /\ t.phase = s.phase
  BY DEF Semaphores

LEMMA QueueSet ==
  ASSUME NEW s \in Semaphores, NEW q \in Seq(Requests)
  PROVE  LET t == [s EXCEPT !.queue = q]
         IN  /\ t \in Semaphores /\ t.permits = s.permits /\ t.queue = q
             /\ t.phase = s.phase
  BY DEF Semaphores

(* What a request holds comes back when it ends.                             *)
LEMMA GiveBackSound ==
  ASSUME NEW s, NEW r \in Requests, SoundBut(s, r)
  PROVE  /\ Sound(GiveBack(s, r))
         /\ GiveBack(s, r).phase[r] = "done" /\ GiveBack(s, r).queue = s.queue
         /\ \A q \in Requests \ {r} : GiveBack(s, r).phase[q] = s.phase[q]
<1> DEFINE u == [s EXCEPT !.phase[r] = "done"]
           t == [u EXCEPT !.permits = s.permits + 1]
<1>1. s \in Semaphores /\ s.permits \in Nat /\ s.phase \in [Requests -> Phases]
  BY DEF SoundBut, Orderly, Semaphores
<1>2. /\ u \in Semaphores /\ u.queue = s.queue
      /\ u.phase = [s.phase EXCEPT ![r] = "done"]
  <2>1. "done" \in Phases
    BY DEF Phases
  <2> QED
    BY <1>1, <2>1, PhaseSet
<1>3. t = GiveBack(s, r)
  BY <1>1 DEF GiveBack, Semaphores
<1> HIDE DEF u
<1>4. /\ t \in Semaphores /\ t.permits = s.permits + 1 /\ t.queue = s.queue
      /\ t.phase = [s.phase EXCEPT ![r] = "done"]
  BY <1>1, <1>2, PermitsSet
<1> HIDE DEF t
<1>5. /\ \A i \in 1..Len(t.queue) : t.phase[t.queue[i]] = "queued"
      /\ \A i, j \in 1..Len(t.queue) : t.queue[i] = t.queue[j] => i = j
  <2>1. s.queue \in Seq(Requests)
    BY <1>1 DEF Semaphores
  <2> QED
    BY <1>1, <1>4, <2>1 DEF SoundBut, Orderly
<1>6. Held(t) = Held(s) \ {r}
  BY <1>1, <1>4 DEF Held, Holding
<1>7. t.permits + Cardinality(Held(t)) = Permits
  <2>1. Cardinality(Held(s) \ {r}) \in Nat
    BY <1>6, HeldFinite
  <2>2. s.permits + Cardinality(Held(s) \ {r}) + 1 = Permits
    BY DEF SoundBut
  <2> QED
    BY <1>1, <1>4, <1>6, <2>1, <2>2
<1> QED
  BY <1>1, <1>3, <1>4, <1>5, <1>7 DEF Sound, Orderly

LEMMA LeaveSound ==
  ASSUME NEW s, NEW r \in Requests, SoundBut(s, r)
  PROVE  /\ Sound(Leave(s, r)) /\ Leave(s, r).phase[r] = "done"
         /\ \A q \in Requests \ {r} :
              s.phase[q] # "queued" => Leave(s, r).phase[q] = s.phase[q]
<1> DEFINE t == GiveBack(s, r)
           n == Smaller(1, Len(s.queue))
<1>1. /\ Sound(t) /\ t.phase[r] = "done" /\ t.queue = s.queue
      /\ \A q \in Requests \ {r} : t.phase[q] = s.phase[q]
  BY GiveBackSound
<1>2. t.permits = s.permits + 1 /\ s.permits \in Nat /\ Len(s.queue) \in Nat
  BY DEF GiveBack, SoundBut, Orderly, Semaphores
<1>3. n \in Nat /\ n <= t.permits /\ n <= Len(t.queue)
  BY <1>1, <1>2 DEF Smaller
<1>4. Leave(s, r) = Wake(t, n)
  BY DEF Leave
<1> HIDE DEF t, n
<1> QED
  BY <1>1, <1>3, <1>4, WakeSound

(* Who holds a permit is one of those counted.                               *)
LEMMA SoundHolder ==
  ASSUME NEW s, NEW r \in Requests, Sound(s), s.phase[r] \in Holding
  PROVE  SoundBut(s, r)
<1>1. r \in Held(s)
  BY DEF Held
<1>2. Cardinality(Held(s) \ {r}) = Cardinality(Held(s)) - 1
  BY <1>1, HeldFinite, FS_RemoveElement
<1>3. s.permits \in Nat /\ Cardinality(Held(s)) \in Nat
  BY HeldFinite DEF Sound, Orderly, Semaphores
<1> QED
  BY <1>2, <1>3 DEF SoundBut, Sound, Holding

-----------------------------------------------------------------------------
(* Sending and entering.                                                     *)

LEMMA SetSound ==
  ASSUME NEW s, Sound(s), SetSemaphore(s)
  PROVE  Sound(Semaphore)'
<1>1. s \in Semaphores
  BY DEF Sound, Orderly
<1>2. s = [permits |-> s.permits, queue |-> s.queue, phase |-> s.phase]
  BY <1>1 DEF Semaphores
<1>3. Semaphore' = s
  BY <1>2 DEF Semaphore, SetSemaphore
<1> QED
  BY <1>3 DEF Sound, Orderly, Held

LEMMA SendSound ==
  ASSUME NEW s, NEW r \in Requests, SoundBut(s, r), Send(s, r)
  PROVE  Sound(Semaphore)'
<1> DEFINE t == [s EXCEPT !.phase[r] = "waiting"]
<1>1. CASE protocol' # "none" /\ link' = "open"
  <2>1. s \in Semaphores /\ s.permits \in Nat /\ s.phase \in [Requests -> Phases]
        /\ s.queue \in Seq(Requests)
    BY DEF SoundBut, Orderly, Semaphores
  <2>2. /\ t \in Semaphores /\ t.permits = s.permits /\ t.queue = s.queue
        /\ t.phase = [s.phase EXCEPT ![r] = "waiting"]
    <3>1. "waiting" \in Phases
      BY DEF Phases, Pending
    <3> QED
      BY <2>1, <3>1, PhaseSet
  <2>3. SetSemaphore(t)
    BY <1>1 DEF Send
  <2> HIDE DEF t
  <2>4. Orderly(t)
    BY <2>1, <2>2 DEF SoundBut, Orderly
  <2>5. Held(t) = (Held(s) \ {r}) \cup {r}
    BY <2>1, <2>2 DEF Held, Holding
  <2>6. Cardinality(Held(t)) = Cardinality(Held(s) \ {r}) + 1
    <3>1. IsFiniteSet(Held(s) \ {r}) /\ r \notin Held(s) \ {r}
      BY HeldFinite, FS_RemoveElement
    <3> QED
      BY <3>1, <2>5, FS_AddElement
  <2>7. Cardinality(Held(s) \ {r}) \in Nat
    BY HeldFinite, FS_RemoveElement, FS_CardinalityType
  <2>8. Sound(t)
    BY <2>1, <2>2, <2>4, <2>6, <2>7 DEF SoundBut, Sound
  <2> QED
    BY <2>3, <2>8, SetSound
<1>2. CASE ~(protocol' # "none" /\ link' = "open")
  BY <1>2, LeaveSound, SetSound DEF Send
<1> QED
  BY <1>1, <1>2

(* A newcomer that finds the semaphore free takes a permit.                  *)
LEMMA TakeSound ==
  ASSUME NEW s, NEW r \in Requests, Sound(s), s.phase[r] \notin Pending, ~Locked(s)
  PROVE  LET t == [s EXCEPT !.permits = s.permits - 1]
         IN  SoundBut(t, r) /\ t.phase = s.phase
<1> DEFINE t == [s EXCEPT !.permits = s.permits - 1]
<1>1. /\ s \in Semaphores /\ s.permits \in Nat /\ s.queue \in Seq(Requests)
      /\ s.phase \in [Requests -> Phases]
  BY DEF Sound, Orderly, Semaphores
<1>2. s.permits - 1 \in Nat
  BY <1>1 DEF Locked
<1>3. /\ t \in Semaphores /\ t.permits = s.permits - 1
      /\ t.queue = s.queue /\ t.phase = s.phase
  BY <1>1, <1>2, PermitsSet
<1> HIDE DEF t
<1>4. Orderly(t) /\ t.phase[r] # "queued"
  BY <1>3 DEF Sound, Orderly, Pending
<1>5. Held(t) \ {r} = Held(s)
  BY <1>3 DEF Held, Holding, Pending
<1>6. s.permits + Cardinality(Held(s)) = Permits /\ Cardinality(Held(s)) \in Nat
  BY HeldFinite DEF Sound
<1>7. t.permits + Cardinality(Held(t) \ {r}) + 1 = Permits
  <2> DEFINE c == Cardinality(Held(s))
  <2>1. c \in Nat /\ s.permits \in Nat /\ s.permits + c = Permits
    BY <1>1, <1>6
  <2>2. t.permits = s.permits - 1 /\ Cardinality(Held(t) \ {r}) = c
    BY <1>3, <1>5
  <2> HIDE DEF c
  <2> QED
    BY <2>1, <2>2
<1>8. SoundBut(t, r)
  BY <1>4, <1>7 DEF SoundBut
<1> QED
  BY <1>3, <1>8 DEF t

LEMMA EnterSound ==
  ASSUME NEW s, NEW r \in Requests, Sound(s), s.phase[r] \notin Pending,
         Enter(s, r)
  PROVE  Sound(Semaphore)'
<1>1. /\ s \in Semaphores /\ s.permits \in Nat /\ s.queue \in Seq(Requests)
      /\ s.phase \in [Requests -> Phases] /\ Len(s.queue) \in Nat
      /\ \A i \in 1..Len(s.queue) : s.queue[i] # r
  BY DEF Sound, Orderly, Semaphores, Pending
<1>2. CASE Locked(s)
  <2> DEFINE u == [s EXCEPT !.queue = Append(s.queue, r)]
             t == [u EXCEPT !.phase[r] = "queued"]
  <2>1. /\ u \in Semaphores /\ u.permits = s.permits /\ u.phase = s.phase
        /\ u.queue = Append(s.queue, r)
    <3>1. Append(s.queue, r) \in Seq(Requests)
      BY <1>1
    <3> QED
      BY <1>1, <3>1, QueueSet
  <2>2. SetSemaphore(t)
    BY <1>1, <1>2 DEF Enter, Semaphores
  <2> HIDE DEF u
  <2>7. "queued" \in Phases
    BY DEF Phases, Pending
  <2>8. /\ t \in Semaphores /\ t.permits = u.permits /\ t.queue = u.queue
        /\ t.phase = [u.phase EXCEPT ![r] = "queued"]
    BY <2>1, <2>7, PhaseSet
  <2>3. /\ t \in Semaphores /\ t.permits = s.permits
        /\ t.queue = Append(s.queue, r)
        /\ t.phase = [s.phase EXCEPT ![r] = "queued"]
    BY <2>1, <2>8
  <2> HIDE DEF t
  <2>4. Orderly(t)
    BY <1>1, <2>3 DEF Sound, Orderly
  <2>5. Held(t) = Held(s)
    BY <1>1, <2>3 DEF Held, Holding, Pending
  <2>6. Sound(t)
    BY <2>3, <2>4, <2>5 DEF Sound
  <2> QED
    BY <2>2, <2>6, SetSound
<1>3. CASE ~Locked(s)
  <2> DEFINE t == [s EXCEPT !.permits = s.permits - 1]
  <2>1. SoundBut(t, r)
    BY <1>3, TakeSound
  <2>2. Send(t, r)
    BY <1>3 DEF Enter
  <2> HIDE DEF t
  <2> QED
    BY <2>1, <2>2, SendSound
<1> QED
  BY <1>2, <1>3

-----------------------------------------------------------------------------
(* The invariant.                                                            *)

IInv == Sound(Semaphore)

LEMMA SemaphoreFields ==
  /\ Semaphore.permits = permits /\ Semaphore.queue = queue
  /\ Semaphore.phase = phase
  BY DEF Semaphore

LEMMA InitSound == Init => IInv
<1> SUFFICES ASSUME Init PROVE IInv
  OBVIOUS
<1>1. Semaphore \in Semaphores
  BY PermitsAssumption DEF Init, Semaphore, Semaphores, Phases
<1>2. Orderly(Semaphore)
  BY <1>1 DEF Init, Semaphore, Orderly
<1>3. Held(Semaphore) = {}
  BY DEF Init, Semaphore, Held, Holding
<1>4. permits + Cardinality(Held(Semaphore)) = Permits
  BY <1>3, FS_EmptySet, PermitsAssumption DEF Init
<1> QED
  BY <1>2, <1>4, SemaphoreFields DEF IInv, Sound

LEMMA LeavingSound ==
  ASSUME NEW r \in Requests, IInv, phase[r] \in Holding,
         SetSemaphore(Leave(Semaphore, r))
  PROVE  IInv'
<1>1. SoundBut(Semaphore, r)
  BY SoundHolder, SemaphoreFields DEF IInv
<1> QED
  BY <1>1, LeaveSound, SetSound DEF IInv

LEMMA EnteringSound ==
  ASSUME NEW r \in Requests, IInv, phase[r] \notin Pending, Enter(Semaphore, r)
  PROVE  IInv'
  BY EnterSound, SemaphoreFields DEF IInv

LEMMA GrantedSound ==
  ASSUME NEW r \in Requests, IInv, Granted(r)
  PROVE  IInv'
<1> DEFINE s == WakeAll(Semaphore)
<1>1. Sound(s) /\ s.phase[r] \in Holding
  <2>1. phase[r] = "woken"
    BY DEF Granted
  <2> QED
    BY <2>1, WakeAllSound, SemaphoreFields DEF IInv, Holding
<1>2. Send(s, r)
  BY DEF Granted
<1> HIDE DEF s
<1>3. SoundBut(s, r)
  BY <1>1, SoundHolder
<1> QED
  BY <1>2, <1>3, SendSound DEF IInv

LEMMA VerifyGoesOnSound ==
  ASSUME IInv, VerifyGoesOn
  PROVE  IInv'
<1> DEFINE s == Leave(Semaphore, Verify)
<1>1. Verify \in Requests /\ phase[Verify] \in Holding
  BY DEF VerifyGoesOn, Answered, Holding, Requests
<1>2. Sound(s) /\ s.phase[Verify] = "done"
  BY <1>1, SoundHolder, LeaveSound, SemaphoreFields DEF IInv
<1>3. CASE protocol # "none"
  <2>1. Enter(s, Verify)
    BY <1>3 DEF VerifyGoesOn
  <2> HIDE DEF s
  <2> QED
    BY <1>1, <1>2, <2>1, EnterSound DEF IInv, Pending
<1>4. CASE protocol = "none"
  BY <1>1, <1>4, LeavingSound DEF VerifyGoesOn
<1> QED
  BY <1>3, <1>4

LEMMA WakesOnly ==
  ASSUME NEW s
  PROVE  \A q \in Requests : WakeAll(s).phase[q] \in {"woken", s.phase[q]}
  BY DEF WakeAll, Wake

LEMMA CancelQueuedSound ==
  ASSUME NEW r \in Requests, IInv, CancelQueued(r)
  PROVE  /\ IInv' /\ phase'[r] = "done"
         /\ \A q \in Requests \ {r} : phase[q] # "queued" => phase'[q] = phase[q]
         /\ \A q \in Requests \ {r} : phase'[q] \in {"woken", phase[q]}
<1> DEFINE Others == \A q \in Requests \ {r} :
                       /\ phase[q] # "queued" => phase'[q] = phase[q]
                       /\ phase'[q] \in {"woken", phase[q]}
<1>1. /\ Sound(Semaphore) /\ Orderly(Semaphore) /\ Semaphore \in Semaphores
      /\ permits \in Nat /\ queue \in Seq(Requests)
      /\ phase \in [Requests -> Phases] /\ Len(queue) \in Nat
      /\ \A i \in 1..Len(queue) : phase[queue[i]] = "queued"
      /\ \A i, j \in 1..Len(queue) : queue[i] = queue[j] => i = j
  BY SemaphoreFields DEF IInv, Sound, Orderly, Semaphores
<1>2. CASE /\ phase[r] = "woken"
           /\ SetSemaphore(WakeAll(GiveBack(Semaphore, r)))
  <2>1. SoundBut(Semaphore, r)
    BY <1>1, <1>2, SoundHolder, SemaphoreFields DEF Holding
  <2>2. /\ Sound(GiveBack(Semaphore, r)) /\ GiveBack(Semaphore, r).phase[r] = "done"
        /\ \A q \in Requests \ {r} : GiveBack(Semaphore, r).phase[q] = phase[q]
    BY <2>1, GiveBackSound, SemaphoreFields
  <2> QED
    BY <1>2, <2>2, WakeAllSound, WakesOnly, SetSound DEF IInv, SetSemaphore
<1>3. ASSUME NEW i \in 1..Len(queue), queue[i] = r,
             SetSemaphore(WakeAll([Semaphore EXCEPT !.queue = RemoveAt(@, i),
                                                    !.phase[r] = "done"]))
      PROVE  IInv' /\ phase'[r] = "done" /\ Others
  <2> DEFINE q == RemoveAt(queue, i)
             u == [Semaphore EXCEPT !.queue = q]
             t == [u EXCEPT !.phase[r] = "done"]
  <2>1. /\ q \in Seq(Requests) /\ Len(q) = Len(queue) - 1
        /\ \A j \in 1..Len(q) : q[j] = queue[IF j < i THEN j ELSE j + 1]
    <3> DEFINE a == SubSeq(queue, 1, i - 1)
               b == SubSeq(queue, i + 1, Len(queue))
    <3>1. /\ a \in Seq(Requests) /\ Len(a) = i - 1
          /\ \A j \in 1..(i - 1) : a[j] = queue[j]
      BY <1>1
    <3>2. /\ b \in Seq(Requests) /\ Len(b) = Len(queue) - i
          /\ \A j \in 1..(Len(queue) - i) : b[j] = queue[j + i]
      BY <1>1
    <3>3. q = a \o b
      BY DEF RemoveAt
    <3> HIDE DEF a, b, q
    <3>4. q \in Seq(Requests) /\ Len(q) = Len(a) + Len(b)
      <4>1. a \in Seq(Requests) /\ b \in Seq(Requests)
        BY <3>1, <3>2
      <4> QED
        BY <3>3, <4>1, ConcatProperties
    <3>5. ASSUME NEW j \in 1..Len(q), j < i PROVE q[j] = queue[j]
      BY <1>1, <3>1, <3>2, <3>3, <3>4, <3>5
    <3>6. ASSUME NEW j \in 1..Len(q), ~(j < i) PROVE q[j] = queue[j + 1]
      <4>1. q[j] = b[j - Len(a)]
        BY <1>1, <3>1, <3>2, <3>3, <3>4, <3>6
      <4>2. j - Len(a) \in 1..(Len(queue) - i) /\ (j - Len(a)) + i = j + 1
        BY <1>1, <3>1, <3>2, <3>4, <3>6
      <4> QED
        BY <3>2, <4>1, <4>2
    <3> QED
      BY <1>1, <3>1, <3>2, <3>4, <3>5, <3>6
  <2>2. t = [Semaphore EXCEPT !.queue = RemoveAt(@, i), !.phase[r] = "done"]
    BY DEF Semaphore
  <2> HIDE DEF q
  <2>3. /\ u \in Semaphores /\ u.permits = permits /\ u.queue = q
        /\ u.phase = phase
    BY <1>1, <2>1, QueueSet, SemaphoreFields
  <2>4. "done" \in Phases
    BY DEF Phases
  <2> HIDE DEF u
  <2>5. /\ t \in Semaphores /\ t.permits = u.permits /\ t.queue = u.queue
        /\ t.phase = [u.phase EXCEPT ![r] = "done"]
    BY <2>3, <2>4, PhaseSet
  <2>6. SetSemaphore(WakeAll(t))
    BY <1>3, <2>2
  <2> HIDE DEF t
  <2>7. Orderly(t)
    <3>1. \A j \in 1..Len(q) : phase[q[j]] = "queued" /\ q[j] # r
      <4> SUFFICES ASSUME NEW j \in 1..Len(q)
                   PROVE  phase[q[j]] = "queued" /\ q[j] # r
        OBVIOUS
      <4> DEFINE k == IF j < i THEN j ELSE j + 1
      <4>1. k \in 1..Len(queue) /\ k # i
        BY <1>1, <2>1
      <4>2. q[j] = queue[k]
        BY <2>1
      <4> HIDE DEF k
      <4> QED
        BY <1>1, <1>3, <4>1, <4>2
    <3>2. ASSUME NEW j \in 1..Len(q), NEW k \in 1..Len(q), q[j] = q[k]
          PROVE  j = k
      <4> DEFINE At(x) == IF x < i THEN x ELSE x + 1
      <4>1. At(j) \in 1..Len(queue) /\ At(k) \in 1..Len(queue)
        BY <1>1, <2>1
      <4>2. q[j] = queue[At(j)] /\ q[k] = queue[At(k)]
        BY <2>1
      <4>3. At(j) = At(k)
        <5> HIDE DEF At
        <5> QED
          BY <1>1, <3>2, <4>1, <4>2
      <4> QED
        BY <1>1, <2>1, <4>3
    <3>3. \A j \in 1..Len(q) : q[j] \in Requests
      BY <2>1
    <3> QED
      BY <1>1, <2>3, <2>5, <3>1, <3>2, <3>3 DEF Orderly
  <2>8. Held(t) = Held(Semaphore)
    BY <1>1, <1>3, <2>3, <2>5, SemaphoreFields DEF Held, Holding
  <2>9. Sound(t)
    BY <1>1, <2>3, <2>5, <2>7, <2>8, SemaphoreFields DEF Sound
  <2>10. t.phase[r] = "done" /\ \A o \in Requests \ {r} : t.phase[o] = phase[o]
    BY <1>1, <2>3, <2>5
  <2> QED
    BY <2>6, <2>9, <2>10, WakeAllSound, WakesOnly, SetSound DEF IInv, SetSemaphore
<1> QED
  BY <1>2, <1>3, SemaphoreFields DEF CancelQueued

(* Every step keeps the permits and those who hold one adding up.            *)
LEMMA NextSound == IInv /\ [Next]_vars => IInv'
<1> SUFFICES ASSUME IInv, [Next]_vars PROVE IInv'
  OBVIOUS
<1>0. Callers \subseteq Requests /\ Verify \in Requests
  BY DEF Requests
<1>1. ASSUME NEW r \in Requests, Granted(r) PROVE IInv'
  BY <1>1, GrantedSound
<1>2. ASSUME NEW r \in Requests, Fail(r) PROVE IInv'
  BY <1>2, LeavingSound DEF Fail, Holding
<1>3. ASSUME NEW c \in Callers, Succeed(c) PROVE IInv'
  BY <1>0, <1>3, LeavingSound DEF Succeed, Answered, Holding
<1>4. CASE VerifyGoesOn
  BY <1>4, VerifyGoesOnSound
<1>5. CASE VerifySucceeds
  BY <1>0, <1>5, LeavingSound DEF VerifySucceeds, Answered, Holding
<1>6. ASSUME NEW c \in Callers, Request(c) PROVE IInv'
  BY <1>0, <1>6, EnteringSound DEF Request
<1>7. ASSUME NEW r \in Requests, CancelQueued(r) PROVE IInv'
  BY <1>7, CancelQueuedSound
<1>8. CASE Connect
  BY <1>0, <1>8, EnteringSound DEF Connect, Idle
<1>9. CASE UNCHANGED semVars
  BY <1>9 DEF IInv, semVars, Semaphore, Sound, Orderly, Held
<1>10. ASSUME NEW r \in Requests, CancelAwait(r) \/ Timeout(r)
       PROVE  UNCHANGED semVars
  BY <1>10 DEF CancelAwait, Timeout
<1>11. CASE \/ Close \/ PeerAnswers \/ PeerNotifies \/ DataReceived
            \/ TransportCloses \/ ConnectionLost
  <2>1. UNCHANGED semVars
    BY <1>11 DEF Close, PeerAnswers, PeerNotifies, DataReceived, TransportCloses,
                 ConnectionLost
  <2> QED
    BY <1>9, <2>1
<1>12. CASE UNCHANGED vars
  BY <1>9, <1>12 DEF vars
<1> QED
  BY <1>1, <1>2, <1>3, <1>4, <1>5, <1>6, <1>7, <1>8, <1>9, <1>10, <1>11, <1>12
     DEF Next, Task, User, Network

(* On every path out of a request the semaphore is given back exactly once,  *)
(* so that no sequence of answers, timeouts, cancellations and lost          *)
(* transports leaves the pairing without a permit, or with one too many: for *)
(* any number of callers and any concurrency_limit.                          *)
THEOREM SemaphoreIsConserved == Spec => []SemaphoreConserved
<1>1. IInv => SemaphoreConserved
  BY SemaphoreFields DEF IInv, Sound, Held, SemaphoreConserved
<1> QED
  BY <1>1, InitSound, NextSound, PTL DEF Spec

(* Nobody is left in the semaphore's queue who has ended, and nobody is in   *)
(* it twice: a request that is cancelled, granted or answered has left it.   *)
QueueHoldsWaiters ==
  /\ \A i \in 1..Len(queue) : phase[queue[i]] = "queued"
  /\ \A i, j \in 1..Len(queue) : queue[i] = queue[j] => i = j

THEOREM QueueHoldsWaitersAlways == Spec => []QueueHoldsWaiters
<1>1. IInv => QueueHoldsWaiters
  BY SemaphoreFields DEF IInv, Sound, Orderly, QueueHoldsWaiters
<1> QED
  BY <1>1, InitSound, NextSound, PTL DEF Spec

-----------------------------------------------------------------------------
(* Types.                                                                    *)

(* What requests change besides the semaphore, and the rest.                 *)
RequestTypes ==
  /\ outcome \in [Requests -> Requests \cup {"none", "failed"}]
  /\ future \in [Requests -> Requests \cup Unanswered]
  /\ current \in SUBSET Requests
  /\ cbs \in Seq(Requests) /\ atPeer \in Seq(Requests)

NetTypes ==
  /\ link \in {"down", "open", "closing"}
  /\ protocol \in {"none", "insecure", "secure"} /\ step \in {"m1", "m3"}
  /\ inbound \in Seq(Requests \cup {Event})

LEMMA SendTypes ==
  ASSUME NEW s, NEW r \in Requests, RequestTypes, Send(s, r)
  PROVE  RequestTypes'
<1>1. CASE protocol' # "none" /\ link' = "open"
  <2>1. Append(cbs, r) \in Seq(Requests) /\ Append(atPeer, r) \in Seq(Requests)
    BY DEF RequestTypes
  <2>2. [future EXCEPT ![r] = "pending"] \in [Requests -> Requests \cup Unanswered]
    BY DEF RequestTypes, Unanswered
  <2> QED
    BY <1>1, <2>1, <2>2 DEF Send, RequestTypes
<1>2. CASE ~(protocol' # "none" /\ link' = "open")
  <2>1. [outcome EXCEPT ![r] = "failed"] \in [Requests -> Requests \cup {"none", "failed"}]
    BY DEF RequestTypes
  <2> QED
    BY <1>2, <2>1 DEF Send, RequestTypes
<1> QED
  BY <1>1, <1>2

LEMMA EnterTypes ==
  ASSUME NEW s, NEW r \in Requests, RequestTypes, Enter(s, r)
  PROVE  RequestTypes'
<1>1. CASE Locked(s)
  BY <1>1 DEF Enter, RequestTypes
<1>2. CASE ~Locked(s)
  <2> DEFINE t == [s EXCEPT !.permits = @ - 1]
  <2>1. Send(t, r)
    BY <1>2 DEF Enter
  <2> HIDE DEF t
  <2> QED
    BY <2>1, SendTypes
<1> QED
  BY <1>1, <1>2

LEMMA CancelPendingType ==
  ASSUME future \in [Requests -> Requests \cup Unanswered]
  PROVE  CancelPending(future) \in [Requests -> Requests \cup Unanswered]
  BY DEF CancelPending, Unanswered

LEMMA NextTypes == RequestTypes /\ NetTypes /\ [Next]_vars => (RequestTypes /\ NetTypes)'
<1> SUFFICES ASSUME RequestTypes, NetTypes, [Next]_vars PROVE (RequestTypes /\ NetTypes)'
  OBVIOUS
<1>0. Callers \subseteq Requests /\ Verify \in Requests
  BY DEF Requests
<1>1. ASSUME NEW r \in Requests, Granted(r) PROVE (RequestTypes /\ NetTypes)'
  <2>1. RequestTypes'
    <3> DEFINE s == WakeAll(Semaphore)
    <3>1. Send(s, r)
      BY <1>1 DEF Granted
    <3> HIDE DEF s
    <3> QED
      BY <3>1, SendTypes
  <2> QED
    BY <1>1, <2>1 DEF Granted, NetTypes, netVars
<1>2. ASSUME NEW r \in Requests, Fail(r) PROVE (RequestTypes /\ NetTypes)'
  BY <1>2 DEF Fail, RequestTypes, NetTypes, LinkAfterFailure, wireVars, Unanswered
<1>3. ASSUME NEW c \in Callers, Succeed(c) PROVE (RequestTypes /\ NetTypes)'
  <2>1. future[c] \in Requests
    BY <1>0, <1>3 DEF Succeed, Answered, RequestTypes
  <2> QED
    BY <1>0, <1>3, <2>1
       DEF Succeed, RequestTypes, NetTypes, netVars, wireVars, Unanswered
<1>4. CASE VerifyGoesOn
  <2>1. RequestTypes'
    <3>1. CASE protocol # "none"
      <4> DEFINE s == Leave(Semaphore, Verify)
      <4>1. Enter(s, Verify)
        BY <1>4, <3>1 DEF VerifyGoesOn
      <4> HIDE DEF s
      <4> QED
        BY <1>0, <4>1, EnterTypes
    <3>2. CASE protocol = "none"
      BY <1>0, <1>4, <3>2 DEF VerifyGoesOn, RequestTypes, Unanswered
    <3> QED
      BY <3>1, <3>2
  <2> QED
    BY <1>4, <2>1 DEF VerifyGoesOn, NetTypes
<1>5. CASE VerifySucceeds
  <2>1. future[Verify] \in Requests
    BY <1>0, <1>5 DEF VerifySucceeds, Answered, RequestTypes
  <2> QED
    BY <1>0, <1>5, <2>1 DEF VerifySucceeds, RequestTypes, NetTypes, Unanswered
<1>6. ASSUME NEW c \in Callers, Request(c) PROVE (RequestTypes /\ NetTypes)'
  BY <1>0, <1>6, EnterTypes DEF Request, NetTypes, netVars
<1>7. ASSUME NEW r \in Requests, CancelQueued(r) PROVE (RequestTypes /\ NetTypes)'
  BY <1>7 DEF CancelQueued, RequestTypes, NetTypes, netVars, wireVars
<1>8. CASE Connect
  BY <1>0, <1>8, EnterTypes DEF Connect, NetTypes
<1>9. ASSUME NEW r \in Requests, CancelAwait(r) \/ Timeout(r)
      PROVE  (RequestTypes /\ NetTypes)'
  BY <1>9 DEF CancelAwait, Timeout, RequestTypes, NetTypes, netVars, wireVars, Unanswered
<1>10. CASE Close
  BY <1>10 DEF Close, RequestTypes, NetTypes, wireVars
<1>11. CASE PeerAnswers
  BY <1>11 DEF PeerAnswers, RequestTypes, NetTypes, netVars
<1>12. CASE PeerNotifies
  BY <1>12 DEF PeerNotifies, RequestTypes, NetTypes, netVars
<1>13. CASE DataReceived
  <2>1. inbound' \in Seq(Requests \cup {Event}) /\ Head(inbound) \in Requests \cup {Event}
    BY <1>13 DEF DataReceived, NetTypes
  <2>2. link' \in {"down", "open", "closing"}
    BY <1>13 DEF DataReceived, NetTypes
  <2>3. cbs' \in Seq(Requests)
    <3>1. cbs' = cbs \/ (cbs # <<>> /\ cbs' = Tail(cbs))
      BY <1>13 DEF DataReceived
    <3>2. cbs \in Seq(Requests)
      BY DEF RequestTypes
    <3> QED
      BY <3>1, <3>2
  <2>4. future' \in [Requests -> Requests \cup Unanswered]
    <3>1. CASE Head(inbound) # Event /\ cbs # <<>>
      BY <1>13, <2>1, <3>1 DEF DataReceived, RequestTypes
    <3>2. CASE ~(Head(inbound) # Event /\ cbs # <<>>)
      BY <1>13, <3>2 DEF DataReceived, RequestTypes
    <3> QED
      BY <3>1, <3>2
  <2> QED
    BY <1>13, <2>1, <2>2, <2>3, <2>4 DEF DataReceived, RequestTypes, NetTypes
<1>14. CASE TransportCloses
  <2>1. future' \in [Requests -> Requests \cup Unanswered]
    BY <1>14, CancelPendingType DEF TransportCloses, RequestTypes
  <2>2. cbs' \in Seq(Requests)
    <3>1. cbs' = cbs \/ cbs' = <<>>
      BY <1>14 DEF TransportCloses
    <3>2. cbs \in Seq(Requests) /\ <<>> \in Seq(Requests)
      BY DEF RequestTypes
    <3> QED
      BY <3>1, <3>2, Zenon
  <2> QED
    BY <1>14, <2>1, <2>2 DEF TransportCloses, RequestTypes, NetTypes
<1>15. CASE ConnectionLost
  BY <1>15, CancelPendingType DEF ConnectionLost, RequestTypes, NetTypes
<1>16. CASE UNCHANGED vars
  BY <1>16 DEF vars, netVars, wireVars, RequestTypes, NetTypes
<1> QED
  BY <1>1, <1>2, <1>3, <1>4, <1>5, <1>6, <1>7, <1>8, <1>9, <1>10, <1>11, <1>12,
     <1>13, <1>14, <1>15, <1>16 DEF Next, Task, User, Network

(* Every variable keeps its type; in particular no answer but a request's    *)
(* own kind ever fills a future, and there are never more permits than       *)
(* concurrency_limit.                                                        *)
THEOREM TypeCorrect == Spec => []TypeOK
<1>1. Init => RequestTypes /\ NetTypes
  BY DEF Init, RequestTypes, NetTypes, Unanswered
<1>2. IInv /\ RequestTypes /\ NetTypes => TypeOK
  <2> SUFFICES ASSUME IInv, RequestTypes, NetTypes PROVE TypeOK
    OBVIOUS
  <2>1. permits \in 0..Permits
    BY HeldFinite, SemaphoreFields, PermitsAssumption
       DEF IInv, Sound, Orderly, Semaphores
  <2>2. queue \in Seq(Requests) /\ phase \in [Requests -> {"idle", "done"} \cup Pending]
    BY SemaphoreFields DEF IInv, Sound, Orderly, Semaphores, Phases
  <2> QED
    BY <2>1, <2>2 DEF TypeOK, RequestTypes, NetTypes
<1> QED
  BY <1>1, <1>2, InitSound, NextSound, NextTypes, PTL DEF Spec

-----------------------------------------------------------------------------
(* The order of the answers: what is under way and what the accessory still  *)
(* owes is what the FIFO of futures expects, in this order.  n counts the    *)
(* answers among what is under way.                                          *)
Counts(n, w, p, b) ==
  /\ n \in [0..Len(w) -> Nat] /\ n[0] = 0
  /\ \A i \in 1..Len(w) : n[i] = n[i - 1] + (IF w[i] = Event THEN 0 ELSE 1)
  /\ \A i, j \in 0..Len(w) : i <= j => n[i] <= n[j]
  /\ Len(b) = n[Len(w)] + Len(p)
  /\ \A i \in 1..Len(w) : w[i] # Event => b[n[i]] = w[i]
  /\ \A j \in 1..Len(p) : b[n[Len(w)] + j] = p[j]

InOrder(w, p, b) ==
  /\ w \in Seq(Requests \cup {Event}) /\ p \in Seq(Requests) /\ b \in Seq(Requests)
  /\ \E n : Counts(n, w, p, b)

(* What a count says of one place.                                           *)
LEMMA CountsAt ==
  ASSUME NEW n, NEW w, NEW p, NEW b, Len(w) \in Nat, Counts(n, w, p, b)
  PROVE  /\ \A i \in 0..Len(w) : n[i] \in Nat /\ n[i] <= n[Len(w)]
         /\ n[0] = 0 /\ n[Len(w)] \in Nat /\ Len(b) = n[Len(w)] + Len(p)
         /\ \A i \in 1..Len(w) :
              /\ n[i] \in Nat /\ n[i - 1] \in Nat /\ n[i] <= n[Len(w)]
              /\ w[i] = Event => n[i] = n[i - 1]
              /\ w[i] # Event => n[i] = n[i - 1] + 1 /\ b[n[i]] = w[i]
<1>1. \A i \in 0..Len(w) : n[i] \in Nat
  BY DEF Counts
<1>2. Len(w) \in 0..Len(w) /\ \A i \in 0..Len(w) : i <= Len(w)
  OBVIOUS
<1>3. \A i \in 0..Len(w) : n[i] <= n[Len(w)]
  BY <1>2 DEF Counts
<1>4. n[0] = 0 /\ Len(b) = n[Len(w)] + Len(p)
  BY DEF Counts
<1>5. ASSUME NEW i \in 1..Len(w)
      PROVE  /\ n[i] \in Nat /\ n[i - 1] \in Nat /\ n[i] <= n[Len(w)]
             /\ w[i] = Event => n[i] = n[i - 1]
             /\ w[i] # Event => n[i] = n[i - 1] + 1 /\ b[n[i]] = w[i]
  <2>1. i \in 0..Len(w) /\ i - 1 \in 0..Len(w)
    OBVIOUS
  <2>2. n[i] \in Nat /\ n[i - 1] \in Nat /\ n[i] <= n[Len(w)]
    BY <1>1, <1>3, <2>1
  <2>3. n[i] = n[i - 1] + (IF w[i] = Event THEN 0 ELSE 1)
    BY DEF Counts
  <2>4. w[i] # Event => b[n[i]] = w[i]
    BY DEF Counts
  <2> QED
    BY <2>2, <2>3, <2>4
<1> QED
  BY <1>1, <1>2, <1>3, <1>4, <1>5

LEMMA OrderEmpty == InOrder(<<>>, <<>>, <<>>)
<1> DEFINE n == [i \in 0..0 |-> 0]
<1>1. Counts(n, <<>>, <<>>, <<>>)
  BY DEF Counts
<1> QED
  BY <1>1 DEF InOrder

(* What is under way or owed is in the FIFO.                                 *)
Expected(w, p, b) ==
  /\ \A i \in 1..Len(w) : w[i] # Event => \E k \in 1..Len(b) : b[k] = w[i]
  /\ \A j \in 1..Len(p) : \E k \in 1..Len(b) : b[k] = p[j]

LEMMA OrderExpected ==
  ASSUME NEW w, NEW p, NEW b, InOrder(w, p, b)
  PROVE  Expected(w, p, b)
<1> PICK n : Counts(n, w, p, b)
  BY DEF InOrder
<1>1. Len(w) \in Nat /\ Len(p) \in Nat /\ Len(b) \in Nat
  BY DEF InOrder
<1>2. n[Len(w)] \in Nat /\ Len(b) = n[Len(w)] + Len(p)
  BY <1>1, CountsAt
<1>3. ASSUME NEW i \in 1..Len(w), w[i] # Event
      PROVE  n[i] \in 1..Len(b) /\ b[n[i]] = w[i]
  <2>1. n[i] \in Nat /\ n[i - 1] \in Nat /\ n[i] = n[i - 1] + 1 /\ n[i] <= n[Len(w)]
        /\ b[n[i]] = w[i]
    BY <1>1, <1>3, CountsAt
  <2>2. n[Len(w)] \in Nat /\ n[Len(w)] <= Len(b)
    BY <1>1, <1>2
  <2>3. n[i] >= 1 /\ n[i] <= Len(b)
    BY <1>1, <2>1, <2>2
  <2>4. PICK k \in Nat, l \in Nat : k = n[i] /\ l = Len(b) /\ k >= 1 /\ k <= l
    BY <1>1, <2>1, <2>3
  <2>5. k \in 1..l
    BY <2>4
  <2> QED
    BY <2>1, <2>4, <2>5
<1>4. ASSUME NEW j \in 1..Len(p)
      PROVE  n[Len(w)] + j \in 1..Len(b) /\ b[n[Len(w)] + j] = p[j]
  <2>1. b[n[Len(w)] + j] = p[j]
    BY DEF Counts
  <2>2. PICK k \in Nat, l \in Nat : k = n[Len(w)] /\ l = Len(p) /\ Len(b) = k + l
    BY <1>1, <1>2
  <2>3. j \in 1..l
    BY <2>2
  <2>4. k + j \in 1..(k + l)
    BY <2>3
  <2> QED
    BY <2>1, <2>2, <2>4
<1> QED
  BY <1>3, <1>4 DEF Expected

(* A request that is sent comes last everywhere.                             *)
LEMMA OrderSend ==
  ASSUME NEW w, NEW p, NEW b, NEW r \in Requests, InOrder(w, p, b)
  PROVE  InOrder(w, Append(p, r), Append(b, r))
<1> PICK n : Counts(n, w, p, b)
  BY DEF InOrder
<1> DEFINE q == Append(p, r)
           c == Append(b, r)
<1>1. /\ w \in Seq(Requests \cup {Event}) /\ p \in Seq(Requests) /\ b \in Seq(Requests)
      /\ Len(w) \in Nat /\ Len(p) \in Nat /\ Len(b) \in Nat
  BY DEF InOrder
<1>0. Len(w) \in Nat /\ Len(p) \in Nat /\ Len(b) \in Nat
  BY <1>1
<1>2. /\ q \in Seq(Requests) /\ Len(q) = Len(p) + 1
      /\ \A j \in 1..Len(p) : q[j] = p[j]
      /\ q[Len(p) + 1] = r
  BY <1>1
<1>3. /\ c \in Seq(Requests) /\ Len(c) = Len(b) + 1
      /\ \A k \in 1..Len(b) : c[k] = b[k]
      /\ c[Len(b) + 1] = r
  BY <1>1
<1> HIDE DEF q, c
<1>4. n[Len(w)] \in Nat /\ Len(b) = n[Len(w)] + Len(p)
  BY <1>1, CountsAt
<1>5. \A i \in 1..Len(w) : w[i] # Event => c[n[i]] = w[i]
  <2> SUFFICES ASSUME NEW i \in 1..Len(w), w[i] # Event PROVE c[n[i]] = w[i]
    OBVIOUS
  <2>1. n[i] \in Nat /\ n[i - 1] \in Nat /\ n[i] = n[i - 1] + 1 /\ n[i] <= n[Len(w)]
        /\ b[n[i]] = w[i]
    BY <1>1, CountsAt
  <2>2. n[i] \in 1..Len(b)
    <3>1. n[i] \in Nat /\ 1 <= n[i]
      BY <2>1
    <3>2. n[i] <= Len(b)
      BY <1>0, <1>4, <2>1
    <3> QED
      BY <1>0, <3>1, <3>2
  <2> QED
    BY <1>3, <2>1, <2>2
<1>6. \A j \in 1..Len(q) : c[n[Len(w)] + j] = q[j]
  <2> SUFFICES ASSUME NEW j \in 1..Len(q) PROVE c[n[Len(w)] + j] = q[j]
    OBVIOUS
  <2>1. CASE j \in 1..Len(p)
    <3>1. n[Len(w)] + j \in 1..Len(b) /\ b[n[Len(w)] + j] = p[j]
      BY <1>1, <1>4, <2>1 DEF Counts
    <3> QED
      BY <1>2, <1>3, <2>1, <3>1
  <2>2. CASE j = Len(p) + 1
    <3>1. n[Len(w)] + j = Len(b) + 1
      BY <1>0, <1>4, <2>2, Z3
    <3> QED
      BY <1>2, <1>3, <2>2, <3>1
  <2> QED
    BY <1>1, <1>2, <2>1, <2>2
<1>7. Counts(n, w, q, c)
  BY <1>1, <1>2, <1>3, <1>4, <1>5, <1>6 DEF Counts
<1> QED
  BY <1>1, <1>2, <1>3, <1>7 DEF InOrder, q, c

(* Something more is under way: an event, or the first answer owed.          *)
LEMMA OrderEvent ==
  ASSUME NEW w, NEW p, NEW b, InOrder(w, p, b)
  PROVE  InOrder(Append(w, Event), p, b)
<1> PICK n : Counts(n, w, p, b)
  BY DEF InOrder
<1> DEFINE v == Append(w, Event)
           m == [i \in 0..(Len(w) + 1) |-> IF i <= Len(w) THEN n[i] ELSE n[Len(w)]]
<1>1. /\ w \in Seq(Requests \cup {Event}) /\ p \in Seq(Requests) /\ b \in Seq(Requests)
      /\ Len(w) \in Nat /\ Len(p) \in Nat /\ Len(b) \in Nat
  BY DEF InOrder
<1>0. Len(w) \in Nat /\ Len(p) \in Nat /\ Len(b) \in Nat
  BY <1>1
<1>2. /\ v \in Seq(Requests \cup {Event}) /\ Len(v) = Len(w) + 1
      /\ \A i \in 1..Len(w) : v[i] = w[i]
      /\ v[Len(w) + 1] = Event
  BY <1>1
<1>3. /\ \A i \in 0..Len(w) : n[i] \in Nat /\ n[i] <= n[Len(w)]
      /\ n[0] = 0 /\ n[Len(w)] \in Nat
  BY <1>0, CountsAt
<1>4. /\ \A i \in 0..Len(w) : m[i] = n[i]
      /\ m[Len(w) + 1] = n[Len(w)] /\ m[0] = 0
  BY <1>0, <1>3
<1>5. m \in [0..Len(v) -> Nat]
  <2>1. \A i \in 0..(Len(w) + 1) : (IF i <= Len(w) THEN n[i] ELSE n[Len(w)]) \in Nat
    BY <1>0, <1>3
  <2> QED
    BY <1>2, <2>1
<1> HIDE DEF v, m
<1>6. \A i \in 1..Len(v) : m[i] = m[i - 1] + (IF v[i] = Event THEN 0 ELSE 1)
  <2> SUFFICES ASSUME NEW i \in 1..Len(v)
               PROVE  m[i] = m[i - 1] + (IF v[i] = Event THEN 0 ELSE 1)
    OBVIOUS
  <2>1. CASE i \in 1..Len(w)
    <3>1. m[i] = n[i] /\ m[i - 1] = n[i - 1] /\ v[i] = w[i]
      BY <1>0, <1>2, <1>4, <2>1
    <3>2. n[i] = n[i - 1] + (IF w[i] = Event THEN 0 ELSE 1)
      BY <2>1 DEF Counts
    <3> QED
      BY <3>1, <3>2
  <2>2. CASE i = Len(w) + 1
    <3>1. m[i] = n[Len(w)] /\ m[i - 1] = n[Len(w)] /\ v[i] = Event
      BY <1>0, <1>2, <1>4, <2>2
    <3> QED
      BY <1>3, <3>1
  <2> QED
    BY <1>0, <1>2, <2>1, <2>2
<1>7. \A i, j \in 0..Len(v) : i <= j => m[i] <= m[j]
  <2> SUFFICES ASSUME NEW i \in 0..Len(v), NEW j \in 0..Len(v), i <= j PROVE m[i] <= m[j]
    OBVIOUS
  <2>1. i \in 0..Len(w) \/ i = Len(w) + 1
    BY <1>0, <1>2
  <2>2. CASE j \in 0..Len(w)
    <3>1. i \in 0..Len(w)
      BY <1>0, <1>2, <2>2
    <3>2. n[i] <= n[j]
      BY <2>2, <3>1 DEF Counts
    <3> QED
      BY <1>4, <2>2, <3>1, <3>2
  <2>3. CASE j = Len(w) + 1
    BY <1>3, <1>4, <2>1, <2>3
  <2> QED
    BY <1>0, <1>2, <2>2, <2>3
<1>8. \A i \in 1..Len(v) : v[i] # Event => b[m[i]] = v[i]
  <2> SUFFICES ASSUME NEW i \in 1..Len(v), v[i] # Event PROVE b[m[i]] = v[i]
    OBVIOUS
  <2>1. i \in 1..Len(w) /\ v[i] = w[i] /\ m[i] = n[i]
    BY <1>0, <1>2, <1>4
  <2> QED
    BY <1>0, <2>1, CountsAt
<1>9. m[Len(v)] = n[Len(w)]
  BY <1>2, <1>4
<1>10. Len(b) = m[Len(v)] + Len(p) /\ \A j \in 1..Len(p) : b[m[Len(v)] + j] = p[j]
  BY <1>9 DEF Counts
<1>11. Counts(m, v, p, b)
  BY <1>4, <1>5, <1>6, <1>7, <1>8, <1>10 DEF Counts
<1> QED
  BY <1>1, <1>2, <1>11 DEF InOrder, v

LEMMA OrderAnswer ==
  ASSUME NEW w, NEW p, NEW b, InOrder(w, p, b), p # <<>>
  PROVE  InOrder(Append(w, Head(p)), Tail(p), b)
<1> PICK n : Counts(n, w, p, b)
  BY DEF InOrder
<1> DEFINE v == Append(w, Head(p))
           q == Tail(p)
           m == [i \in 0..(Len(w) + 1) |-> IF i <= Len(w) THEN n[i] ELSE n[Len(w)] + 1]
<1>1. /\ w \in Seq(Requests \cup {Event}) /\ p \in Seq(Requests) /\ b \in Seq(Requests)
      /\ Len(w) \in Nat /\ Len(p) \in Nat \ {0} /\ Len(b) \in Nat
  BY DEF InOrder
<1>0. Len(w) \in Nat /\ Len(p) \in Nat /\ Len(b) \in Nat
  BY <1>1
<1>2. Head(p) = p[1] /\ p[1] \in Requests /\ p[1] # Event
  BY <1>1, NamesAssumption
<1>3. /\ v \in Seq(Requests \cup {Event}) /\ Len(v) = Len(w) + 1
      /\ \A i \in 1..Len(w) : v[i] = w[i]
      /\ v[Len(w) + 1] = p[1]
  BY <1>1, <1>2
<1>4. /\ q \in Seq(Requests) /\ Len(q) = Len(p) - 1
      /\ \A j \in 1..Len(q) : q[j] = p[j + 1]
  BY <1>1
<1>5. /\ \A i \in 0..Len(w) : n[i] \in Nat /\ n[i] <= n[Len(w)]
      /\ n[0] = 0 /\ n[Len(w)] \in Nat /\ Len(b) = n[Len(w)] + Len(p)
  BY <1>0, CountsAt
<1>6. /\ \A i \in 0..Len(w) : m[i] = n[i]
      /\ m[Len(w) + 1] = n[Len(w)] + 1 /\ m[0] = 0
  BY <1>0, <1>5
<1>7. m \in [0..Len(v) -> Nat]
  <2>1. \A i \in 0..(Len(w) + 1) : (IF i <= Len(w) THEN n[i] ELSE n[Len(w)] + 1) \in Nat
    BY <1>0, <1>5
  <2> QED
    BY <1>3, <2>1
<1> HIDE DEF v, q, m
<1>8. \A i \in 1..Len(v) : m[i] = m[i - 1] + (IF v[i] = Event THEN 0 ELSE 1)
  <2> SUFFICES ASSUME NEW i \in 1..Len(v)
               PROVE  m[i] = m[i - 1] + (IF v[i] = Event THEN 0 ELSE 1)
    OBVIOUS
  <2>1. CASE i \in 1..Len(w)
    <3>0. i \in 0..Len(w) /\ i - 1 \in 0..Len(w)
      BY <1>0, <2>1
    <3>1. m[i] = n[i] /\ m[i - 1] = n[i - 1] /\ v[i] = w[i]
      BY <1>3, <1>6, <2>1, <3>0
    <3>2. n[i] = n[i - 1] + (IF w[i] = Event THEN 0 ELSE 1)
      BY <2>1 DEF Counts
    <3> QED
      BY <3>1, <3>2
  <2>2. CASE i = Len(w) + 1
    <3>1. m[i] = n[Len(w)] + 1 /\ m[i - 1] = n[Len(w)] /\ v[i] # Event
      BY <1>0, <1>2, <1>3, <1>6, <2>2
    <3> QED
      BY <3>1
  <2> QED
    BY <1>0, <1>3, <2>1, <2>2
<1>9. \A i, j \in 0..Len(v) : i <= j => m[i] <= m[j]
  <2> SUFFICES ASSUME NEW i \in 0..Len(v), NEW j \in 0..Len(v), i <= j PROVE m[i] <= m[j]
    OBVIOUS
  <2>1. i \in 0..Len(w) \/ i = Len(w) + 1
    BY <1>0, <1>3
  <2>2. CASE j \in 0..Len(w)
    <3>1. i \in 0..Len(w)
      BY <1>0, <1>3, <2>2
    <3>2. n[i] <= n[j]
      BY <2>2, <3>1 DEF Counts
    <3> QED
      BY <1>6, <2>2, <3>1, <3>2
  <2>3. CASE j = Len(w) + 1
    <3>1. m[i] \in Nat /\ (m[i] <= n[Len(w)] \/ m[i] = n[Len(w)] + 1)
      BY <1>5, <1>6, <2>1
    <3> QED
      BY <1>5, <1>6, <2>3, <3>1
  <2> QED
    BY <1>0, <1>3, <2>2, <2>3
<1>10. \A i \in 1..Len(v) : v[i] # Event => b[m[i]] = v[i]
  <2> SUFFICES ASSUME NEW i \in 1..Len(v), v[i] # Event PROVE b[m[i]] = v[i]
    OBVIOUS
  <2>1. CASE i \in 1..Len(w)
    <3>1. v[i] = w[i] /\ m[i] = n[i]
      BY <1>0, <1>3, <1>6, <2>1
    <3> QED
      BY <1>0, <2>1, <3>1, CountsAt
  <2>2. CASE i = Len(w) + 1
    <3>1. m[i] = n[Len(w)] + 1 /\ v[i] = p[1]
      BY <1>3, <1>6, <2>2
    <3>2. 1 \in 1..Len(p)
      BY <1>1
    <3> QED
      BY <3>1, <3>2 DEF Counts
  <2> QED
    BY <1>0, <1>3, <2>1, <2>2
<1>11. m[Len(v)] = n[Len(w)] + 1
  BY <1>3, <1>6
<1>12. \A j \in 1..Len(q) : b[m[Len(v)] + j] = q[j]
  <2> SUFFICES ASSUME NEW j \in 1..Len(q) PROVE b[m[Len(v)] + j] = q[j]
    OBVIOUS
  <2>1. j + 1 \in 1..Len(p)
    BY <1>0, <1>4
  <2>2. m[Len(v)] + j = n[Len(w)] + (j + 1)
    <3>1. j \in Int
      OBVIOUS
    <3> QED
      <4>1. n[Len(w)] \in Nat /\ m[Len(v)] = n[Len(w)] + 1
        BY <1>5, <1>11
      <4> QED
        BY <3>1, <4>1
  <2>3. b[n[Len(w)] + (j + 1)] = p[j + 1]
    BY <2>1 DEF Counts
  <2> QED
    BY <1>4, <2>2, <2>3
<1>13. Len(b) = m[Len(v)] + Len(q)
  BY <1>0, <1>4, <1>5, <1>11, Z3
<1>14. Counts(m, v, q, b)
  BY <1>6, <1>7, <1>8, <1>9, <1>10, <1>12, <1>13 DEF Counts
<1> QED
  BY <1>1, <1>3, <1>4, <1>14 DEF InOrder, v, q

(* Something is received: an event, or an answer for the first of the FIFO.  *)
LEMMA OrderReceiveEvent ==
  ASSUME NEW w, NEW p, NEW b, InOrder(w, p, b), w # <<>>, Head(w) = Event
  PROVE  InOrder(Tail(w), p, b)
<1> PICK n : Counts(n, w, p, b)
  BY DEF InOrder
<1> DEFINE v == Tail(w)
           m == [i \in 0..(Len(w) - 1) |-> n[i + 1]]
<1>1. /\ w \in Seq(Requests \cup {Event}) /\ p \in Seq(Requests) /\ b \in Seq(Requests)
      /\ Len(w) \in Nat \ {0} /\ Len(p) \in Nat /\ Len(b) \in Nat /\ w[1] = Event
  BY DEF InOrder
<1>0. Len(w) \in Nat \ {0} /\ Len(p) \in Nat /\ Len(b) \in Nat
  BY <1>1
<1>2. /\ v \in Seq(Requests \cup {Event}) /\ Len(v) = Len(w) - 1
      /\ \A i \in 1..Len(v) : v[i] = w[i + 1]
  BY <1>1
<1>3. \A i \in 0..(Len(w) - 1) : m[i] = n[i + 1] /\ n[i + 1] \in Nat
  <2>1. \A i \in 0..(Len(w) - 1) : i + 1 \in 0..Len(w)
    BY <1>0
  <2>2. \A i \in 0..Len(w) : n[i] \in Nat
    BY <1>0, CountsAt
  <2> QED
    BY <2>1, <2>2
<1>4. m \in [0..Len(v) -> Nat]
  BY <1>1, <1>2, <1>3
<1>5. m[0] = 0
  <2>1. n[1] = n[0] + 0 /\ n[0] = 0
    BY <1>1 DEF Counts
  <2> QED
    BY <1>1, <1>3, <2>1
<1> HIDE DEF v, m
<1>6. \A i \in 1..Len(v) : m[i] = m[i - 1] + (IF v[i] = Event THEN 0 ELSE 1)
  <2> SUFFICES ASSUME NEW i \in 1..Len(v)
               PROVE  m[i] = m[i - 1] + (IF v[i] = Event THEN 0 ELSE 1)
    OBVIOUS
  <2>1. i + 1 \in 1..Len(w) /\ (i + 1) - 1 = i /\ (i - 1) + 1 = i
        /\ i \in 0..(Len(w) - 1) /\ i - 1 \in 0..(Len(w) - 1)
    BY <1>1, <1>2
  <2>2. n[i + 1] = n[i] + (IF w[i + 1] = Event THEN 0 ELSE 1)
    BY <2>1 DEF Counts
  <2>3. m[i] = n[i + 1] /\ m[i - 1] = n[i]
    BY <1>3, <2>1
  <2> QED
    BY <1>2, <2>2, <2>3
<1>7. \A i, j \in 0..Len(v) : i <= j => m[i] <= m[j]
  BY <1>1, <1>2, <1>3 DEF Counts
<1>8. \A i \in 1..Len(v) : v[i] # Event => b[m[i]] = v[i]
  <2> SUFFICES ASSUME NEW i \in 1..Len(v), v[i] # Event PROVE b[m[i]] = v[i]
    OBVIOUS
  <2>1. i + 1 \in 1..Len(w) /\ i \in 0..(Len(w) - 1)
    BY <1>0, <1>2
  <2>2. v[i] = w[i + 1] /\ m[i] = n[i + 1]
    BY <1>2, <1>3, <2>1
  <2> QED
    BY <1>0, <2>1, <2>2, CountsAt
<1>9. m[Len(v)] = n[Len(w)]
  BY <1>1, <1>2, <1>3
<1>10. Counts(m, v, p, b)
  BY <1>1, <1>2, <1>4, <1>5, <1>6, <1>7, <1>8, <1>9 DEF Counts
<1> QED
  BY <1>1, <1>2, <1>10 DEF InOrder, v

(* Places move up by one when the first answer has gone.                     *)
LEMMA ShiftedByOne ==
  ASSUME NEW x \in Nat, NEW y \in Nat, x = y - 1, NEW l \in Nat, NEW j \in 1..l
  PROVE  (x + j) + 1 = y + j /\ x + j \in 1..(x + l)
  OBVIOUS

LEMMA OrderReceive ==
  ASSUME NEW w, NEW p, NEW b, InOrder(w, p, b), w # <<>>, Head(w) # Event
  PROVE  /\ b # <<>> /\ Head(b) = Head(w)
         /\ InOrder(Tail(w), p, Tail(b))
<1> PICK n : Counts(n, w, p, b)
  BY DEF InOrder
<1> DEFINE v == Tail(w)
           c == Tail(b)
           m == [i \in 0..(Len(w) - 1) |-> n[i + 1] - 1]
<1>1. /\ w \in Seq(Requests \cup {Event}) /\ p \in Seq(Requests) /\ b \in Seq(Requests)
      /\ Len(w) \in Nat \ {0} /\ Len(p) \in Nat /\ Len(b) \in Nat /\ w[1] # Event
  BY DEF InOrder
<1>0. Len(w) \in Nat \ {0} /\ Len(p) \in Nat /\ Len(b) \in Nat
  BY <1>1
<1>2. /\ v \in Seq(Requests \cup {Event}) /\ Len(v) = Len(w) - 1
      /\ \A i \in 1..Len(v) : v[i] = w[i + 1]
  BY <1>1
<1>3. n[1] = 1
  <2>1. n[1] = n[0] + 1 /\ n[0] = 0
    BY <1>1 DEF Counts
  <2> QED
    BY <2>1
<1>4. \A i \in 0..(Len(w) - 1) : m[i] = n[i + 1] - 1 /\ n[i + 1] \in Nat \ {0}
  <2> SUFFICES ASSUME NEW i \in 0..(Len(w) - 1)
               PROVE  m[i] = n[i + 1] - 1 /\ n[i + 1] \in Nat \ {0}
    OBVIOUS
  <2>1. i + 1 \in 0..Len(w) /\ 1 \in 0..Len(w) /\ 1 <= i + 1
    BY <1>1
  <2>2. n[i + 1] \in Nat /\ n[1] <= n[i + 1]
    BY <2>1 DEF Counts
  <2> QED
    BY <1>3, <2>2
<1>5. m \in [0..Len(v) -> Nat] /\ m[0] = 0
  <2>1. 0 \in 0..(Len(w) - 1) /\ 0..Len(v) = 0..(Len(w) - 1)
    BY <1>1, <1>2
  <2>2. \A i \in 0..(Len(w) - 1) : n[i + 1] - 1 \in Nat
    BY <1>4
  <2> QED
    BY <1>3, <2>1, <2>2
<1>6. Len(b) = n[Len(w)] + Len(p) /\ n[Len(w)] \in Nat \ {0} /\ Len(b) > 0
  <2>1. Len(w) - 1 \in 0..(Len(w) - 1) /\ (Len(w) - 1) + 1 = Len(w)
    BY <1>1
  <2> QED
    BY <1>1, <1>4, <2>1 DEF Counts
<1>7. b # <<>> /\ Head(b) = b[1] /\ b[1] = w[1] /\ Head(w) = w[1]
  BY <1>1, <1>3, <1>6 DEF Counts
<1>8. /\ c \in Seq(Requests) /\ Len(c) = Len(b) - 1
      /\ \A k \in 1..Len(c) : c[k] = b[k + 1]
  BY <1>1, <1>7
<1> HIDE DEF v, c, m
<1>9. \A i \in 1..Len(v) : m[i] = m[i - 1] + (IF v[i] = Event THEN 0 ELSE 1)
  <2> SUFFICES ASSUME NEW i \in 1..Len(v)
               PROVE  m[i] = m[i - 1] + (IF v[i] = Event THEN 0 ELSE 1)
    OBVIOUS
  <2>1. i + 1 \in 1..Len(w) /\ (i + 1) - 1 = i /\ (i - 1) + 1 = i
        /\ i \in 0..(Len(w) - 1) /\ i - 1 \in 0..(Len(w) - 1)
    BY <1>1, <1>2
  <2>2. n[i + 1] = n[i] + (IF w[i + 1] = Event THEN 0 ELSE 1)
    BY <2>1 DEF Counts
  <2>3. m[i] = n[i + 1] - 1 /\ m[i - 1] = n[i] - 1 /\ n[i] \in Nat
    BY <1>4, <2>1
  <2> QED
    BY <1>2, <2>2, <2>3
<1>10. \A i, j \in 0..Len(v) : i <= j => m[i] <= m[j]
  <2> SUFFICES ASSUME NEW i \in 0..Len(v), NEW j \in 0..Len(v), i <= j PROVE m[i] <= m[j]
    OBVIOUS
  <2>1. i + 1 \in 0..Len(w) /\ j + 1 \in 0..Len(w) /\ i + 1 <= j + 1
        /\ i \in 0..(Len(w) - 1) /\ j \in 0..(Len(w) - 1)
    BY <1>1, <1>2
  <2>2. n[i + 1] <= n[j + 1]
    BY <2>1 DEF Counts
  <2> QED
    BY <1>4, <2>1, <2>2
<1>11. \A i \in 1..Len(v) : v[i] # Event => c[m[i]] = v[i]
  <2> SUFFICES ASSUME NEW i \in 1..Len(v), v[i] # Event PROVE c[m[i]] = v[i]
    OBVIOUS
  <2>1. /\ i + 1 \in 1..Len(w) /\ (i - 1) + 1 = i /\ (i + 1) - 1 = i
        /\ i \in 0..(Len(w) - 1) /\ i - 1 \in 0..(Len(w) - 1)
        /\ i + 1 \in 0..Len(w) /\ Len(w) \in 0..Len(w) /\ i + 1 <= Len(w)
    BY <1>1, <1>2
  <2>2. w[i + 1] # Event /\ v[i] = w[i + 1]
    BY <1>2
  <2>3. n[i + 1] = n[i] + 1 /\ b[n[i + 1]] = w[i + 1] /\ n[i + 1] <= n[Len(w)]
    BY <2>1, <2>2 DEF Counts
  <2>4. n[i] \in Nat \ {0} /\ m[i] = n[i + 1] - 1
    BY <1>4, <2>1
  <2>5. m[i] \in 1..Len(c) /\ m[i] + 1 = n[i + 1]
    <3>1. n[i] \in Nat \ {0} /\ n[i + 1] = n[i] + 1 /\ m[i] = n[i + 1] - 1
      BY <2>3, <2>4
    <3>2. m[i] = n[i] /\ m[i] + 1 = n[i + 1]
      BY <3>1
    <3>3. n[i + 1] <= Len(b) /\ Len(c) = Len(b) - 1 /\ Len(b) \in Nat
      <4>1. Len(b) = n[Len(w)] + Len(p) /\ n[Len(w)] \in Nat /\ Len(p) \in Nat
        BY <1>0, <1>6
      <4>2. n[i + 1] \in Nat /\ n[i + 1] <= n[Len(w)]
        BY <2>3, <3>1
      <4>3. n[i + 1] <= Len(b)
        BY <4>1, <4>2
      <4> QED
        BY <1>0, <1>8, <4>3
    <3> QED
      BY <3>1, <3>2, <3>3
  <2> QED
    BY <1>8, <2>2, <2>3, <2>5
<1>12. m[Len(v)] = n[Len(w)] - 1
  <2>1. Len(v) \in 0..(Len(w) - 1) /\ Len(v) + 1 = Len(w)
    BY <1>1, <1>2
  <2> QED
    BY <1>4, <2>1
<1>13. \A j \in 1..Len(p) : c[m[Len(v)] + j] = p[j]
  <2> SUFFICES ASSUME NEW j \in 1..Len(p) PROVE c[m[Len(v)] + j] = p[j]
    OBVIOUS
  <2>1. b[n[Len(w)] + j] = p[j]
    BY DEF Counts
  <2>2. m[Len(v)] + j \in 1..Len(c) /\ (m[Len(v)] + j) + 1 = n[Len(w)] + j
    <3>1. j \in 1..Len(p)
      OBVIOUS
    <3> QED
      <4>1. /\ n[Len(w)] \in Nat \ {0} /\ Len(p) \in Nat /\ Len(b) = n[Len(w)] + Len(p)
            /\ Len(c) = Len(b) - 1 /\ m[Len(v)] = n[Len(w)] - 1
        BY <1>0, <1>6, <1>8, <1>12
      <4>2. m[Len(v)] \in Nat /\ n[Len(w)] \in Nat
        <5>1. n[Len(w)] \in Nat \ {0} /\ m[Len(v)] = n[Len(w)] - 1
          BY <1>6, <1>12
        <5> QED
          BY <5>1
      <4>3. /\ (m[Len(v)] + j) + 1 = n[Len(w)] + j
            /\ m[Len(v)] + j \in 1..(m[Len(v)] + Len(p))
        BY <3>1, <4>1, <4>2, ShiftedByOne
      <4>4. Len(c) = m[Len(v)] + Len(p)
        BY <4>1
      <4> QED
        BY <4>3, <4>4
  <2> QED
    BY <1>8, <2>1, <2>2
<1>14. Len(c) = m[Len(v)] + Len(p)
  BY <1>1, <1>6, <1>8, <1>12
<1>15. Counts(m, v, p, c)
  BY <1>5, <1>9, <1>10, <1>11, <1>13, <1>14 DEF Counts
<1> QED
  BY <1>1, <1>2, <1>7, <1>8, <1>15 DEF InOrder, v, c

-----------------------------------------------------------------------------
(* The futures in the FIFO: each is awaited by its request, on this          *)
(* transport, and is there once.                                             *)
Awaited ==
  /\ \A k \in 1..Len(cbs) :
       /\ phase[cbs[k]] = "waiting" /\ cbs[k] \in current
       /\ future[cbs[k]] \in {"pending", "failed"}
  /\ \A k, l \in 1..Len(cbs) : cbs[k] = cbs[l] => k = l

WireInv == InOrder(inbound, atPeer, cbs) /\ Awaited

Quiet == cbs = <<>> /\ atPeer = <<>> /\ inbound = <<>>

(* While the connector verifies nobody else makes requests, and the          *)
(* connector makes none afterwards.                                          *)
LinkInv ==
  /\ link = "down" => Quiet
  /\ link = "open" =>
       /\ WireInv /\ protocol # "none"
       /\ protocol = "insecure" => \A c \in Callers : Idle(c)
       /\ protocol = "secure" => Idle(Verify)

AllTypes == IInv /\ RequestTypes /\ NetTypes

(* Others keep their phases, but for those that are granted the semaphore.   *)
Undisturbed(r) == \A q \in Requests \ {r} : phase[q] # "queued" => phase'[q] = phase[q]

LEMMA PhaseTypes == IInv => phase \in [Requests -> Phases] /\ Callers \subseteq Requests
  BY SemaphoreFields DEF IInv, Sound, Orderly, Semaphores, Requests

LEMMA EmptyAwaited == cbs = <<>> => Awaited
  BY DEF Awaited

LEMMA SendWire ==
  ASSUME NEW s, NEW r \in Requests, RequestTypes, WireInv, SoundBut(s, r), Send(s, r),
         inbound' = inbound,
         \A k \in 1..Len(cbs) : cbs[k] # r /\ s.phase[cbs[k]] = "waiting"
  PROVE  /\ WireInv'
         /\ \A q \in Requests \ {r} : s.phase[q] # "queued" => phase'[q] = s.phase[q]
<1>0. /\ cbs \in Seq(Requests) /\ Len(cbs) \in Nat
      /\ \A k \in 1..Len(cbs) : cbs[k] \in Requests
      /\ future \in [Requests -> Requests \cup Unanswered]
  BY DEF RequestTypes
<1>1. CASE protocol' # "none" /\ link' = "open"
  <2>1. /\ phase' = [s.phase EXCEPT ![r] = "waiting"]
        /\ s.phase \in [Requests -> Phases]
    BY <1>1 DEF Send, SetSemaphore, SoundBut, Orderly, Semaphores
  <2>2. /\ cbs' = Append(cbs, r) /\ atPeer' = Append(atPeer, r)
        /\ future' = [future EXCEPT ![r] = "pending"] /\ current' = current \cup {r}
    BY <1>1 DEF Send
  <2>3. InOrder(inbound, atPeer, cbs)'
    BY <2>2, OrderSend DEF WireInv
  <2>4. /\ Len(cbs') = Len(cbs) + 1 /\ cbs'[Len(cbs) + 1] = r
        /\ \A k \in 1..Len(cbs) : cbs'[k] = cbs[k]
    BY <1>0, <2>2
  <2>5. \A k \in 1..Len(cbs') : k \in 1..Len(cbs) \/ k = Len(cbs) + 1
    BY <1>0, <2>4
  <2>6. ASSUME NEW k \in 1..Len(cbs')
        PROVE  /\ phase'[cbs'[k]] = "waiting" /\ cbs'[k] \in current'
               /\ future'[cbs'[k]] \in {"pending", "failed"}
    <3>1. CASE k \in 1..Len(cbs)
      BY <1>0, <2>1, <2>2, <2>4, <3>1 DEF WireInv, Awaited
    <3>2. CASE k = Len(cbs) + 1
      BY <1>0, <2>1, <2>2, <2>4, <3>2
    <3> QED
      BY <2>5, <3>1, <3>2
  <2>7. \A k, l \in 1..Len(cbs') : cbs'[k] = cbs'[l] => k = l
    BY <2>4, <2>5 DEF WireInv, Awaited
  <2> QED
    BY <2>1, <2>3, <2>6, <2>7 DEF WireInv, Awaited
<1>2. CASE ~(protocol' # "none" /\ link' = "open")
  <2>1. SetSemaphore(Leave(s, r)) /\ UNCHANGED <<future, current, cbs, atPeer>>
    BY <1>2 DEF Send
  <2>2. \A q \in Requests \ {r} : s.phase[q] # "queued" => phase'[q] = s.phase[q]
    BY <2>1, LeaveSound DEF SetSemaphore
  <2>3. \A k \in 1..Len(cbs) : phase'[cbs[k]] = "waiting"
    BY <1>0, <2>2
  <2> QED
    BY <2>1, <2>2, <2>3 DEF WireInv, Awaited
<1> QED
  BY <1>1, <1>2

LEMMA EnterWire ==
  ASSUME NEW s, NEW r \in Requests, RequestTypes, WireInv, Sound(s),
         s.phase[r] \notin Pending, Enter(s, r), inbound' = inbound,
         \A k \in 1..Len(cbs) : cbs[k] # r /\ s.phase[cbs[k]] = "waiting"
  PROVE  /\ WireInv'
         /\ \A q \in Requests \ {r} : s.phase[q] # "queued" => phase'[q] = s.phase[q]
<1>1. CASE Locked(s)
  <2>1. /\ phase' = [s.phase EXCEPT ![r] = "queued"]
        /\ UNCHANGED <<future, current, cbs, atPeer>>
        /\ s.phase \in [Requests -> Phases]
    BY <1>1 DEF Enter, SetSemaphore, Sound, Orderly, Semaphores
  <2>2. \A k \in 1..Len(cbs) : cbs[k] \in Requests /\ phase'[cbs[k]] = "waiting"
    BY <2>1 DEF RequestTypes
  <2> QED
    BY <2>1, <2>2 DEF WireInv, Awaited
<1>2. CASE ~Locked(s)
  <2> DEFINE t == [s EXCEPT !.permits = s.permits - 1]
  <2>1. SoundBut(t, r) /\ t.phase = s.phase
    BY <1>2, TakeSound
  <2>2. Send(t, r)
    BY <1>2 DEF Enter
  <2> HIDE DEF t
  <2> QED
    BY <2>1, <2>2, SendWire
<1> QED
  BY <1>1, <1>2

(* What changes neither the FIFO nor what it expects keeps it.               *)
LEMMA FifoUntouched ==
  ASSUME AllTypes, LinkInv, NEW r \in Requests, Undisturbed(r),
         phase'[r] \notin Pending \/ phase'[r] = phase[r],
         UNCHANGED <<protocol, wireVars>>,
         link' = "open" => link = "open", link' = "down" => link = "down",
         link' = "open" =>
           /\ \A k \in 1..Len(cbs) : phase'[cbs[k]] = phase[cbs[k]]
           /\ \A k \in 1..Len(cbs) : cbs[k] \in current'
           /\ \A k \in 1..Len(cbs) : future'[cbs[k]] \in {"pending", "failed"}
  PROVE  LinkInv'
<1>1. /\ cbs' = cbs /\ atPeer' = atPeer /\ inbound' = inbound /\ protocol' = protocol
  BY DEF wireVars
<1>2. link' = "down" => Quiet'
  BY <1>1 DEF LinkInv, Quiet
<1>3. ASSUME link' = "open" PROVE WireInv'
  BY <1>1, <1>3 DEF LinkInv, WireInv, Awaited
<1>4. \A q \in Requests : Idle(q) => Idle(q)'
  BY PhaseTypes DEF AllTypes, Undisturbed, Idle, Pending
<1>5. Callers \subseteq Requests /\ Verify \in Requests
  BY DEF Requests
<1>6. ASSUME link' = "open"
      PROVE  /\ protocol' # "none"
             /\ protocol' = "insecure" => \A c \in Callers : Idle(c)'
             /\ protocol' = "secure" => Idle(Verify)'
  BY <1>1, <1>4, <1>5, <1>6 DEF LinkInv
<1> QED
  BY <1>2, <1>3, <1>6 DEF LinkInv

LEMMA GrantedLink ==
  ASSUME AllTypes, LinkInv, NEW r \in Requests, Granted(r)
  PROVE  LinkInv'
<1> DEFINE s == WakeAll(Semaphore)
<1>1. phase[r] = "woken" /\ Send(s, r) /\ UNCHANGED <<link, protocol, step, inbound>>
  BY DEF Granted, netVars
<1>2. /\ Sound(s) /\ \A q \in Requests : phase[q] # "queued" => s.phase[q] = phase[q]
  BY WakeAllSound, SemaphoreFields DEF AllTypes, IInv
<1> HIDE DEF s
<1>3. SoundBut(s, r)
  BY <1>1, <1>2, SoundHolder DEF Holding
<1>4. CASE link = "open"
  <2>1. \A k \in 1..Len(cbs) : cbs[k] \in Requests /\ phase[cbs[k]] = "waiting"
    BY <1>4 DEF AllTypes, RequestTypes, LinkInv, WireInv, Awaited
  <2>2. \A k \in 1..Len(cbs) : cbs[k] # r /\ s.phase[cbs[k]] = "waiting"
    BY <1>1, <1>2, <2>1
  <2>3. /\ WireInv'
        /\ \A q \in Requests \ {r} : s.phase[q] # "queued" => phase'[q] = s.phase[q]
    BY <1>1, <1>3, <1>4, <2>2, SendWire DEF AllTypes, LinkInv
  <2>4. Undisturbed(r)
    BY <1>2, <2>3 DEF Undisturbed
  <2>5. Callers \subseteq Requests /\ Verify \in Requests /\ ~Idle(r)
    BY <1>1 DEF Requests, Idle, Pending
  <2>6. \A q \in Requests : Idle(q) => Idle(q)'
    BY <2>4, <2>5 DEF Undisturbed, Idle, Pending
  <2> QED
    BY <1>1, <1>4, <2>3, <2>5, <2>6 DEF LinkInv
<1>5. CASE link # "open"
  <2>1. UNCHANGED <<cbs, atPeer, inbound>>
    BY <1>1, <1>5 DEF Send
  <2> QED
    BY <1>1, <1>5, <2>1 DEF LinkInv, Quiet
<1> QED
  BY <1>4, <1>5

(* A request that ends has left the FIFO, or its transport closes.           *)
LEMMA LeavingLink ==
  ASSUME AllTypes, NEW r \in Requests, phase[r] \in Holding, SetSemaphore(Leave(Semaphore, r))
  PROVE  Undisturbed(r) /\ phase'[r] = "done"
<1>1. SoundBut(Semaphore, r)
  BY SoundHolder, SemaphoreFields DEF AllTypes, IInv
<1> QED
  BY <1>1, LeaveSound, SemaphoreFields DEF Undisturbed, SetSemaphore

LEMMA FailLink ==
  ASSUME AllTypes, LinkInv, NEW r \in Requests, Fail(r)
  PROVE  LinkInv'
<1>1. /\ phase[r] = "waiting" /\ SetSemaphore(Leave(Semaphore, r))
      /\ link' = IF link = "open" /\ r \in current THEN "closing" ELSE link
      /\ future' = [future EXCEPT ![r] = "none"] /\ current' = current \ {r}
      /\ UNCHANGED <<protocol, wireVars>>
  BY DEF Fail, LinkAfterFailure
<1>2. Undisturbed(r) /\ phase'[r] = "done"
  BY <1>1, LeavingLink DEF Holding
<1>3. ASSUME link' = "open", NEW k \in 1..Len(cbs)
      PROVE  /\ phase'[cbs[k]] = phase[cbs[k]] /\ cbs[k] \in current'
             /\ future'[cbs[k]] \in {"pending", "failed"}
  <2>1. link = "open" /\ r \notin current
    BY <1>1, <1>3
  <2>2. /\ cbs[k] \in Requests /\ cbs[k] \in current /\ phase[cbs[k]] = "waiting"
        /\ future[cbs[k]] \in {"pending", "failed"}
        /\ future \in [Requests -> Requests \cup Unanswered]
    BY <1>3, <2>1 DEF AllTypes, RequestTypes, LinkInv, WireInv, Awaited
  <2> QED
    BY <1>1, <1>2, <2>1, <2>2 DEF Undisturbed
<1>4. phase'[r] \notin Pending /\ (link' = "open" => link = "open")
      /\ (link' = "down" => link = "down")
  BY <1>1, <1>2 DEF Pending
<1> QED
  BY <1>1, <1>2, <1>3, <1>4, FifoUntouched

LEMMA SucceedLink ==
  ASSUME AllTypes, LinkInv, NEW c \in Callers, Succeed(c)
  PROVE  LinkInv'
<1>0. c \in Requests
  BY DEF Requests
<1>1. /\ phase[c] = "waiting" /\ future[c] \notin Unanswered
      /\ SetSemaphore(Leave(Semaphore, c))
      /\ future' = [future EXCEPT ![c] = "none"] /\ current' = current \ {c}
      /\ UNCHANGED <<link, protocol, wireVars>>
  BY DEF Succeed, Answered, netVars
<1>2. Undisturbed(c) /\ phase'[c] = "done"
  BY <1>0, <1>1, LeavingLink DEF Holding
<1>3. ASSUME link' = "open", NEW k \in 1..Len(cbs)
      PROVE  /\ phase'[cbs[k]] = phase[cbs[k]] /\ cbs[k] \in current'
             /\ future'[cbs[k]] \in {"pending", "failed"}
  <2>1. /\ cbs[k] \in Requests /\ cbs[k] \in current /\ phase[cbs[k]] = "waiting"
        /\ future[cbs[k]] \in {"pending", "failed"}
        /\ future \in [Requests -> Requests \cup Unanswered]
    BY <1>1, <1>3 DEF AllTypes, RequestTypes, LinkInv, WireInv, Awaited
  <2>2. cbs[k] # c
    BY <1>1, <2>1 DEF Unanswered
  <2> QED
    BY <1>1, <1>2, <2>1, <2>2 DEF Undisturbed
<1>4. phase'[c] \notin Pending
  BY <1>2 DEF Pending
<1> QED
  BY <1>0, <1>1, <1>2, <1>3, <1>4, FifoUntouched

LEMMA VerifyGoesOnLink ==
  ASSUME AllTypes, LinkInv, VerifyGoesOn
  PROVE  LinkInv'
<1> DEFINE s == Leave(Semaphore, Verify)
<1>0. Verify \in Requests /\ Callers \subseteq Requests /\ Verify \notin Callers
  BY RequestsAssumption DEF Requests
<1>1. /\ phase[Verify] = "waiting" /\ future[Verify] \notin Unanswered
      /\ UNCHANGED <<link, protocol, inbound>>
  BY DEF VerifyGoesOn, Answered
<1>2. /\ Sound(s) /\ s.phase[Verify] = "done"
      /\ \A q \in Requests \ {Verify} : phase[q] # "queued" => s.phase[q] = phase[q]
  <2>1. SoundBut(Semaphore, Verify)
    BY <1>0, <1>1, SoundHolder, SemaphoreFields DEF AllTypes, IInv, Holding
  <2> QED
    BY <1>0, <2>1, LeaveSound, SemaphoreFields
<1>3. CASE link = "open"
  <2>1. Enter(s, Verify)
    BY <1>3 DEF VerifyGoesOn, LinkInv
  <2> HIDE DEF s
  <2>2. \A k \in 1..Len(cbs) :
          /\ cbs[k] \in Requests /\ phase[cbs[k]] = "waiting"
          /\ future[cbs[k]] \in {"pending", "failed"}
    BY <1>3 DEF AllTypes, RequestTypes, LinkInv, WireInv, Awaited
  <2>3. \A k \in 1..Len(cbs) : cbs[k] # Verify /\ s.phase[cbs[k]] = "waiting"
    BY <1>1, <1>2, <2>2 DEF Unanswered
  <2>4. s.phase[Verify] \notin Pending
    BY <1>2 DEF Pending
  <2>5. /\ WireInv'
        /\ \A q \in Requests \ {Verify} : s.phase[q] # "queued" => phase'[q] = s.phase[q]
    BY <1>0, <1>1, <1>2, <1>3, <2>1, <2>3, <2>4, EnterWire DEF AllTypes, LinkInv
  <2>6. \A c \in Callers : Idle(c) => Idle(c)'
    BY <1>0, <1>2, <2>5 DEF Idle, Pending
  <2>7. protocol # "secure" /\ protocol # "none"
    BY <1>1, <1>3 DEF LinkInv, Idle, Pending
  <2> QED
    BY <1>1, <1>3, <2>5, <2>6, <2>7 DEF LinkInv
<1>4. CASE link # "open"
  <2>1. UNCHANGED <<cbs, atPeer>>
    BY <1>1, <1>4 DEF VerifyGoesOn, Enter, Send
  <2> QED
    BY <1>1, <1>4, <2>1 DEF LinkInv, Quiet
<1> QED
  BY <1>3, <1>4

(* M3 is answered when nothing else is expected: the FIFO that is thrown     *)
(* away with the old protocol is empty.                                      *)
LEMMA VerifySucceedsLink ==
  ASSUME AllTypes, LinkInv, VerifySucceeds
  PROVE  LinkInv'
<1>0. Verify \in Requests /\ Requests = Callers \cup {Verify}
  BY DEF Requests
<1>1. /\ phase[Verify] = "waiting" /\ future[Verify] \notin Unanswered
      /\ SetSemaphore(Leave(Semaphore, Verify))
      /\ UNCHANGED <<link, atPeer, inbound>> /\ protocol' = "secure" /\ cbs' = <<>>
  BY DEF VerifySucceeds, Answered
<1>2. phase'[Verify] = "done"
  BY <1>0, <1>1, LeavingLink DEF Holding
<1>3. CASE link = "open"
  <2>1. \A c \in Callers : Idle(c)
    BY <1>1, <1>3 DEF AllTypes, NetTypes, LinkInv, Idle, Pending
  <2>2. \A k \in 1..Len(cbs) :
          /\ cbs[k] \in Requests /\ phase[cbs[k]] = "waiting"
          /\ future[cbs[k]] \in {"pending", "failed"}
    BY <1>3 DEF AllTypes, RequestTypes, LinkInv, WireInv, Awaited
  <2>3. \A k \in 1..Len(cbs) : FALSE
    BY <1>0, <1>1, <2>1, <2>2 DEF Idle, Pending, Unanswered
  <2>4. cbs \in Seq(Requests) /\ Len(cbs) \in Nat
    BY DEF AllTypes, RequestTypes
  <2>5. Len(cbs) = 0
    BY <2>3, <2>4
  <2>6. cbs = <<>>
    BY <2>4, <2>5
  <2>7. WireInv'
    <3>1. cbs' = cbs /\ atPeer' = atPeer /\ inbound' = inbound
      BY <1>1, <2>6
    <3>2. InOrder(inbound, atPeer, cbs)'
      BY <1>3, <3>1 DEF LinkInv, WireInv
    <3>3. Awaited'
      BY <1>1 DEF Awaited
    <3> QED
      BY <3>2, <3>3 DEF WireInv
  <2> QED
    BY <1>1, <1>2, <1>3, <2>7 DEF LinkInv, Idle, Pending
<1>4. CASE link # "open"
  BY <1>1, <1>4 DEF LinkInv, Quiet
<1> QED
  BY <1>3, <1>4

LEMMA RequestLink ==
  ASSUME AllTypes, LinkInv, NEW c \in Callers, Request(c)
  PROVE  LinkInv'
<1>0. c \in Requests /\ c # Verify /\ Verify \in Requests
  BY RequestsAssumption DEF Requests
<1>1. /\ phase[c] \notin Pending /\ protocol = "secure" /\ link # "down"
      /\ UNCHANGED <<link, protocol, inbound>> /\ Enter(Semaphore, c)
  BY DEF Request, netVars
<1>2. CASE link = "open"
  <2>1. \A k \in 1..Len(cbs) : cbs[k] # c /\ phase[cbs[k]] = "waiting"
    BY <1>1, <1>2 DEF LinkInv, WireInv, Awaited, Pending
  <2>2. /\ WireInv'
        /\ \A q \in Requests \ {c} : phase[q] # "queued" => phase'[q] = phase[q]
    BY <1>0, <1>1, <1>2, <2>1, EnterWire, SemaphoreFields DEF AllTypes, IInv, LinkInv
  <2>3. Idle(Verify)'
    BY <1>0, <1>1, <1>2, <2>2 DEF LinkInv, Idle, Pending
  <2> QED
    BY <1>1, <1>2, <2>2, <2>3 DEF LinkInv
<1>3. CASE link # "open"
  BY <1>1, <1>3 DEF LinkInv
<1> QED
  BY <1>2, <1>3

LEMMA ConnectLink ==
  ASSUME AllTypes, LinkInv, Connect
  PROVE  LinkInv'
<1>0. Verify \in Requests /\ Callers \subseteq Requests /\ Verify \notin Callers
  BY RequestsAssumption DEF Requests
<1>1. /\ Idle(Verify) /\ (\A c \in Callers : Idle(c)) /\ Quiet
      /\ link' = "open" /\ protocol' = "insecure" /\ inbound' = inbound
      /\ Enter(Semaphore, Verify)
  BY DEF Connect, LinkInv
<1>2. WireInv
  BY <1>1, OrderEmpty, EmptyAwaited DEF WireInv, Quiet
<1>3. \A k \in 1..Len(cbs) : cbs[k] # Verify /\ phase[cbs[k]] = "waiting"
  BY <1>1 DEF Quiet
<1>4. /\ WireInv'
      /\ \A q \in Requests \ {Verify} : phase[q] # "queued" => phase'[q] = phase[q]
  BY <1>0, <1>1, <1>2, <1>3, EnterWire, SemaphoreFields DEF AllTypes, IInv, Idle
<1>5. \A c \in Callers : Idle(c)'
  BY <1>0, <1>1, <1>4 DEF Idle, Pending
<1> QED
  BY <1>1, <1>4, <1>5 DEF LinkInv
(* A cancellation in the semaphore leaves the FIFO alone: whoever is in it   *)
(* has been sent.                                                            *)
LEMMA CancelQueuedLink ==
  ASSUME AllTypes, LinkInv, NEW r \in Requests, CancelQueued(r)
  PROVE  LinkInv'
<1>0. UNCHANGED <<netVars, future, current, wireVars>>
  BY Zenon DEF CancelQueued
<1>1. UNCHANGED <<link, protocol, future, current, wireVars>>
  BY <1>0 DEF netVars
<1>2. phase'[r] = "done" /\ Undisturbed(r)
  BY CancelQueuedSound DEF AllTypes, Undisturbed
<1>3. phase[r] # "waiting"
  <2>1. CASE phase[r] = "woken"
    BY <2>1
  <2>2. CASE \E i \in 1..Len(queue) : queue[i] = r
    BY <2>2, SemaphoreFields DEF AllTypes, IInv, Sound, Orderly
  <2> QED
    BY <2>1, <2>2, Zenon DEF CancelQueued
<1>4. ASSUME link' = "open", NEW k \in 1..Len(cbs)
      PROVE  /\ phase'[cbs[k]] = phase[cbs[k]] /\ cbs[k] \in current'
             /\ future'[cbs[k]] \in {"pending", "failed"}
  <2>1. /\ cbs[k] \in Requests /\ cbs[k] \in current /\ phase[cbs[k]] = "waiting"
        /\ future[cbs[k]] \in {"pending", "failed"}
    BY <1>1, <1>4 DEF AllTypes, RequestTypes, LinkInv, WireInv, Awaited
  <2> QED
    BY <1>1, <1>2, <1>3, <2>1 DEF Undisturbed
<1>5. phase'[r] \notin Pending
  BY <1>2 DEF Pending
<1> QED
  BY <1>1, <1>2, <1>4, <1>5, FifoUntouched

(* A future that fails stays in the FIFO, for the answer to come.            *)
LEMMA GiveUpLink ==
  ASSUME AllTypes, LinkInv, NEW r \in Requests, CancelAwait(r) \/ Timeout(r)
  PROVE  LinkInv'
<1>1. /\ future' = [future EXCEPT ![r] = "failed"]
      /\ UNCHANGED <<link, protocol, phase, current, wireVars>>
  BY DEF CancelAwait, Timeout, netVars, semVars
<1>2. Undisturbed(r)
  BY <1>1 DEF Undisturbed
<1>3. ASSUME link' = "open", NEW k \in 1..Len(cbs)
      PROVE  /\ phase'[cbs[k]] = phase[cbs[k]] /\ cbs[k] \in current'
             /\ future'[cbs[k]] \in {"pending", "failed"}
  <2>1. /\ cbs[k] \in Requests /\ cbs[k] \in current
        /\ future[cbs[k]] \in {"pending", "failed"}
        /\ future \in [Requests -> Requests \cup Unanswered]
    BY <1>1, <1>3 DEF AllTypes, RequestTypes, LinkInv, WireInv, Awaited
  <2> QED
    BY <1>1, <2>1
<1> QED
  BY <1>1, <1>2, <1>3, FifoUntouched

LEMMA CloseLink ==
  ASSUME LinkInv, Close \/ TransportCloses \/ ConnectionLost
  PROVE  LinkInv'
<1>1. CASE Close
  BY <1>1 DEF Close, LinkInv, Quiet, wireVars
<1>2. CASE TransportCloses
  BY <1>2 DEF TransportCloses, LinkInv
<1>3. CASE ConnectionLost
  BY <1>3 DEF ConnectionLost, LinkInv, Quiet
<1> QED
  BY <1>1, <1>2, <1>3

(* The accessory answers, or adds an event.                                  *)
LEMMA PeerLink ==
  ASSUME LinkInv, PeerAnswers \/ PeerNotifies
  PROVE  LinkInv'
<1>1. /\ link = "open" /\ WireInv
      /\ UNCHANGED <<link, protocol, phase, future, current, cbs>>
  BY DEF PeerAnswers, PeerNotifies, LinkInv, netVars, semVars
<1>2. InOrder(inbound', atPeer', cbs)
  <2>1. CASE PeerAnswers
    BY <1>1, <2>1, OrderAnswer DEF PeerAnswers, WireInv
  <2>2. CASE PeerNotifies
    BY <1>1, <2>2, OrderEvent DEF PeerNotifies, WireInv
  <2> QED
    BY <2>1, <2>2
<1>3. InOrder(inbound, atPeer, cbs)'
  BY <1>1, <1>2
<1>4. Awaited'
  BY <1>1 DEF WireInv, Awaited
<1> QED
  BY <1>1, <1>3, <1>4 DEF LinkInv, WireInv, Idle

(* The first answer under way is for the first of the FIFO; those behind it  *)
(* are still awaited.                                                        *)
LEMMA DataReceivedLink ==
  ASSUME AllTypes, LinkInv, DataReceived
  PROVE  LinkInv'
<1>1. /\ link = "open" /\ WireInv /\ inbound # <<>> /\ inbound' = Tail(inbound)
      /\ UNCHANGED <<protocol, phase, current, atPeer>>
  BY DEF DataReceived, LinkInv, semVars
<1>2. CASE link' # "open"
  <2>1. link' # "down"
    BY <1>1, <1>2 DEF DataReceived
  <2> QED
    BY <1>2, <2>1 DEF LinkInv
<1>3. CASE link' = "open" /\ Head(inbound) = Event
  <2>1. UNCHANGED <<future, cbs>>
    BY <1>3 DEF DataReceived
  <2>2. InOrder(Tail(inbound), atPeer, cbs)
    BY <1>1, <1>3, OrderReceiveEvent DEF WireInv
  <2>3. InOrder(inbound, atPeer, cbs)'
    BY <1>1, <2>1, <2>2
  <2>4. Awaited'
    BY <1>1, <2>1 DEF WireInv, Awaited
  <2> QED
    BY <1>1, <1>3, <2>3, <2>4 DEF LinkInv, WireInv, Idle
<1>4. CASE link' = "open" /\ Head(inbound) # Event
  <2>1. cbs # <<>> /\ InOrder(Tail(inbound), atPeer, Tail(cbs))
    BY <1>1, <1>4, OrderReceive DEF WireInv
  <2>2. /\ cbs' = Tail(cbs)
        /\ future' = IF future[Head(cbs)] = "pending"
                     THEN [future EXCEPT ![Head(cbs)] = Head(inbound)]
                     ELSE future
    BY <1>4, <2>1 DEF DataReceived
  <2>3. InOrder(inbound, atPeer, cbs)'
    BY <1>1, <2>1, <2>2
  <2>4. /\ cbs \in Seq(Requests) /\ Len(cbs) \in Nat \ {0} /\ Head(cbs) = cbs[1]
        /\ Len(cbs') = Len(cbs) - 1
        /\ \A k \in 1..Len(cbs') : cbs'[k] = cbs[k + 1]
        /\ future \in [Requests -> Requests \cup Unanswered]
    BY <2>1, <2>2 DEF AllTypes, RequestTypes
  <2>5. \A k \in 1..Len(cbs') :
          k + 1 \in 1..Len(cbs) /\ 1 \in 1..Len(cbs) /\ k + 1 # 1 /\ k \in Nat
    BY <2>4
  <2>6. ASSUME NEW k \in 1..Len(cbs')
        PROVE  /\ phase'[cbs'[k]] = "waiting" /\ cbs'[k] \in current'
               /\ future'[cbs'[k]] \in {"pending", "failed"}
    <3>1. /\ cbs'[k] = cbs[k + 1] /\ k + 1 \in 1..Len(cbs)
          /\ 1 \in 1..Len(cbs) /\ k + 1 # 1
      BY <2>4, <2>5
    <3>2. cbs'[k] # cbs[1] /\ cbs'[k] \in Requests
      BY <1>1, <2>4, <3>1 DEF WireInv, Awaited
    <3>3. phase[cbs'[k]] = "waiting" /\ cbs'[k] \in current
          /\ future[cbs'[k]] \in {"pending", "failed"}
      BY <1>1, <3>1 DEF WireInv, Awaited
    <3>4. future'[cbs'[k]] = future[cbs'[k]]
      BY <2>2, <2>4, <3>2
    <3> QED
      BY <1>1, <3>3, <3>4
  <2>7. ASSUME NEW k \in 1..Len(cbs'), NEW l \in 1..Len(cbs'), cbs'[k] = cbs'[l]
        PROVE  k = l
    <3>1. /\ cbs'[k] = cbs[k + 1] /\ k + 1 \in 1..Len(cbs)
          /\ cbs'[l] = cbs[l + 1] /\ l + 1 \in 1..Len(cbs) /\ k \in Nat /\ l \in Nat
      BY <2>4, <2>5
    <3>2. k + 1 = l + 1
      BY <1>1, <2>7, <3>1 DEF WireInv, Awaited
    <3> QED
      BY <3>1, <3>2
  <2>8. Awaited'
    BY <2>6, <2>7 DEF Awaited
  <2> QED
    BY <1>1, <1>4, <2>3, <2>8 DEF LinkInv, WireInv, Idle
<1> QED
  BY <1>2, <1>3, <1>4

LEMMA NextLink == AllTypes /\ LinkInv /\ [Next]_vars => LinkInv'
<1> SUFFICES ASSUME AllTypes, LinkInv, [Next]_vars PROVE LinkInv'
  OBVIOUS
<1>1. CASE UNCHANGED vars
  <2>1. UNCHANGED <<link, protocol, phase, future, current, cbs, atPeer, inbound>>
    BY <1>1 DEF vars, netVars, semVars, wireVars
  <2> QED
    BY <2>1 DEF LinkInv, WireInv, Awaited, Quiet, Idle
<1>2. CASE Task
  BY <1>2, GrantedLink, FailLink, SucceedLink, VerifyGoesOnLink, VerifySucceedsLink DEF Task
<1>3. CASE User
  BY <1>3, RequestLink, GiveUpLink, CancelQueuedLink, CloseLink DEF User
<1>4. CASE Network
  BY <1>4, ConnectLink, PeerLink, DataReceivedLink, CloseLink, GiveUpLink DEF Network
<1> QED
  BY <1>1, <1>2, <1>3, <1>4 DEF Next

(* On an open transport every answer that is owed or under way is for a      *)
(* request that still awaits it, so that no answer can be taken for that of  *)
(* another request after a timeout or a cancellation: for any number of      *)
(* callers, any concurrency_limit and any number of messages under way.      *)
THEOREM NothingIsOwed == Spec => []NothingOwed
<1>1. Init => AllTypes /\ LinkInv
  <2>1. Init => RequestTypes /\ NetTypes
    BY DEF Init, RequestTypes, NetTypes, Unanswered
  <2>2. Init => LinkInv
    BY DEF Init, LinkInv, Quiet
  <2> QED
    BY <2>1, <2>2, InitSound DEF AllTypes
<1>2. AllTypes /\ LinkInv /\ [Next]_vars => (AllTypes /\ LinkInv)'
  BY NextSound, NextTypes, NextLink DEF AllTypes
<1>3. LinkInv => NothingOwed
  <2> SUFFICES ASSUME LinkInv, link = "open"
               PROVE  /\ \A i \in 1..Len(atPeer) : phase[atPeer[i]] = "waiting"
                      /\ \A i \in 1..Len(inbound) :
                           inbound[i] # Event => phase[inbound[i]] = "waiting"
    BY DEF NothingOwed
  <2>1. /\ InOrder(inbound, atPeer, cbs)
        /\ \A k \in 1..Len(cbs) : phase[cbs[k]] = "waiting"
    BY DEF LinkInv, WireInv, Awaited
  <2>2. Expected(inbound, atPeer, cbs)
    BY <2>1, OrderExpected
  <2> QED
    BY <2>1, <2>2 DEF Expected
<1> QED
  BY <1>1, <1>2, <1>3, PTL DEF Spec
-----------------------------------------------------------------------------
(* The refinement of RequestReply.                                           *)

(* While r moves, the others stay, or are granted the semaphore.             *)
Stay(f, g, r) ==
  \A q \in Requests \ {r} : g[q] = f[q] \/ (f[q] = "queued" /\ g[q] = "woken")

LEMMA WakeOthers ==
  ASSUME NEW s, Sound(s), NEW n \in Nat, n <= s.permits, n <= Len(s.queue)
  PROVE  \A q \in Requests : \/ Wake(s, n).phase[q] = s.phase[q]
                             \/ s.phase[q] = "queued" /\ Wake(s, n).phase[q] = "woken"
<1>1. \A q \in Requests : s.phase[q] # "queued" => Wake(s, n).phase[q] = s.phase[q]
  BY WakeSound
<1>2. \A q \in Requests : Wake(s, n).phase[q] \in {"woken", s.phase[q]}
  BY DEF Wake
<1> QED
  BY <1>1, <1>2

LEMMA WakeAllOthers ==
  ASSUME NEW s, Sound(s)
  PROVE  \A q \in Requests : \/ WakeAll(s).phase[q] = s.phase[q]
                             \/ s.phase[q] = "queued" /\ WakeAll(s).phase[q] = "woken"
<1>1. s.permits \in Nat /\ Len(s.queue) \in Nat
  BY DEF Sound, Orderly, Semaphores
<1> DEFINE n == Smaller(s.permits, Len(s.queue))
<1>2. n \in Nat /\ n <= s.permits /\ n <= Len(s.queue)
  BY <1>1 DEF Smaller
<1> HIDE DEF n
<1>3. WakeAll(s) = Wake(s, n)
  BY DEF WakeAll, n
<1> QED
  BY <1>2, <1>3, WakeOthers

LEMMA LeaveOthers ==
  ASSUME NEW s, NEW r \in Requests, SoundBut(s, r)
  PROVE  Leave(s, r).phase[r] = "done" /\ Stay(s.phase, Leave(s, r).phase, r)
<1> DEFINE t == GiveBack(s, r)
           n == Smaller(1, Len(s.queue))
<1>1. /\ Sound(t) /\ t.queue = s.queue
      /\ \A q \in Requests \ {r} : t.phase[q] = s.phase[q]
  BY GiveBackSound
<1>2. t.permits = s.permits + 1 /\ s.permits \in Nat /\ Len(s.queue) \in Nat
  BY DEF GiveBack, SoundBut, Orderly, Semaphores
<1>3. n \in Nat /\ n <= t.permits /\ n <= Len(t.queue)
  BY <1>1, <1>2 DEF Smaller
<1>4. Leave(s, r) = Wake(t, n) /\ Leave(s, r).phase[r] = "done"
  BY LeaveSound DEF Leave
<1> HIDE DEF t, n
<1> QED
  BY <1>1, <1>3, <1>4, WakeOthers DEF Stay

(* r is sent, or fails.                                                      *)
Sent(r) ==
  \/ phase'[r] = "waiting" /\ UNCHANGED outcome
  \/ phase'[r] = "done" /\ outcome' = [outcome EXCEPT ![r] = "failed"]

LEMMA SendOthers ==
  ASSUME NEW s, NEW r \in Requests, SoundBut(s, r), Send(s, r)
  PROVE  Sent(r) /\ Stay(s.phase, phase', r)
<1>1. CASE protocol' # "none" /\ link' = "open"
  <2>1. /\ phase' = [s.phase EXCEPT ![r] = "waiting"]
        /\ s.phase \in [Requests -> Phases] /\ outcome' = outcome
    BY <1>1 DEF Send, SetSemaphore, SoundBut, Orderly, Semaphores
  <2> QED
    BY <2>1 DEF Stay, Sent
<1>2. CASE ~(protocol' # "none" /\ link' = "open")
  BY <1>2, LeaveOthers DEF Send, SetSemaphore, Sent
<1> QED
  BY <1>1, <1>2

LEMMA EnterOthers ==
  ASSUME NEW s, NEW r \in Requests, Sound(s), s.phase[r] \notin Pending, Enter(s, r)
  PROVE  /\ Sent(r) \/ (phase'[r] = "queued" /\ UNCHANGED outcome)
         /\ Stay(s.phase, phase', r)
<1>1. CASE Locked(s)
  <2>1. /\ phase' = [s.phase EXCEPT ![r] = "queued"] /\ outcome' = outcome
        /\ s.phase \in [Requests -> Phases]
    BY <1>1 DEF Enter, SetSemaphore, Sound, Orderly, Semaphores
  <2> QED
    BY <2>1 DEF Stay
<1>2. CASE ~Locked(s)
  <2> DEFINE t == [s EXCEPT !.permits = s.permits - 1]
  <2>1. SoundBut(t, r) /\ t.phase = s.phase
    BY <1>2, TakeSound
  <2>2. Send(t, r)
    BY <1>2 DEF Enter
  <2> HIDE DEF t
  <2> QED
    BY <2>1, <2>2, SendOthers
<1> QED
  BY <1>1, <1>2

LEMMA OthersTrans ==
  ASSUME NEW f, NEW g, NEW h, NEW r, Stay(f, g, r), Stay(g, h, r)
  PROVE  Stay(f, h, r)
  BY DEF Stay

(* A request that leaves the semaphore's users.                              *)
LEMMA LeavingOthers ==
  ASSUME AllTypes, NEW r \in Requests, phase[r] \in Holding, SetSemaphore(Leave(Semaphore, r))
  PROVE  phase'[r] = "done" /\ Stay(phase, phase', r)
<1>1. SoundBut(Semaphore, r)
  BY SoundHolder, SemaphoreFields DEF AllTypes, IInv
<1> QED
  BY <1>1, LeaveOthers, SemaphoreFields DEF SetSemaphore

-----------------------------------------------------------------------------
(* A future is never filled with the answer to another request.              *)
OwnAnswers == \A r \in Requests : future[r] \in Unanswered \cup {r}

LEMMA OwnAnswersKept == AllTypes /\ LinkInv /\ OwnAnswers /\ [Next]_vars => OwnAnswers'
<1> SUFFICES ASSUME AllTypes, LinkInv, OwnAnswers, [Next]_vars PROVE OwnAnswers'
  OBVIOUS
<1>0. /\ future \in [Requests -> Requests \cup Unanswered]
      /\ Callers \subseteq Requests /\ Verify \in Requests
  BY DEF AllTypes, RequestTypes, Requests
<1>1. ASSUME NEW r \in Requests, NEW v \in {"none", "pending", "failed"},
             future' = [future EXCEPT ![r] = v]
      PROVE  OwnAnswers'
  BY <1>0, <1>1 DEF OwnAnswers, Unanswered
<1>2. CASE UNCHANGED future
  BY <1>2 DEF OwnAnswers
<1>3. ASSUME NEW s, NEW r \in Requests, Send(s, r) PROVE OwnAnswers'
  BY <1>1, <1>2, <1>3 DEF Send
<1>4. ASSUME NEW s, NEW r \in Requests, Enter(s, r) PROVE OwnAnswers'
  <2>1. CASE Locked(s)
    BY <1>2, <1>4, <2>1 DEF Enter
  <2>2. CASE ~Locked(s)
    <3> DEFINE t == [s EXCEPT !.permits = @ - 1]
    <3>1. Send(t, r)
      BY <1>4, <2>2 DEF Enter
    <3> HIDE DEF t
    <3> QED
      BY <1>3, <3>1
  <2> QED
    BY <2>1, <2>2
<1>5. ASSUME future' = CancelPending(future) PROVE OwnAnswers'
  BY <1>5 DEF CancelPending, OwnAnswers, Unanswered
<1>6. ASSUME NEW r \in Requests, Granted(r) PROVE OwnAnswers'
  <2> DEFINE s == WakeAll(Semaphore)
  <2>1. Send(s, r)
    BY <1>6 DEF Granted
  <2> HIDE DEF s
  <2> QED
    BY <1>3, <2>1
<1>7. CASE VerifyGoesOn
  <2> DEFINE s == Leave(Semaphore, Verify)
  <2>1. Enter(s, Verify) \/ future' = [future EXCEPT ![Verify] = "none"]
    BY <1>7 DEF VerifyGoesOn
  <2> HIDE DEF s
  <2> QED
    BY <1>0, <1>1, <1>4, <2>1
<1>8. ASSUME NEW r \in Requests, Fail(r) \/ Timeout(r) \/ CancelAwait(r) \/ CancelQueued(r)
      PROVE  OwnAnswers'
  <2>1. CASE Fail(r)
    BY <1>1, <2>1 DEF Fail
  <2>2. CASE Timeout(r) \/ CancelAwait(r)
    BY <1>1, <2>2 DEF Timeout, CancelAwait
  <2>3. CASE CancelQueued(r)
    <3>1. UNCHANGED <<netVars, future, current, wireVars>>
      BY <2>3, Zenon DEF CancelQueued
    <3> QED
      BY <1>2, <3>1
  <2> QED
    BY <1>8, <2>1, <2>2, <2>3
<1>9. ASSUME NEW c \in Callers, Succeed(c) \/ Request(c) PROVE OwnAnswers'
  <2>1. CASE Succeed(c)
    BY <1>0, <1>1, <2>1 DEF Succeed
  <2>2. CASE Request(c)
    BY <1>0, <1>4, <2>2 DEF Request
  <2> QED
    BY <1>9, <2>1, <2>2
<1>10. CASE VerifySucceeds
  BY <1>0, <1>1, <1>10 DEF VerifySucceeds
<1>11. CASE Connect
  BY <1>0, <1>4, <1>11 DEF Connect
<1>12. CASE PeerAnswers \/ PeerNotifies \/ Close \/ UNCHANGED vars
  BY <1>2, <1>12 DEF PeerAnswers, PeerNotifies, Close, vars
<1>13. CASE TransportCloses \/ ConnectionLost
  BY <1>2, <1>5, <1>13 DEF TransportCloses, ConnectionLost
<1>14. CASE DataReceived
  <2>1. CASE UNCHANGED future
    BY <1>2, <2>1
  <2>2. CASE /\ inbound # <<>> /\ Head(inbound) # Event
             /\ future' = [future EXCEPT ![Head(cbs)] = Head(inbound)]
    <3>1. link = "open" /\ InOrder(inbound, atPeer, cbs)
      BY <1>14 DEF DataReceived, LinkInv, WireInv
    <3>2. cbs # <<>> /\ Head(cbs) = Head(inbound)
      BY <2>2, <3>1, OrderReceive
    <3>3. Head(cbs) \in Requests
      BY <3>2 DEF AllTypes, RequestTypes
    <3> QED
      BY <1>0, <2>2, <3>2, <3>3 DEF OwnAnswers
  <2> QED
    BY <1>14, <2>1, <2>2 DEF DataReceived
<1> QED
  BY <1>6, <1>7, <1>8, <1>9, <1>10, <1>11, <1>12, <1>13, <1>14
     DEF Next, Task, User, Network

(* What a step may do to the request r, and to no other.                     *)
Moves(r) ==
  Stay(phase, phase', r) /\ \A q \in Requests \ {r} : outcome'[q] = outcome[q]

(* Seen by the callers, the others' requests are as before.                  *)
LEMMA MovesAlone ==
  ASSUME NEW r \in Requests, Moves(r)
  PROVE  IF r \in Callers THEN Reply' = [Reply EXCEPT ![r] = Reply'[r]]
                          ELSE Reply' = Reply
<1>1. ASSUME NEW c \in Callers, c # r PROVE Reply'[c] = Reply[c]
  <2>1. outcome'[c] = outcome[c]
    BY <1>1 DEF Moves, Requests
  <2>2. phase'[c] = phase[c] \/ (phase[c] = "queued" /\ phase'[c] = "woken")
    BY <1>1 DEF Moves, Stay, Requests
  <2> QED
    BY <2>1, <2>2 DEF Reply, Pending
<1>2. /\ Reply = [c \in Callers |-> Reply[c]]
      /\ Reply' = [c \in Callers |-> Reply'[c]]
  BY DEF Reply
<1>3. CASE r \in Callers
  BY <1>1, <1>2, <1>3
<1>4. CASE r \notin Callers
  <2>1. \A c \in Callers : Reply'[c] = Reply[c]
    BY <1>1, <1>4
  <2> QED
    BY <1>2, <1>4, <2>1
<1> QED
  BY <1>3, <1>4

(* What the move makes of it.                                                *)
LEMMA ReplyOf ==
  ASSUME NEW c \in Callers
  PROVE  /\ phase[c] \in Pending => Reply[c] = "pending"
         /\ phase[c] \notin Pending => Reply[c] # "pending"
         /\ phase'[c] \in Pending => Reply'[c] = "pending"
         /\ phase'[c] = "done" /\ outcome'[c] = "failed" => Reply'[c] = "failed"
         /\ phase'[c] = "done" /\ outcome'[c] = c /\ c # "failed" => Reply'[c] = "answered"
  BY DEF Reply, Pending

AbstractStep == [Abstract!Next]_Reply

(* The verifier's request is nobody's; a request that waits goes on waiting, *)
(* fails, or is answered with what is its own.                               *)
LEMMA StepOf ==
  ASSUME AllTypes, NEW r \in Requests, Moves(r),
         r \in Callers =>
           \/ phase[r] \in Pending /\ phase'[r] \in Pending
           \/ phase'[r] = "done" /\ outcome'[r] = "failed"
           \/ phase[r] \notin Pending /\ phase'[r] \in Pending
           \/ phase[r] \in Pending /\ phase'[r] = "done" /\ outcome'[r] = r
  PROVE  AbstractStep
<1>1. CASE r \notin Callers
  BY <1>1, MovesAlone DEF AbstractStep
<1>2. CASE r \in Callers
  <2>1. Reply' = [Reply EXCEPT ![r] = Reply'[r]] /\ r # "failed"
    BY <1>2, MovesAlone, NamesAssumption DEF Unanswered
  <2>2. CASE phase[r] \in Pending /\ phase'[r] \in Pending
    <3>1. Reply'[r] = Reply[r]
      BY <1>2, <2>2, ReplyOf
    <3>2. Reply' = Reply
      BY <2>1, <3>1 DEF Reply
    <3> QED
      BY <3>2 DEF AbstractStep
  <2>3. CASE phase'[r] = "done" /\ outcome'[r] = "failed"
    <3>1. Reply' = [Reply EXCEPT ![r] = "failed"]
      BY <1>2, <2>1, <2>3, ReplyOf
    <3>2. Abstract!Finish(r) \/ Abstract!Refuse(r)
      BY <3>1 DEF Abstract!Finish, Abstract!Refuse
    <3> QED
      BY <1>2, <3>2 DEF AbstractStep, Abstract!Next
  <2>4. CASE phase[r] \notin Pending /\ phase'[r] \in Pending
    <3>1. Reply' = [Reply EXCEPT ![r] = "pending"] /\ Reply[r] # "pending"
      BY <1>2, <2>1, <2>4, ReplyOf
    <3> QED
      BY <1>2, <3>1 DEF AbstractStep, Abstract!Next, Abstract!Ask
  <2>5. CASE phase[r] \in Pending /\ phase'[r] = "done" /\ outcome'[r] = r
    <3>1. Reply' = [Reply EXCEPT ![r] = "answered"] /\ Reply[r] = "pending"
      BY <1>2, <2>1, <2>5, ReplyOf
    <3> QED
      BY <1>2, <3>1 DEF AbstractStep, Abstract!Next, Abstract!Finish
  <2> QED
    BY <1>2, <2>2, <2>3, <2>4, <2>5
<1> QED
  BY <1>1, <1>2

(* Every step of the pipeline is one of RequestReply, or none.               *)
LEMMA NextImplements ==
  AllTypes /\ OwnAnswers /\ [Next]_vars => AbstractStep
<1> SUFFICES ASSUME AllTypes, OwnAnswers, [Next]_vars PROVE AbstractStep
  OBVIOUS
<1>0. /\ Callers \subseteq Requests /\ Verify \in Requests /\ Verify \notin Callers
      /\ outcome \in [Requests -> Requests \cup {"none", "failed"}]
      /\ phase \in [Requests -> Phases]
  BY RequestsAssumption, PhaseTypes DEF AllTypes, RequestTypes, Requests
<1>1. ASSUME NEW r \in Requests, Granted(r) PROVE AbstractStep
  <2> DEFINE s == WakeAll(Semaphore)
  <2>1. phase[r] = "woken" /\ Send(s, r)
    BY <1>1 DEF Granted
  <2>2. /\ Sound(s) /\ Stay(phase, s.phase, r) /\ s.phase[r] = "woken"
    BY <2>1, WakeAllSound, WakeAllOthers, SemaphoreFields DEF AllTypes, IInv, Stay
  <2> HIDE DEF s
  <2>3. SoundBut(s, r)
    BY <2>2, SoundHolder DEF Holding
  <2>4. Sent(r) /\ Stay(phase, phase', r)
    BY <2>1, <2>2, <2>3, SendOthers, OthersTrans
  <2>5. Moves(r)
    BY <1>0, <2>4 DEF Moves, Sent
  <2> QED
    BY <1>0, <2>1, <2>4, <2>5, StepOf DEF Sent, Pending
<1>2. ASSUME NEW r \in Requests, Fail(r) PROVE AbstractStep
  <2>1. /\ phase[r] = "waiting" /\ SetSemaphore(Leave(Semaphore, r))
        /\ outcome' = [outcome EXCEPT ![r] = "failed"]
    BY <1>2 DEF Fail
  <2>2. phase'[r] = "done" /\ Stay(phase, phase', r)
    BY <2>1, LeavingOthers DEF Holding
  <2> QED
    BY <1>0, <2>1, <2>2, StepOf DEF Moves
<1>3. ASSUME NEW c \in Callers, Succeed(c) PROVE AbstractStep
  <2>1. /\ phase[c] = "waiting" /\ SetSemaphore(Leave(Semaphore, c))
        /\ outcome' = [outcome EXCEPT ![c] = future[c]] /\ future[c] = c
    BY <1>0, <1>3 DEF Succeed, Answered, OwnAnswers
  <2>2. phase'[c] = "done" /\ Stay(phase, phase', c)
    BY <1>0, <2>1, LeavingOthers DEF Holding
  <2> QED
    BY <1>0, <2>1, <2>2, StepOf DEF Moves, Pending
<1>4. CASE VerifyGoesOn
  <2> DEFINE s == Leave(Semaphore, Verify)
  <2>1. /\ phase[Verify] = "waiting"
        /\ \/ Enter(s, Verify)
           \/ SetSemaphore(s) /\ outcome' = [outcome EXCEPT ![Verify] = "failed"]
    BY <1>4 DEF VerifyGoesOn, Answered
  <2>2. SoundBut(Semaphore, Verify)
    BY <1>0, <2>1, SoundHolder, SemaphoreFields DEF AllTypes, IInv, Holding
  <2>3. Sound(s) /\ s.phase[Verify] = "done" /\ Stay(phase, s.phase, Verify)
    BY <1>0, <2>2, LeaveSound, LeaveOthers, SemaphoreFields
  <2> HIDE DEF s
  <2>4. CASE Enter(s, Verify)
    <3>1. /\ Sent(Verify) \/ UNCHANGED outcome
          /\ Stay(phase, phase', Verify)
      BY <1>0, <2>3, <2>4, EnterOthers, OthersTrans DEF Pending
    <3>2. Moves(Verify)
      BY <1>0, <3>1 DEF Moves, Sent
    <3> QED
      BY <1>0, <3>2, StepOf
  <2>5. CASE SetSemaphore(s) /\ outcome' = [outcome EXCEPT ![Verify] = "failed"]
    <3>1. Moves(Verify)
      BY <1>0, <2>3, <2>5 DEF Moves, SetSemaphore
    <3> QED
      BY <1>0, <3>1, StepOf
  <2> QED
    BY <2>1, <2>4, <2>5
<1>5. CASE VerifySucceeds
  <2>1. /\ phase[Verify] = "waiting" /\ SetSemaphore(Leave(Semaphore, Verify))
        /\ outcome' = [outcome EXCEPT ![Verify] = future[Verify]]
    BY <1>5 DEF VerifySucceeds, Answered
  <2>2. Stay(phase, phase', Verify)
    BY <1>0, <2>1, LeavingOthers DEF Holding
  <2> QED
    BY <1>0, <2>1, <2>2, StepOf DEF Moves
<1>6. ASSUME NEW r \in Requests, Sound(Semaphore), phase[r] \notin Pending, Enter(Semaphore, r)
      PROVE  AbstractStep
  <2>1. /\ Sent(r) \/ (phase'[r] = "queued" /\ UNCHANGED outcome)
        /\ Stay(phase, phase', r)
    BY <1>6, EnterOthers, SemaphoreFields
  <2>2. Moves(r)
    BY <1>0, <2>1 DEF Moves, Sent
  <2> QED
    BY <1>0, <1>6, <2>1, <2>2, StepOf DEF Sent, Pending
<1>7. ASSUME NEW c \in Callers, Request(c) PROVE AbstractStep
  BY <1>0, <1>6, <1>7 DEF Request, AllTypes, IInv
<1>8. CASE Connect
  BY <1>0, <1>6, <1>8 DEF Connect, Idle, AllTypes, IInv
<1>9. ASSUME NEW r \in Requests, CancelQueued(r) PROVE AbstractStep
  <2>1. /\ phase'[r] = "done"
        /\ \A q \in Requests \ {r} : phase[q] # "queued" => phase'[q] = phase[q]
        /\ \A q \in Requests \ {r} : phase'[q] \in {"woken", phase[q]}
    BY <1>9, CancelQueuedSound DEF AllTypes
  <2>2. outcome' = [outcome EXCEPT ![r] = "failed"]
    BY <1>9, Zenon DEF CancelQueued
  <2>3. Moves(r)
    BY <1>0, <2>1, <2>2 DEF Moves, Stay
  <2> QED
    BY <1>0, <2>1, <2>2, <2>3, StepOf
<1>10. CASE UNCHANGED <<phase, outcome>>
  <2>1. Reply' = Reply
    BY <1>10 DEF Reply
  <2> QED
    BY <2>1 DEF AbstractStep
<1>11. ASSUME NEW r \in Requests, CancelAwait(r) \/ Timeout(r)
       PROVE  UNCHANGED <<phase, outcome>>
  BY <1>11 DEF CancelAwait, Timeout, semVars
<1>12. CASE \/ Close \/ PeerAnswers \/ PeerNotifies \/ DataReceived
            \/ TransportCloses \/ ConnectionLost \/ UNCHANGED vars
  <2>1. UNCHANGED <<phase, outcome>>
    BY <1>12 DEF Close, PeerAnswers, PeerNotifies, DataReceived, TransportCloses,
                 ConnectionLost, semVars, vars
  <2> QED
    BY <1>10, <2>1
<1> QED
  BY <1>1, <1>2, <1>3, <1>4, <1>5, <1>7, <1>8, <1>9, <1>10, <1>11, <1>12
     DEF Next, Task, User, Network

(* No request is ever answered with the answer to another: a user's read     *)
(* cannot return the values, and his write the outcome, of somebody else's.  *)
THEOREM AnswersAreOwn == Spec => []OwnAnswers
<1>1. Init => AllTypes /\ LinkInv /\ OwnAnswers
  <2>1. Init => RequestTypes /\ NetTypes
    BY DEF Init, RequestTypes, NetTypes, Unanswered
  <2>2. Init => LinkInv
    BY DEF Init, LinkInv, Quiet
  <2>3. Init => OwnAnswers
    BY DEF Init, OwnAnswers, Unanswered
  <2> QED
    BY <2>1, <2>2, <2>3, InitSound DEF AllTypes
<1>2. AllTypes /\ LinkInv /\ OwnAnswers /\ [Next]_vars => (AllTypes /\ LinkInv /\ OwnAnswers)'
  BY NextSound, NextTypes, NextLink, OwnAnswersKept DEF AllTypes
<1> QED
  BY <1>1, <1>2, PTL DEF Spec

(* The pipeline implements RequestReply, its liveness apart: a request that  *)
(* has been made ends once, in its own answer or in an exception, whatever   *)
(* is cancelled, times out, is granted or is lost, and in whichever order.   *)
THEOREM PipelineImplements == Spec => Abstract!Init /\ [][Abstract!Next]_Reply
<1>1. Init => AllTypes /\ LinkInv /\ OwnAnswers /\ Abstract!Init
  <2>1. Init => RequestTypes /\ NetTypes
    BY DEF Init, RequestTypes, NetTypes, Unanswered
  <2>2. Init => LinkInv
    BY DEF Init, LinkInv, Quiet
  <2>3. Init => OwnAnswers
    BY DEF Init, OwnAnswers, Unanswered
  <2>4. Init => Abstract!Init
    BY DEF Init, Abstract!Init, Reply, Pending, Requests
  <2> QED
    BY <2>1, <2>2, <2>3, <2>4, InitSound DEF AllTypes
<1>2. AllTypes /\ LinkInv /\ OwnAnswers /\ [Next]_vars => (AllTypes /\ LinkInv /\ OwnAnswers)'
  BY NextSound, NextTypes, NextLink, OwnAnswersKept DEF AllTypes
<1>3. AllTypes /\ LinkInv /\ OwnAnswers /\ [Next]_vars => [Abstract!Next]_Reply
  BY NextImplements DEF AbstractStep
<1> QED
  BY <1>1, <1>2, <1>3, PTL DEF Spec

-----------------------------------------------------------------------------
(* The bytes of a connection.  Where the parser is, relative to the pieces   *)
(* that the accessory has written, and what it holds there.                  *)

Bytes == Seq(Int)

PieceType ==
  [end : Nat, nth : Nat, state : {"headers", "body", "done"}, over : BOOLEAN,
   name : Int, chunked : BOOLEAN, length : Int, body : Bytes]

BlockType == [wire : Nat, plain : Nat]

ResponseType ==
  [state : {"status", "headers", "body", "done"}, raw : Bytes, chunked : BOOLEAN,
   empty : BOOLEAN, length : Int, name : Int, body : Bytes]

ReaderType ==
  [incoming : Bytes, response : ResponseType, counter : Nat,
   received : Seq([name : Int, body : Bytes]), doing : {"reading", "parsing", "broken"}]

(* The body is read by length.                                               *)
Counting(e) == e.state = "body" /\ ~e.over /\ ~e.chunked

(* What a piece of a message looks like.                                     *)
Framed(e) ==
  /\ e.name \in {HTTP, EVENT} /\ e.length >= -1
  /\ e.state = "headers" => ~e.over /\ e.body = <<>>
  /\ e.state = "done" => e.over /\ e.chunked
  /\ e.chunked => e.length = -1
  /\ e.chunked /\ e.over => e.state = "done"
  /\ e.over /\ ~e.chunked => e.length \in {-1, Len(e.body)}
  /\ Counting(e) => e.length > 0 /\ e.body = <<>>

(* How piece f follows piece e, and the bytes between.                       *)
SameMessage(e, f) == f.name = e.name /\ f.chunked = e.chunked /\ f.length = e.length
SameNumber(e, f) == f.nth = IF f.over THEN e.nth + 1 ELSE e.nth

StatusFollows(e, f, bytes) ==
  /\ e.over /\ ~f.over /\ f.state = "headers" /\ bytes = Line(f.name)
  /\ ~f.chunked /\ f.length = -1

HeaderFollows(e, f, bytes) ==
  /\ e.state = "headers" /\ f.state = "headers" /\ f.name = e.name
  /\ \E x \in Int :
       /\ bytes = Line(x) /\ (x >= 0 \/ x \in {ENCODING, FIELD})
       /\ f.chunked = (e.chunked \/ x = ENCODING)
       /\ f.length = IF x >= 0 THEN x ELSE e.length

BlankFollows(e, f, bytes) ==
  /\ e.state = "headers" /\ f.state = "body" /\ SameMessage(e, f)
  /\ bytes = CRLF /\ f.body = <<>>
  /\ f.over <=> ~f.chunked /\ f.length <= 0

BodyFollows(e, f, bytes) ==
  /\ Counting(e) /\ f.state = "body" /\ f.over /\ SameMessage(e, f)
  /\ bytes = f.body /\ Len(f.body) = e.length

ChunkFollows(e, f, bytes) ==
  /\ e.state = "body" /\ ~e.over /\ e.chunked
  /\ f.state = "body" /\ ~f.over /\ SameMessage(e, f)
  /\ \E data \in Bytes :
       /\ data # <<>> /\ f.body = e.body \o data
       /\ bytes = Line(Len(data)) \o data \o CRLF

LastChunkFollows(e, f, bytes) ==
  /\ e.state = "body" /\ ~e.over /\ e.chunked
  /\ f.state = "done" /\ SameMessage(e, f) /\ f.body = e.body
  /\ bytes = Line(0) \o CRLF

Follows(e, f, bytes) ==
  /\ Framed(f) /\ SameNumber(e, f)
  /\ \/ StatusFollows(e, f, bytes)
     \/ HeaderFollows(e, f, bytes)
     \/ BlankFollows(e, f, bytes)
     \/ BodyFollows(e, f, bytes)
     \/ ChunkFollows(e, f, bytes)
     \/ LastChunkFollows(e, f, bytes)

PiecesInv ==
  /\ text \in Bytes /\ pieces \in Seq(PieceType) /\ pieces # <<>>
  /\ pieces[1] = NoPiece /\ Latest.end = Len(text)
  /\ \A i, k \in 1..Len(pieces) : i < k =>
       /\ pieces[i].end < pieces[k].end /\ pieces[i].nth <= pieces[k].nth
       /\ pieces[k].over => pieces[i].nth < pieces[k].nth
  /\ \A i \in 1..(Len(pieces) - 1) :
       Follows(pieces[i], pieces[i + 1], Slice(text, pieces[i].end, pieces[i + 1].end))

BlocksInv ==
  /\ stream \in Bytes /\ blocks \in Seq(BlockType) /\ blocks # <<>>
  /\ blocks[1] = NoBlock
  /\ blocks[Len(blocks)].wire = Len(stream) /\ blocks[Len(blocks)].plain <= Len(text)
  /\ \A i, k \in 1..Len(blocks) : i < k =>
       blocks[i].wire < blocks[k].wire /\ blocks[i].plain < blocks[k].plain
  /\ \A i \in 1..(Len(blocks) - 1) :
       LET b == blocks[i]
           d == blocks[i + 1]
       IN /\ d.wire = b.wire + (d.plain - b.plain) + 3
          /\ Slice(stream, b.wire, d.wire) = Block(Slice(text, b.plain, d.plain), i - 1)

(* How much of the text has reached the parser.                              *)
Fed(s, came) == IF secure THEN blocks[s.counter + 1].plain ELSE came

(* The parser is after piece j, with the bytes from p on.                    *)
Afresh(p) ==
  /\ p.state = "status" /\ ~p.chunked /\ ~p.empty /\ p.length = -1 /\ p.body = <<>>

Holds(p, e) ==
  /\ p.state = e.state /\ p.chunked = e.chunked /\ p.empty = (e.state = "done")
  /\ p.length = e.length /\ p.name = e.name

Given(s, e) == e.over /\ Len(s.received) = e.nth

Within(s, e, at) ==
  /\ Holds(s.response, e)
  /\ e.over => s.doing = "parsing"
  /\ e.nth = IF e.over THEN Len(s.received) + 1 ELSE Len(s.received)
  /\ IF Counting(e)
     THEN at < e.end + e.length /\ s.response.body = Slice(text, e.end, at)
     ELSE at = e.end /\ s.response.body = e.body

At(s, j, at, upto) ==
  /\ pieces[j].end <= at /\ at <= upto /\ s.response.raw = Slice(text, at, upto)
  /\ IF Given(s, pieces[j]) THEN at = pieces[j].end /\ Afresh(s.response)
     ELSE Within(s, pieces[j], at)
  /\ s.doing = "reading" /\ j < Len(pieces) => upto < pieces[j + 1].end

ParserInv(s, upto) == \E j \in 1..Len(pieces) : \E at \in 0..Len(text) : At(s, j, at, upto)

ReceivedInv(out) ==
  \A k \in 1..Len(out) : \E i \in 1..Len(pieces) :
    /\ pieces[i].over /\ pieces[i].nth = k
    /\ out[k] = [name |-> pieces[i].name, body |-> pieces[i].body]

BufferInv(s, came) ==
  IF secure
  THEN /\ s.counter < Len(blocks) /\ came <= Len(stream)
       /\ blocks[s.counter + 1].wire <= came
       /\ s.incoming = Slice(stream, blocks[s.counter + 1].wire, came)
  ELSE s.counter = 0 /\ came <= Len(text) /\ s.incoming = <<>>

ReaderInv(s, came) ==
  /\ s \in ReaderType /\ s.doing # "broken" /\ came \in Nat
  /\ BufferInv(s, came) /\ ParserInv(s, Fed(s, came)) /\ ReceivedInv(s.received)

Resting(s) == s.doing = "reading" /\ ~BlockFound(s.incoming)

Now == Reader(incoming, response, counter, received, doing)

StreamInv ==
  /\ secure \in BOOLEAN /\ PiecesInv /\ BlocksInv
  /\ ReaderInv(Now, arrived) /\ Resting(Now)

(* What the loops use up.                                                    *)
Measure(s) ==
  Len(s.incoming) + Len(s.response.raw) +
  (IF s.doing = "parsing" THEN 1 ELSE 0) + (IF IsReadCompletely(s.response) THEN 1 ELSE 0)

(* A piece with these fields, that comes after the latest.                   *)
IsPiece(f, state, over, name, chunked, length, body) ==
  /\ f.state = state /\ f.over = over /\ f.name = name /\ f.chunked = chunked
  /\ f.length = length /\ f.body = body
  /\ f.nth = IF over THEN Latest.nth + 1 ELSE Latest.nth

-----------------------------------------------------------------------------
(* Bytes, and parts of them.                                                 *)

LEMMA Lengths ==
  ASSUME NEW q \in Bytes
  PROVE  /\ Len(q) \in Nat /\ (q = <<>> <=> Len(q) = 0)
         /\ \A n \in 1..Len(q) : q[n] \in Int
  BY DEF Bytes

LEMMA Joined ==
  ASSUME NEW q \in Bytes, NEW r \in Bytes
  PROVE  /\ q \o r \in Bytes /\ Len(q \o r) = Len(q) + Len(r)
         /\ \A x \in 1..Len(q) : (q \o r)[x] = q[x]
         /\ \A x \in 1..Len(r) : (q \o r)[Len(q) + x] = r[x]
  BY DEF Bytes

LEMMA SliceProperties ==
  ASSUME NEW q \in Bytes, NEW i \in Nat, NEW k \in Nat, i <= k, k <= Len(q)
  PROVE  /\ Slice(q, i, k) \in Bytes
         /\ Len(Slice(q, i, k)) = k - i
         /\ \A n \in 1..(k - i) : Slice(q, i, k)[n] = q[i + n]
  BY DEF Bytes, Slice

LEMMA SliceType ==
  ASSUME NEW q \in Bytes, NEW i \in Nat, NEW k \in Nat, i <= k, k <= Len(q)
  PROVE  Slice(q, i, k) \in Bytes
  BY SliceProperties

LEMMA SliceRest ==
  ASSUME NEW q \in Bytes, NEW i \in Nat, i <= Len(q)
  PROVE  Slice(q, i, Len(q)) \in Bytes /\ Len(Slice(q, i, Len(q))) = Len(q) - i
<1>1. Len(q) \in Nat /\ Len(q) <= Len(q)
  BY Lengths
<1> QED BY <1>1, SliceProperties

LEMMA FirstByte ==
  ASSUME NEW q \in Bytes, 1 <= Len(q)
  PROVE  /\ Slice(q, 0, 1) \in Bytes /\ Slice(q, 0, 1) # <<>>
         /\ Slice(q, 0, 1)[1] = q[1] /\ q[1] \in Int
<1>1. Slice(q, 0, 1) \in Bytes /\ Len(Slice(q, 0, 1)) = 1 /\ Slice(q, 0, 1)[1] = q[1]
  BY DEF Bytes, Slice
<1>2. q[1] \in Int
  BY Lengths
<1>3. Slice(q, 0, 1) # <<>>
  BY <1>1, Lengths
<1> QED BY <1>1, <1>2, <1>3

LEMMA SliceIs ==
  ASSUME NEW q \in Bytes, NEW i \in Nat, NEW k \in Nat, i <= k, k <= Len(q),
         NEW r \in Bytes, Len(r) = k - i, \A n \in 1..(k - i) : r[n] = q[i + n]
  PROVE  Slice(q, i, k) = r
<1> DEFINE s == Slice(q, i, k)
<1>1. s \in Bytes /\ Len(s) = k - i /\ \A n \in 1..(k - i) : s[n] = q[i + n]
  BY SliceProperties
<1> HIDE DEF s
<1>2. s = r
  BY <1>1, SeqEqual DEF Bytes
<1> QED BY <1>2 DEF s

LEMMA SliceOfSlice ==
  ASSUME NEW q \in Bytes, NEW i \in Nat, NEW k \in Nat, i <= k, k <= Len(q),
         NEW m \in Nat, NEW n \in Nat, m <= n, n <= k - i
  PROVE  Slice(Slice(q, i, k), m, n) = Slice(q, i + m, i + n)
<1> DEFINE s == Slice(q, i, k)
           r == Slice(s, m, n)
<1>1. s \in Bytes /\ Len(s) = k - i /\ \A x \in 1..(k - i) : s[x] = q[i + x]
  BY SliceProperties
<1> HIDE DEF s
<1>2. r \in Bytes /\ Len(r) = n - m /\ \A x \in 1..(n - m) : r[x] = s[m + x]
  BY <1>1, SliceProperties
<1> HIDE DEF r
<1>3. \A x \in 1..(n - m) : r[x] = q[(i + m) + x]
  <2> TAKE x \in 1..(n - m)
  <2>1. m + x \in 1..(k - i) /\ i + (m + x) = (i + m) + x
    OBVIOUS
  <2> QED BY <1>1, <1>2, <2>1
<1>4. i + m \in Nat /\ i + n \in Nat /\ i + m <= i + n /\ i + n <= Len(q) /\ (i + n) - (i + m) = n - m
  <2>1. Len(q) \in Nat
    BY DEF Bytes
  <2> QED BY <2>1
<1>5. \A a, b \in Nat : a = i + m /\ b = i + n => Slice(q, a, b) = r
  <2> SUFFICES ASSUME NEW a \in Nat, NEW b \in Nat, a = i + m, b = i + n
               PROVE  Slice(q, a, b) = r
    OBVIOUS
  <2>1. a <= b /\ b <= Len(q) /\ Len(r) = b - a /\ \A x \in 1..(b - a) : r[x] = q[a + x]
    BY <1>2, <1>3, <1>4
  <2> QED BY <1>2, <2>1, SliceIs
<1> QED BY <1>4, <1>5 DEF r, s

LEMMA SliceJoined ==
  ASSUME NEW q \in Bytes, NEW i \in Nat, NEW k \in Nat, NEW m \in Nat,
         i <= k, k <= m, m <= Len(q)
  PROVE  Slice(q, i, k) \o Slice(q, k, m) = Slice(q, i, m)
<1> DEFINE s == Slice(q, i, k)
           r == Slice(q, k, m)
           t == s \o r
<1>0. k <= Len(q)
  BY Lengths
<1>1. s \in Bytes /\ Len(s) = k - i /\ \A x \in 1..(k - i) : s[x] = q[i + x]
  BY <1>0, SliceProperties
<1>2. r \in Bytes /\ Len(r) = m - k /\ \A x \in 1..(m - k) : r[x] = q[k + x]
  BY SliceProperties
<1> HIDE DEF s, r
<1>3. /\ t \in Bytes /\ Len(t) = Len(s) + Len(r)
      /\ \A x \in 1..Len(s) : t[x] = s[x]
      /\ \A x \in 1..Len(r) : t[Len(s) + x] = r[x]
  BY <1>1, <1>2, Joined
<1> HIDE DEF t
<1>4. \A x \in 1..(m - i) : t[x] = q[i + x]
  <2> TAKE x \in 1..(m - i)
  <2>1. CASE x <= k - i
    BY <1>1, <1>3, <2>1
  <2>2. CASE x > k - i
    <3>1. PICK y \in 1..(m - k) : x = (k - i) + y
      <4>1. x - (k - i) \in 1..(m - k) /\ x = (k - i) + (x - (k - i))
        BY <2>2
      <4> QED BY <4>1
    <3>2. t[x] = r[y] /\ k + y = i + x
      BY <1>1, <1>2, <1>3, <3>1
    <3> QED BY <1>2, <3>2
  <2> QED BY <2>1, <2>2
<1>5. i <= m /\ Len(t) = m - i
  BY <1>1, <1>2, <1>3
<1>6. Slice(q, i, m) = t
  BY <1>3, <1>4, <1>5, SliceIs
<1> QED BY <1>6 DEF t, s, r

LEMMA SliceOfJoined ==
  ASSUME NEW q \in Bytes, NEW u \in Bytes, NEW i \in Nat, NEW k \in Nat, i <= k, k <= Len(q)
  PROVE  Slice(q \o u, i, k) = Slice(q, i, k)
<1> DEFINE s == Slice(q, i, k)
           t == q \o u
<1>1. s \in Bytes /\ Len(s) = k - i /\ \A x \in 1..(k - i) : s[x] = q[i + x]
  BY SliceProperties
<1> HIDE DEF s
<1>2. t \in Bytes /\ k <= Len(t) /\ \A x \in 1..Len(q) : t[x] = q[x]
  BY DEF Bytes
<1>3. \A x \in 1..(k - i) : s[x] = t[i + x]
  <2> TAKE x \in 1..(k - i)
  <2>1. i + x \in 1..Len(q)
    BY DEF Bytes
  <2> QED BY <1>1, <1>2, <2>1
<1> HIDE DEF t
<1>4. Slice(t, i, k) = s
  BY <1>1, <1>2, <1>3, SliceIs
<1> QED BY <1>4 DEF t, s

LEMMA SliceOfRest ==
  ASSUME NEW q \in Bytes, NEW u \in Bytes
  PROVE  Slice(q \o u, Len(q), Len(q) + Len(u)) = u
<1> DEFINE t == q \o u
<1>1. Len(q) \in Nat /\ Len(u) \in Nat
  BY DEF Bytes
<1>2. t \in Bytes /\ Len(t) = Len(q) + Len(u) /\ \A x \in 1..Len(u) : t[Len(q) + x] = u[x]
  BY <1>1 DEF Bytes
<1> HIDE DEF t
<1>3. Slice(t, Len(q), Len(q) + Len(u)) = u
  BY <1>1, <1>2, SliceIs
<1> QED BY <1>3 DEF t

LEMMA EmptySlice ==
  ASSUME NEW q \in Bytes, NEW i \in Nat, i <= Len(q)
  PROVE  Slice(q, i, i) = <<>>
<1>1. <<>> \in Bytes /\ Len(<<>>) = 0
  BY DEF Bytes
<1> QED BY <1>1, SliceIs

-----------------------------------------------------------------------------
(* The first line of what the parser holds.                                  *)

LEMMA FindFirst ==
  ASSUME NEW raw \in Bytes, NEW n \in Nat, n + 2 <= Len(raw),
         raw[n + 1] = CR, raw[n + 2] = LF, \A i \in 1..n : raw[i] # CR
  PROVE  Find(raw) = n
<1> DEFINE at == {i \in 1..(Len(raw) - 1) : raw[i] = CR /\ raw[i + 1] = LF}
           first == CHOOSE i \in at : \A j \in at : i <= j
<1>1. Len(raw) \in Nat
  BY Lengths
<1>2. n + 1 \in at
  BY <1>1
<1>3. \A j \in at : n + 1 <= j
  BY <1>1
<1>4. \E i \in at : \A j \in at : i <= j
  BY <1>2, <1>3
<1>5. first \in at /\ \A j \in at : first <= j
  BY <1>4, Zenon
<1>6. at \subseteq Int
  BY <1>1
<1> HIDE DEF first, at
<1>7. first = n + 1
  BY <1>2, <1>3, <1>5, <1>6
<1>8. at # {}
  BY <1>2
<1>9. Find(raw) = IF at = {} THEN -1 ELSE first - 1
  BY Zenon DEF Find, first, at
<1> QED BY <1>7, <1>8, <1>9

LEMMA FindNothing ==
  ASSUME NEW raw \in Bytes,
         \A i \in 1..(Len(raw) - 1) : ~(raw[i] = CR /\ raw[i + 1] = LF)
  PROVE  Find(raw) = -1
  BY DEF Find

-----------------------------------------------------------------------------
(* Induction, as the loops need it.                                          *)

LEMMA LessThan == OpToRel(<, Nat) = {ss \in Nat \X Nat : ss[1] < ss[2]}
  BY DEF OpToRel

LEMMA LeastNumber ==
  ASSUME NEW T \in SUBSET Nat, T # {}
  PROVE  \E m \in T : \A k \in T : m <= k
<1> DEFINE R == OpToRel(<, Nat)
<1>1. IsWellFoundedOn(R, Nat)
  BY NatLessThanWellFounded, Zenon
<1>2. \A x, y \in Nat : x < y => <<x, y>> \in R
  BY LessThan
<1> HIDE DEF R
<1>3. \E x \in T : \A y \in T : ~ (<<y, x>> \in R)
  BY <1>1, WFMin
<1>4. PICK m \in T : \A y \in T : ~ (<<y, m>> \in R)
  BY <1>3
<1>5. ASSUME NEW k \in T PROVE m <= k
  <2>1. m \in Nat /\ k \in Nat /\ ~(k < m)
    BY <1>2, <1>4
  <2> QED BY <2>1
<1> QED BY <1>4, <1>5

LEMMA InductionOverSet ==
  ASSUME NEW S, 0 \in S, \A n \in Nat : n \in S => n + 1 \in S
  PROVE  \A n \in Nat : n \in S
<1> DEFINE T == Nat \ S
<1> SUFFICES ASSUME T # {} PROVE FALSE
  OBVIOUS
<1>1. PICK m \in T : \A k \in T : m <= k
  BY LeastNumber
<1>2. m - 1 \in Nat /\ m - 1 \notin T
  BY <1>1
<1> QED BY <1>1, <1>2

-----------------------------------------------------------------------------
(* The turns of a call of data_received, one after the other.                *)

Turns(g, s, n) == g[0] = s /\ \A i \in 1..n : g[i] = Turn(g[i - 1])

LEMMA TurnsExist ==
  ASSUME NEW s
  PROVE  \A n \in Nat : \E g : Turns(g, s, n)
<1> DEFINE S == {n \in Nat : \E g : Turns(g, s, n)}
<1>1. 0 \in S
  <2> DEFINE g == [i \in {0} |-> s]
  <2>1. Turns(g, s, 0)
    BY DEF Turns
  <2> QED BY <2>1
<1>2. \A n \in Nat : n \in S => n + 1 \in S
  <2> SUFFICES ASSUME NEW n \in Nat, n \in S PROVE n + 1 \in S
    OBVIOUS
  <2>1. PICK g : Turns(g, s, n)
    OBVIOUS
  <2> DEFINE h == [i \in 0..(n + 1) |-> IF i <= n THEN g[i] ELSE Turn(g[n])]
  <2>2. h[0] = s
    BY <2>1 DEF Turns
  <2>3. \A i \in 1..(n + 1) : h[i] = Turn(h[i - 1])
    <3> TAKE i \in 1..(n + 1)
    <3>1. CASE i <= n
      <4>1. h[i] = g[i] /\ h[i - 1] = g[i - 1] /\ i \in 1..n
        BY <3>1
      <4> HIDE DEF h
      <4> QED BY <2>1, <4>1 DEF Turns
    <3>2. CASE i = n + 1
      <4>1. h[i] = Turn(g[n]) /\ h[i - 1] = g[n]
        BY <3>2
      <4> HIDE DEF h
      <4> QED BY <4>1
    <3> QED BY <3>1, <3>2
  <2> HIDE DEF h
  <2>4. Turns(h, s, n + 1)
    BY <2>2, <2>3 DEF Turns
  <2> QED BY <2>4
<1> HIDE DEF S
<1>3. \A n \in Nat : n \in S
  BY <1>1, <1>2, InductionOverSet
<1> QED BY <1>3 DEF S

LEMMA TurnsUnique ==
  ASSUME NEW s
  PROVE  \A i \in Nat : \A n, m \in Nat : \A f, g :
           i <= n /\ i <= m /\ Turns(f, s, n) /\ Turns(g, s, m) => f[i] = g[i]
<1> DEFINE Same(i) == \A n, m \in Nat : \A f, g :
             i <= n /\ i <= m /\ Turns(f, s, n) /\ Turns(g, s, m) => f[i] = g[i]
           S == {i \in Nat : Same(i)}
<1>1. 0 \in S
  BY DEF Turns
<1>2. \A i \in Nat : i \in S => i + 1 \in S
  <2> SUFFICES ASSUME NEW i \in Nat, Same(i), NEW n \in Nat, NEW m \in Nat, NEW f, NEW g,
                      i + 1 <= n, i + 1 <= m, Turns(f, s, n), Turns(g, s, m)
               PROVE  f[i + 1] = g[i + 1]
    OBVIOUS
  <2>1. i <= n /\ i <= m /\ i + 1 \in 1..n /\ i + 1 \in 1..m /\ (i + 1) - 1 = i
    OBVIOUS
  <2>2. f[i] = g[i]
    BY <2>1
  <2>3. f[i + 1] = Turn(f[(i + 1) - 1]) /\ g[i + 1] = Turn(g[(i + 1) - 1])
    BY <2>1 DEF Turns
  <2> QED BY <2>1, <2>2, <2>3
<1> HIDE DEF S
<1>3. \A i \in Nat : i \in S
  BY <1>1, <1>2, InductionOverSet
<1> QED BY <1>3 DEF S

LEMMA HandledRuns ==
  ASSUME NEW s
  PROVE  \E after :
           /\ after[0] = s /\ \A n \in Nat : after[n + 1] = Turn(after[n])
           /\ Handled(s) = after[Len(s.incoming) + Len(s.response.raw) + 2]
<1> DEFINE IsRun(f) == f = [n \in Nat |-> IF n = 0 THEN s ELSE Turn(f[n - 1])]
           h(n) == CHOOSE g : Turns(g, s, n)
           G == [n \in Nat |-> h(n)[n]]
           after == CHOOSE f : IsRun(f)
<1>1. \A n \in Nat : Turns(h(n), s, n)
  BY TurnsExist, Zenon
<1> HIDE DEF h
<1>2. G[0] = s
  BY <1>1 DEF Turns
<1>3. ASSUME NEW n \in Nat, n # 0
      PROVE  G[n] = Turn(G[n - 1])
  <2>1. n - 1 \in Nat /\ n - 1 <= n /\ n - 1 <= n - 1 /\ n \in 1..n
    BY <1>3
  <2>2. h(n)[n] = Turn(h(n)[n - 1])
    BY <1>1, <2>1 DEF Turns
  <2>3. h(n)[n - 1] = h(n - 1)[n - 1]
    BY <1>1, <2>1, TurnsUnique
  <2> QED BY <2>1, <2>2, <2>3
<1>4. G = [n \in Nat |-> IF n = 0 THEN s ELSE Turn(G[n - 1])]
  <2>1. \A n \in Nat : G[n] = IF n = 0 THEN s ELSE Turn(G[n - 1])
    BY <1>2, <1>3, Zenon
  <2>2. G = [n \in Nat |-> G[n]]
    OBVIOUS
  <2> HIDE DEF G
  <2> QED BY <2>1, <2>2
<1> HIDE DEF G
<1>5. IsRun(after)
  <2>1. \E f : IsRun(f)
    BY <1>4
  <2> HIDE DEF IsRun
  <2> QED BY <2>1, Zenon
<1>6. Handled(s) = after[Len(s.incoming) + Len(s.response.raw) + 2]
  BY Zenon DEF Handled, after, IsRun
<1> HIDE DEF after
<1>7. after[0] = s /\ \A n \in Nat : after[n + 1] = Turn(after[n])
  <2>1. \A n \in Nat : after[n] = IF n = 0 THEN s ELSE Turn(after[n - 1])
    BY <1>5
  <2>2. ASSUME NEW n \in Nat PROVE after[n + 1] = Turn(after[n])
    <3>1. n + 1 \in Nat /\ n + 1 # 0 /\ (n + 1) - 1 = n
      OBVIOUS
    <3> QED BY <2>1, <3>1
  <2> QED BY <2>1, <2>2
<1> QED BY <1>6, <1>7

-----------------------------------------------------------------------------
(* What the parser makes of a line, a chunk and a counted body.              *)

LEMMA TakeStatusIs ==
  ASSUME NEW p \in ResponseType, p.state = "status", Find(p.raw) = 1, 3 <= Len(p.raw)
  PROVE  LET q == TakeLine(p)
         IN  /\ q \in ResponseType
             /\ q.raw = Slice(p.raw, 3, Len(p.raw))
             /\ q.state = "headers" /\ q.name = p.raw[1]
             /\ q.chunked = p.chunked /\ q.empty = p.empty /\ q.length = p.length
             /\ q.body = p.body
<1> DEFINE r == Slice(p.raw, 3, Len(p.raw))
           line == Slice(p.raw, 0, 1)
           q == TakeLine(p)
<1>1. p.raw \in Bytes /\ Len(p.raw) \in Nat
  BY Lengths DEF ResponseType
<1>2. r \in Bytes
  BY <1>1, SliceRest
<1>3. line[1] = p.raw[1] /\ p.raw[1] \in Int
  BY <1>1, FirstByte
<1>4. q = [[p EXCEPT !.raw = r] EXCEPT !.name = line[1], !.state = "headers"]
  BY DEF TakeLine
<1> HIDE DEF r, line, q
<1>5. /\ q \in ResponseType /\ q.raw = r /\ q.state = "headers" /\ q.name = p.raw[1]
      /\ q.chunked = p.chunked /\ q.empty = p.empty /\ q.length = p.length
      /\ q.body = p.body
  BY <1>2, <1>3, <1>4 DEF ResponseType
<1> QED BY <1>5 DEF q, r

LEMMA TakeHeaderIs ==
  ASSUME NEW p \in ResponseType, p.state = "headers", Find(p.raw) = 1, 3 <= Len(p.raw)
  PROVE  LET q == TakeLine(p)
             x == p.raw[1]
         IN  /\ q \in ResponseType
             /\ q.raw = Slice(p.raw, 3, Len(p.raw))
             /\ q.state = "headers" /\ q.name = p.name
             /\ q.chunked = (p.chunked \/ x = ENCODING)
             /\ q.length = IF x >= 0 THEN x ELSE p.length
             /\ q.empty = p.empty /\ q.body = p.body
<1> DEFINE r == Slice(p.raw, 3, Len(p.raw))
           line == Slice(p.raw, 0, 1)
           q == TakeLine(p)
           x == p.raw[1]
<1>1. p.raw \in Bytes /\ Len(p.raw) \in Nat
  BY Lengths DEF ResponseType
<1>2. r \in Bytes
  BY <1>1, SliceRest
<1>3. line[1] = x /\ x \in Int /\ line # <<>>
  BY <1>1, FirstByte
<1>4. q = IF line = <<>> THEN [[p EXCEPT !.raw = r] EXCEPT !.state = "body"]
          ELSE IF line[1] = ENCODING THEN [[p EXCEPT !.raw = r] EXCEPT !.chunked = TRUE]
          ELSE IF line[1] >= 0 THEN [[p EXCEPT !.raw = r] EXCEPT !.length = line[1]]
          ELSE [p EXCEPT !.raw = r]
  BY DEF TakeLine
<1> HIDE DEF r, line, q, x
<1>5. CASE x = ENCODING
  <2>1. q = [[p EXCEPT !.raw = r] EXCEPT !.chunked = TRUE] /\ ~(x >= 0)
    BY <1>3, <1>4, <1>5 DEF ENCODING
  <2>2. /\ q \in ResponseType /\ q.raw = r /\ q.state = "headers" /\ q.name = p.name
        /\ q.chunked = TRUE /\ q.length = p.length /\ q.empty = p.empty /\ q.body = p.body
    BY <1>2, <2>1 DEF ResponseType
  <2> QED BY <1>5, <2>1, <2>2 DEF q, r, x
<1>6. CASE x # ENCODING /\ x >= 0
  <2>1. q = [[p EXCEPT !.raw = r] EXCEPT !.length = x]
    BY <1>3, <1>4, <1>6
  <2>2. /\ q \in ResponseType /\ q.raw = r /\ q.state = "headers" /\ q.name = p.name
        /\ q.chunked = p.chunked /\ q.length = x /\ q.empty = p.empty /\ q.body = p.body
    BY <1>2, <1>3, <2>1 DEF ResponseType
  <2>3. p.chunked \in BOOLEAN
    BY DEF ResponseType
  <2> QED BY <1>6, <2>2, <2>3 DEF q, r, x
<1>7. CASE x # ENCODING /\ ~(x >= 0)
  <2>1. q = [p EXCEPT !.raw = r]
    BY <1>3, <1>4, <1>7
  <2>2. /\ q \in ResponseType /\ q.raw = r /\ q.state = "headers" /\ q.name = p.name
        /\ q.chunked = p.chunked /\ q.length = p.length /\ q.empty = p.empty /\ q.body = p.body
    BY <1>2, <2>1 DEF ResponseType
  <2>3. p.chunked \in BOOLEAN
    BY DEF ResponseType
  <2> QED BY <1>7, <2>2, <2>3 DEF q, r, x
<1> QED BY <1>5, <1>6, <1>7

LEMMA TakeBlankIs ==
  ASSUME NEW p \in ResponseType, p.state = "headers", Find(p.raw) = 0, 2 <= Len(p.raw)
  PROVE  LET q == TakeLine(p)
         IN  /\ q \in ResponseType
             /\ q.raw = Slice(p.raw, 2, Len(p.raw))
             /\ q.state = "body" /\ q.name = p.name
             /\ q.chunked = p.chunked /\ q.length = p.length
             /\ q.empty = p.empty /\ q.body = p.body
<1> DEFINE r == Slice(p.raw, 2, Len(p.raw))
           line == Slice(p.raw, 0, 0)
           q == TakeLine(p)
<1>1. p.raw \in Bytes /\ Len(p.raw) \in Nat
  BY Lengths DEF ResponseType
<1>2. r \in Bytes /\ line = <<>>
  BY <1>1, SliceRest, EmptySlice
<1>4. q = IF line = <<>> THEN [[p EXCEPT !.raw = r] EXCEPT !.state = "body"]
          ELSE IF line[1] = ENCODING THEN [[p EXCEPT !.raw = r] EXCEPT !.chunked = TRUE]
          ELSE IF line[1] >= 0 THEN [[p EXCEPT !.raw = r] EXCEPT !.length = line[1]]
          ELSE [p EXCEPT !.raw = r]
  BY DEF TakeLine
<1> HIDE DEF r, line, q
<1>5. q = [[p EXCEPT !.raw = r] EXCEPT !.state = "body"]
  BY <1>2, <1>4
<1>6. /\ q \in ResponseType /\ q.raw = r /\ q.state = "body" /\ q.name = p.name
      /\ q.chunked = p.chunked /\ q.length = p.length /\ q.empty = p.empty /\ q.body = p.body
  BY <1>2, <1>5 DEF ResponseType
<1> QED BY <1>6 DEF q, r

LEMMA TakeChunkIs ==
  ASSUME NEW p \in ResponseType, p.state = "body", Find(p.raw) = 1, NEW n \in Nat,
         p.raw[1] = n, n + 5 <= Len(p.raw)
  PROVE  LET q == TakeChunk(p)
         IN  /\ q \in ResponseType
             /\ q.raw = Slice(p.raw, n + 5, Len(p.raw))
             /\ q.name = p.name /\ q.chunked = p.chunked /\ q.length = p.length
             /\ n = 0 => q.state = "done" /\ q.empty = TRUE /\ q.body = p.body
             /\ n # 0 => /\ q.state = "body" /\ q.empty = p.empty
                         /\ q.body = p.body \o Slice(p.raw, 3, 3 + n)
<1> DEFINE r == Slice(p.raw, n + 5, Len(p.raw))
           d == Slice(p.raw, 3, 3 + n)
           b == p.body \o d
           q == TakeChunk(p)
<1>1. p.raw \in Bytes /\ Len(p.raw) \in Nat /\ p.body \in Bytes
  BY Lengths DEF ResponseType
<1>2. r \in Bytes
  BY <1>1, SliceRest
<1>3. d \in Bytes
  <2>1. 3 \in Nat /\ 3 + n \in Nat /\ 3 <= 3 + n /\ 3 + n <= Len(p.raw)
    BY <1>1
  <2> QED BY <1>1, <2>1, SliceType
<1>4. b \in Bytes
  BY <1>1, <1>3, Joined
<1>5. q = IF n = 0 THEN [[p EXCEPT !.raw = r] EXCEPT !.empty = TRUE, !.state = "done"]
          ELSE [[p EXCEPT !.raw = r] EXCEPT !.body = b]
  <2>1. Find(p.raw) + 2 = 3 /\ (Find(p.raw) + 2) + n + 2 = n + 5
    OBVIOUS
  <2> QED BY <2>1 DEF TakeChunk
<1> HIDE DEF r, d, b, q
<1>6. CASE n = 0
  <2>1. q = [[p EXCEPT !.raw = r] EXCEPT !.empty = TRUE, !.state = "done"]
    BY <1>5, <1>6
  <2>2. /\ q \in ResponseType /\ q.raw = r /\ q.state = "done" /\ q.name = p.name
        /\ q.chunked = p.chunked /\ q.length = p.length /\ q.empty = TRUE /\ q.body = p.body
    BY <1>2, <2>1 DEF ResponseType
  <2> QED BY <1>6, <2>2 DEF q, r
<1>7. CASE n # 0
  <2>1. q = [[p EXCEPT !.raw = r] EXCEPT !.body = b]
    BY <1>5, <1>7
  <2>2. /\ q \in ResponseType /\ q.raw = r /\ q.state = "body" /\ q.name = p.name
        /\ q.chunked = p.chunked /\ q.length = p.length /\ q.empty = p.empty /\ q.body = b
    BY <1>2, <1>4, <2>1 DEF ResponseType
  <2> QED BY <1>7, <2>2 DEF q, r, b, d
<1> QED BY <1>6, <1>7

LEMMA CountedNot ==
  ASSUME NEW p, ~(p.state = "body" /\ p.length > 0)
  PROVE  Counted(p) = p
  BY DEF Counted

LEMMA CountedIs ==
  ASSUME NEW p \in ResponseType, p.state = "body", p.length > 0,
         NEW n \in Nat, n <= Len(p.raw), n <= p.length - Len(p.body),
         n = Len(p.raw) \/ n = p.length - Len(p.body)
  PROVE  LET q == Counted(p)
         IN  /\ q \in ResponseType
             /\ q.raw = Slice(p.raw, n, Len(p.raw))
             /\ q.body = p.body \o Slice(p.raw, 0, n)
             /\ q.state = p.state /\ q.name = p.name
             /\ q.chunked = p.chunked /\ q.length = p.length /\ q.empty = p.empty
<1> DEFINE r == Slice(p.raw, n, Len(p.raw))
           b == p.body \o Slice(p.raw, 0, n)
           q == Counted(p)
<1>1. p.raw \in Bytes /\ Len(p.raw) \in Nat /\ p.body \in Bytes /\ Len(p.body) \in Nat /\ p.length \in Int
  BY Lengths DEF ResponseType
<1>2. r \in Bytes
  BY <1>1, SliceRest
<1>3. b \in Bytes
  <2>1. Slice(p.raw, 0, n) \in Bytes
    BY <1>1, SliceType
  <2> QED BY <1>1, <2>1, Joined
<1>4. n = IF p.length - Len(p.body) < Len(p.raw) THEN p.length - Len(p.body) ELSE Len(p.raw)
  BY <1>1
<1>5. q = [p EXCEPT !.body = b, !.raw = r]
  BY <1>4 DEF Counted
<1> HIDE DEF r, b, q
<1>6. /\ q \in ResponseType /\ q.raw = r /\ q.body = b /\ q.state = p.state /\ q.name = p.name
      /\ q.chunked = p.chunked /\ q.length = p.length /\ q.empty = p.empty
  BY <1>2, <1>3, <1>5 DEF ResponseType
<1> QED BY <1>6 DEF q, r, b

-----------------------------------------------------------------------------
(* The pieces of the text, and what the parser sees of them.                 *)

LEMMA PieceFacts ==
  ASSUME PiecesInv, NEW j \in 1..Len(pieces)
  PROVE  /\ pieces[j] \in PieceType /\ pieces[j].end <= Len(text) /\ Len(text) \in Nat
         /\ j = 1 => pieces[j] = NoPiece
         /\ j # 1 => Framed(pieces[j])
         /\ \A k \in 1..Len(pieces) : j < k => pieces[j].end < pieces[k].end
<1>1. pieces \in Seq(PieceType) /\ Len(pieces) \in Nat /\ Len(text) \in Nat
  BY Lengths DEF PiecesInv
<1>2. \A i \in 1..Len(pieces) : pieces[i] \in PieceType
  BY <1>1
<1>3. pieces[Len(pieces)].end = Len(text)
  BY DEF PiecesInv, Latest
<1>4. \A i, k \in 1..Len(pieces) : i < k => pieces[i].end < pieces[k].end
  BY DEF PiecesInv
<1>5. pieces[j].end <= Len(text)
  <2>1. CASE j = Len(pieces)
    BY <1>1, <1>3, <2>1
  <2>2. CASE j < Len(pieces)
    <3>1. Len(pieces) \in 1..Len(pieces)
      BY <1>1
    <3>2. pieces[j].end < pieces[Len(pieces)].end /\ pieces[j].end \in Nat
      BY <1>2, <1>4, <2>2, <3>1 DEF PieceType
    <3> QED BY <1>1, <1>3, <3>2
  <2> QED BY <1>1, <2>1, <2>2
<1>6. j = 1 => pieces[j] = NoPiece
  BY DEF PiecesInv
<1>7. ASSUME j # 1 PROVE Framed(pieces[j])
  <2>1. j - 1 \in 1..(Len(pieces) - 1) /\ (j - 1) + 1 = j
    BY <1>1, <1>7
  <2>2. \A i \in 1..(Len(pieces) - 1) : Framed(pieces[i + 1])
    BY DEF PiecesInv, Follows
  <2> QED BY <2>1, <2>2
<1> QED BY <1>1, <1>2, <1>4, <1>5, <1>6, <1>7

LEMMA NextPiece ==
  ASSUME PiecesInv, NEW j \in 1..Len(pieces), j < Len(pieces)
  PROVE  LET e == pieces[j]
             f == pieces[j + 1]
             bytes == Slice(text, e.end, f.end)
         IN  /\ j + 1 \in 1..Len(pieces) /\ f \in PieceType /\ Framed(f) /\ SameNumber(e, f)
             /\ e.end < f.end /\ f.end <= Len(text)
             /\ bytes \in Bytes /\ Len(bytes) = f.end - e.end
             /\ \/ StatusFollows(e, f, bytes)
                \/ HeaderFollows(e, f, bytes)
                \/ BlankFollows(e, f, bytes)
                \/ BodyFollows(e, f, bytes)
                \/ ChunkFollows(e, f, bytes)
                \/ LastChunkFollows(e, f, bytes)
<1>1. Len(pieces) \in Nat /\ text \in Bytes
  BY Lengths DEF PiecesInv
<1>2. j + 1 \in 1..Len(pieces) /\ j \in 1..(Len(pieces) - 1) /\ j < j + 1
  BY <1>1
<1>3. Follows(pieces[j], pieces[j + 1], Slice(text, pieces[j].end, pieces[j + 1].end))
  BY <1>2 DEF PiecesInv
<1>4. /\ pieces[j] \in PieceType /\ pieces[j + 1] \in PieceType
      /\ pieces[j].end < pieces[j + 1].end /\ pieces[j + 1].end <= Len(text)
  BY <1>2, PieceFacts
<1>5. pieces[j].end \in Nat /\ pieces[j + 1].end \in Nat /\ pieces[j].end <= pieces[j + 1].end
  BY <1>4 DEF PieceType
<1>6. LET bytes == Slice(text, pieces[j].end, pieces[j + 1].end)
      IN  bytes \in Bytes /\ Len(bytes) = pieces[j + 1].end - pieces[j].end
  BY <1>1, <1>4, <1>5, SliceProperties
<1> QED BY <1>2, <1>3, <1>4, <1>6 DEF Follows

(* What is left starts with the next piece, or is the start of it.           *)
LEMMA RawAgrees ==
  ASSUME text \in Bytes, NEW at \in Nat, NEW upto \in Nat, NEW to \in Nat,
         at <= upto, upto <= Len(text), at < to, to <= Len(text)
  PROVE  LET raw == Slice(text, at, upto)
             bytes == Slice(text, at, to)
         IN  /\ raw \in Bytes /\ Len(raw) = upto - at
             /\ bytes \in Bytes /\ Len(bytes) = to - at
             /\ \A k \in 1..Len(raw) : k <= to - at => raw[k] = bytes[k]
<1> DEFINE raw == Slice(text, at, upto)
           bytes == Slice(text, at, to)
<1>1. raw \in Bytes /\ Len(raw) = upto - at /\ \A k \in 1..(upto - at) : raw[k] = text[at + k]
  BY SliceProperties
<1>2. bytes \in Bytes /\ Len(bytes) = to - at /\ \A k \in 1..(to - at) : bytes[k] = text[at + k]
  <2>1. at <= to
    OBVIOUS
  <2> QED BY <2>1, SliceProperties
<1> HIDE DEF raw, bytes
<1>3. \A k \in 1..Len(raw) : k <= to - at => raw[k] = bytes[k]
  BY <1>1, <1>2
<1> QED BY <1>1, <1>2, <1>3 DEF raw, bytes

(* The bytes of a line, and the size of a chunk, before a CR LF.             *)
Headed(bytes) ==
  3 <= Len(bytes) /\ bytes[1] # CR /\ bytes[2] = CR /\ bytes[3] = LF

LEMMA FindHeaded ==
  ASSUME NEW raw \in Bytes, NEW bytes \in Bytes, Headed(bytes),
         \A k \in 1..Len(raw) : k <= Len(bytes) => raw[k] = bytes[k]
  PROVE  /\ 3 <= Len(raw) => Find(raw) = 1 /\ raw[1] = bytes[1]
         /\ ~(3 <= Len(raw)) => Find(raw) = -1
<1>1. Len(raw) \in Nat /\ Len(bytes) \in Nat
  BY Lengths
<1>2. ASSUME 3 <= Len(raw)
      PROVE  Find(raw) = 1 /\ raw[1] = bytes[1]
  <2>1. raw[1] = bytes[1] /\ raw[2] = CR /\ raw[3] = LF /\ raw[1] # CR
    BY <1>1, <1>2 DEF Headed
  <2>2. 1 \in Nat /\ 1 + 2 <= Len(raw) /\ raw[1 + 1] = CR /\ raw[1 + 2] = LF
        /\ \A i \in 1..1 : raw[i] # CR
    BY <1>1, <1>2, <2>1
  <2>3. Find(raw) = 1
    BY <2>2, FindFirst
  <2> QED BY <2>1, <2>3
<1>3. ASSUME ~(3 <= Len(raw))
      PROVE  Find(raw) = -1
  <2>1. ASSUME NEW i \in 1..(Len(raw) - 1)
        PROVE  raw[i] # CR
    <3>1. i = 1 /\ 1 \in 1..Len(raw) /\ 1 <= Len(bytes)
      BY <1>1, <1>3 DEF Headed
    <3> QED BY <3>1 DEF Headed
  <2> QED BY <2>1, FindNothing
<1> QED BY <1>2, <1>3

LEMMA FindBlank ==
  ASSUME NEW raw \in Bytes, NEW bytes \in Bytes, bytes = CRLF,
         \A k \in 1..Len(raw) : k <= Len(bytes) => raw[k] = bytes[k]
  PROVE  /\ 2 <= Len(raw) => Find(raw) = 0
         /\ ~(2 <= Len(raw)) => Find(raw) = -1
<1>1. Len(raw) \in Nat
  BY Lengths
<1>0. Len(bytes) = 2 /\ bytes[1] = CR /\ bytes[2] = LF
  BY DEF CRLF
<1>2. ASSUME 2 <= Len(raw)
      PROVE  Find(raw) = 0
  <2>1. raw[1] = CR /\ raw[2] = LF
    BY <1>0, <1>1, <1>2
  <2>2. 0 \in Nat /\ 0 + 2 <= Len(raw) /\ raw[0 + 1] = CR /\ raw[0 + 2] = LF
        /\ \A i \in 1..0 : raw[i] # CR
    BY <1>1, <1>2, <2>1
  <2> QED BY <2>2, FindFirst
<1>3. ASSUME ~(2 <= Len(raw))
      PROVE  Find(raw) = -1
  <2>1. \A i \in 1..(Len(raw) - 1) : FALSE
    BY <1>1, <1>3
  <2> QED BY <2>1, FindNothing
<1> QED BY <1>2, <1>3

LEMMA FindEmpty ==
  ASSUME NEW raw \in Bytes, Len(raw) = 0
  PROVE  Find(raw) = -1
<1>1. \A i \in 1..(Len(raw) - 1) : FALSE
  OBVIOUS
<1> QED BY <1>1, FindNothing

LEMMA LineHeaded ==
  ASSUME NEW x \in Int, x # CR
  PROVE  Line(x) \in Bytes /\ Headed(Line(x)) /\ Len(Line(x)) = 3 /\ Line(x)[1] = x
  BY DEF Line, Headed, CR, LF, Bytes

LEMMA CRLFBytes == CRLF \in Bytes /\ Len(CRLF) = 2 /\ CRLF[1] = CR /\ CRLF[2] = LF
  BY DEF CRLF, CR, LF, Bytes

LEMMA LastChunkHeaded ==
  LET bytes == Line(0) \o CRLF
  IN  bytes \in Bytes /\ Headed(bytes) /\ Len(bytes) = 5 /\ bytes[1] = 0
<1>1. Line(0) \in Bytes /\ Headed(Line(0)) /\ Len(Line(0)) = 3 /\ Line(0)[1] = 0
  BY LineHeaded DEF CR
<1> DEFINE l == Line(0)
           bytes == l \o CRLF
<1> HIDE DEF l
<1>2. /\ bytes \in Bytes /\ Len(bytes) = Len(l) + Len(CRLF)
      /\ \A x \in 1..Len(l) : bytes[x] = l[x]
  BY <1>1, CRLFBytes, Joined DEF l
<1> HIDE DEF bytes
<1>3. bytes[1] = l[1] /\ bytes[2] = l[2] /\ bytes[3] = l[3]
  BY <1>1, <1>2 DEF l
<1>4. Headed(bytes) /\ Len(bytes) = 5 /\ bytes[1] = 0
  <2>0. Len(l) = 3 /\ Len(CRLF) = 2
    BY <1>1, CRLFBytes DEF l
  <2>1. Len(bytes) = 5
    BY <1>2, <2>0
  <2>2. l[1] = 0 /\ l[1] # CR /\ l[2] = CR /\ l[3] = LF
    BY <1>1 DEF Headed, l
  <2> QED BY <1>3, <2>1, <2>2 DEF Headed
<1> QED BY <1>2, <1>4 DEF bytes, l

LEMMA ChunkHeaded ==
  ASSUME NEW data \in Bytes
  PROVE  LET bytes == Line(Len(data)) \o data \o CRLF
         IN  /\ bytes \in Bytes /\ Headed(bytes) /\ Len(bytes) = Len(data) + 5
             /\ bytes[1] = Len(data)
             /\ Slice(bytes, 3, 3 + Len(data)) = data
<1>0. Len(data) \in Nat /\ Len(data) \in Int /\ Len(data) # CR
  BY Lengths DEF CR
<1> DEFINE l == Line(Len(data))
           m == l \o data
           bytes == m \o CRLF
<1>1. l \in Bytes /\ Headed(l) /\ Len(l) = 3 /\ l[1] = Len(data)
  BY <1>0, LineHeaded
<1> HIDE DEF l
<1>2. /\ m \in Bytes /\ Len(m) = Len(l) + Len(data)
      /\ \A x \in 1..Len(l) : m[x] = l[x]
  BY <1>1, Joined
<1>3. Slice(m, Len(l), Len(l) + Len(data)) = data
  BY <1>1, SliceOfRest
<1> HIDE DEF m
<1>4. /\ bytes \in Bytes /\ Len(bytes) = Len(m) + Len(CRLF)
      /\ \A x \in 1..Len(m) : bytes[x] = m[x]
  BY <1>2, CRLFBytes, Joined
<1>5. Slice(bytes, 3, 3 + Len(data)) = data
  <2>1. 3 \in Nat /\ 3 + Len(data) \in Nat /\ 3 <= 3 + Len(data) /\ 3 + Len(data) <= Len(m)
    BY <1>0, <1>1, <1>2
  <2>2. Slice(m \o CRLF, 3, 3 + Len(data)) = Slice(m, 3, 3 + Len(data))
    BY <1>2, <2>1, CRLFBytes, SliceOfJoined
  <2> QED BY <1>1, <1>3, <2>2
<1> HIDE DEF bytes
<1>6. bytes[1] = l[1] /\ bytes[2] = l[2] /\ bytes[3] = l[3] /\ Len(bytes) = Len(data) + 5
  BY <1>0, <1>1, <1>2, <1>4, CRLFBytes
<1>7. Headed(bytes) /\ bytes[1] = Len(data)
  BY <1>0, <1>1, <1>6 DEF Headed
<1> QED BY <1>4, <1>5, <1>6, <1>7 DEF bytes, m, l

-----------------------------------------------------------------------------
(* One turn of the parser.                                                   *)

Ready(s, j, at, upto) ==
  /\ PiecesInv /\ s \in ReaderType /\ s.doing = "parsing" /\ ReceivedInv(s.received)
  /\ upto \in Nat /\ upto <= Len(text)
  /\ j \in 1..Len(pieces) /\ at \in 0..Len(text) /\ At(s, j, at, upto)

Goes(s, t, upto) ==
  /\ t \in ReaderType /\ t.doing # "broken"
  /\ t.incoming = s.incoming /\ t.counter = s.counter
  /\ ParserInv(t, upto) /\ ReceivedInv(t.received)
  /\ Measure(t) < Measure(s)

LEMMA ReaderFields ==
  ASSUME NEW in, NEW p, NEW n, NEW out, NEW what
  PROVE  LET r == Reader(in, p, n, out, what)
         IN  /\ r.incoming = in /\ r.response = p /\ r.counter = n
             /\ r.received = out /\ r.doing = what
  BY DEF Reader

(* Sizes before and after a turn.                                            *)
LEMMA Decreases ==
  ASSUME NEW m \in Nat, NEW n \in Nat, NEW a \in Nat, NEW b \in Nat, NEW c \in Nat, NEW d \in Nat,
         n <= a + b + d, m >= a + c + 1, b + d <= c
  PROVE  n < m
  OBVIOUS

LEMMA ReaderTyped ==
  ASSUME NEW s \in ReaderType, NEW p \in ResponseType,
         NEW out \in Seq([name : Int, body : Bytes]),
         NEW what \in {"reading", "parsing"}
  PROVE  Reader(s.incoming, p, s.counter, out, what) \in ReaderType
  BY DEF ReaderType, Reader

LEMMA ReaderParts ==
  ASSUME NEW s \in ReaderType
  PROVE  /\ s.incoming \in Bytes /\ Len(s.incoming) \in Nat
         /\ s.response \in ResponseType /\ s.response.raw \in Bytes /\ s.response.body \in Bytes
         /\ Len(s.response.raw) \in Nat /\ Len(s.response.body) \in Nat
         /\ s.received \in Seq([name : Int, body : Bytes]) /\ Len(s.received) \in Nat
         /\ s.counter \in Nat
<1>1. s.incoming \in Bytes /\ s.response \in ResponseType /\ s.counter \in Nat
      /\ s.received \in Seq([name : Int, body : Bytes])
  BY DEF ReaderType
<1>2. s.response.raw \in Bytes /\ s.response.body \in Bytes
  BY <1>1 DEF ResponseType
<1>3. Len(s.received) \in Nat
  BY <1>1
<1> QED BY <1>1, <1>2, <1>3, Lengths

LEMMA MeasureIs ==
  ASSUME NEW s \in ReaderType
  PROVE  /\ Measure(s) \in Nat
         /\ Measure(s) >= Len(s.incoming) + Len(s.response.raw)
         /\ s.doing = "parsing" => Measure(s) >= Len(s.incoming) + Len(s.response.raw) + 1
         /\ s.doing = "parsing" /\ IsReadCompletely(s.response) =>
              Measure(s) = Len(s.incoming) + Len(s.response.raw) + 2
         /\ Measure(s) <= Len(s.incoming) + Len(s.response.raw) + 2
         /\ ~IsReadCompletely(s.response) =>
              Measure(s) <= Len(s.incoming) + Len(s.response.raw) + 1
         /\ s.doing = "reading" /\ ~IsReadCompletely(s.response) =>
              Measure(s) = Len(s.incoming) + Len(s.response.raw)
<1> DEFINE a == Len(s.incoming)
           b == Len(s.response.raw)
           x == IF s.doing = "parsing" THEN 1 ELSE 0
           y == IF IsReadCompletely(s.response) THEN 1 ELSE 0
<1>1. a \in Nat /\ b \in Nat
  BY ReaderParts
<1>2. x \in 0..1 /\ (s.doing = "parsing" <=> x = 1) /\ (s.doing = "reading" => x = 0)
  OBVIOUS
<1>3. y \in 0..1 /\ (IsReadCompletely(s.response) <=> y = 1)
  OBVIOUS
<1>4. Measure(s) = a + b + x + y
  BY DEF Measure
<1> HIDE DEF a, b, x, y
<1>5. /\ Measure(s) \in Nat /\ Measure(s) >= a + b
      /\ x = 1 => Measure(s) >= a + b + 1
      /\ x = 1 /\ y = 1 => Measure(s) = a + b + 2
      /\ Measure(s) <= a + b + 2
      /\ y = 0 => Measure(s) <= a + b + 1
      /\ x = 0 /\ y = 0 => Measure(s) = a + b
  BY <1>1, <1>2, <1>3, <1>4
<1>6. y = 0 \/ y = 1
  BY <1>3
<1> QED BY <1>2, <1>3, <1>5, <1>6 DEF a, b

(* What is left once a piece has been taken.                                 *)
LEMMA RawCut ==
  ASSUME text \in Bytes, NEW at \in Nat, NEW to \in Nat, NEW upto \in Nat,
         at <= to, to <= upto, upto <= Len(text)
  PROVE  LET raw == Slice(text, at, upto)
         IN  /\ raw \in Bytes /\ Len(raw) = upto - at
             /\ Slice(raw, to - at, Len(raw)) = Slice(text, to, upto)
             /\ Slice(text, to, upto) \in Bytes
             /\ Len(Slice(text, to, upto)) = upto - to
<1>0. at <= upto
  OBVIOUS
<1>1. Slice(text, at, upto) \in Bytes /\ Len(Slice(text, at, upto)) = upto - at
  BY <1>0, SliceProperties
<1>2. Slice(text, to, upto) \in Bytes /\ Len(Slice(text, to, upto)) = upto - to
  BY SliceProperties
<1>3. /\ to - at \in Nat /\ upto - at \in Nat /\ to - at <= upto - at
      /\ upto - at <= upto - at /\ at + (to - at) = to /\ at + (upto - at) = upto
  OBVIOUS
<1>4. \A m, n \in Nat : m <= n /\ n <= upto - at =>
        Slice(Slice(text, at, upto), m, n) = Slice(text, at + m, at + n)
  BY <1>0, SliceOfSlice
<1>5. Slice(Slice(text, at, upto), to - at, upto - at)
        = Slice(text, at + (to - at), at + (upto - at))
  BY <1>3, <1>4
<1> QED BY <1>1, <1>2, <1>3, <1>5

(* A piece that has come as a whole is taken.                                *)
LEMMA PieceTaken ==
  ASSUME NEW s \in ReaderType, NEW j \in 1..Len(pieces), NEW at \in Nat, NEW upto \in Nat,
         Ready(s, j, at, upto),
         j < Len(pieces), at = pieces[j].end, pieces[j + 1].end <= upto,
         at + 2 <= pieces[j + 1].end,
         NEW q \in ResponseType, Holds(q, pieces[j + 1]), q.body = pieces[j + 1].body,
         q.raw = Slice(s.response.raw, pieces[j + 1].end - at, Len(s.response.raw)),
         pieces[j + 1].nth = IF pieces[j + 1].over THEN Len(s.received) + 1 ELSE Len(s.received),
         Turn(s) = Reader(s.incoming, q, s.counter, s.received, "parsing")
  PROVE  Goes(s, Turn(s), upto)
<1> DEFINE f == pieces[j + 1]
           t == Reader(s.incoming, q, s.counter, s.received, "parsing")
<1>1. /\ PiecesInv /\ s \in ReaderType /\ s.doing = "parsing" /\ ReceivedInv(s.received)
      /\ upto \in Nat /\ upto <= Len(text) /\ j \in 1..Len(pieces) /\ at \in 0..Len(text)
      /\ s.response.raw = Slice(text, at, upto) /\ at <= upto
  BY DEF Ready, At
<1>2. text \in Bytes /\ Len(text) \in Nat /\ at \in Nat
  BY <1>1, Lengths DEF PiecesInv
<1>3. j + 1 \in 1..Len(pieces) /\ f \in PieceType /\ Framed(f) /\ f.end <= Len(text)
  BY <1>1, NextPiece
<1>4. f.end \in Nat /\ f.nth \in Nat
  BY <1>3 DEF PieceType
<1>5. t \in ReaderType
  BY <1>1, ReaderParts, ReaderTyped
<1>6. t.incoming = s.incoming /\ t.response = q /\ t.counter = s.counter
      /\ t.received = s.received /\ t.doing = "parsing"
  BY ReaderFields
<1> HIDE DEF t
<1>30. at <= upto /\ upto <= Len(text) /\ f.end <= upto /\ at < f.end
  BY <1>1, <1>2, <1>4
<1>31. s.response.raw = Slice(text, at, upto) /\ text \in Bytes
  BY <1>1, <1>2
<1>8. /\ Len(s.response.raw) = upto - at
      /\ q.raw = Slice(text, f.end, upto) /\ Len(q.raw) = upto - f.end
  <2> HIDE DEF f
  <2>1. at <= f.end /\ f.end <= upto /\ upto <= Len(text) /\ f.end \in Nat
    BY <1>4, <1>30
  <2>0. PICK to \in Nat : to = f.end
    BY <1>4
  <2>2. /\ Len(Slice(text, at, upto)) = upto - at
        /\ Slice(Slice(text, at, upto), to - at, Len(Slice(text, at, upto)))
             = Slice(text, to, upto)
        /\ Len(Slice(text, to, upto)) = upto - to
    <3>1. at <= to /\ to <= upto /\ upto <= Len(text)
      BY <2>0, <2>1
    <3> QED BY <1>31, <3>1, RawCut
  <2>3. q.raw = Slice(s.response.raw, f.end - at, Len(s.response.raw))
    BY DEF f
  <2> QED BY <1>31, <2>0, <2>2, <2>3
<1>9. At(t, j + 1, f.end, upto)
  <2>1. ~Given(t, f)
    BY <1>4, <1>6, <1>1, ReaderParts DEF Given
  <2>2. Holds(t.response, f) /\ t.doing = "parsing"
    BY <1>6
  <2>3. f.nth = IF f.over THEN Len(t.received) + 1 ELSE Len(t.received)
    BY <1>6
  <2>4. CASE Counting(f)
    <3>1. f.length > 0 /\ f.body = <<>> /\ f.length \in Int
      BY <1>3, <2>4 DEF Framed, PieceType
    <3>2. t.response.body = Slice(text, f.end, f.end) /\ f.end < f.end + f.length
      BY <1>2, <1>3, <1>4, <1>6, <3>1, EmptySlice
    <3>3. Within(t, f, f.end)
      BY <2>2, <2>3, <2>4, <3>2 DEF Within
    <3> QED BY <1>4, <1>6, <1>8, <2>1, <3>3 DEF At
  <2>5. CASE ~Counting(f)
    <3>1. Within(t, f, f.end)
      BY <1>6, <2>2, <2>3, <2>5 DEF Within
    <3> QED BY <1>4, <1>6, <1>8, <2>1, <3>1 DEF At
  <2> QED BY <2>4, <2>5
<1>10. ParserInv(t, upto)
  <2>1. f.end \in 0..Len(text)
    BY <1>2, <1>3, <1>4
  <2> QED BY <1>3, <1>9, <2>1 DEF ParserInv
<1>11. Measure(t) < Measure(s)
  <2>1. Measure(t) \in Nat /\ Measure(t) <= Len(t.incoming) + Len(t.response.raw) + 2
    BY <1>5, MeasureIs
  <2>2. Measure(s) \in Nat /\ Measure(s) >= Len(s.incoming) + Len(s.response.raw) + 1
    BY <1>1, MeasureIs
  <2>3. Len(t.response.raw) + 2 <= Len(s.response.raw)
    <3>1. at + 2 <= f.end /\ f.end \in Nat
      BY <1>4
    <3>2. Len(t.response.raw) = upto - f.end /\ Len(s.response.raw) = upto - at
      BY <1>6, <1>8
    <3> HIDE DEF f
    <3> QED BY <3>1, <3>2
  <2>4. Len(t.incoming) = Len(s.incoming) /\ Len(s.incoming) \in Nat
        /\ Len(t.response.raw) \in Nat /\ Len(s.response.raw) \in Nat
    BY <1>1, <1>5, <1>6, ReaderParts
  <2> QED BY <2>1, <2>2, <2>3, <2>4, Decreases
<1>12. Goes(s, t, upto)
  BY <1>1, <1>5, <1>6, <1>10, <1>11 DEF Goes
<1> QED BY <1>12 DEF t

(* Nothing that is left can be taken: data_received ends.                    *)
LEMMA NothingTaken ==
  ASSUME NEW s \in ReaderType, NEW j \in 1..Len(pieces), NEW at \in Nat, NEW upto \in Nat,
         Ready(s, j, at, upto),
         j < Len(pieces) => upto < pieces[j + 1].end,
         Counted(s.response) = s.response, ~IsReadCompletely(s.response),
         pieces[j].over => Given(s, pieces[j]),
         Turn(s) = Parsed(s)
  PROVE  Goes(s, Turn(s), upto)
<1> DEFINE p == s.response
           t == Reader(s.incoming, p, s.counter, s.received, "reading")
           e == pieces[j]
<1>1. Turn(s) = t
  BY DEF Parsed
<1>2. /\ PiecesInv /\ s \in ReaderType /\ s.doing = "parsing" /\ ReceivedInv(s.received)
      /\ upto \in Nat /\ upto <= Len(text) /\ j \in 1..Len(pieces) /\ at \in 0..Len(text)
      /\ At(s, j, at, upto)
  BY DEF Ready
<1>3. t \in ReaderType
  BY <1>2, ReaderParts, ReaderTyped
<1>4. t.incoming = s.incoming /\ t.response = p /\ t.counter = s.counter
      /\ t.received = s.received /\ t.doing = "reading"
  BY ReaderFields
<1> HIDE DEF t
<1>5. At(t, j, at, upto)
  <2>1. Given(t, e) <=> Given(s, e)
    BY <1>4 DEF Given
  <2>2. ~Given(s, e) => ~e.over
    OBVIOUS
  <2>3. ~Given(s, e) => Within(t, e, at)
    BY <1>2, <1>4, <2>2 DEF At, Within
  <2> QED BY <1>2, <1>4, <2>1, <2>3 DEF At
<1>6. Measure(t) < Measure(s)
  <2>0. Measure(t) \in Nat /\ Measure(t) = Len(t.incoming) + Len(t.response.raw)
    BY <1>3, <1>4, MeasureIs
  <2>3. Len(s.incoming) \in Nat /\ Len(s.response.raw) \in Nat
    BY <1>2, ReaderParts
  <2>1. Measure(t) <= Len(s.incoming) + Len(s.response.raw) + 0
    BY <1>4, <2>0, <2>3
  <2>2. Measure(s) \in Nat /\ Measure(s) >= Len(s.incoming) + Len(s.response.raw) + 1
    BY <1>2, MeasureIs
  <2>4. Len(s.response.raw) + 0 <= Len(s.response.raw)
    BY <2>3
  <2> QED BY <2>0, <2>1, <2>2, <2>3, <2>4, Decreases
<1>7. Goes(s, t, upto)
  BY <1>2, <1>3, <1>4, <1>5, <1>6 DEF Goes, ParserInv
<1> QED BY <1>1, <1>7

LEMMA FreshIs ==
  ASSUME NEW raw \in Bytes
  PROVE  LET r == [NoResponse EXCEPT !.raw = raw]
         IN  r \in ResponseType /\ Afresh(r) /\ r.raw = raw /\ ~IsReadCompletely(r)
<1>1. PICK n : n = NoResponse
  OBVIOUS
<1>2. /\ n \in ResponseType /\ n.state = "status" /\ n.raw = <<>> /\ n.chunked = FALSE
      /\ n.empty = FALSE /\ n.length = -1 /\ n.body = <<>>
  <2>1. <<>> \in Bytes
    BY DEF Bytes
  <2>2. FIELD \in Int
    BY DEF FIELD
  <2> QED BY <1>1, <2>1, <2>2 DEF NoResponse, ResponseType
<1> DEFINE r == [n EXCEPT !.raw = raw]
<1>3. /\ r \in ResponseType /\ r.state = "status" /\ r.raw = raw /\ r.chunked = FALSE
      /\ r.empty = FALSE /\ r.length = -1 /\ r.body = <<>>
  BY <1>2 DEF ResponseType
<1> HIDE DEF r
<1>4. Afresh(r) /\ ~IsReadCompletely(r)
  BY <1>3 DEF Afresh, IsReadCompletely
<1> QED BY <1>1, <1>3, <1>4 DEF r

LEMMA ReceivedGrows ==
  ASSUME NEW out \in Seq([name : Int, body : Bytes]), ReceivedInv(out),
         NEW m \in [name : Int, body : Bytes], NEW k \in 1..Len(pieces),
         pieces[k].over, pieces[k].nth = Len(out) + 1,
         m = [name |-> pieces[k].name, body |-> pieces[k].body]
  PROVE  /\ Append(out, m) \in Seq([name : Int, body : Bytes])
         /\ Len(Append(out, m)) = Len(out) + 1
         /\ ReceivedInv(Append(out, m))
<1> DEFINE more == Append(out, m)
<1>1. /\ more \in Seq([name : Int, body : Bytes]) /\ Len(more) = Len(out) + 1 /\ Len(out) \in Nat
      /\ \A n \in 1..Len(out) : more[n] = out[n]
      /\ more[Len(out) + 1] = m
  OBVIOUS
<1> HIDE DEF more
<1>2. ASSUME NEW n \in 1..Len(more)
      PROVE  \E i \in 1..Len(pieces) : /\ pieces[i].over /\ pieces[i].nth = n
               /\ more[n] = [name |-> pieces[i].name, body |-> pieces[i].body]
  <2>1. CASE n = Len(out) + 1
    BY <1>1, <2>1
  <2>2. CASE n # Len(out) + 1
    <3>1. n \in 1..Len(out) /\ more[n] = out[n]
      BY <1>1, <2>2
    <3> QED BY <3>1 DEF ReceivedInv
  <2> QED BY <2>1, <2>2
<1>3. ReceivedInv(more)
  BY <1>2 DEF ReceivedInv
<1> QED BY <1>1, <1>3 DEF more

(* What is complete is given out.                                            *)
LEMMA GivenOut ==
  ASSUME NEW s \in ReaderType, NEW j \in 1..Len(pieces), NEW at \in Nat, NEW upto \in Nat,
         Ready(s, j, at, upto),
         NEW k \in 1..Len(pieces), NEW to \in Nat, to = pieces[k].end, to <= upto,
         pieces[k].over, pieces[k].nth = Len(s.received) + 1,
         NEW q \in ResponseType, q = Counted(s.response), IsReadCompletely(q),
         q.name = pieces[k].name, q.body = pieces[k].body, q.name \in {HTTP, EVENT},
         q.raw = Slice(text, to, upto),
         \/ Len(q.raw) + 1 <= Len(s.response.raw)
         \/ Len(q.raw) <= Len(s.response.raw) /\ IsReadCompletely(s.response),
         Turn(s) = Parsed(s)
  PROVE  Goes(s, Turn(s), upto)
<1> DEFINE r == [NoResponse EXCEPT !.raw = q.raw]
           m == [name |-> q.name, body |-> q.body]
           out == Append(s.received, m)
           what == IF q.raw = <<>> THEN "reading" ELSE "parsing"
           t == Reader(s.incoming, r, s.counter, out, what)
<1>1. PiecesInv /\ s.doing = "parsing" /\ ReceivedInv(s.received) /\ upto <= Len(text)
  BY DEF Ready
<1>2. text \in Bytes /\ Len(text) \in Nat
  BY <1>1, Lengths DEF PiecesInv
<1>3. q.raw \in Bytes /\ q.name \in Int /\ q.body \in Bytes /\ Len(q.raw) \in Nat
  <2>1. q.raw \in Bytes /\ q.name \in Int /\ q.body \in Bytes
    BY DEF ResponseType
  <2> QED BY <2>1, Lengths
<1>4. Turn(s) = t
  BY DEF Parsed
<1>5. r \in ResponseType /\ Afresh(r) /\ r.raw = q.raw /\ ~IsReadCompletely(r)
  BY <1>3, FreshIs
<1>6. /\ out \in Seq([name : Int, body : Bytes]) /\ Len(out) = Len(s.received) + 1
      /\ ReceivedInv(out)
  <2>1. m \in [name : Int, body : Bytes] /\ m = [name |-> pieces[k].name, body |-> pieces[k].body]
    BY <1>3
  <2>2. s.received \in Seq([name : Int, body : Bytes])
    BY ReaderParts
  <2> HIDE DEF m
  <2> QED BY <1>1, <2>1, <2>2, ReceivedGrows
<1>7. what \in {"reading", "parsing"}
  OBVIOUS
<1> HIDE DEF r, m, out
<1>8. t \in ReaderType
  <2> HIDE DEF what
  <2> QED BY <1>5, <1>6, <1>7, ReaderTyped
<1>9. t.incoming = s.incoming /\ t.response = r /\ t.counter = s.counter
      /\ t.received = out /\ t.doing = what
  BY ReaderFields
<1> HIDE DEF t
<1>10. At(t, k, to, upto)
  <2>1. Given(t, pieces[k])
    BY <1>6, <1>9 DEF Given
  <2>2. t.doing = "reading" /\ k < Len(pieces) => upto < pieces[k + 1].end
    <3> SUFFICES ASSUME t.doing = "reading", k < Len(pieces)
                 PROVE  upto < pieces[k + 1].end
      OBVIOUS
    <3>1. q.raw = <<>>
      BY <1>9
    <3>2. Len(q.raw) = upto - to
      <4>1. Len(Slice(text, to, upto)) = upto - to
        BY <1>1, <1>2, SliceProperties
      <4> QED BY <4>1
    <3>3. upto = to
      BY <1>3, <3>1, <3>2, Lengths
    <3>4. pieces[k].end < pieces[k + 1].end
      BY <1>1, NextPiece
    <3> QED BY <3>3, <3>4
  <2> QED BY <1>5, <1>9, <2>1, <2>2 DEF At
<1>11. ParserInv(t, upto)
  <2>1. to \in 0..Len(text)
    BY <1>1, <1>2
  <2> QED BY <1>10, <2>1 DEF ParserInv
<1>12. Measure(t) < Measure(s)
  <2>1. Measure(t) \in Nat /\ Measure(t) <= Len(t.incoming) + Len(t.response.raw) + 1
    BY <1>5, <1>8, <1>9, MeasureIs
  <2>2. /\ Measure(s) \in Nat /\ Measure(s) >= Len(s.incoming) + Len(s.response.raw) + 1
        /\ IsReadCompletely(s.response) =>
             Measure(s) = Len(s.incoming) + Len(s.response.raw) + 2
    BY <1>1, MeasureIs
  <2>3. Len(s.incoming) \in Nat /\ Len(s.response.raw) \in Nat
    BY ReaderParts
  <2>4. Len(t.incoming) = Len(s.incoming) /\ Len(t.response.raw) = Len(q.raw)
    BY <1>5, <1>9
  <2>5. CASE Len(q.raw) + 1 <= Len(s.response.raw)
    <3>1. Measure(t) <= Len(s.incoming) + Len(q.raw) + 1
      BY <2>1, <2>4
    <3> QED BY <1>3, <2>1, <2>2, <2>3, <2>5, <3>1, Decreases
  <2>6. CASE Len(q.raw) <= Len(s.response.raw) /\ IsReadCompletely(s.response)
    <3>1. PICK a, b, c \in Nat : a = Len(s.incoming) /\ b = Len(q.raw) /\ c = Len(s.response.raw)
      BY <1>3, <2>3
    <3>2. Measure(t) <= a + b + 1 /\ Measure(s) = a + c + 2 /\ b <= c
      BY <2>1, <2>2, <2>4, <2>6, <3>1
    <3> QED BY <2>1, <2>2, <3>2
  <2> QED BY <2>5, <2>6
<1>13. Goes(s, t, upto)
  <2>1. t.doing # "broken"
    BY <1>7, <1>9
  <2> QED BY <1>6, <1>8, <1>9, <1>11, <1>12, <2>1 DEF Goes
<1> QED BY <1>4, <1>13

LEMMA TurnIs ==
  ASSUME NEW s, s.doing = "parsing"
  PROVE  /\ LineFound(s.response) =>
              Turn(s) = Reader(s.incoming, TakeLine(s.response), s.counter, s.received, "parsing")
         /\ ~LineFound(s.response) /\ ChunkFound(s.response) =>
              Turn(s) = Reader(s.incoming, TakeChunk(s.response), s.counter, s.received, "parsing")
         /\ ~LineFound(s.response) /\ ~ChunkFound(s.response) => Turn(s) = Parsed(s)
  BY DEF Turn

(* What the parser sees of the next piece, if there is one.                  *)
LEMMA Seen ==
  ASSUME NEW s \in ReaderType, NEW j \in 1..Len(pieces), NEW at \in Nat, NEW upto \in Nat,
         Ready(s, j, at, upto), at = pieces[j].end
  PROVE  LET raw == s.response.raw
             bytes == Slice(text, pieces[j].end, pieces[j + 1].end)
         IN  /\ raw \in Bytes /\ Len(raw) \in Nat /\ Len(raw) = upto - at
             /\ j >= Len(pieces) => Len(raw) = 0
             /\ j < Len(pieces) =>
                  /\ bytes \in Bytes /\ Len(bytes) = pieces[j + 1].end - at
                  /\ \A k \in 1..Len(raw) : k <= Len(bytes) => raw[k] = bytes[k]
<1> DEFINE raw == s.response.raw
<1>1. /\ PiecesInv /\ upto <= Len(text) /\ raw = Slice(text, at, upto) /\ at <= upto
  BY DEF Ready, At
<1>2. text \in Bytes /\ Len(text) \in Nat /\ Len(pieces) \in Nat
  BY <1>1, Lengths DEF PiecesInv
<1>3. raw \in Bytes /\ Len(raw) = upto - at
  <2>1. Slice(text, at, upto) \in Bytes /\ Len(Slice(text, at, upto)) = upto - at
    BY <1>1, <1>2, SliceProperties
  <2> QED BY <1>1, <2>1
<1>4. Len(raw) \in Nat
  BY <1>3, Lengths
<1>5. ASSUME j >= Len(pieces) PROVE Len(raw) = 0
  <2>1. at = Len(text)
    BY <1>1, <1>2, <1>5 DEF PiecesInv, Latest
  <2>2. upto - at = 0
    BY <1>1, <1>2, <2>1
  <2> QED BY <1>3, <2>2
<1>6. ASSUME j < Len(pieces)
      PROVE  LET bytes == Slice(text, pieces[j].end, pieces[j + 1].end)
             IN /\ bytes \in Bytes /\ Len(bytes) = pieces[j + 1].end - at
                /\ \A k \in 1..Len(raw) : k <= Len(bytes) => raw[k] = bytes[k]
  <2>1. PICK to \in Nat : to = pieces[j + 1].end
    BY <1>1, <1>6, NextPiece DEF PieceType
  <2>2. at < to /\ to <= Len(text)
    BY <1>1, <1>6, <2>1, NextPiece
  <2>3. LET w == Slice(text, at, upto)
            bytes == Slice(text, at, to)
        IN  /\ bytes \in Bytes /\ Len(bytes) = to - at
            /\ \A k \in 1..Len(w) : k <= to - at => w[k] = bytes[k]
    BY <1>1, <1>2, <2>2, RawAgrees
  <2> QED BY <1>1, <2>1, <2>3
<1> QED BY <1>3, <1>4, <1>5, <1>6

LEMMA ReadyFacts ==
  ASSUME NEW s \in ReaderType, NEW j \in 1..Len(pieces), NEW at \in Nat, NEW upto \in Nat,
         Ready(s, j, at, upto)
  PROVE  /\ PiecesInv /\ s.doing = "parsing" /\ upto <= Len(text) /\ At(s, j, at, upto)
         /\ s.response \in ResponseType /\ pieces[j] \in PieceType
         /\ text \in Bytes /\ Len(text) \in Nat /\ Len(s.received) \in Nat
         /\ ~Given(s, pieces[j]) => Within(s, pieces[j], at) /\ Framed(pieces[j])
<1>1. PiecesInv /\ s.doing = "parsing" /\ upto <= Len(text) /\ At(s, j, at, upto)
  BY DEF Ready
<1>2. text \in Bytes /\ Len(text) \in Nat
  BY <1>1, Lengths DEF PiecesInv
<1>3. s.response \in ResponseType /\ Len(s.received) \in Nat
  BY ReaderParts
<1>4. pieces[j] \in PieceType /\ (j # 1 => Framed(pieces[j])) /\ (j = 1 => pieces[j] = NoPiece)
  BY <1>1, PieceFacts
<1>5. ASSUME ~Given(s, pieces[j])
      PROVE  Within(s, pieces[j], at) /\ Framed(pieces[j])
  <2>1. Within(s, pieces[j], at)
    BY <1>1, <1>5 DEF At
  <2>2. pieces[j] # NoPiece
    <3> SUFFICES ASSUME pieces[j] = NoPiece PROVE FALSE
      OBVIOUS
    <3>1. pieces[j].over /\ pieces[j].nth = 0
      BY DEF NoPiece
    <3> QED BY <1>3, <2>1, <3>1 DEF Within
  <2> QED BY <1>4, <2>1, <2>2
<1> QED BY <1>1, <1>2, <1>3, <1>4, <1>5

(* Between two messages.                                                     *)
LEMMA GivenTurn ==
  ASSUME NEW s \in ReaderType, NEW j \in 1..Len(pieces), NEW at \in Nat, NEW upto \in Nat,
         Ready(s, j, at, upto), Given(s, pieces[j])
  PROVE  Goes(s, Turn(s), upto)
<1> DEFINE p == s.response
           e == pieces[j]
           f == pieces[j + 1]
           bytes == Slice(text, e.end, f.end)
<1>1. /\ PiecesInv /\ s.doing = "parsing" /\ p \in ResponseType /\ e \in PieceType
      /\ Afresh(p) /\ at = e.end /\ e.over /\ e.nth = Len(s.received)
  BY ReadyFacts DEF At, Given
<1>2. p.state = "status" /\ p.chunked = FALSE /\ p.empty = FALSE /\ p.length = -1 /\ p.body = <<>>
  BY <1>1 DEF Afresh, ResponseType
<1>3. Counted(p) = p /\ ~IsReadCompletely(p) /\ ~ChunkFound(p)
  <2>1. Counted(p) = p
    BY <1>2, CountedNot
  <2> QED BY <1>2, <2>1 DEF IsReadCompletely, ChunkFound
<1>4. /\ p.raw \in Bytes /\ Len(p.raw) \in Nat /\ Len(p.raw) = upto - at
      /\ j >= Len(pieces) => Len(p.raw) = 0
  BY <1>1, Seen
<1>5. ASSUME Find(p.raw) = -1, j < Len(pieces) => upto < f.end
      PROVE  Goes(s, Turn(s), upto)
  <2>1. ~LineFound(p)
    BY <1>5 DEF LineFound
  <2>2. Turn(s) = Parsed(s)
    BY <1>1, <1>3, <2>1, TurnIs
  <2> QED BY <1>1, <1>3, <1>5, <2>2, NothingTaken DEF Given
<1>6. CASE j >= Len(pieces)
  <2>1. Find(p.raw) = -1
    BY <1>4, <1>6, FindEmpty
  <2> QED BY <1>5, <1>6, <2>1
<1>7. CASE j < Len(pieces)
  <2>1. /\ f \in PieceType /\ Framed(f) /\ SameNumber(e, f) /\ bytes \in Bytes
        /\ Len(bytes) = f.end - e.end
        /\ \/ StatusFollows(e, f, bytes)
           \/ HeaderFollows(e, f, bytes)
           \/ BlankFollows(e, f, bytes)
           \/ BodyFollows(e, f, bytes)
           \/ ChunkFollows(e, f, bytes)
           \/ LastChunkFollows(e, f, bytes)
    BY <1>1, <1>7, NextPiece
  <2>2. e.state # "headers"
    <3>1. j # 1 => Framed(e)
      BY <1>1, PieceFacts
    <3>2. j = 1 => e = NoPiece
      BY <1>1, PieceFacts
    <3>3. NoPiece.state # "headers"
      BY DEF NoPiece
    <3> QED BY <1>1, <3>1, <3>2, <3>3 DEF Framed
  <2>3. StatusFollows(e, f, bytes)
    BY <1>1, <2>1, <2>2 DEF HeaderFollows, BlankFollows, BodyFollows, ChunkFollows, LastChunkFollows, Counting
  <2>4. /\ ~f.over /\ f.state = "headers" /\ bytes = Line(f.name) /\ f.chunked = FALSE /\ f.length = -1
        /\ f.name \in {HTTP, EVENT} /\ f.body = <<>> /\ f.nth = e.nth
    BY <2>1, <2>3 DEF StatusFollows, Framed, SameNumber, PieceType
  <2>5. f.name \in Int /\ f.name # CR
    BY <2>4 DEF HTTP, EVENT, CR
  <2>6. Headed(bytes) /\ Len(bytes) = 3 /\ bytes[1] = f.name
    BY <2>4, <2>5, LineHeaded
  <2>7. PICK to \in Nat : to = f.end
    BY <2>1 DEF PieceType
  <2>8. to = at + 3
    <3>1. to - at = 3
      BY <1>1, <2>1, <2>6, <2>7
    <3> QED BY <3>1
  <2>9. \A k \in 1..Len(p.raw) : k <= Len(bytes) => p.raw[k] = bytes[k]
    BY <1>1, <1>7, Seen
  <2>10. /\ 3 <= Len(p.raw) => Find(p.raw) = 1 /\ p.raw[1] = f.name
         /\ ~(3 <= Len(p.raw)) => Find(p.raw) = -1
    <3> HIDE DEF p, bytes
    <3> QED BY <1>4, <2>1, <2>6, <2>9, FindHeaded
  <2>11. CASE to <= upto
    <3>1. 3 <= Len(p.raw)
      BY <1>4, <2>8, <2>11
    <3>2. LineFound(p)
      BY <1>2, <2>10, <3>1 DEF LineFound
    <3> DEFINE q == TakeLine(p)
    <3>3. /\ q \in ResponseType /\ q.raw = Slice(p.raw, 3, Len(p.raw))
          /\ q.state = "headers" /\ q.name = f.name
          /\ q.chunked = FALSE /\ q.empty = FALSE /\ q.length = -1 /\ q.body = <<>>
      BY <1>1, <1>2, <2>10, <3>1, TakeStatusIs
    <3>4. Turn(s) = Reader(s.incoming, q, s.counter, s.received, "parsing")
      BY <1>1, <3>2, TurnIs
    <3> HIDE DEF q
    <3>5. Holds(q, f) /\ q.body = f.body
      BY <2>4, <3>3 DEF Holds
    <3>6. f.end - at = 3 /\ f.end <= upto /\ at + 2 <= f.end
      BY <2>7, <2>8, <2>11
    <3>7. q.raw = Slice(p.raw, f.end - at, Len(p.raw))
      BY <3>3, <3>6
    <3>8. f.nth = IF f.over THEN Len(s.received) + 1 ELSE Len(s.received)
      BY <1>1, <2>4
    <3> QED BY <1>1, <1>7, <3>3, <3>4, <3>5, <3>6, <3>7, <3>8, PieceTaken
  <2>12. CASE ~(to <= upto)
    <3>1. ~(3 <= Len(p.raw)) /\ upto < f.end
      BY <1>4, <2>7, <2>8, <2>12
    <3> QED BY <1>5, <2>10, <3>1
  <2> QED BY <2>11, <2>12
<1>8. Len(pieces) \in Nat
  BY <1>1 DEF PiecesInv
<1> QED BY <1>6, <1>7, <1>8

(* Among the headers.                                                        *)
LEMMA HeadersTurn ==
  ASSUME NEW s \in ReaderType, NEW j \in 1..Len(pieces), NEW at \in Nat, NEW upto \in Nat,
         Ready(s, j, at, upto), ~Given(s, pieces[j]), pieces[j].state = "headers"
  PROVE  Goes(s, Turn(s), upto)
<1> DEFINE p == s.response
           e == pieces[j]
           f == pieces[j + 1]
           bytes == Slice(text, e.end, f.end)
<1>1. /\ PiecesInv /\ s.doing = "parsing" /\ p \in ResponseType /\ e \in PieceType
      /\ Within(s, e, at) /\ Framed(e) /\ Len(s.received) \in Nat
  BY ReadyFacts
<1>2. /\ ~e.over /\ e.body = <<>> /\ ~Counting(e) /\ at = e.end /\ e.nth = Len(s.received)
      /\ p.state = "headers" /\ p.chunked = e.chunked /\ p.empty = FALSE
      /\ p.length = e.length /\ p.name = e.name /\ p.body = <<>>
  BY <1>1 DEF Framed, Counting, Within, Holds
<1>3. Counted(p) = p /\ ~IsReadCompletely(p) /\ ~ChunkFound(p)
  <2>1. Counted(p) = p
    BY <1>2, CountedNot
  <2> QED BY <1>2, <2>1 DEF IsReadCompletely, ChunkFound
<1>4. /\ p.raw \in Bytes /\ Len(p.raw) \in Nat /\ Len(p.raw) = upto - at
      /\ j >= Len(pieces) => Len(p.raw) = 0
  BY <1>2, Seen
<1>5. ASSUME Find(p.raw) = -1, j < Len(pieces) => upto < f.end
      PROVE  Goes(s, Turn(s), upto)
  <2>1. ~LineFound(p)
    BY <1>5 DEF LineFound
  <2>2. Turn(s) = Parsed(s)
    BY <1>1, <1>3, <2>1, TurnIs
  <2> QED BY <1>2, <1>3, <1>5, <2>2, NothingTaken
<1>6. CASE j >= Len(pieces)
  <2>1. Find(p.raw) = -1
    BY <1>4, <1>6, FindEmpty
  <2> QED BY <1>5, <1>6, <2>1
<1>7. CASE j < Len(pieces)
  <2>1. /\ f \in PieceType /\ Framed(f) /\ SameNumber(e, f) /\ bytes \in Bytes
        /\ Len(bytes) = f.end - e.end
        /\ \/ StatusFollows(e, f, bytes)
           \/ HeaderFollows(e, f, bytes)
           \/ BlankFollows(e, f, bytes)
           \/ BodyFollows(e, f, bytes)
           \/ ChunkFollows(e, f, bytes)
           \/ LastChunkFollows(e, f, bytes)
    BY <1>1, <1>7, NextPiece
  <2>2. HeaderFollows(e, f, bytes) \/ BlankFollows(e, f, bytes)
    BY <1>2, <2>1 DEF StatusFollows, BodyFollows, ChunkFollows, LastChunkFollows, Counting
  <2>3. f.nth = IF f.over THEN Len(s.received) + 1 ELSE Len(s.received)
    BY <1>2, <2>1 DEF SameNumber
  <2>4. PICK to \in Nat : to = f.end
    BY <2>1 DEF PieceType
  <2>5. Len(bytes) = to - at
    BY <1>2, <2>1, <2>4
  <2>6. \A k \in 1..Len(p.raw) : k <= Len(bytes) => p.raw[k] = bytes[k]
    BY <1>2, <1>7, Seen
  <2>7. CASE HeaderFollows(e, f, bytes)
    <3>1. PICK x \in Int :
            /\ bytes = Line(x) /\ (x >= 0 \/ x \in {ENCODING, FIELD})
            /\ f.chunked = (e.chunked \/ x = ENCODING)
            /\ f.length = IF x >= 0 THEN x ELSE e.length
      BY <2>7 DEF HeaderFollows
    <3>2. f.state = "headers" /\ f.name = e.name /\ f.body = <<>>
      BY <2>1, <2>7 DEF HeaderFollows, Framed
    <3>3. x # CR
      BY <3>1 DEF ENCODING, FIELD, CR
    <3>4. Headed(bytes) /\ Len(bytes) = 3 /\ bytes[1] = x
      BY <3>1, <3>3, LineHeaded
    <3>5. to = at + 3
      <4>1. to - at = 3
        BY <2>5, <3>4
      <4> QED BY <4>1
    <3>6. /\ 3 <= Len(p.raw) => Find(p.raw) = 1 /\ p.raw[1] = x
          /\ ~(3 <= Len(p.raw)) => Find(p.raw) = -1
      <4> HIDE DEF p, bytes
      <4> QED BY <1>4, <2>1, <2>6, <3>4, FindHeaded
    <3>7. CASE to <= upto
      <4>1. 3 <= Len(p.raw)
        BY <1>4, <3>5, <3>7
      <4>2. LineFound(p)
        BY <1>2, <3>6, <4>1 DEF LineFound
      <4> DEFINE q == TakeLine(p)
      <4>3. /\ q \in ResponseType /\ q.raw = Slice(p.raw, 3, Len(p.raw))
            /\ q.state = "headers" /\ q.name = p.name
            /\ q.chunked = (p.chunked \/ p.raw[1] = ENCODING)
            /\ q.length = IF p.raw[1] >= 0 THEN p.raw[1] ELSE p.length
            /\ q.empty = p.empty /\ q.body = p.body
        BY <1>1, <1>2, <3>6, <4>1, TakeHeaderIs
      <4>4. Turn(s) = Reader(s.incoming, q, s.counter, s.received, "parsing")
        BY <1>1, <4>2, TurnIs
      <4> HIDE DEF q
      <4>5. q.chunked = f.chunked /\ q.length = f.length
        BY <1>2, <3>1, <3>6, <4>1, <4>3
      <4>6. Holds(q, f) /\ q.body = f.body
        BY <1>2, <3>2, <4>3, <4>5 DEF Holds
      <4>7. f.end - at = 3 /\ f.end <= upto /\ at + 2 <= f.end
        BY <2>4, <3>5, <3>7
      <4>8. q.raw = Slice(p.raw, f.end - at, Len(p.raw))
        BY <4>3, <4>7
      <4> QED BY <1>2, <1>7, <2>3, <4>3, <4>4, <4>6, <4>7, <4>8, PieceTaken
    <3>8. CASE ~(to <= upto)
      <4>1. ~(3 <= Len(p.raw)) /\ upto < f.end
        BY <1>4, <2>4, <3>5, <3>8
      <4> QED BY <1>5, <3>6, <4>1
    <3> QED BY <3>7, <3>8
  <2>8. CASE BlankFollows(e, f, bytes)
    <3>1. bytes = CRLF /\ f.state = "body" /\ SameMessage(e, f) /\ f.body = <<>>
      BY <2>8 DEF BlankFollows
    <3>2. Len(bytes) = 2
      BY <3>1, CRLFBytes
    <3>3. to = at + 2
      <4>1. to - at = 2
        BY <2>5, <3>2
      <4> QED BY <4>1
    <3>4. /\ 2 <= Len(p.raw) => Find(p.raw) = 0
          /\ ~(2 <= Len(p.raw)) => Find(p.raw) = -1
      <4> HIDE DEF p, bytes
      <4> QED BY <1>4, <2>1, <2>6, <3>1, FindBlank
    <3>5. CASE to <= upto
      <4>1. 2 <= Len(p.raw)
        BY <1>4, <3>3, <3>5
      <4>2. LineFound(p)
        BY <1>2, <3>4, <4>1 DEF LineFound
      <4> DEFINE q == TakeLine(p)
      <4>3. /\ q \in ResponseType /\ q.raw = Slice(p.raw, 2, Len(p.raw))
            /\ q.state = "body" /\ q.name = p.name
            /\ q.chunked = p.chunked /\ q.length = p.length
            /\ q.empty = p.empty /\ q.body = p.body
        BY <1>1, <1>2, <3>4, <4>1, TakeBlankIs
      <4>4. Turn(s) = Reader(s.incoming, q, s.counter, s.received, "parsing")
        BY <1>1, <4>2, TurnIs
      <4> HIDE DEF q
      <4>5. Holds(q, f) /\ q.body = f.body
        BY <1>2, <3>1, <4>3 DEF Holds, SameMessage
      <4>6. f.end - at = 2 /\ f.end <= upto /\ at + 2 <= f.end
        BY <2>4, <3>3, <3>5
      <4>7. q.raw = Slice(p.raw, f.end - at, Len(p.raw))
        BY <4>3, <4>6
      <4> QED BY <1>2, <1>7, <2>3, <4>3, <4>4, <4>5, <4>6, <4>7, PieceTaken
    <3>6. CASE ~(to <= upto)
      <4>1. ~(2 <= Len(p.raw)) /\ upto < f.end
        BY <1>4, <2>4, <3>3, <3>6
      <4> QED BY <1>5, <3>4, <4>1
    <3> QED BY <3>5, <3>6
  <2> QED BY <2>2, <2>7, <2>8
<1>8. Len(pieces) \in Nat
  BY <1>1 DEF PiecesInv
<1> QED BY <1>6, <1>7, <1>8

(* In a body by chunks.                                                      *)
LEMMA ChunkTurn ==
  ASSUME NEW s \in ReaderType, NEW j \in 1..Len(pieces), NEW at \in Nat, NEW upto \in Nat,
         Ready(s, j, at, upto), ~Given(s, pieces[j]),
         pieces[j].state = "body", ~pieces[j].over, pieces[j].chunked
  PROVE  Goes(s, Turn(s), upto)
<1> DEFINE p == s.response
           e == pieces[j]
           f == pieces[j + 1]
           bytes == Slice(text, e.end, f.end)
<1>1. /\ PiecesInv /\ s.doing = "parsing" /\ p \in ResponseType /\ e \in PieceType
      /\ Within(s, e, at) /\ Framed(e) /\ Len(s.received) \in Nat
  BY ReadyFacts
<1>2. /\ ~Counting(e) /\ at = e.end /\ e.nth = Len(s.received) /\ e.length = -1
      /\ p.state = "body" /\ p.chunked = e.chunked /\ p.empty = FALSE
      /\ p.length = -1 /\ p.name = e.name /\ p.body = e.body
  BY <1>1 DEF Framed, Counting, Within, Holds
<1>3. Counted(p) = p /\ ~IsReadCompletely(p) /\ ~LineFound(p)
  <2>1. Counted(p) = p
    BY <1>2, CountedNot
  <2> QED BY <1>2, <2>1 DEF IsReadCompletely, LineFound
<1>4. /\ p.raw \in Bytes /\ Len(p.raw) \in Nat /\ Len(p.raw) = upto - at
      /\ j >= Len(pieces) => Len(p.raw) = 0
  BY <1>2, Seen
<1>5. ASSUME ~ChunkFound(p), j < Len(pieces) => upto < f.end
      PROVE  Goes(s, Turn(s), upto)
  <2>1. Turn(s) = Parsed(s)
    BY <1>1, <1>3, <1>5, TurnIs
  <2> QED BY <1>2, <1>3, <1>5, <2>1, NothingTaken
<1>6. CASE j >= Len(pieces)
  <2>1. Find(p.raw) = -1
    BY <1>4, <1>6, FindEmpty
  <2>2. ~ChunkFound(p)
    BY <2>1 DEF ChunkFound
  <2> QED BY <1>5, <1>6, <2>2
<1>7. CASE j < Len(pieces)
  <2>1. /\ f \in PieceType /\ Framed(f) /\ SameNumber(e, f) /\ bytes \in Bytes
        /\ Len(bytes) = f.end - e.end
        /\ \/ StatusFollows(e, f, bytes)
           \/ HeaderFollows(e, f, bytes)
           \/ BlankFollows(e, f, bytes)
           \/ BodyFollows(e, f, bytes)
           \/ ChunkFollows(e, f, bytes)
           \/ LastChunkFollows(e, f, bytes)
    BY <1>1, <1>7, NextPiece
  <2>2. ChunkFollows(e, f, bytes) \/ LastChunkFollows(e, f, bytes)
    BY <1>2, <2>1 DEF StatusFollows, HeaderFollows, BlankFollows, BodyFollows, Counting
  <2>3. f.nth = IF f.over THEN Len(s.received) + 1 ELSE Len(s.received)
    BY <1>2, <2>1 DEF SameNumber
  <2>4. PICK to \in Nat : to = f.end
    BY <2>1 DEF PieceType
  <2>5. Len(bytes) = to - at
    BY <1>2, <2>1, <2>4
  <2>6. \A k \in 1..Len(p.raw) : k <= Len(bytes) => p.raw[k] = bytes[k]
    BY <1>2, <1>7, Seen
  <2>7. SameMessage(e, f)
    BY <2>2 DEF ChunkFollows, LastChunkFollows
  <2>8. PICK n \in Nat :
          /\ Headed(bytes) /\ Len(bytes) = n + 5 /\ bytes[1] = n
          /\ n = 0 => f.state = "done" /\ f.body = e.body
          /\ n # 0 => f.state = "body" /\ f.body = e.body \o Slice(bytes, 3, 3 + n)
    <3>1. CASE ChunkFollows(e, f, bytes)
      <4>1. PICK data \in Bytes : /\ data # <<>> /\ f.body = e.body \o data
                                  /\ bytes = Line(Len(data)) \o data \o CRLF
        BY <3>1 DEF ChunkFollows
      <4>2. f.state = "body" /\ Len(data) \in Nat /\ Len(data) # 0
        BY <3>1, <4>1, Lengths DEF ChunkFollows
      <4>3. /\ Headed(bytes) /\ Len(bytes) = Len(data) + 5 /\ bytes[1] = Len(data)
            /\ Slice(bytes, 3, 3 + Len(data)) = data
        BY <4>1, ChunkHeaded
      <4> HIDE DEF f, e, bytes
      <4> QED BY <4>1, <4>2, <4>3
    <3>2. CASE LastChunkFollows(e, f, bytes)
      <4>1. f.state = "done" /\ f.body = e.body /\ bytes = Line(0) \o CRLF
        BY <3>2 DEF LastChunkFollows
      <4>2. Headed(bytes) /\ Len(bytes) = 5 /\ bytes[1] = 0
        BY <4>1, LastChunkHeaded
      <4> HIDE DEF f, e, bytes
      <4> QED BY <4>1, <4>2
    <3> QED BY <2>2, <3>1, <3>2
  <2>9. to = at + n + 5
    BY <2>5, <2>8
  <2>10. /\ 3 <= Len(p.raw) => Find(p.raw) = 1 /\ p.raw[1] = n
         /\ ~(3 <= Len(p.raw)) => Find(p.raw) = -1
    <3> HIDE DEF p, bytes
    <3> QED BY <1>4, <2>1, <2>6, <2>8, FindHeaded
  <2>11. CASE to <= upto
    <3>1. n + 5 <= Len(p.raw) /\ 3 <= Len(p.raw)
      BY <1>4, <2>9, <2>11
    <3>2. ChunkFound(p)
      <4>1. Find(p.raw) = 1 /\ p.raw[1] = n /\ n + 2 <= Len(p.raw) - (1 + 2)
        BY <1>4, <2>10, <3>1
      <4> QED BY <1>2, <4>1 DEF ChunkFound
    <3> DEFINE q == TakeChunk(p)
    <3>3. /\ q \in ResponseType
          /\ q.raw = Slice(p.raw, n + 5, Len(p.raw))
          /\ q.name = p.name /\ q.chunked = p.chunked /\ q.length = p.length
          /\ n = 0 => q.state = "done" /\ q.empty = TRUE /\ q.body = p.body
          /\ n # 0 => /\ q.state = "body" /\ q.empty = p.empty
                      /\ q.body = p.body \o Slice(p.raw, 3, 3 + n)
      BY <1>1, <1>2, <2>10, <3>1, TakeChunkIs
    <3>4. Turn(s) = Reader(s.incoming, q, s.counter, s.received, "parsing")
      BY <1>1, <1>3, <3>2, TurnIs
    <3>5. Slice(p.raw, 3, 3 + n) = Slice(bytes, 3, 3 + n)
      <4> HIDE DEF p, bytes
      <4>0. PICK m \in Nat : m = 3 + n
        OBVIOUS
      <4>1. 3 <= m /\ m <= Len(p.raw) /\ m <= Len(bytes)
        BY <1>4, <2>8, <3>1, <4>0
      <4> DEFINE w == Slice(bytes, 3, m)
      <4>2. w \in Bytes /\ Len(w) = m - 3 /\ \A k \in 1..(m - 3) : w[k] = bytes[3 + k]
        <5>1. PICK i \in Nat : i = 3
          OBVIOUS
        <5>2. i <= m
          BY <4>1, <5>1
        <5>3. /\ Slice(bytes, i, m) \in Bytes /\ Len(Slice(bytes, i, m)) = m - i
              /\ \A k \in 1..(m - i) : Slice(bytes, i, m)[k] = bytes[i + k]
          BY <2>1, <4>1, <5>2, SliceProperties
        <5> QED BY <5>1, <5>3
      <4> HIDE DEF w
      <4>3. \A k \in 1..(m - 3) : w[k] = p.raw[3 + k]
        <5> TAKE k \in 1..(m - 3)
        <5>1. 3 + k \in 1..Len(p.raw) /\ 3 + k <= Len(bytes)
          BY <1>4, <2>8, <4>1
        <5> QED BY <2>6, <4>2, <5>1
      <4>4. Slice(p.raw, 3, m) = w
        BY <1>4, <4>1, <4>2, <4>3, SliceIs
      <4> QED BY <4>0, <4>4 DEF w
    <3> HIDE DEF q
    <3>6. Holds(q, f) /\ q.body = f.body
      <4>1. q.empty = (f.state = "done") /\ q.state = f.state /\ q.body = f.body
        BY <1>2, <2>8, <3>3, <3>5
      <4> QED BY <1>2, <2>7, <3>3, <4>1 DEF Holds, SameMessage
    <3>7. f.end - at = n + 5 /\ f.end <= upto /\ at + 2 <= f.end
      BY <2>4, <2>9, <2>11
    <3>8. q.raw = Slice(p.raw, f.end - at, Len(p.raw))
      BY <3>3, <3>7
    <3> QED BY <1>2, <1>7, <2>3, <3>3, <3>4, <3>6, <3>7, <3>8, PieceTaken
  <2>12. CASE ~(to <= upto)
    <3>1. Len(p.raw) < n + 5 /\ upto < f.end
      BY <1>4, <2>4, <2>9, <2>12
    <3>2. ~ChunkFound(p)
      <4>1. CASE 3 <= Len(p.raw)
        <5>1. Find(p.raw) = 1 /\ p.raw[1] = n /\ ~(n + 2 <= Len(p.raw) - (1 + 2))
          BY <1>4, <2>10, <3>1, <4>1
        <5> QED BY <5>1 DEF ChunkFound
      <4>2. CASE ~(3 <= Len(p.raw))
        BY <2>10, <4>2 DEF ChunkFound
      <4> QED BY <4>1, <4>2
    <3> QED BY <1>5, <3>1, <3>2
  <2> QED BY <2>11, <2>12
<1>8. Len(pieces) \in Nat
  BY <1>1 DEF PiecesInv
<1> QED BY <1>6, <1>7, <1>8

(* A message that is complete, and not yet given out.                        *)
LEMMA OverTurn ==
  ASSUME NEW s \in ReaderType, NEW j \in 1..Len(pieces), NEW at \in Nat, NEW upto \in Nat,
         Ready(s, j, at, upto), ~Given(s, pieces[j]), pieces[j].over
  PROVE  Goes(s, Turn(s), upto)
<1> DEFINE p == s.response
           e == pieces[j]
           q == Counted(p)
<1>1. /\ PiecesInv /\ s.doing = "parsing" /\ p \in ResponseType /\ e \in PieceType
      /\ Within(s, e, at) /\ Framed(e) /\ Len(s.received) \in Nat
      /\ At(s, j, at, upto) /\ upto <= Len(text) /\ text \in Bytes /\ Len(text) \in Nat
  BY ReadyFacts
<1>2. /\ ~Counting(e) /\ at = e.end /\ e.nth = Len(s.received) + 1
      /\ p.state = e.state /\ p.chunked = e.chunked /\ p.empty = (e.state = "done")
      /\ p.length = e.length /\ p.name = e.name /\ p.body = e.body
      /\ e.state # "headers" /\ e.name \in {HTTP, EVENT}
  BY <1>1 DEF Framed, Counting, Within, Holds
<1>3. IsReadCompletely(p) /\ ~LineFound(p) /\ ~ChunkFound(p)
  <2>1. e.state \in {"headers", "body", "done"} /\ e.chunked \in BOOLEAN
    BY <1>1 DEF PieceType
  <2>2. CASE e.chunked
    <3>1. e.state = "done"
      BY <1>1, <2>2 DEF Framed
    <3> QED BY <1>2, <2>2, <3>1 DEF IsReadCompletely, LineFound, ChunkFound
  <2>3. CASE ~e.chunked
    <3>1. e.length \in {-1, Len(e.body)}
      BY <1>1, <2>3 DEF Framed
    <3> QED BY <1>2, <2>1, <2>3, <3>1 DEF IsReadCompletely, LineFound, ChunkFound
  <2> QED BY <2>2, <2>3
<1>4. /\ p.raw \in Bytes /\ Len(p.raw) \in Nat
      /\ p.raw = Slice(text, at, upto) /\ at <= upto
      /\ p.body \in Bytes /\ Len(p.body) \in Nat
  BY <1>1, ReaderParts DEF At
<1>5. Turn(s) = Parsed(s)
  BY <1>1, <1>3, TurnIs
<1>6. q \in ResponseType /\ q.raw = p.raw /\ q.body = p.body /\ q.name = p.name
      /\ IsReadCompletely(q)
  <2>1. CASE p.state = "body" /\ p.length > 0
    <3>1. ~e.chunked /\ p.length = Len(p.body)
      <4>1. p.length # -1
        BY <2>1
      <4> QED BY <1>1, <1>2, <2>1, <4>1 DEF Framed
    <3>0. PICK n \in Nat : n = 0
      OBVIOUS
    <3>2. n <= Len(p.raw) /\ n <= p.length - Len(p.body)
          /\ (n = Len(p.raw) \/ n = p.length - Len(p.body))
      BY <1>4, <3>0, <3>1
    <3>3. /\ q \in ResponseType /\ q.raw = Slice(p.raw, n, Len(p.raw))
          /\ q.body = p.body \o Slice(p.raw, 0, n)
          /\ q.state = p.state /\ q.name = p.name
          /\ q.chunked = p.chunked /\ q.length = p.length /\ q.empty = p.empty
      BY <1>1, <2>1, <3>2, CountedIs
    <3>4. Slice(p.raw, n, Len(p.raw)) = p.raw
      BY <1>4, <3>0 DEF Slice, Bytes
    <3>5. Slice(p.raw, 0, n) = <<>> /\ p.body \o <<>> = p.body
      BY <1>4, <3>0 DEF Slice, Bytes
    <3> HIDE DEF q
    <3>6. q.raw = p.raw /\ q.body = p.body
      BY <3>3, <3>4, <3>5
    <3>7. IsReadCompletely(q)
      BY <1>3, <3>3, <3>6 DEF IsReadCompletely
    <3> QED BY <3>3, <3>6, <3>7
  <2>2. CASE ~(p.state = "body" /\ p.length > 0)
    BY <1>1, <1>3, <2>2, CountedNot
  <2> QED BY <2>1, <2>2
<1> HIDE DEF q
<1>7. \/ Len(q.raw) + 1 <= Len(p.raw)
      \/ Len(q.raw) <= Len(p.raw) /\ IsReadCompletely(p)
  BY <1>3, <1>4, <1>6
<1> QED BY <1>2, <1>4, <1>5, <1>6, <1>7, GivenOut DEF q

(* In a body by length.                                                      *)
LEMMA CountingTurn ==
  ASSUME NEW s \in ReaderType, NEW j \in 1..Len(pieces), NEW at \in Nat, NEW upto \in Nat,
         Ready(s, j, at, upto), ~Given(s, pieces[j]), Counting(pieces[j])
  PROVE  Goes(s, Turn(s), upto)
<1> DEFINE p == s.response
           e == pieces[j]
           f == pieces[j + 1]
           q == Counted(p)
<1>1. /\ PiecesInv /\ s.doing = "parsing" /\ p \in ResponseType /\ e \in PieceType
      /\ Within(s, e, at) /\ Framed(e) /\ Len(s.received) \in Nat
      /\ At(s, j, at, upto) /\ upto <= Len(text) /\ text \in Bytes /\ Len(text) \in Nat
      /\ ReceivedInv(s.received)
  BY ReadyFacts DEF Ready
<1>2. /\ e.state = "body" /\ ~e.over /\ ~e.chunked /\ e.length > 0 /\ e.nth = Len(s.received)
      /\ p.state = "body" /\ p.chunked = FALSE /\ p.length = e.length /\ p.name = e.name
      /\ p.body = Slice(text, e.end, at) /\ e.name \in {HTTP, EVENT}
      /\ e.end <= at /\ at <= upto /\ p.raw = Slice(text, at, upto)
  BY <1>1 DEF Framed, Counting, Within, Holds, At, PieceType
<1>3. PICK b \in Nat, to \in Nat : b = e.end /\ to = b + e.length
  <2>1. e.end \in Nat /\ e.length \in Int
    BY <1>1 DEF PieceType
  <2>2. e.end + e.length \in Nat
    BY <1>2, <2>1
  <2> QED BY <2>1, <2>2
<1>4. b <= at /\ at < to /\ e.length = to - b /\ e.length \in Int
  <2>1. at < e.end + e.length
    BY <1>1 DEF Within
  <2>2. e.length \in Int
    BY <1>1 DEF PieceType
  <2> QED BY <1>2, <1>3, <2>1, <2>2
<1>5. /\ p.raw \in Bytes /\ Len(p.raw) = upto - at
      /\ p.body \in Bytes /\ Len(p.body) = at - b
  <2>1. Slice(text, at, upto) \in Bytes /\ Len(Slice(text, at, upto)) = upto - at
    BY <1>1, <1>2, SliceProperties
  <2>2. at <= Len(text)
    BY <1>1, <1>2
  <2>3. Slice(text, b, at) \in Bytes /\ Len(Slice(text, b, at)) = at - b
    BY <1>1, <1>4, <2>2, SliceProperties
  <2> QED BY <1>2, <1>3, <2>1, <2>3
<1>6. ~LineFound(p) /\ ~ChunkFound(p)
  BY <1>2 DEF LineFound, ChunkFound
<1>7. Turn(s) = Parsed(s)
  BY <1>1, <1>6, TurnIs
<1>8. ASSUME NEW upper \in Nat, at <= upper, upper <= upto, upper <= to, upper = upto \/ upper = to
      PROVE  /\ q \in ResponseType /\ q.raw = Slice(text, upper, upto)
             /\ q.body = Slice(text, b, upper)
             /\ Len(q.raw) = upto - upper /\ Len(q.body) = upper - b
             /\ q.state = "body" /\ q.name = p.name /\ q.chunked = FALSE
             /\ q.length = p.length /\ q.empty = p.empty
  <2>1. PICK n \in Nat : n = upper - at
    BY <1>8
  <2>2. n <= Len(p.raw) /\ n <= p.length - Len(p.body)
        /\ (n = Len(p.raw) \/ n = p.length - Len(p.body))
    BY <1>2, <1>4, <1>5, <1>8, <2>1
  <2>3. /\ q \in ResponseType /\ q.raw = Slice(p.raw, n, Len(p.raw))
        /\ q.body = p.body \o Slice(p.raw, 0, n)
        /\ q.state = p.state /\ q.name = p.name
        /\ q.chunked = p.chunked /\ q.length = p.length /\ q.empty = p.empty
    BY <1>1, <1>2, <2>2, CountedIs
  <2>4. /\ Slice(Slice(text, at, upto), upper - at, Len(Slice(text, at, upto)))
             = Slice(text, upper, upto)
        /\ Len(Slice(text, upper, upto)) = upto - upper
    BY <1>1, <1>8, RawCut
  <2>5. Slice(p.raw, 0, n) = Slice(text, at, upper)
    <3>1. PICK o \in Nat, k \in Nat : o = 0 /\ k = upper - at
      BY <2>1
    <3>2. o <= k /\ k <= upto - at /\ at <= upto /\ upto <= Len(text)
      BY <1>1, <1>2, <1>8, <3>1
    <3>3. Slice(Slice(text, at, upto), o, k) = Slice(text, at + o, at + k)
      BY <1>1, <3>2, SliceOfSlice
    <3>4. at + o = at /\ at + k = upper
      BY <1>8, <3>1
    <3> QED BY <1>2, <2>1, <3>1, <3>3, <3>4
  <2>6. Slice(text, b, at) \o Slice(text, at, upper) = Slice(text, b, upper)
        /\ Len(Slice(text, b, upper)) = upper - b
    <3>1. upper <= Len(text) /\ b <= upper
      BY <1>1, <1>4, <1>8
    <3> QED BY <1>1, <1>4, <1>8, <3>1, SliceJoined, SliceProperties
  <2> HIDE DEF q
  <2>7. q.raw = Slice(text, upper, upto)
    BY <1>2, <2>1, <2>3, <2>4
  <2>8. q.body = Slice(text, b, upper)
    BY <1>2, <1>3, <2>3, <2>5, <2>6
  <2> QED BY <1>2, <2>3, <2>4, <2>6, <2>7, <2>8
<1> HIDE DEF q
<1>9. j < Len(pieces) =>
        /\ j + 1 \in 1..Len(pieces) /\ f \in PieceType /\ f.end = to /\ f.over
        /\ SameMessage(e, f) /\ f.nth = e.nth + 1 /\ f.body = Slice(text, b, to)
        /\ to <= Len(text)
  <2> SUFFICES ASSUME j < Len(pieces)
               PROVE  /\ j + 1 \in 1..Len(pieces) /\ f \in PieceType /\ f.end = to /\ f.over
                      /\ SameMessage(e, f) /\ f.nth = e.nth + 1 /\ f.body = Slice(text, b, to)
                      /\ to <= Len(text)
    OBVIOUS
  <2> DEFINE bytes == Slice(text, e.end, f.end)
  <2>1. /\ j + 1 \in 1..Len(pieces) /\ f \in PieceType /\ SameNumber(e, f)
        /\ f.end <= Len(text) /\ Len(bytes) = f.end - e.end
        /\ \/ StatusFollows(e, f, bytes)
           \/ HeaderFollows(e, f, bytes)
           \/ BlankFollows(e, f, bytes)
           \/ BodyFollows(e, f, bytes)
           \/ ChunkFollows(e, f, bytes)
           \/ LastChunkFollows(e, f, bytes)
    BY <1>1, NextPiece
  <2>2. BodyFollows(e, f, bytes)
    BY <1>2, <2>1 DEF StatusFollows, HeaderFollows, BlankFollows, ChunkFollows, LastChunkFollows
  <2>3. f.over /\ SameMessage(e, f) /\ bytes = f.body /\ Len(f.body) = e.length
    BY <2>2 DEF BodyFollows
  <2>4. f.nth = e.nth + 1
    BY <2>1, <2>3 DEF SameNumber
  <2>5. f.end = to
    <3>1. PICK x \in Nat : x = f.end
      BY <2>1 DEF PieceType
    <3>2. x - b = to - b
      BY <1>3, <1>4, <2>1, <2>3, <3>1
    <3>3. x = to
      BY <3>2
    <3> QED BY <3>1, <3>3
  <2> QED BY <1>3, <2>1, <2>3, <2>4, <2>5
<1>10. CASE upto < to
  <2>0. at <= upto /\ upto <= upto /\ upto <= to
    BY <1>2, <1>4, <1>10
  <2>1. /\ q \in ResponseType /\ q.raw = Slice(text, upto, upto)
        /\ q.body = Slice(text, b, upto)
        /\ Len(q.raw) = upto - upto /\ Len(q.body) = upto - b
        /\ q.state = "body" /\ q.name = p.name /\ q.chunked = FALSE
        /\ q.length = p.length /\ q.empty = p.empty
    BY <1>8, <2>0
  <2>2. ~IsReadCompletely(q)
    <3>1. q.length # -1 /\ q.length # Len(q.body)
      BY <1>2, <1>4, <1>10, <2>1
    <3> QED BY <2>1, <3>1 DEF IsReadCompletely
  <2> DEFINE t == Reader(s.incoming, q, s.counter, s.received, "reading")
  <2>3. Turn(s) = t
    BY <1>7, <2>2 DEF Parsed, q
  <2>4. t \in ReaderType
    BY <2>1, ReaderParts, ReaderTyped
  <2>5. t.incoming = s.incoming /\ t.response = q /\ t.counter = s.counter
        /\ t.received = s.received /\ t.doing = "reading"
    BY ReaderFields
  <2> HIDE DEF t
  <2>6. At(t, j, upto, upto)
    <3>1. ~Given(t, e)
      BY <1>2 DEF Given
    <3>2. Holds(t.response, e)
      BY <1>1, <1>2, <2>1, <2>5 DEF Within, Holds
    <3>3. upto < e.end + e.length /\ t.response.body = Slice(text, e.end, upto)
      BY <1>3, <1>10, <2>1, <2>5
    <3>4. e.nth = Len(t.received)
      BY <1>2, <2>5
    <3>5. Within(t, e, upto)
      BY <1>2, <2>5, <3>2, <3>3, <3>4 DEF Within
    <3>6. j < Len(pieces) => upto < pieces[j + 1].end
      BY <1>9, <1>10
    <3>7. e.end <= upto /\ upto <= upto
      BY <1>2, <1>3
    <3> QED BY <2>1, <2>5, <3>1, <3>5, <3>6, <3>7 DEF At
  <2>7. ParserInv(t, upto)
    <3>1. upto \in 0..Len(text)
      BY <1>1
    <3> QED BY <2>6, <3>1 DEF ParserInv
  <2>8. Measure(t) < Measure(s)
    <3>1. Measure(t) \in Nat /\ Measure(t) = Len(t.incoming) + Len(t.response.raw)
      BY <2>2, <2>4, <2>5, MeasureIs
    <3>2. Measure(s) \in Nat /\ Measure(s) >= Len(s.incoming) + Len(s.response.raw) + 1
      BY <1>1, MeasureIs
    <3>3. Len(s.incoming) \in Nat /\ Len(s.response.raw) \in Nat
      BY ReaderParts
    <3>4. Len(t.response.raw) = 0 /\ Len(t.incoming) = Len(s.incoming)
      BY <2>1, <2>5
    <3>5. PICK a \in Nat, c \in Nat : a = Len(s.incoming) /\ c = Len(s.response.raw)
      BY <3>3
    <3>6. Measure(t) = a + 0 /\ Measure(s) >= a + c + 1
      BY <3>1, <3>2, <3>4, <3>5
    <3>7. \A m, n \in Nat : m = a + 0 /\ n >= a + c + 1 => m < n
      OBVIOUS
    <3> QED BY <3>1, <3>2, <3>6, <3>7
  <2>9. t.doing # "broken" /\ ReceivedInv(t.received)
    BY <1>1, <2>5
  <2>10. Goes(s, t, upto)
    BY <2>4, <2>5, <2>7, <2>8, <2>9 DEF Goes
  <2> QED BY <2>3, <2>10
<1>11. CASE ~(upto < to)
  <2>1. /\ q \in ResponseType /\ q.raw = Slice(text, to, upto)
        /\ q.body = Slice(text, b, to)
        /\ Len(q.raw) = upto - to /\ Len(q.body) = to - b
        /\ q.state = "body" /\ q.name = p.name /\ q.chunked = FALSE
        /\ q.length = p.length
    <3>1. at <= to /\ to <= upto /\ to <= to
      BY <1>4, <1>11
    <3> QED BY <1>8, <3>1
  <2>2. IsReadCompletely(q)
    BY <1>2, <1>4, <2>1 DEF IsReadCompletely
  <2>3. j < Len(pieces)
    <3>1. Len(pieces) \in Nat /\ Latest.end = Len(text)
      BY <1>1 DEF PiecesInv
    <3>2. CASE j = Len(pieces)
      <4>1. b = Len(text)
        BY <1>3, <3>1, <3>2 DEF Latest
      <4> QED BY <1>1, <1>4, <1>11, <4>1
    <3> QED BY <3>1, <3>2
  <2>4. PICK k \in 1..Len(pieces) : k = j + 1
    BY <1>9, <2>3
  <2>5. /\ to = pieces[k].end /\ to <= upto /\ pieces[k].over
        /\ pieces[k].nth = Len(s.received) + 1
        /\ q.name = pieces[k].name /\ q.body = pieces[k].body
    BY <1>2, <1>9, <1>11, <2>1, <2>3, <2>4 DEF SameMessage
  <2>6. Len(q.raw) + 1 <= Len(s.response.raw)
    BY <1>4, <1>5, <2>1
  <2>7. q.name \in {HTTP, EVENT} /\ q = Counted(s.response)
    BY <1>2, <2>1 DEF q
  <2> QED BY <1>7, <2>1, <2>2, <2>5, <2>6, <2>7, GivenOut
<1> QED BY <1>10, <1>11

(* Every turn of the parser keeps its place.                                 *)
LEMMA ParserTurn ==
  ASSUME NEW s \in ReaderType, NEW upto \in Nat, upto <= Len(text),
         PiecesInv, s.doing = "parsing", ReceivedInv(s.received), ParserInv(s, upto)
  PROVE  Goes(s, Turn(s), upto)
<1>1. PICK j \in 1..Len(pieces), at \in 0..Len(text) : At(s, j, at, upto)
  BY DEF ParserInv
<1>2. at \in Nat /\ Ready(s, j, at, upto)
  <2>1. Len(text) \in Nat
    BY Lengths DEF PiecesInv
  <2> QED BY <1>1, <2>1 DEF Ready
<1>3. pieces[j] \in PieceType
  BY <1>2, ReadyFacts
<1>4. pieces[j].state \in {"headers", "body", "done"}
  BY <1>3 DEF PieceType
<1>5. CASE Given(s, pieces[j])
  BY <1>2, <1>5, GivenTurn
<1>6. CASE ~Given(s, pieces[j]) /\ pieces[j].over
  BY <1>2, <1>6, OverTurn
<1>7. CASE ~Given(s, pieces[j]) /\ ~pieces[j].over
  <2>1. Framed(pieces[j])
    BY <1>2, <1>7, ReadyFacts
  <2>2. pieces[j].state # "done"
    BY <1>7, <2>1 DEF Framed
  <2>3. CASE pieces[j].state = "headers"
    BY <1>2, <1>7, <2>3, HeadersTurn
  <2>4. CASE pieces[j].state = "body" /\ pieces[j].chunked
    BY <1>2, <1>7, <2>4, ChunkTurn
  <2>5. CASE pieces[j].state = "body" /\ ~pieces[j].chunked
    <3>1. Counting(pieces[j])
      BY <1>7, <2>5 DEF Counting
    <3> QED BY <1>2, <1>7, <3>1, CountingTurn
  <2> QED BY <1>4, <2>2, <2>3, <2>4, <2>5
<1> QED BY <1>5, <1>6, <1>7

-----------------------------------------------------------------------------
(* One turn of the loop over the blocks.                                     *)

LEMMA BlockBytes ==
  ASSUME NEW data \in Bytes, NEW n \in Nat, n = Len(data), NEW c \in Nat
  PROVE  LET b == Block(data, c)
         IN  /\ b \in Bytes /\ Len(b) = n + 3 /\ b[1] + 256 * b[2] = n
             /\ b[1] \in Int /\ b[2] \in Int
             /\ b[n + 3] = c /\ Slice(b, 2, n + 2) = data
<1> DEFINE x == n % 256
           y == n \div 256
           l == <<x, y>>
           m == l \o data
           b == m \o <<c>>
<1>1. x \in Int /\ y \in Int /\ x + 256 * y = n
  OBVIOUS
<1> HIDE DEF x, y
<1>2. l \in Bytes /\ Len(l) = 2 /\ l[1] = x /\ l[2] = y
  BY <1>1 DEF Bytes
<1> HIDE DEF l
<1>3. /\ m \in Bytes /\ Len(m) = 2 + n /\ m[1] = x /\ m[2] = y
      /\ \A i \in 1..n : m[2 + i] = data[i]
  <2>1. /\ m \in Bytes /\ Len(m) = Len(l) + Len(data)
        /\ \A i \in 1..Len(l) : m[i] = l[i]
        /\ \A i \in 1..Len(data) : m[Len(l) + i] = data[i]
    BY <1>2, Joined
  <2> HIDE DEF m
  <2> QED BY <1>2, <2>1
<1> HIDE DEF m
<1>4. <<c>> \in Bytes /\ Len(<<c>>) = 1 /\ <<c>>[1] = c
  BY DEF Bytes
<1>5. /\ b \in Bytes /\ Len(b) = n + 3 /\ b[n + 3] = c
      /\ \A i \in 1..(2 + n) : b[i] = m[i]
  <2> DEFINE o == <<c>>
  <2>2. o \in Bytes /\ Len(o) = 1 /\ o[1] = c
    BY <1>4
  <2> HIDE DEF o
  <2>1. /\ m \o o \in Bytes /\ Len(m \o o) = Len(m) + Len(o)
        /\ \A i \in 1..Len(m) : (m \o o)[i] = m[i]
        /\ \A i \in 1..Len(o) : (m \o o)[Len(m) + i] = o[i]
    BY <1>3, <2>2, Joined
  <2>4. PICK r : r = m \o o
    OBVIOUS
  <2>5. Len(r) = (2 + n) + 1 /\ r[(2 + n) + 1] = c
    BY <1>3, <2>1, <2>2, <2>4
  <2>6. (2 + n) + 1 = n + 3
    OBVIOUS
  <2>3. r \in Bytes /\ Len(r) = n + 3 /\ r[n + 3] = c /\ \A i \in 1..(2 + n) : r[i] = m[i]
    BY <1>3, <2>1, <2>2, <2>4, <2>5, <2>6
  <2> QED BY <2>3, <2>4 DEF o
<1> HIDE DEF b
<1>6. b[1] = x /\ b[2] = y
  BY <1>3, <1>5
<1>7. Slice(b, 2, n + 2) = data
  <2>1. PICK i \in Nat, k \in Nat : i = 2 /\ k = n + 2
    OBVIOUS
  <2>2. i <= k /\ k <= Len(b) /\ Len(data) = k - i
    BY <1>5, <2>1
  <2>3. \A h \in 1..(k - i) : data[h] = b[i + h]
    BY <1>3, <1>5, <2>1
  <2>4. Slice(b, i, k) = data
    BY <1>5, <2>2, <2>3, SliceIs
  <2> QED BY <2>1, <2>4
<1>8. b = Block(data, c)
  BY DEF b, m, l, x, y, Block
<1> QED BY <1>1, <1>5, <1>6, <1>7, <1>8

LEMMA BlockFacts ==
  ASSUME BlocksInv, text \in Bytes, NEW i \in 1..Len(blocks), i < Len(blocks)
  PROVE  LET b == blocks[i]
             d == blocks[i + 1]
         IN  /\ b.wire \in Nat /\ b.plain \in Nat /\ d.wire \in Nat /\ d.plain \in Nat
             /\ b.plain < d.plain /\ d.plain <= Len(text) /\ d.wire <= Len(stream)
             /\ d.wire = b.wire + (d.plain - b.plain) + 3
             /\ Slice(stream, b.wire, d.wire) = Block(Slice(text, b.plain, d.plain), i - 1)
<1>1. blocks \in Seq(BlockType) /\ Len(blocks) \in Nat
      /\ blocks[Len(blocks)].wire = Len(stream) /\ blocks[Len(blocks)].plain <= Len(text)
      /\ Len(text) \in Nat /\ Len(stream) \in Nat
  BY Lengths DEF BlocksInv
<1>2. PICK k \in 1..Len(blocks) : k = i + 1 /\ i \in 1..(Len(blocks) - 1)
  BY <1>1
<1>3. blocks[i] \in BlockType /\ blocks[k] \in BlockType
  BY <1>1
<1>4. blocks[i].wire \in Nat /\ blocks[i].plain \in Nat
      /\ blocks[k].wire \in Nat /\ blocks[k].plain \in Nat
  BY <1>3 DEF BlockType
<1>5. \A g, h \in 1..Len(blocks) : g < h =>
        blocks[g].wire < blocks[h].wire /\ blocks[g].plain < blocks[h].plain
  BY DEF BlocksInv
<1>6. blocks[i].plain < blocks[k].plain
  BY <1>1, <1>2, <1>5
<1>7. blocks[k].plain <= Len(text) /\ blocks[k].wire <= Len(stream)
  <2>1. CASE k = Len(blocks)
    BY <1>1, <2>1
  <2>2. CASE k < Len(blocks)
    <3>1. PICK last \in 1..Len(blocks) : last = Len(blocks)
      BY <1>1, <2>2
    <3>2. blocks[last] \in BlockType
      BY <1>1
    <3>3. blocks[last].wire \in Nat /\ blocks[last].plain \in Nat
      BY <3>2 DEF BlockType
    <3>4. blocks[k].wire < blocks[last].wire /\ blocks[k].plain < blocks[last].plain
      BY <1>5, <2>2, <3>1
    <3> QED BY <1>1, <1>4, <3>1, <3>3, <3>4
  <2> QED BY <1>1, <2>1, <2>2
<1>8. /\ blocks[k].wire = blocks[i].wire + (blocks[k].plain - blocks[i].plain) + 3
      /\ Slice(stream, blocks[i].wire, blocks[k].wire)
           = Block(Slice(text, blocks[i].plain, blocks[k].plain), i - 1)
  BY <1>2 DEF BlocksInv
<1> QED BY <1>2, <1>4, <1>6, <1>7, <1>8

(* A block that has come as a whole is decrypted, and is the next one.       *)
LEMMA DecryptTurn ==
  ASSUME NEW s \in ReaderType, NEW came \in Nat, PiecesInv, BlocksInv, secure \in BOOLEAN,
         s.doing = "reading", ReaderInv(s, came), BlockFound(s.incoming)
  PROVE  ReaderInv(Turn(s), came) /\ Measure(Turn(s)) < Measure(s)
<1> DEFINE in == s.incoming
           p == s.response
<1>1. /\ text \in Bytes /\ stream \in Bytes /\ Len(text) \in Nat /\ Len(stream) \in Nat
      /\ Len(blocks) \in Nat
  BY Lengths DEF PiecesInv, BlocksInv
<1>2. /\ in \in Bytes /\ Len(in) \in Nat /\ p \in ResponseType /\ s.counter \in Nat
      /\ p.raw \in Bytes /\ Len(p.raw) \in Nat
  BY ReaderParts
<1>3. secure
  <2>1. Len(<<>>) = 0
    OBVIOUS
  <2> QED BY <1>2, <2>1 DEF ReaderInv, BufferInv, BlockFound
<1>4. PICK c \in Nat : c = s.counter
  BY <1>2
<1>5. /\ c < Len(blocks) /\ came <= Len(stream) /\ blocks[c + 1].wire <= came
      /\ in = Slice(stream, blocks[c + 1].wire, came)
  BY <1>3, <1>4 DEF ReaderInv, BufferInv
<1>6. PICK i \in 1..Len(blocks) : i = c + 1
  BY <1>1, <1>5
<1>7. blocks[i].wire \in Nat
  <2>1. blocks[i] \in BlockType
    BY DEF BlocksInv
  <2> QED BY <2>1 DEF BlockType
<1>8. i < Len(blocks)
  <2> SUFFICES ASSUME i = Len(blocks) PROVE FALSE
    BY <1>1
  <2>1. blocks[i].wire = Len(stream)
    BY DEF BlocksInv
  <2>2. came = blocks[i].wire
    BY <1>1, <1>5, <1>6, <1>7, <2>1
  <2>3. in = <<>>
    BY <1>1, <1>5, <1>6, <2>2, EmptySlice
  <2> QED BY <2>3 DEF BlockFound
<1>9. PICK bw \in Nat, bp \in Nat, dw \in Nat, dp \in Nat, n \in Nat :
        /\ bw = blocks[i].wire /\ bp = blocks[i].plain
        /\ dw = blocks[i + 1].wire /\ dp = blocks[i + 1].plain
        /\ bp < dp /\ dp <= Len(text) /\ dw <= Len(stream) /\ n = dp - bp /\ dw = bw + n + 3
        /\ Slice(stream, bw, dw) = Block(Slice(text, bp, dp), i - 1)
  <2>1. LET b == blocks[i]
            d == blocks[i + 1]
        IN  /\ b.wire \in Nat /\ b.plain \in Nat /\ d.wire \in Nat /\ d.plain \in Nat
            /\ b.plain < d.plain /\ d.plain <= Len(text) /\ d.wire <= Len(stream)
            /\ d.wire = b.wire + (d.plain - b.plain) + 3
            /\ Slice(stream, b.wire, d.wire) = Block(Slice(text, b.plain, d.plain), i - 1)
    BY <1>1, <1>8, BlockFacts
  <2>2. PICK bw \in Nat, bp \in Nat, dw \in Nat, dp \in Nat :
          bw = blocks[i].wire /\ bp = blocks[i].plain
          /\ dw = blocks[i + 1].wire /\ dp = blocks[i + 1].plain
    BY <2>1
  <2>3. /\ bp < dp /\ dp <= Len(text) /\ dw <= Len(stream) /\ dw = bw + (dp - bp) + 3
        /\ Slice(stream, bw, dw) = Block(Slice(text, bp, dp), i - 1)
    BY <2>1, <2>2
  <2>4. PICK n \in Nat : n = dp - bp
    BY <2>3
  <2> QED BY <2>2, <2>3, <2>4
<1>90. /\ bp < dp /\ bp <= dp /\ dp <= Len(text) /\ dw <= Len(stream) /\ n = dp - bp /\ n > 0
       /\ dw = bw + n + 3
  <2>1. bp < dp /\ dp <= Len(text) /\ dw <= Len(stream) /\ n = dp - bp /\ dw = bw + n + 3
    BY <1>9
  <2>2. bp <= dp /\ n > 0
    <3>1. bp < dp /\ n = dp - bp
      BY <2>1
    <3> QED BY <3>1
  <2> QED BY <2>1, <2>2
<1> DEFINE data == Slice(text, bp, dp)
           b == Block(data, c)
<1>10. data \in Bytes /\ Len(data) = n /\ n > 0
  BY <1>1, <1>90, SliceProperties
<1>11. Slice(stream, bw, dw) = b
  BY <1>6, <1>9
<1> HIDE DEF data
<1>12. /\ b \in Bytes /\ Len(b) = n + 3 /\ b[1] + 256 * b[2] = n
       /\ b[1] \in Int /\ b[2] \in Int
       /\ b[n + 3] = c /\ Slice(b, 2, n + 2) = data
  BY <1>10, BlockBytes
<1> HIDE DEF b
<1>13. bw <= dw /\ dw <= Len(stream) /\ bw <= came /\ came <= Len(stream)
       /\ in = Slice(stream, bw, came)
  BY <1>5, <1>6, <1>9
<1>14. /\ Len(in) = came - bw
       /\ \A k \in 1..(came - bw) : in[k] = stream[bw + k]
  <2>1. /\ Len(Slice(stream, bw, came)) = came - bw
        /\ \A k \in 1..(came - bw) : Slice(stream, bw, came)[k] = stream[bw + k]
    BY <1>1, <1>13, SliceProperties
  <2> QED BY <1>13, <2>1
<1>15. \A k \in 1..(dw - bw) : b[k] = stream[bw + k]
  <2>1. \A k \in 1..(dw - bw) : Slice(stream, bw, dw)[k] = stream[bw + k]
    BY <1>1, <1>13, SliceProperties
  <2> QED BY <1>11, <2>1
<1>16. in[1] + 256 * in[2] = n
  <2>1. Len(in) >= 2
    BY DEF BlockFound
  <2> HIDE DEF in
  <2>2. came - bw >= 2 /\ dw - bw >= 3
    BY <1>90, <1>14, <2>1
  <2>3. in[1] = stream[bw + 1] /\ in[2] = stream[bw + 2]
    BY <1>14, <2>2
  <2>4. b[1] = stream[bw + 1] /\ b[2] = stream[bw + 2]
    BY <1>15, <2>2
  <2> QED BY <1>12, <2>3, <2>4
<1>17. dw <= came
  <2>1. Len(in) >= n + 3
    BY <1>16 DEF BlockFound
  <2> HIDE DEF in
  <2> QED BY <1>90, <1>14, <2>1
<1>18. in[n + 3] = c
  <2> HIDE DEF in
  <2>1. n + 3 \in 1..(came - bw) /\ n + 3 \in 1..(dw - bw)
    BY <1>90, <1>17
  <2> QED BY <1>12, <1>14, <1>15, <2>1
<1>19. Slice(in, 2, n + 2) = data
  <2>1. PICK u \in Nat, v \in Nat : u = 2 /\ v = n + 2
    OBVIOUS
  <2>2. u <= v /\ v <= came - bw /\ v <= dw - bw
    BY <1>90, <1>17, <2>1
  <2>3. Slice(Slice(stream, bw, came), u, v) = Slice(stream, bw + u, bw + v)
    BY <1>1, <1>13, <2>2, SliceOfSlice
  <2>4. Slice(Slice(stream, bw, dw), u, v) = Slice(stream, bw + u, bw + v)
    BY <1>1, <1>13, <2>2, SliceOfSlice
  <2>5. Slice(in, u, v) = Slice(b, u, v)
    BY <1>11, <1>13, <2>3, <2>4
  <2> QED BY <1>12, <2>1, <2>5
<1> DEFINE rest == Slice(in, n + 3, Len(in))
<1>20. rest = Slice(stream, dw, came) /\ rest \in Bytes /\ Len(rest) = came - dw
  <2>1. PICK u \in Nat, v \in Nat : u = n + 3 /\ v = came - bw
    BY <1>13
  <2>2. u <= v /\ v <= came - bw
    BY <1>90, <1>17, <2>1
  <2>3. Slice(Slice(stream, bw, came), u, v) = Slice(stream, bw + u, bw + v)
    BY <1>1, <1>13, <2>2, SliceOfSlice
  <2>4. bw + u = dw /\ bw + v = came
    BY <1>90, <1>13, <2>1
  <2>5. Slice(stream, dw, came) \in Bytes /\ Len(Slice(stream, dw, came)) = came - dw
    BY <1>1, <1>13, <1>17, SliceProperties
  <2>6. rest = Slice(Slice(stream, bw, came), u, v)
    BY <1>13, <1>14, <2>1
  <2> QED BY <2>3, <2>4, <2>5, <2>6
<1> HIDE DEF rest
<1> DEFINE q == [p EXCEPT !.raw = @ \o data]
           t == Reader(rest, q, c + 1, s.received, "parsing")
<1>21. Turn(s) = t
  <2>1. s.doing # "parsing"
    OBVIOUS
  <2>2. Turn(s) = Decrypt(s)
    BY <2>1 DEF Turn
  <2>3. data # <<>>
    BY <1>10
  <2>4. s.incoming[s.incoming[1] + 256 * s.incoming[2] + 3] = s.counter
    BY <1>4, <1>16, <1>18
  <2>5. Decrypt(s) = Reader(rest, [s.response EXCEPT !.raw = @ \o data], s.counter + 1,
                            s.received, "parsing")
    <3>1. Slice(s.incoming, 2, s.incoming[1] + 256 * s.incoming[2] + 2) = data
      BY <1>16, <1>19
    <3>2. Slice(s.incoming, s.incoming[1] + 256 * s.incoming[2] + 3, Len(s.incoming)) = rest
      BY <1>16 DEF rest
    <3> QED BY <2>3, <2>4, <3>1, <3>2, Zenon DEF Decrypt
  <2> QED BY <1>4, <2>2, <2>5
<1>22. /\ q \in ResponseType /\ q.raw = p.raw \o data /\ Len(q.raw) = Len(p.raw) + n
       /\ q.state = p.state /\ q.chunked = p.chunked /\ q.empty = p.empty
       /\ q.length = p.length /\ q.name = p.name /\ q.body = p.body
  <2>1. p.raw \o data \in Bytes /\ Len(p.raw \o data) = Len(p.raw) + n
    BY <1>2, <1>10, Joined
  <2>2. PICK r \in ResponseType : r = p
    BY <1>2
  <2>3. PICK w \in Bytes : w = r.raw \o data
    BY <2>1, <2>2
  <2>4. /\ [r EXCEPT !.raw = w] \in ResponseType /\ [r EXCEPT !.raw = w].raw = w
        /\ [r EXCEPT !.raw = w].state = r.state /\ [r EXCEPT !.raw = w].chunked = r.chunked
        /\ [r EXCEPT !.raw = w].empty = r.empty /\ [r EXCEPT !.raw = w].length = r.length
        /\ [r EXCEPT !.raw = w].name = r.name /\ [r EXCEPT !.raw = w].body = r.body
    BY DEF ResponseType
  <2>5. q = [r EXCEPT !.raw = w]
    BY <2>2, <2>3
  <2> QED BY <2>1, <2>2, <2>3, <2>4, <2>5
<1> HIDE DEF q
<1>23. /\ t.incoming = rest /\ t.response = q /\ t.counter = c + 1
       /\ t.received = s.received /\ t.doing = "parsing"
  BY ReaderFields
<1>24. t \in ReaderType
  BY <1>20, <1>22, ReaderParts DEF ReaderType, Reader
<1> HIDE DEF t
<1>25. BufferInv(t, came)
  <2>1. c + 1 < Len(blocks) /\ (c + 1) + 1 = i + 1
    BY <1>1, <1>6, <1>8
  <2>2. blocks[t.counter + 1].wire = dw
    BY <1>9, <1>23, <2>1
  <2> QED BY <1>3, <1>13, <1>17, <1>20, <1>23, <2>1, <2>2 DEF BufferInv
<1>26. Fed(t, came) = dp /\ Fed(s, came) = bp
  <2>1. (c + 1) + 1 = i + 1
    BY <1>6
  <2> QED BY <1>3, <1>4, <1>6, <1>9, <1>23, <2>1 DEF Fed
<1>27. ParserInv(t, dp)
  <2>1. PICK j \in 1..Len(pieces), at \in 0..Len(text) : At(s, j, at, bp)
    BY <1>26 DEF ReaderInv, ParserInv
  <2> DEFINE e == pieces[j]
  <2>2. e.end <= at /\ at <= bp /\ p.raw = Slice(text, at, bp) /\ at \in Nat
    BY <1>1, <2>1 DEF At
  <2>3. q.raw = Slice(text, at, dp)
    <3>0. PICK from \in Nat : from = at
      BY <2>2
    <3>1. from <= bp /\ bp <= dp /\ dp <= Len(text) /\ text \in Bytes
      BY <1>1, <1>90, <2>2, <3>0
    <3>3. Slice(text, from, bp) \o Slice(text, bp, dp) = Slice(text, from, dp)
      BY <3>1, SliceJoined
    <3>2. Slice(text, at, bp) \o Slice(text, bp, dp) = Slice(text, at, dp)
      BY <3>0, <3>3
    <3> QED BY <1>22, <2>2, <3>2 DEF data
  <2>4. Given(t, e) <=> Given(s, e)
    BY <1>23 DEF Given
  <2>5. Given(s, e) => at = e.end /\ Afresh(t.response)
    BY <1>22, <1>23, <2>1 DEF At, Afresh
  <2>6. ~Given(s, e) => Within(t, e, at)
    <3>1. Holds(p, e) => Holds(q, e)
      BY <1>22 DEF Holds
    <3> QED BY <1>22, <1>23, <2>1, <3>1 DEF At, Within
  <2>7. at <= dp
    BY <1>90, <2>2
  <2>8. At(t, j, at, dp)
    BY <1>23, <2>2, <2>3, <2>4, <2>5, <2>6, <2>7 DEF At
  <2> QED BY <2>8 DEF ParserInv
<1>28. ReaderInv(t, came)
  BY <1>23, <1>24, <1>25, <1>26, <1>27 DEF ReaderInv
<1>29. Measure(t) < Measure(s)
  <2>1. Measure(t) \in Nat /\ Measure(t) <= Len(t.incoming) + Len(t.response.raw) + 2
    BY <1>24, MeasureIs
  <2>2. Measure(s) \in Nat /\ Measure(s) >= Len(in) + Len(p.raw)
    BY MeasureIs
  <2>3. Measure(t) <= (came - dw) + (Len(p.raw) + n) + 2
    BY <1>20, <1>22, <1>23, <2>1
  <2>4. Measure(s) >= (came - bw) + Len(p.raw)
    BY <1>14, <2>2
  <2>5. PICK l \in Nat : l = Len(p.raw)
    BY <1>2
  <2>6. PICK m \in Nat, o \in Nat : m = Measure(s) /\ o = Measure(t)
    BY <2>1, <2>2
  <2>7. o <= (came - dw) + (l + n) + 2 /\ m >= (came - bw) + l
    BY <2>3, <2>4, <2>5, <2>6
  <2>8. o < m
    BY <1>90, <2>7
  <2> QED BY <2>6, <2>8
<1> QED BY <1>21, <1>28, <1>29

-----------------------------------------------------------------------------
(* The loops.                                                                *)

LEMMA FedIs ==
  ASSUME PiecesInv, BlocksInv, secure \in BOOLEAN,
         NEW s \in ReaderType, NEW came \in Nat, BufferInv(s, came)
  PROVE  Fed(s, came) \in Nat /\ Fed(s, came) <= Len(text)
<1>1. text \in Bytes /\ Len(text) \in Nat /\ Len(blocks) \in Nat /\ s.counter \in Nat
  BY Lengths, ReaderParts DEF PiecesInv, BlocksInv
<1>2. CASE secure
  <2>1. PICK i \in 1..Len(blocks) : i = s.counter + 1
    BY <1>1, <1>2 DEF BufferInv
  <2>2. blocks[i] \in BlockType
    BY DEF BlocksInv
  <2>3. blocks[i].plain \in Nat
    BY <2>2 DEF BlockType
  <2>4. blocks[i].plain <= Len(text)
    <3>1. CASE i = Len(blocks)
      BY <3>1 DEF BlocksInv
    <3>2. CASE i < Len(blocks)
      <4>1. /\ blocks[i + 1].plain \in Nat
            /\ blocks[i].plain < blocks[i + 1].plain /\ blocks[i + 1].plain <= Len(text)
        BY <1>1, <3>2, BlockFacts
      <4> QED BY <1>1, <2>3, <4>1
    <3> QED BY <1>1, <3>1, <3>2
  <2> QED BY <1>2, <2>1, <2>3, <2>4 DEF Fed
<1>3. CASE ~secure
  BY <1>3 DEF Fed, BufferInv
<1> QED BY <1>2, <1>3

(* A turn that is made keeps the reader's place and uses something up.       *)
LEMMA TurnKeeps ==
  ASSUME PiecesInv, BlocksInv, secure \in BOOLEAN,
         NEW s, NEW came, ReaderInv(s, came), ~Resting(s)
  PROVE  ReaderInv(Turn(s), came) /\ Measure(Turn(s)) < Measure(s)
<1>1. s \in ReaderType /\ came \in Nat /\ BufferInv(s, came) /\ s.doing \in {"reading", "parsing"}
  BY DEF ReaderInv, ReaderType
<1>2. CASE s.doing = "parsing"
  <2>1. PICK upto \in Nat : upto = Fed(s, came) /\ upto <= Len(text)
    BY <1>1, FedIs
  <2>2. ReceivedInv(s.received) /\ ParserInv(s, upto)
    BY <2>1 DEF ReaderInv
  <2>3. Goes(s, Turn(s), upto)
    BY <1>1, <1>2, <2>1, <2>2, ParserTurn
  <2>4. PICK t : t = Turn(s)
    OBVIOUS
  <2>5. /\ t \in ReaderType /\ t.doing # "broken"
        /\ t.incoming = s.incoming /\ t.counter = s.counter
        /\ ParserInv(t, upto) /\ ReceivedInv(t.received)
        /\ Measure(t) < Measure(s)
    BY <2>3, <2>4 DEF Goes
  <2>6. BufferInv(t, came)
    BY <1>1, <2>5 DEF BufferInv
  <2>7. Fed(t, came) = upto
    BY <2>1, <2>5 DEF Fed
  <2>8. ReaderInv(t, came)
    BY <1>1, <2>5, <2>6, <2>7 DEF ReaderInv
  <2> QED BY <2>4, <2>5, <2>8
<1>3. CASE s.doing = "reading"
  <2>1. BlockFound(s.incoming)
    BY <1>3 DEF Resting
  <2> QED BY <1>1, <1>3, <2>1, DecryptTurn
<1> QED BY <1>1, <1>2, <1>3

LEMMA RestingTurn ==
  ASSUME NEW s, Resting(s)
  PROVE  Turn(s) = s
  BY DEF Resting, Turn

(* The loops end, and end where nothing more can be taken.                   *)
LEMMA HandledKeeps ==
  ASSUME PiecesInv, BlocksInv, secure \in BOOLEAN,
         NEW s, NEW came, ReaderInv(s, came)
  PROVE  ReaderInv(Handled(s), came) /\ Resting(Handled(s))
<1>1. PICK after :
        /\ after[0] = s /\ \A n \in Nat : after[n + 1] = Turn(after[n])
        /\ Handled(s) = after[Len(s.incoming) + Len(s.response.raw) + 2]
  BY HandledRuns
<1>2. s \in ReaderType
  BY DEF ReaderInv
<1>3. PICK N \in Nat : N = Len(s.incoming) + Len(s.response.raw) + 2
  <2>1. PICK k \in Nat, l \in Nat : k = Len(s.incoming) /\ l = Len(s.response.raw)
    BY <1>2, ReaderParts
  <2>2. k + l + 2 \in Nat
    OBVIOUS
  <2> QED BY <2>1, <2>2
<1>4. PICK m \in Nat : m = Measure(s) /\ m <= N
  BY <1>2, <1>3, MeasureIs
<1> DEFINE Good(n) == /\ ReaderInv(after[n], came)
                      /\ Resting(after[n]) \/ Measure(after[n]) + n <= m
           S == {n \in Nat : Good(n)}
<1>5. 0 \in S
  <2>1. m + 0 = m /\ m <= m
    OBVIOUS
  <2> QED BY <1>1, <1>4, <2>1
<1>6. ASSUME NEW n \in Nat, n \in S PROVE n + 1 \in S
  <2>1. Good(n)
    BY <1>6
  <2>2. after[n + 1] = Turn(after[n])
    BY <1>1
  <2>3. CASE Resting(after[n])
    <3>1. after[n + 1] = after[n]
      BY <2>2, <2>3, RestingTurn
    <3>2. Good(n + 1)
      BY <2>1, <2>3, <3>1
    <3> QED BY <3>2
  <2>4. CASE ~Resting(after[n])
    <3>1. ReaderInv(after[n + 1], came) /\ Measure(after[n + 1]) < Measure(after[n])
      BY <2>1, <2>2, <2>4, TurnKeeps
    <3>2. Measure(after[n + 1]) \in Nat /\ Measure(after[n]) \in Nat
      BY <2>1, <3>1, MeasureIs DEF ReaderInv
    <3>3. Measure(after[n]) + n <= m
      BY <2>1, <2>4
    <3>4. Measure(after[n + 1]) + (n + 1) <= m
      BY <3>1, <3>2, <3>3
    <3>5. Good(n + 1)
      BY <3>1, <3>4
    <3> QED BY <3>5
  <2> QED BY <2>3, <2>4
<1>7. \A n \in Nat : n \in S
  <2> HIDE DEF S
  <2> QED BY <1>5, <1>6, InductionOverSet
<1>8. Good(N)
  BY <1>7
<1>9. Resting(after[N])
  <2> SUFFICES ASSUME ~Resting(after[N]) PROVE FALSE
    OBVIOUS
  <2>1. Measure(after[N]) + N <= m
    BY <1>8
  <2>2. ReaderInv(Turn(after[N]), came) /\ Measure(Turn(after[N])) < Measure(after[N])
    BY <1>8, TurnKeeps
  <2>3. Measure(Turn(after[N])) \in Nat /\ Measure(after[N]) \in Nat
    BY <1>8, <2>2, MeasureIs DEF ReaderInv
  <2> QED BY <1>4, <2>1, <2>2, <2>3
<1> QED BY <1>1, <1>3, <1>8, <1>9

-----------------------------------------------------------------------------
(* What the accessory does.                                                  *)

(* A piece more: what was written before stays where it is.                  *)
LEMMA WriteKeeps ==
  ASSUME StreamInv, NEW bytes \in Bytes, bytes # <<>>, NEW f \in PieceType,
         f.end = Len(text) + Len(bytes), Follows(Latest, f, bytes),
         text' = text \o bytes, pieces' = Append(pieces, f),
         UNCHANGED <<secure, stream, blocks, readerVars>>
  PROVE  StreamInv'
<1>1. /\ secure \in BOOLEAN /\ PiecesInv /\ BlocksInv /\ ReaderInv(Now, arrived) /\ Resting(Now)
      /\ text \in Bytes /\ Len(text) \in Nat /\ Len(pieces) \in Nat /\ Len(blocks) \in Nat
      /\ Len(bytes) \in Nat /\ Len(bytes) > 0
      /\ Len(stream) \in Nat
  <2>1. secure \in BOOLEAN /\ PiecesInv /\ BlocksInv /\ ReaderInv(Now, arrived) /\ Resting(Now)
    BY DEF StreamInv
  <2>2. text \in Bytes /\ Len(text) \in Nat /\ Len(pieces) \in Nat
    BY <2>1, Lengths DEF PiecesInv
  <2>3. Len(blocks) \in Nat /\ Len(stream) \in Nat
    BY <2>1, Lengths DEF BlocksInv
  <2>4. Len(bytes) \in Nat /\ Len(bytes) > 0
    BY Lengths
  <2> QED BY <2>1, <2>2, <2>3, <2>4
<1>2. PICK l \in Nat : l = Len(pieces) /\ l >= 1
  BY <1>1 DEF PiecesInv
<1>3. PICK m \in Nat : m = Len(text)
  BY <1>1
<1>4. /\ text' \in Bytes /\ Len(text') = m + Len(bytes)
      /\ \A i, k \in Nat : i <= k /\ k <= m => Slice(text', i, k) = Slice(text, i, k)
      /\ Slice(text', m, f.end) = bytes
  <2>1. text' \in Bytes /\ Len(text') = m + Len(bytes)
    BY <1>1, <1>3, Joined
  <2>2. \A i, k \in Nat : i <= k /\ k <= m => Slice(text', i, k) = Slice(text, i, k)
    BY <1>1, <1>3, SliceOfJoined
  <2>3. Slice(text', m, f.end) = bytes
    BY <1>1, <1>3, SliceOfRest
  <2> QED BY <2>1, <2>2, <2>3
<1>5. /\ pieces' \in Seq(PieceType) /\ Len(pieces') = l + 1 /\ pieces'[l + 1] = f
      /\ \A i \in 1..l : pieces'[i] = pieces[i]
  <2>1. pieces \in Seq(PieceType)
    BY <1>1 DEF PiecesInv
  <2> QED BY <1>2, <2>1
<1>6. /\ pieces[1] = NoPiece /\ Latest = pieces[l] /\ Latest.end = m
      /\ \A i, k \in 1..l : i < k =>
           /\ pieces[i].end < pieces[k].end /\ pieces[i].nth <= pieces[k].nth
           /\ pieces[k].over => pieces[i].nth < pieces[k].nth
      /\ \A i \in 1..(l - 1) :
           Follows(pieces[i], pieces[i + 1], Slice(text, pieces[i].end, pieces[i + 1].end))
  BY <1>1, <1>2, <1>3 DEF PiecesInv, Latest
<1>7. \A i \in 1..l : pieces[i].end \in Nat /\ pieces[i].end <= m /\ pieces[i].nth \in Nat
  <2> SUFFICES ASSUME NEW i \in 1..l
               PROVE  pieces[i].end \in Nat /\ pieces[i].end <= m /\ pieces[i].nth \in Nat
    OBVIOUS
  <2>1. pieces[i] \in PieceType /\ pieces[i].end <= Len(text)
    BY <1>1, <1>2, PieceFacts
  <2> QED BY <1>3, <2>1 DEF PieceType
<1>8. /\ f.end \in Nat /\ f.nth \in Nat /\ m < f.end /\ f.end = Len(text')
      /\ f.nth = IF f.over THEN pieces[l].nth + 1 ELSE pieces[l].nth
  <2>1. f.nth = IF f.over THEN pieces[l].nth + 1 ELSE pieces[l].nth
    BY <1>6 DEF Follows, SameNumber
  <2>2. f.end \in Nat /\ f.nth \in Nat
    BY DEF PieceType
  <2> QED BY <1>1, <1>3, <1>4, <2>1, <2>2
<1>9. PiecesInv'
  <2>1. pieces' # <<>> /\ pieces'[1] = NoPiece /\ Latest' = f
    <3>1. 1 \in 1..l
      BY <1>2
    <3> QED BY <1>2, <1>5, <1>6, <3>1 DEF Latest
  <2>2. ASSUME NEW i \in 1..(l + 1), NEW k \in 1..(l + 1), i < k
        PROVE  /\ pieces'[i].end < pieces'[k].end /\ pieces'[i].nth <= pieces'[k].nth
               /\ pieces'[k].over => pieces'[i].nth < pieces'[k].nth
    <3>1. i \in 1..l /\ pieces'[i] = pieces[i]
      BY <1>5, <2>2
    <3>2. CASE k \in 1..l
      BY <1>5, <1>6, <2>2, <3>1, <3>2
    <3>3. CASE k = l + 1
      <4>1. pieces'[k] = f
        BY <1>5, <3>3
      <4>2. l \in 1..l
        BY <1>2
      <4>3. pieces[i].nth <= pieces[l].nth /\ pieces[i].nth \in Nat /\ pieces[l].nth \in Nat
        <5>1. CASE i = l
          BY <1>7, <4>2, <5>1
        <5>2. CASE i < l
          BY <1>6, <1>7, <3>1, <4>2, <5>2
        <5> QED BY <3>1, <5>1, <5>2
      <4>4. pieces[i].end < f.end
        BY <1>3, <1>7, <1>8, <3>1
      <4>5. pieces[i].nth <= f.nth /\ (f.over => pieces[i].nth < f.nth)
        BY <1>8, <4>3
      <4> QED BY <3>1, <4>1, <4>4, <4>5
    <3>4. k \in 1..l \/ k = l + 1
      BY <1>2
    <3> QED BY <3>2, <3>3, <3>4
  <2>3. ASSUME NEW i \in 1..l
        PROVE  Follows(pieces'[i], pieces'[i + 1], Slice(text', pieces'[i].end, pieces'[i + 1].end))
    <3>1. CASE i = l
      <4>1. pieces'[i] = Latest /\ pieces'[i + 1] = f /\ pieces'[i].end = m
        BY <1>5, <1>6, <3>1
      <4> QED BY <1>4, <4>1
    <3>2. CASE i < l
      <4>1. PICK k \in 1..l : k = i + 1 /\ i \in 1..(l - 1)
        BY <3>2
      <4>2. pieces'[i] = pieces[i] /\ pieces'[k] = pieces[k] /\ pieces[i].end < pieces[k].end
        BY <1>5, <1>6, <4>1
      <4>3. Slice(text', pieces[i].end, pieces[k].end) = Slice(text, pieces[i].end, pieces[k].end)
        BY <1>4, <1>7, <4>1, <4>2
      <4>4. Follows(pieces[i], pieces[i + 1], Slice(text, pieces[i].end, pieces[i + 1].end))
        BY <1>6, <4>1
      <4> QED BY <4>1, <4>2, <4>3, <4>4
    <3>3. i = l \/ i < l
      BY <1>2
    <3> QED BY <3>1, <3>2, <3>3, Zenon
  <2>4. \A i, k \in 1..Len(pieces') : i < k =>
          /\ pieces'[i].end < pieces'[k].end /\ pieces'[i].nth <= pieces'[k].nth
          /\ pieces'[k].over => pieces'[i].nth < pieces'[k].nth
    BY <1>5, <2>2
  <2>5. \A i \in 1..(Len(pieces') - 1) :
          Follows(pieces'[i], pieces'[i + 1], Slice(text', pieces'[i].end, pieces'[i + 1].end))
    <3>1. Len(pieces') - 1 = l
      BY <1>5
    <3> QED BY <2>3, <3>1
  <2> QED BY <1>4, <1>5, <1>8, <2>1, <2>4, <2>5 DEF PiecesInv
<1>10. stream' = stream /\ blocks' = blocks /\ secure' = secure /\ arrived' = arrived
       /\ Now' = Now
  BY DEF readerVars, Now
<1>11. BlocksInv'
  <2>1. ASSUME NEW i \in 1..(Len(blocks) - 1)
        PROVE  Slice(text', blocks[i].plain, blocks[i + 1].plain)
                 = Slice(text, blocks[i].plain, blocks[i + 1].plain)
    <3>1. i \in 1..Len(blocks) /\ i < Len(blocks)
      BY <1>1
    <3>2. /\ blocks[i].plain \in Nat /\ blocks[i + 1].plain \in Nat
          /\ blocks[i].plain < blocks[i + 1].plain /\ blocks[i + 1].plain <= Len(text)
      BY <1>1, <3>1, BlockFacts
    <3>3. PICK g \in Nat, h \in Nat : g = blocks[i].plain /\ h = blocks[i + 1].plain
      BY <3>2
    <3>4. g <= h /\ h <= m
      BY <1>3, <3>2, <3>3
    <3> QED BY <1>4, <3>3, <3>4
  <2>2. blocks[Len(blocks)].plain <= Len(text')
    <3>1. Len(blocks) \in 1..Len(blocks)
      BY <1>1 DEF BlocksInv
    <3>2. blocks[Len(blocks)] \in BlockType
      BY <1>1, <3>1 DEF BlocksInv
    <3>3. blocks[Len(blocks)].plain \in Nat /\ blocks[Len(blocks)].plain <= m
      BY <1>1, <1>3, <3>2 DEF BlocksInv, BlockType
    <3> QED BY <1>1, <1>4, <3>3
  <2>3. /\ stream \in Bytes /\ blocks \in Seq(BlockType) /\ blocks # <<>>
        /\ blocks[1] = NoBlock /\ blocks[Len(blocks)].wire = Len(stream)
        /\ \A i, k \in 1..Len(blocks) : i < k =>
             blocks[i].wire < blocks[k].wire /\ blocks[i].plain < blocks[k].plain
    BY <1>1 DEF BlocksInv
  <2>4. ASSUME NEW i \in 1..(Len(blocks) - 1)
        PROVE  /\ blocks[i + 1].wire = blocks[i].wire + (blocks[i + 1].plain - blocks[i].plain) + 3
               /\ Slice(stream, blocks[i].wire, blocks[i + 1].wire)
                    = Block(Slice(text, blocks[i].plain, blocks[i + 1].plain), i - 1)
    BY <1>1 DEF BlocksInv
  <2>5. \A i \in 1..(Len(blocks) - 1) :
          /\ blocks[i + 1].wire = blocks[i].wire + (blocks[i + 1].plain - blocks[i].plain) + 3
          /\ Slice(stream, blocks[i].wire, blocks[i + 1].wire)
               = Block(Slice(text', blocks[i].plain, blocks[i + 1].plain), i - 1)
    BY <2>1, <2>4
  <2> QED BY <1>10, <2>2, <2>3, <2>5 DEF BlocksInv
<1>12. PICK s \in ReaderType, came \in Nat : s = Now /\ came = arrived
  BY <1>1 DEF ReaderInv
<1>13. /\ s.doing # "broken" /\ BufferInv(s, came) /\ ParserInv(s, Fed(s, came))
       /\ ReceivedInv(s.received) /\ Resting(s)
  BY <1>1, <1>12 DEF ReaderInv
<1>14. PICK upto \in Nat : upto = Fed(s, came) /\ upto <= m
  BY <1>1, <1>3, <1>13, FedIs
<1>15. BufferInv(s, came)'
  <2>1. m <= Len(text')
    BY <1>1, <1>4
  <2>2. CASE secure
    BY <1>10, <1>13, <2>2 DEF BufferInv
  <2>3. CASE ~secure
    <3>1. s.counter = 0 /\ came <= m /\ s.incoming = <<>>
      BY <1>3, <1>13, <2>3 DEF BufferInv
    <3>2. came <= Len(text')
      BY <1>1, <1>4, <3>1
    <3> QED BY <1>10, <2>3, <3>1, <3>2 DEF BufferInv
  <2> QED BY <2>2, <2>3
<1>16. Fed(s, came)' = upto
  BY <1>10, <1>14 DEF Fed
<1>17. PICK j \in 1..l, at \in 0..m : At(s, j, at, upto)
  BY <1>2, <1>3, <1>13, <1>14 DEF ParserInv
<1>18. /\ at \in Nat /\ at <= upto /\ pieces'[j] = pieces[j]
       /\ pieces[j].end <= at /\ pieces[j].end \in Nat
       /\ Slice(text', at, upto) = Slice(text, at, upto)
       /\ Slice(text', pieces[j].end, at) = Slice(text, pieces[j].end, at)
  <2>1. at \in Nat /\ at <= upto /\ pieces[j].end <= at /\ at <= m
    BY <1>3, <1>17 DEF At
  <2> QED BY <1>4, <1>5, <1>7, <1>14, <1>17, <2>1
<1>19. At(s, j, at, upto)'
  <2>1. s.response.raw = Slice(text', at, upto)
    BY <1>17, <1>18 DEF At
  <2>2. Given(s, pieces[j]) => at = pieces[j].end /\ Afresh(s.response)
    BY <1>17 DEF At
  <2>3. ~Given(s, pieces[j]) => Within(s, pieces[j], at)'
    <3>1. ~Given(s, pieces[j]) => Within(s, pieces[j], at)
      BY <1>17 DEF At
    <3> QED BY <1>18, <3>1 DEF Within
  <2>4. ASSUME s.doing = "reading", j < Len(pieces') PROVE upto < pieces'[j + 1].end
    <3>1. CASE j = l
      <4>1. pieces'[j + 1] = f
        BY <1>5, <3>1
      <4> QED BY <1>8, <1>14, <4>1
    <3>2. CASE j < l
      <4>1. PICK k \in 1..l : k = j + 1
        BY <3>2
      <4>2. pieces'[k] = pieces[k]
        BY <1>5
      <4>3. upto < pieces[j + 1].end
        BY <1>2, <1>17, <2>4, <3>2 DEF At
      <4> QED BY <4>1, <4>2, <4>3
    <3>3. j = l \/ j < l
      BY <1>2
    <3> QED BY <3>1, <3>2, <3>3, Zenon
  <2>5. Given(s, pieces[j])' <=> Given(s, pieces[j])
    BY <1>18 DEF Given
  <2> QED BY <1>18, <2>1, <2>2, <2>3, <2>4, <2>5 DEF At
<1>20. ParserInv(s, upto)'
  <2>1. j \in 1..Len(pieces') /\ at \in 0..Len(text')
    BY <1>1, <1>4, <1>5, <1>17
  <2> QED BY <1>19, <2>1 DEF ParserInv
<1>21. ReceivedInv(s.received)'
  <2>1. ASSUME NEW k \in 1..Len(s.received)
        PROVE  \E i \in 1..Len(pieces') :
                 /\ pieces'[i].over /\ pieces'[i].nth = k
                 /\ s.received[k] = [name |-> pieces'[i].name, body |-> pieces'[i].body]
    <3>1. PICK i \in 1..Len(pieces) :
            /\ pieces[i].over /\ pieces[i].nth = k
            /\ s.received[k] = [name |-> pieces[i].name, body |-> pieces[i].body]
      BY <1>13 DEF ReceivedInv
    <3>2. i \in 1..Len(pieces') /\ pieces'[i] = pieces[i]
      BY <1>2, <1>5
    <3> QED BY <3>1, <3>2
  <2> QED BY <2>1 DEF ReceivedInv
<1>22. ReaderInv(s, came)'
  BY <1>12, <1>13, <1>15, <1>16, <1>20, <1>21 DEF ReaderInv
<1>23. ReaderInv(Now, arrived)' /\ Resting(Now)'
  BY <1>10, <1>12, <1>13, <1>22 DEF Resting
<1> QED BY <1>1, <1>9, <1>10, <1>11, <1>23 DEF StreamInv

(* A block more.                                                             *)
LEMMA EncryptKeeps ==
  ASSUME StreamInv, NEW n \in Nat, n > 0, Encrypt(n)
  PROVE  StreamInv'
<1>1. /\ secure \in BOOLEAN /\ PiecesInv /\ BlocksInv /\ ReaderInv(Now, arrived) /\ Resting(Now)
      /\ text \in Bytes /\ Len(text) \in Nat /\ stream \in Bytes /\ Len(stream) \in Nat
      /\ blocks \in Seq(BlockType) /\ Len(blocks) \in Nat
  BY Lengths DEF StreamInv, PiecesInv, BlocksInv
<1>2. PICK l \in Nat, m \in Nat, from \in Nat, to \in Nat :
        l = Len(blocks) /\ m = Len(stream) /\ from = blocks[l].plain /\ l >= 1 /\ to = from + n
  <2>1. PICK l \in Nat : l = Len(blocks) /\ l >= 1
    BY <1>1 DEF BlocksInv
  <2>2. blocks[l] \in BlockType
    BY <1>1, <2>1
  <2>3. blocks[l].plain \in Nat
    BY <2>2 DEF BlockType
  <2> QED BY <1>1, <2>1, <2>3
<1> DEFINE data == Slice(text, from, to)
           b == Block(data, l - 1)
           d == [wire |-> m + n + 3, plain |-> to]
<1>3. /\ secure /\ to <= Len(text) /\ stream' = stream \o b /\ blocks' = Append(blocks, d)
      /\ text' = text /\ pieces' = pieces /\ secure' = secure /\ arrived' = arrived /\ Now' = Now
  BY <1>2 DEF Encrypt, readerVars, Now
<1>4. data \in Bytes /\ Len(data) = n
  <2>1. from <= to /\ to <= Len(text)
    BY <1>2, <1>3
  <2>2. data \in Bytes /\ Len(data) = to - from
    BY <1>1, <2>1, SliceProperties
  <2> HIDE DEF data
  <2> QED BY <1>2, <2>2
<1> HIDE DEF data
<1>5. b \in Bytes /\ Len(b) = n + 3
  <2>1. PICK c \in Nat : c = l - 1
    BY <1>2
  <2>2. PICK k \in Nat : k = n
    OBVIOUS
  <2>3. Block(data, c) \in Bytes /\ Len(Block(data, c)) = k + 3
    BY <1>4, <2>2, BlockBytes
  <2> QED BY <2>1, <2>2, <2>3
<1> HIDE DEF b
<1>6. /\ stream' \in Bytes /\ Len(stream') = m + n + 3
      /\ \A i, k \in Nat : i <= k /\ k <= m => Slice(stream', i, k) = Slice(stream, i, k)
      /\ Slice(stream', m, m + n + 3) = b
  <2>0. Len(b) \in Nat
    BY <1>5
  <2>1. stream' \in Bytes /\ Len(stream') = m + Len(b)
    BY <1>1, <1>2, <1>3, <1>5, Joined
  <2>2. ASSUME NEW i \in Nat, NEW k \in Nat, i <= k, k <= m
        PROVE  Slice(stream', i, k) = Slice(stream, i, k)
    <3>1. k <= Len(stream) /\ stream' = stream \o b
      BY <1>2, <1>3, <2>2
    <3>2. Slice(stream \o b, i, k) = Slice(stream, i, k)
      BY <1>1, <1>5, <2>2, <3>1, SliceOfJoined
    <3> QED BY <3>1, <3>2
  <2>3. Slice(stream', m, m + Len(b)) = b
    BY <1>1, <1>2, <1>3, <1>5, SliceOfRest
  <2>4. m + Len(b) = m + n + 3
    BY <1>5
  <2> QED BY <2>1, <2>2, <2>3, <2>4
<1>7. /\ blocks' \in Seq(BlockType) /\ Len(blocks') = l + 1 /\ blocks'[l + 1] = d
      /\ \A i \in 1..l : blocks'[i] = blocks[i]
  <2>1. d \in BlockType
    BY DEF BlockType
  <2> QED BY <1>1, <1>2, <1>3, <2>1
<1>8. /\ blocks[1] = NoBlock /\ blocks[l].wire = m
      /\ \A i, k \in 1..l : i < k =>
           blocks[i].wire < blocks[k].wire /\ blocks[i].plain < blocks[k].plain
  BY <1>1, <1>2 DEF BlocksInv
<1>9. \A i \in 1..l : /\ blocks[i].wire \in Nat /\ blocks[i].plain \in Nat
                      /\ blocks[i].wire <= m /\ blocks[i].plain <= from
  <2> SUFFICES ASSUME NEW i \in 1..l
               PROVE  /\ blocks[i].wire \in Nat /\ blocks[i].plain \in Nat
                      /\ blocks[i].wire <= m /\ blocks[i].plain <= from
    OBVIOUS
  <2>1. blocks[i] \in BlockType
    BY <1>1, <1>2
  <2>2. blocks[i].wire \in Nat /\ blocks[i].plain \in Nat
    BY <2>1 DEF BlockType
  <2>3. CASE i = l
    BY <1>2, <1>8, <2>2, <2>3
  <2>4. CASE i < l
    <3>1. l \in 1..l
      BY <1>2
    <3>2. blocks[i].wire < m /\ blocks[i].plain < from
      BY <1>2, <1>8, <2>4, <3>1
    <3> QED BY <1>2, <2>2, <3>2
  <2> QED BY <1>2, <2>3, <2>4
<1>10. BlocksInv'
  <2>1. blocks' # <<>> /\ blocks'[1] = NoBlock
    <3>1. 1 \in 1..l
      BY <1>2
    <3> QED BY <1>2, <1>7, <1>8, <3>1
  <2>2. blocks'[Len(blocks')].wire = Len(stream') /\ blocks'[Len(blocks')].plain <= Len(text')
    BY <1>3, <1>6, <1>7
  <2>3. ASSUME NEW i \in 1..(l + 1), NEW k \in 1..(l + 1), i < k
        PROVE  blocks'[i].wire < blocks'[k].wire /\ blocks'[i].plain < blocks'[k].plain
    <3>1. i \in 1..l /\ blocks'[i] = blocks[i]
      BY <1>7, <2>3
    <3>2. CASE k \in 1..l
      BY <1>7, <1>8, <2>3, <3>1, <3>2
    <3>3. CASE k = l + 1
      <4>1. blocks'[k].wire = m + n + 3 /\ blocks'[k].plain = to
        BY <1>7, <3>3
      <4>2. blocks[i].wire \in Nat /\ blocks[i].plain \in Nat
            /\ blocks[i].wire <= m /\ blocks[i].plain <= from
        BY <1>9, <3>1
      <4>3. blocks[i].wire < m + n + 3 /\ blocks[i].plain < to
        BY <1>2, <4>2
      <4> QED BY <3>1, <4>1, <4>3
    <3>4. k \in 1..l \/ k = l + 1
      BY <1>2
    <3> QED BY <3>2, <3>3, <3>4
  <2>4. ASSUME NEW i \in 1..l
        PROVE  /\ blocks'[i + 1].wire
                    = blocks'[i].wire + (blocks'[i + 1].plain - blocks'[i].plain) + 3
               /\ Slice(stream', blocks'[i].wire, blocks'[i + 1].wire)
                    = Block(Slice(text', blocks'[i].plain, blocks'[i + 1].plain), i - 1)
    <3>1. CASE i = l
      <4>1. blocks'[i].wire = m /\ blocks'[i].plain = from
            /\ blocks'[i + 1].wire = m + n + 3 /\ blocks'[i + 1].plain = to
        BY <1>2, <1>7, <1>8, <3>1
      <4>2. to - from = n
        BY <1>2
      <4>3. blocks'[i + 1].plain - blocks'[i].plain = n
        BY <4>1, <4>2
      <4>4. Slice(stream', blocks'[i].wire, blocks'[i + 1].wire)
              = Block(Slice(text', blocks'[i].plain, blocks'[i + 1].plain), i - 1)
        BY <1>3, <1>6, <3>1, <4>1 DEF b, data
      <4> QED BY <4>1, <4>3, <4>4
    <3>2. CASE i < l
      <4>1. PICK k \in 1..l : k = i + 1 /\ i \in 1..(Len(blocks) - 1)
        BY <1>2, <3>2
      <4>2. blocks'[i] = blocks[i] /\ blocks'[k] = blocks[k]
        BY <1>7, <4>1
      <4>3. /\ blocks[i + 1].wire = blocks[i].wire + (blocks[i + 1].plain - blocks[i].plain) + 3
            /\ Slice(stream, blocks[i].wire, blocks[i + 1].wire)
                 = Block(Slice(text, blocks[i].plain, blocks[i + 1].plain), i - 1)
        BY <1>1, <4>1 DEF BlocksInv
      <4>4. Slice(stream', blocks[i].wire, blocks[k].wire) = Slice(stream, blocks[i].wire, blocks[k].wire)
        <5>1. PICK g \in Nat, h \in Nat : g = blocks[i].wire /\ h = blocks[k].wire
          BY <1>9, <4>1
        <5>2. g <= h /\ h <= m
          BY <1>8, <1>9, <4>1, <5>1
        <5> QED BY <1>6, <5>1, <5>2
      <4> QED BY <1>3, <4>1, <4>2, <4>3, <4>4
    <3>3. i = l \/ i < l
      BY <1>2
    <3> QED BY <3>1, <3>2, <3>3, Zenon
  <2>5. \A i, k \in 1..Len(blocks') : i < k =>
          blocks'[i].wire < blocks'[k].wire /\ blocks'[i].plain < blocks'[k].plain
    BY <1>7, <2>3
  <2>6. \A i \in 1..(Len(blocks') - 1) :
          LET x == blocks'[i]
              y == blocks'[i + 1]
          IN /\ y.wire = x.wire + (y.plain - x.plain) + 3
             /\ Slice(stream', x.wire, y.wire) = Block(Slice(text', x.plain, y.plain), i - 1)
    <3>1. Len(blocks') - 1 = l
      BY <1>7
    <3> QED BY <2>4, <3>1, Zenon
  <2> QED BY <1>6, <1>7, <2>1, <2>2, <2>5, <2>6, Zenon DEF BlocksInv
<1>11. PiecesInv'
  BY <1>1, <1>3 DEF PiecesInv, Latest
<1>12. PICK s \in ReaderType, came \in Nat : s = Now /\ came = arrived
  BY <1>1 DEF ReaderInv
<1>13. /\ s.doing # "broken" /\ BufferInv(s, came) /\ ParserInv(s, Fed(s, came))
       /\ ReceivedInv(s.received) /\ Resting(s)
  BY <1>1, <1>12 DEF ReaderInv
<1>14. PICK c \in Nat, i \in 1..l : c = s.counter /\ i = c + 1
  <2>1. s.counter \in Nat /\ s.counter < l
    BY <1>2, <1>3, <1>13, ReaderParts DEF BufferInv
  <2> QED BY <1>2, <2>1
<1>15. blocks'[i] = blocks[i]
  BY <1>7
<1>16. BufferInv(s, came)'
  <2>1. came <= m /\ blocks[i].wire <= came /\ s.incoming = Slice(stream, blocks[i].wire, came)
    BY <1>2, <1>3, <1>13, <1>14 DEF BufferInv
  <2>2. s.incoming = Slice(stream', blocks[i].wire, came)
    <3>1. PICK g \in Nat : g = blocks[i].wire
      BY <1>9
    <3> QED BY <1>6, <2>1, <3>1
  <2>3. came <= Len(stream')
    BY <1>2, <1>6, <2>1
  <2>4. c < Len(blocks')
    BY <1>2, <1>7, <1>14
  <2> QED BY <1>3, <1>14, <1>15, <2>1, <2>2, <2>3, <2>4 DEF BufferInv
<1>17. Fed(s, came)' = Fed(s, came)
  BY <1>3, <1>14, <1>15 DEF Fed
<1>18. ParserInv(s, Fed(s, came))'
  BY <1>3, <1>13, <1>17 DEF ParserInv, At, Within, Given
<1>19. ReceivedInv(s.received)'
  BY <1>3, <1>13 DEF ReceivedInv
<1>20. ReaderInv(s, came)'
  BY <1>12, <1>13, <1>16, <1>18, <1>19 DEF ReaderInv
<1>21. ReaderInv(Now, arrived)' /\ Resting(Now)'
  BY <1>3, <1>12, <1>13, <1>20 DEF Resting
<1> QED BY <1>1, <1>3, <1>10, <1>11, <1>21 DEF StreamInv

-----------------------------------------------------------------------------
(* What TCP delivers.                                                        *)

LEMMA ReaderMade ==
  ASSUME NEW in \in Bytes, NEW p \in ResponseType, NEW k \in Nat,
         NEW out \in Seq([name : Int, body : Bytes])
  PROVE  Reader(in, p, k, out, "parsing") \in ReaderType
  BY DEF ReaderType, Reader

(* The state data_received finds, with the new bytes at the end of its buffer.*)
LEMMA FreshIsRead ==
  ASSUME StreamInv, NEW n \in Nat, arrived < n,
         n <= Len(IF secure THEN stream ELSE text),
         NEW s,
         s = IF secure
             THEN Reader(incoming \o Slice(stream, arrived, n), response,
                         counter, received, "reading")
             ELSE Reader(incoming, [response EXCEPT !.raw = @ \o Slice(text, arrived, n)],
                         counter, received, "parsing"),
         doing = "reading"
  PROVE  ReaderInv(s, n)
<1>1. /\ secure \in BOOLEAN /\ PiecesInv /\ BlocksInv /\ ReaderInv(Now, arrived)
      /\ text \in Bytes /\ Len(text) \in Nat /\ stream \in Bytes /\ Len(stream) \in Nat
  BY Lengths DEF StreamInv, PiecesInv, BlocksInv
<1>2. PICK r \in ReaderType, came \in Nat : r = Now /\ came = arrived
  BY <1>1 DEF ReaderInv
<1>3. /\ r.incoming = incoming /\ r.response = response /\ r.counter = counter
      /\ r.received = received /\ r.doing = doing
  BY <1>2, ReaderFields DEF Now
<1>4. /\ BufferInv(r, came) /\ ParserInv(r, Fed(r, came)) /\ ReceivedInv(r.received)
      /\ came < n
  BY <1>1, <1>2 DEF ReaderInv
<1>5. /\ incoming \in Bytes /\ response \in ResponseType /\ response.raw \in Bytes
      /\ counter \in Nat /\ received \in Seq([name : Int, body : Bytes])
  BY <1>3, ReaderParts
<1>6. CASE secure
  <2>1. s = Reader(incoming \o Slice(stream, arrived, n), response, counter, received, "reading")
    BY <1>6
  <2>2. /\ s.incoming = incoming \o Slice(stream, came, n) /\ s.response = response
        /\ s.counter = counter /\ s.received = received /\ s.doing = "reading"
    <3>1. PICK u : u = incoming \o Slice(stream, arrived, n)
      OBVIOUS
    <3>2. s = Reader(u, response, counter, received, "reading")
      BY <2>1, <3>1
    <3>3. s.incoming = u /\ s.response = response
          /\ s.counter = counter /\ s.received = received /\ s.doing = "reading"
      BY <3>2, ReaderFields
    <3> QED BY <1>2, <3>1, <3>3
  <2>3. came <= n /\ n <= Len(stream)
    BY <1>4, <1>6
  <2>4. Slice(stream, came, n) \in Bytes
    BY <1>1, <2>3, SliceProperties
  <2>5. s \in ReaderType
    <3>1. incoming \o Slice(stream, came, n) \in Bytes
      BY <1>5, <2>4, Joined
    <3> QED BY <1>2, <1>5, <2>1, <3>1 DEF ReaderType, Reader
  <2>6. PICK w \in Nat : w = blocks[counter + 1].wire
    <3>1. counter < Len(blocks) /\ Len(blocks) \in Nat
      BY <1>1, <1>3, <1>4, <1>6 DEF BufferInv, BlocksInv
    <3>2. PICK i \in 1..Len(blocks) : i = counter + 1
      BY <1>5, <3>1
    <3>3. blocks[i] \in BlockType
      BY <1>1 DEF BlocksInv
    <3> QED BY <3>2, <3>3 DEF BlockType
  <2>7. counter < Len(blocks) /\ w <= came /\ incoming = Slice(stream, w, came)
    BY <1>3, <1>4, <1>6, <2>6 DEF BufferInv
  <2>8. w <= n
    BY <2>3, <2>7
  <2>9. Slice(stream, w, came) \o Slice(stream, came, n) = Slice(stream, w, n)
    BY <1>1, <2>3, <2>7, SliceJoined
  <2>10. BufferInv(s, n)
    BY <1>6, <2>2, <2>3, <2>6, <2>7, <2>8, <2>9 DEF BufferInv
  <2>11. Fed(s, n) = Fed(r, came)
    BY <1>3, <1>6, <2>2 DEF Fed
  <2>12. ParserInv(s, Fed(s, n))
    BY <1>3, <1>4, <2>2, <2>11 DEF ParserInv, At, Within, Given
  <2> QED BY <1>3, <1>4, <2>2, <2>5, <2>10, <2>12 DEF ReaderInv
<1>7. CASE ~secure
  <2> DEFINE q == [response EXCEPT !.raw = @ \o Slice(text, arrived, n)]
  <2>1. s = Reader(incoming, q, counter, received, "parsing")
    BY <1>7
  <2>2. came <= n /\ n <= Len(text)
    BY <1>4, <1>7
  <2>3. /\ q \in ResponseType /\ q.raw = response.raw \o Slice(text, came, n)
        /\ q.state = response.state /\ q.chunked = response.chunked /\ q.empty = response.empty
        /\ q.length = response.length /\ q.name = response.name /\ q.body = response.body
    <3>1. Slice(text, came, n) \in Bytes
      BY <1>1, <2>2, SliceProperties
    <3>2. response.raw \o Slice(text, came, n) \in Bytes
      BY <1>5, <3>1, Joined
    <3>3. PICK p \in ResponseType : p = response
      BY <1>5
    <3>4. PICK v \in Bytes : v = p.raw \o Slice(text, came, n)
      BY <3>2, <3>3
    <3>5. /\ [p EXCEPT !.raw = v] \in ResponseType /\ [p EXCEPT !.raw = v].raw = v
          /\ [p EXCEPT !.raw = v].state = p.state /\ [p EXCEPT !.raw = v].chunked = p.chunked
          /\ [p EXCEPT !.raw = v].empty = p.empty /\ [p EXCEPT !.raw = v].length = p.length
          /\ [p EXCEPT !.raw = v].name = p.name /\ [p EXCEPT !.raw = v].body = p.body
      BY DEF ResponseType
    <3>6. q = [p EXCEPT !.raw = v]
      BY <1>2, <3>3, <3>4
    <3> QED BY <3>3, <3>4, <3>5, <3>6
  <2> HIDE DEF q
  <2>4. /\ s.incoming = incoming /\ s.response = q
        /\ s.counter = counter /\ s.received = received /\ s.doing = "parsing"
    BY <2>1, ReaderFields
  <2>5. s \in ReaderType
    <3>1. q \in ResponseType
      BY <2>3
    <3> QED BY <1>5, <2>1, <3>1, ReaderMade
  <2>6. BufferInv(s, n)
    BY <1>3, <1>4, <1>7, <2>2, <2>4 DEF BufferInv
  <2>7. Fed(s, n) = n /\ Fed(r, came) = came
    BY <1>7 DEF Fed
  <2>8. PICK j \in 1..Len(pieces), at \in 0..Len(text) : At(r, j, at, came)
    BY <1>4, <2>7 DEF ParserInv
  <2> DEFINE e == pieces[j]
  <2>9. e.end <= at /\ at <= came /\ response.raw = Slice(text, at, came) /\ at \in Nat
    BY <1>1, <1>3, <2>8 DEF At
  <2>10. q.raw = Slice(text, at, n)
    <3>0. PICK o \in Nat : o = at
      BY <2>9
    <3>1. o <= came /\ came <= n /\ n <= Len(text) /\ text \in Bytes
      BY <1>1, <2>2, <2>9, <3>0
    <3>2. Slice(text, o, came) \o Slice(text, came, n) = Slice(text, o, n)
      BY <3>1, SliceJoined
    <3> QED BY <2>3, <2>9, <3>0, <3>2
  <2>11. Given(s, e) <=> Given(r, e)
    BY <1>3, <2>4 DEF Given
  <2>12. Given(r, e) => at = e.end /\ Afresh(q)
    BY <1>3, <2>3, <2>8 DEF At, Afresh
  <2>13. ~Given(r, e) => Within(s, e, at)
    <3>1. Holds(response, e) => Holds(q, e)
      BY <2>3 DEF Holds
    <3> QED BY <1>3, <2>3, <2>4, <2>8, <3>1 DEF At, Within
  <2>14. at <= n
    BY <2>2, <2>9
  <2>15. At(s, j, at, n)
    BY <2>4, <2>9, <2>10, <2>11, <2>12, <2>13, <2>14 DEF At
  <2>16. ParserInv(s, n)
    BY <2>15 DEF ParserInv
  <2> QED BY <1>3, <1>4, <2>4, <2>5, <2>6, <2>7, <2>16 DEF ReaderInv
<1> QED BY <1>6, <1>7

LEMMA DeliverKeeps ==
  ASSUME StreamInv, Deliver
  PROVE  StreamInv'
<1>1. secure \in BOOLEAN /\ PiecesInv /\ BlocksInv /\ arrived \in Nat
      /\ Len(IF secure THEN stream ELSE text) \in Nat
  BY Lengths DEF StreamInv, PiecesInv, BlocksInv, ReaderInv
<1> DEFINE fresh(n) == IF secure
                       THEN Reader(incoming \o Slice(stream, arrived, n), response,
                                   counter, received, "reading")
                       ELSE Reader(incoming,
                                   [response EXCEPT !.raw = @ \o Slice(text, arrived, n)],
                                   counter, received, "parsing")
<1>2. PICK n \in (arrived + 1)..Len(IF secure THEN stream ELSE text) :
        LET s == Handled(fresh(n))
        IN /\ arrived' = n
           /\ incoming' = s.incoming /\ response' = s.response /\ counter' = s.counter
           /\ received' = s.received /\ doing' = s.doing
           /\ UNCHANGED <<secure, accessoryVars>>
  BY Zenon DEF Deliver
<1>3. PICK s : s = fresh(n)
  OBVIOUS
<1>4. n \in Nat /\ arrived < n /\ n <= Len(IF secure THEN stream ELSE text)
  BY <1>1
<1>5. doing = "reading"
  BY DEF Deliver
<1>6. ReaderInv(s, n)
  <2>1. s = IF secure
            THEN Reader(incoming \o Slice(stream, arrived, n), response,
                        counter, received, "reading")
            ELSE Reader(incoming, [response EXCEPT !.raw = @ \o Slice(text, arrived, n)],
                        counter, received, "parsing")
    BY <1>3
  <2> QED BY <1>4, <1>5, <2>1, FreshIsRead
<1>7. PICK t : t = Handled(s)
  OBVIOUS
<1>8. ReaderInv(t, n) /\ Resting(t)
  BY <1>1, <1>6, <1>7, HandledKeeps
<1> HIDE DEF fresh
<1>9. /\ arrived' = n
      /\ incoming' = t.incoming /\ response' = t.response /\ counter' = t.counter
      /\ received' = t.received /\ doing' = t.doing
      /\ secure' = secure /\ text' = text /\ pieces' = pieces
      /\ stream' = stream /\ blocks' = blocks
  BY <1>2, <1>3, <1>7 DEF accessoryVars
<1>10. Now' = t
  <2>1. t \in ReaderType
    BY <1>8 DEF ReaderInv
  <2>2. t = Reader(t.incoming, t.response, t.counter, t.received, t.doing)
    BY <2>1 DEF ReaderType, Reader
  <2> QED BY <1>9, <2>2 DEF Now
<1>11. ReaderInv(t, n)'
  <2>1. /\ t \in ReaderType /\ t.doing # "broken" /\ n \in Nat
        /\ BufferInv(t, n) /\ ParserInv(t, Fed(t, n)) /\ ReceivedInv(t.received)
    BY <1>8 DEF ReaderInv
  <2>2. BufferInv(t, n)'
    BY <1>9, <2>1 DEF BufferInv
  <2>3. Fed(t, n)' = Fed(t, n)
    BY <1>9 DEF Fed
  <2>4. ParserInv(t, Fed(t, n))'
    BY <1>9, <2>1, <2>3 DEF ParserInv, At, Within, Given
  <2>5. ReceivedInv(t.received)'
    BY <1>9, <2>1 DEF ReceivedInv
  <2> QED BY <2>1, <2>2, <2>4, <2>5 DEF ReaderInv
<1>12. PiecesInv' /\ BlocksInv'
  BY <1>1, <1>9 DEF PiecesInv, BlocksInv, Latest
<1> QED BY <1>1, <1>8, <1>9, <1>10, <1>11, <1>12 DEF StreamInv, Resting

-----------------------------------------------------------------------------
(* Each thing the accessory writes follows what it wrote before.             *)

LEMMA LastFacts ==
  ASSUME PiecesInv
  PROVE  /\ Latest \in PieceType /\ ((Latest.over /\ Latest.state = "done") \/ Framed(Latest))
         /\ Latest.nth \in Nat /\ Latest.body \in Bytes /\ Latest.length \in Int
         /\ Latest.name \in Int /\ Latest.chunked \in BOOLEAN /\ Latest.over \in BOOLEAN
         /\ text \in Bytes /\ Len(text) \in Nat
<1>1. Len(pieces) \in 1..Len(pieces) /\ text \in Bytes
  BY DEF PiecesInv
<1>2. /\ pieces[Len(pieces)] \in PieceType
      /\ pieces[Len(pieces)] = NoPiece \/ Framed(pieces[Len(pieces)])
  BY <1>1, PieceFacts
<1>3. NoPiece.over /\ NoPiece.state = "done"
  BY DEF NoPiece
<1> QED BY <1>1, <1>2, <1>3, Lengths DEF Latest, PieceType

(* What is written follows if every such piece follows.                      *)
LEMMA WriteFollows ==
  ASSUME StreamInv, NEW bytes \in Bytes, bytes # <<>>,
         NEW state \in {"headers", "body", "done"}, NEW over \in BOOLEAN,
         NEW name \in Int, NEW chunked \in BOOLEAN, NEW length \in Int, NEW body \in Bytes,
         Write(bytes, state, over, name, chunked, length, body),
         \A f \in PieceType : IsPiece(f, state, over, name, chunked, length, body)
           => Follows(Latest, f, bytes)
  PROVE  StreamInv'
<1> DEFINE f == [end |-> Len(text) + Len(bytes),
                 nth |-> IF over THEN Latest.nth + 1 ELSE Latest.nth,
                 state |-> state, over |-> over,
                 name |-> name, chunked |-> chunked, length |-> length, body |-> body]
<1>1. Latest.nth \in Nat /\ Len(text) \in Nat /\ Len(bytes) \in Nat
  BY LastFacts, Lengths DEF StreamInv
<1>2. PICK n \in Nat, end \in Nat :
        n = (IF over THEN Latest.nth + 1 ELSE Latest.nth) /\ end = Len(text) + Len(bytes)
  <2>1. (IF over THEN Latest.nth + 1 ELSE Latest.nth) \in Nat
    BY <1>1
  <2>2. Len(text) + Len(bytes) \in Nat
    BY <1>1
  <2> QED BY <2>1, <2>2
<1>3. f = [end |-> end, nth |-> n, state |-> state, over |-> over,
           name |-> name, chunked |-> chunked, length |-> length, body |-> body]
  BY <1>2
<1>4. f \in PieceType
  BY <1>3 DEF PieceType
<1>5. /\ f.end = end /\ f.nth = n /\ f.state = state /\ f.over = over
      /\ f.name = name /\ f.chunked = chunked /\ f.length = length /\ f.body = body
  BY <1>3
<1>6. /\ text' = text \o bytes /\ pieces' = Append(pieces, f)
      /\ UNCHANGED <<secure, stream, blocks, readerVars>>
  BY DEF Write
<1> HIDE DEF f
<1>7. Follows(Latest, f, bytes)
  <2>1. IsPiece(f, state, over, name, chunked, length, body)
    BY <1>2, <1>5 DEF IsPiece
  <2> QED BY <1>4, <2>1
<1>8. f.end = Len(text) + Len(bytes)
  BY <1>2, <1>5
<1> QED BY <1>4, <1>6, <1>7, <1>8, WriteKeeps

LEMMA StatusKeeps ==
  ASSUME StreamInv, NEW name \in {HTTP, EVENT}, WriteStatus(name)
  PROVE  StreamInv'
<1>1. name \in Int /\ Line(name) \in Bytes /\ Line(name) # <<>>
  BY DEF HTTP, EVENT, Line, Bytes, CR, LF
<1>2. Latest.over /\ Write(Line(name), "headers", FALSE, name, FALSE, -1, <<>>)
  BY DEF WriteStatus
<1>3. <<>> \in Bytes /\ -1 \in Int
  BY DEF Bytes
<1>4. ASSUME NEW f \in PieceType, IsPiece(f, "headers", FALSE, name, FALSE, -1, <<>>)
      PROVE  Follows(Latest, f, Line(name))
  <2>1. Framed(f)
    BY <1>4 DEF IsPiece, Framed, Counting
  <2>2. StatusFollows(Latest, f, Line(name)) /\ SameNumber(Latest, f)
    BY <1>2, <1>4 DEF IsPiece, StatusFollows, SameNumber
  <2> QED BY <2>1, <2>2 DEF Follows
<1> QED BY <1>1, <1>2, <1>3, <1>4, WriteFollows

LEMMA HeaderKeeps ==
  ASSUME StreamInv, NEW x \in Int, x >= 0 \/ x \in {ENCODING, FIELD}, WriteHeader(x)
  PROVE  StreamInv'
<1> DEFINE chunked == Latest.chunked \/ x = ENCODING
           length == IF x >= 0 THEN x ELSE Latest.length
<1>1. /\ Latest.state = "headers" /\ (x # FIELD => ~Latest.chunked /\ Latest.length = -1)
      /\ Write(Line(x), "headers", FALSE, Latest.name, chunked, length, <<>>)
  BY DEF WriteHeader
<1>2. /\ Latest.name \in Int /\ Latest.length \in Int /\ Latest.chunked \in BOOLEAN /\ Framed(Latest)
  BY <1>1, LastFacts DEF StreamInv
<1>3. /\ Line(x) \in Bytes /\ Line(x) # <<>> /\ <<>> \in Bytes
      /\ chunked \in BOOLEAN /\ length \in Int
  BY <1>2 DEF Line, Bytes, CR, LF
<1>4. chunked => length = -1
  BY <1>1, <1>2 DEF Framed, ENCODING, FIELD
<1>5. length >= -1
  BY <1>2 DEF Framed
<1>6. ASSUME NEW f \in PieceType, IsPiece(f, "headers", FALSE, Latest.name, chunked, length, <<>>)
      PROVE  Follows(Latest, f, Line(x))
  <2>1. Framed(f)
    BY <1>2, <1>4, <1>5, <1>6 DEF IsPiece, Framed, Counting
  <2>2. HeaderFollows(Latest, f, Line(x)) /\ SameNumber(Latest, f)
    BY <1>1, <1>6 DEF IsPiece, HeaderFollows, SameNumber
  <2> QED BY <2>1, <2>2 DEF Follows
<1> HIDE DEF chunked, length
<1>7. PICK c \in BOOLEAN, l \in Int : c = chunked /\ l = length
  BY <1>3
<1>8. /\ Write(Line(x), "headers", FALSE, Latest.name, c, l, <<>>)
      /\ \A f \in PieceType : IsPiece(f, "headers", FALSE, Latest.name, c, l, <<>>)
           => Follows(Latest, f, Line(x))
  BY <1>1, <1>6, <1>7
<1>9. /\ Latest.name \in Int /\ "headers" \in {"headers", "body", "done"} /\ FALSE \in BOOLEAN
      /\ Line(x) \in Bytes /\ Line(x) # <<>> /\ <<>> \in Bytes
  BY <1>2, <1>3
<1> QED BY <1>8, <1>9, WriteFollows, Zenon

LEMMA BlankKeeps ==
  ASSUME StreamInv, WriteBlank
  PROVE  StreamInv'
<1> DEFINE over == ~Latest.chunked /\ Latest.length <= 0
<1>1. /\ Latest.state = "headers"
      /\ Write(CRLF, "body", over, Latest.name, Latest.chunked, Latest.length, <<>>)
  BY DEF WriteBlank
<1>2. /\ Latest.name \in Int /\ Latest.length \in Int /\ Latest.chunked \in BOOLEAN /\ Framed(Latest)
  BY <1>1, LastFacts DEF StreamInv
<1>3. CRLF \in Bytes /\ CRLF # <<>> /\ <<>> \in Bytes /\ over \in BOOLEAN
  BY <1>2 DEF CRLF, Bytes, CR, LF
<1>6. ASSUME NEW f \in PieceType, IsPiece(f, "body", over, Latest.name, Latest.chunked, Latest.length, <<>>)
      PROVE  Follows(Latest, f, CRLF)
  <2>3. /\ f.name \in {HTTP, EVENT} /\ f.length >= -1 /\ f.state = "body" /\ f.body = <<>>
        /\ (f.chunked => f.length = -1) /\ (f.over <=> ~f.chunked /\ f.length <= 0)
        /\ f.length \in Int
    BY <1>2, <1>6 DEF IsPiece, Framed
  <2>4. Len(<<>>) = 0
    OBVIOUS
  <2>1. Framed(f)
    BY <2>3, <2>4 DEF Framed, Counting
  <2>2. BlankFollows(Latest, f, CRLF) /\ SameNumber(Latest, f)
    BY <1>1, <1>6 DEF IsPiece, BlankFollows, SameMessage, SameNumber
  <2> QED BY <2>1, <2>2 DEF Follows
<1> HIDE DEF over
<1> QED BY <1>1, <1>2, <1>3, <1>6, WriteFollows

LEMMA BodyKeeps ==
  ASSUME StreamInv, NEW bytes \in Bytes, bytes # <<>>, WriteBody(bytes)
  PROVE  StreamInv'
<1>1. /\ Latest.state = "body" /\ ~Latest.over /\ ~Latest.chunked /\ Len(bytes) = Latest.length
      /\ Write(bytes, "body", TRUE, Latest.name, FALSE, Latest.length, bytes)
  BY DEF WriteBody, InBody
<1>2. /\ Latest.name \in Int /\ Latest.length \in Int /\ Latest.chunked \in BOOLEAN /\ Framed(Latest)
  BY <1>1, LastFacts DEF StreamInv
<1>6. ASSUME NEW f \in PieceType, IsPiece(f, "body", TRUE, Latest.name, FALSE, Latest.length, bytes)
      PROVE  Follows(Latest, f, bytes)
  <2>1. Framed(f)
    BY <1>1, <1>2, <1>6 DEF IsPiece, Framed, Counting
  <2>2. BodyFollows(Latest, f, bytes) /\ SameNumber(Latest, f)
    BY <1>1, <1>2, <1>6 DEF IsPiece, BodyFollows, SameMessage, SameNumber, Counting
  <2> QED BY <2>1, <2>2 DEF Follows
<1> QED BY <1>1, <1>2, <1>6, WriteFollows

LEMMA ChunkKeeps ==
  ASSUME StreamInv, NEW bytes \in Bytes, bytes # <<>>, WriteChunk(bytes)
  PROVE  StreamInv'
<1> DEFINE w == Line(Len(bytes)) \o bytes \o CRLF
           body == Latest.body \o bytes
<1>1. /\ Latest.state = "body" /\ ~Latest.over /\ Latest.chunked
      /\ Write(w, "body", FALSE, Latest.name, TRUE, Latest.length, body)
  BY DEF WriteChunk, InBody
<1>2. /\ Latest.name \in Int /\ Latest.length \in Int /\ Latest.chunked \in BOOLEAN /\ Framed(Latest)
      /\ Latest.body \in Bytes
  BY <1>1, LastFacts DEF StreamInv
<1>3. body \in Bytes
  BY <1>2, Joined
<1>4. w \in Bytes /\ w # <<>>
  <2>1. w \in Bytes /\ Len(w) = Len(bytes) + 5 /\ Len(bytes) \in Nat
    BY ChunkHeaded, Lengths
  <2> HIDE DEF w
  <2>2. Len(w) # 0
    BY <2>1
  <2> QED BY <2>1, <2>2, Lengths
<1>6. ASSUME NEW f \in PieceType, IsPiece(f, "body", FALSE, Latest.name, TRUE, Latest.length, body)
      PROVE  Follows(Latest, f, w)
  <2>1. Framed(f)
    BY <1>1, <1>2, <1>6 DEF IsPiece, Framed, Counting
  <2>3. SameMessage(Latest, f) /\ SameNumber(Latest, f)
    BY <1>1, <1>6 DEF IsPiece, SameMessage, SameNumber
  <2>2. ChunkFollows(Latest, f, w)
    BY <1>1, <1>2, <1>6, <2>3, Zenon DEF IsPiece, ChunkFollows
  <2> QED BY <2>1, <2>2, <2>3 DEF Follows
<1> HIDE DEF w, body
<1> QED BY <1>1, <1>2, <1>3, <1>4, <1>6, WriteFollows

LEMMA LastChunkKeeps ==
  ASSUME StreamInv, WriteLastChunk
  PROVE  StreamInv'
<1> DEFINE w == Line(0) \o CRLF
<1>1. /\ Latest.state = "body" /\ ~Latest.over /\ Latest.chunked
      /\ Write(w, "done", TRUE, Latest.name, TRUE, Latest.length, Latest.body)
  BY DEF WriteLastChunk, InBody
<1>2. /\ Latest.name \in Int /\ Latest.length \in Int /\ Latest.chunked \in BOOLEAN /\ Framed(Latest)
      /\ Latest.body \in Bytes
  BY <1>1, LastFacts DEF StreamInv
<1>4. w \in Bytes /\ w # <<>>
  <2>1. w \in Bytes /\ Len(w) = 5
    BY LastChunkHeaded
  <2> HIDE DEF w
  <2>2. Len(w) # 0
    BY <2>1
  <2> QED BY <2>1, <2>2, Lengths
<1>6. ASSUME NEW f \in PieceType, IsPiece(f, "done", TRUE, Latest.name, TRUE, Latest.length, Latest.body)
      PROVE  Follows(Latest, f, w)
  <2>1. Framed(f)
    BY <1>1, <1>2, <1>6 DEF IsPiece, Framed, Counting
  <2>2. LastChunkFollows(Latest, f, w) /\ SameNumber(Latest, f)
    BY <1>1, <1>6 DEF IsPiece, LastChunkFollows, SameMessage, SameNumber
  <2> QED BY <2>1, <2>2 DEF Follows
<1> HIDE DEF w
<1> QED BY <1>1, <1>2, <1>4, <1>6, WriteFollows

LEMMA PartsAreBytes ==
  ASSUME NEW bytes \in Parts
  PROVE  bytes \in Bytes /\ bytes # <<>> /\ Len(bytes) \in Nat
<1>1. bytes \in Bytes /\ bytes # <<>>
  BY PartsAssumption DEF Bytes
<1> QED BY <1>1, Lengths

LEMMA StreamStep ==
  ASSUME StreamInv, [StreamNext]_streamVars
  PROVE  StreamInv'
<1>1. ASSUME NEW name \in {HTTP, EVENT}, WriteStatus(name) PROVE StreamInv'
  BY <1>1, StatusKeeps
<1>2. ASSUME NEW x \in {ENCODING, FIELD, 0} \cup {Len(bytes) : bytes \in Parts}, WriteHeader(x)
      PROVE  StreamInv'
  <2>1. x \in Int /\ (x >= 0 \/ x \in {ENCODING, FIELD})
    <3>1. CASE x \in {ENCODING, FIELD}
      BY <3>1 DEF ENCODING, FIELD
    <3>2. CASE x = 0
      BY <3>2
    <3>3. CASE \E bytes \in Parts : x = Len(bytes)
      BY <3>3, PartsAreBytes
    <3> QED BY <3>1, <3>2, <3>3
  <2> QED BY <1>2, <2>1, HeaderKeeps
<1>3. ASSUME WriteBlank PROVE StreamInv'
  BY <1>3, BlankKeeps
<1>4. ASSUME NEW bytes \in Parts, WriteBody(bytes) PROVE StreamInv'
  BY <1>4, PartsAreBytes, BodyKeeps
<1>5. ASSUME NEW bytes \in Parts, WriteChunk(bytes) PROVE StreamInv'
  BY <1>5, PartsAreBytes, ChunkKeeps
<1>6. ASSUME WriteLastChunk PROVE StreamInv'
  BY <1>6, LastChunkKeeps
<1>7. ASSUME NEW n \in BlockSizes, Encrypt(n) PROVE StreamInv'
  <2>1. n \in 1..MaxBlock
    BY BlockSizesAssumption
  <2>2. MaxBlock \in Nat
    BY SMT DEF MaxBlock
  <2>3. n \in Nat /\ n > 0
    BY <2>1, <2>2
  <2> QED BY <1>7, <2>3, EncryptKeeps
<1>8. ASSUME Deliver PROVE StreamInv'
  BY <1>8, DeliverKeeps
<1>9. ASSUME UNCHANGED streamVars PROVE StreamInv'
  <2>1. /\ secure' = secure /\ text' = text /\ pieces' = pieces /\ stream' = stream
        /\ blocks' = blocks /\ arrived' = arrived /\ Now' = Now
    BY <1>9 DEF streamVars, accessoryVars, readerVars, Now
  <2>2. secure \in BOOLEAN /\ PiecesInv /\ BlocksInv /\ ReaderInv(Now, arrived) /\ Resting(Now)
    BY DEF StreamInv
  <2>3. PICK s, came : s = Now /\ came = arrived
    OBVIOUS
  <2>4. ReaderInv(s, came)'
    <3>1. /\ s \in ReaderType /\ s.doing # "broken" /\ came \in Nat
          /\ BufferInv(s, came) /\ ParserInv(s, Fed(s, came)) /\ ReceivedInv(s.received)
      BY <2>2, <2>3 DEF ReaderInv
    <3>2. BufferInv(s, came)' /\ Fed(s, came)' = Fed(s, came) /\ ReceivedInv(s.received)'
      BY <2>1, <3>1 DEF BufferInv, Fed, ReceivedInv
    <3>3. ParserInv(s, Fed(s, came))'
      BY <2>1, <3>1, <3>2 DEF ParserInv, At, Within, Given
    <3> QED BY <3>1, <3>2, <3>3 DEF ReaderInv
  <2>5. PiecesInv' /\ BlocksInv'
    BY <2>1, <2>2 DEF PiecesInv, BlocksInv, Latest
  <2> QED BY <2>1, <2>2, <2>3, <2>4, <2>5 DEF StreamInv, Resting
<1>10. CASE Accessory
  BY <1>1, <1>2, <1>3, <1>4, <1>5, <1>6, <1>7, <1>10 DEF Accessory
<1> QED BY <1>8, <1>9, <1>10 DEF StreamNext

-----------------------------------------------------------------------------
(* The invariant, and what it says of what was given out.                    *)

LEMMA StreamStart ==
  ASSUME StreamInit
  PROVE  StreamInv
<1>1. /\ secure \in BOOLEAN /\ text = <<>> /\ pieces = <<NoPiece>> /\ stream = <<>>
      /\ blocks = <<NoBlock>> /\ arrived = 0 /\ incoming = <<>> /\ response = NoResponse
      /\ counter = 0 /\ received = <<>> /\ doing = "reading"
  BY DEF StreamInit
<1>2. <<>> \in Bytes /\ Len(<<>>) = 0
  BY DEF Bytes
<1>3. NoPiece \in PieceType /\ NoBlock \in BlockType
  BY <1>2 DEF NoPiece, NoBlock, PieceType, BlockType, FIELD
<1>4. /\ NoPiece.end = 0 /\ NoPiece.nth = 0 /\ NoPiece.over
      /\ NoBlock.wire = 0 /\ NoBlock.plain = 0
  BY DEF NoPiece, NoBlock
<1>5. Len(pieces) = 1 /\ pieces[1] = NoPiece /\ Len(blocks) = 1 /\ blocks[1] = NoBlock
  BY <1>1
<1>6. PiecesInv
  <2>1. pieces \in Seq(PieceType) /\ pieces # <<>>
    BY <1>1, <1>3
  <2>2. Latest.end = Len(text)
    BY <1>1, <1>2, <1>4, <1>5 DEF Latest
  <2>3. \A i, k \in 1..Len(pieces) : ~(i < k)
    BY <1>5
  <2>4. \A i \in 1..(Len(pieces) - 1) : FALSE
    BY <1>5
  <2> QED BY <1>1, <1>2, <1>5, <2>1, <2>2, <2>3, <2>4 DEF PiecesInv
<1>7. BlocksInv
  <2>1. blocks \in Seq(BlockType) /\ blocks # <<>>
    BY <1>1, <1>3
  <2>2. blocks[Len(blocks)].wire = Len(stream) /\ blocks[Len(blocks)].plain <= Len(text)
    BY <1>1, <1>2, <1>4, <1>5
  <2>3. \A i, k \in 1..Len(blocks) : ~(i < k)
    BY <1>5
  <2>4. \A i \in 1..(Len(blocks) - 1) : FALSE
    BY <1>5
  <2> QED BY <1>1, <1>2, <1>5, <2>1, <2>2, <2>3, <2>4, Zenon DEF BlocksInv
<1>8. PICK r \in ResponseType : r = NoResponse /\ Afresh(r) /\ r.raw = <<>>
  <2>1. FIELD \in Int
    BY DEF FIELD
  <2>2. PICK r : r = NoResponse
    OBVIOUS
  <2>3. /\ r \in ResponseType /\ r.state = "status" /\ r.raw = <<>> /\ r.chunked = FALSE
        /\ r.empty = FALSE /\ r.length = -1 /\ r.body = <<>>
    BY <1>2, <2>1, <2>2 DEF NoResponse, ResponseType
  <2> QED BY <2>2, <2>3 DEF Afresh
<1>9. PICK s : s = Now
  OBVIOUS
<1>10. /\ s.incoming = <<>> /\ s.response = r /\ s.counter = 0
       /\ s.received = <<>> /\ s.doing = "reading"
  BY <1>1, <1>8, <1>9, ReaderFields DEF Now
<1>11. s \in ReaderType
  <2>1. s = [incoming |-> <<>>, response |-> r, counter |-> 0, received |-> <<>>,
             doing |-> "reading"]
    BY <1>1, <1>8, <1>9 DEF Now, Reader
  <2> QED BY <1>2, <2>1 DEF ReaderType
<1>12. BufferInv(s, 0)
  <2>1. 0 < Len(blocks) /\ 0 <= Len(stream) /\ blocks[0 + 1].wire <= 0
    BY <1>1, <1>2, <1>4, <1>5
  <2>2. Slice(stream, blocks[0 + 1].wire, 0) = <<>>
    <3>1. PICK o \in Nat : o = 0 /\ blocks[0 + 1].wire = o
      BY <1>4, <1>5
    <3>2. o <= Len(stream) /\ stream \in Bytes
      BY <1>1, <1>2, <3>1
    <3> QED BY <3>1, <3>2, EmptySlice
  <2> QED BY <1>1, <1>2, <1>10, <2>1, <2>2 DEF BufferInv
<1>13. Fed(s, 0) = 0
  BY <1>4, <1>5, <1>10 DEF Fed
<1>14. ParserInv(s, 0)
  <2>1. Slice(text, 0, 0) = <<>>
    <3>1. PICK o \in Nat : o = 0
      OBVIOUS
    <3>2. o <= Len(text) /\ text \in Bytes
      BY <1>1, <1>2, <3>1
    <3> QED BY <3>1, <3>2, EmptySlice
  <2>2. Given(s, pieces[1])
    BY <1>2, <1>4, <1>5, <1>10 DEF Given
  <2>3. At(s, 1, 0, 0)
    BY <1>4, <1>5, <1>8, <1>10, <2>1, <2>2 DEF At
  <2>4. 1 \in 1..Len(pieces) /\ 0 \in 0..Len(text)
    BY <1>1, <1>2, <1>5
  <2> QED BY <2>3, <2>4 DEF ParserInv
<1>15. ReceivedInv(s.received)
  BY <1>2, <1>10 DEF ReceivedInv
<1>16. ReaderInv(s, 0)
  BY <1>10, <1>11, <1>12, <1>13, <1>14, <1>15 DEF ReaderInv
<1>17. Resting(s)
  BY <1>2, <1>10 DEF Resting, BlockFound
<1> QED BY <1>1, <1>6, <1>7, <1>9, <1>16, <1>17 DEF StreamInv

(* A block that has come as a whole is found.                                *)
LEMMA BlockCome ==
  ASSUME PiecesInv, BlocksInv, secure,
         NEW s \in ReaderType, NEW came \in Nat, BufferInv(s, came), ~BlockFound(s.incoming),
         NEW k \in 1..Len(blocks), k > s.counter + 1
  PROVE  blocks[k].wire > came
<1> SUFFICES ASSUME blocks[k].wire <= came PROVE FALSE
  <2>1. blocks[k] \in BlockType
    BY DEF BlocksInv
  <2>2. blocks[k].wire \in Nat
    BY <2>1 DEF BlockType
  <2> QED BY <2>2
<1> DEFINE in == s.incoming
<1>1. /\ text \in Bytes /\ Len(text) \in Nat /\ stream \in Bytes /\ Len(stream) \in Nat
      /\ Len(blocks) \in Nat
  BY Lengths DEF PiecesInv, BlocksInv
<1>2. PICK c \in Nat : c = s.counter
  BY ReaderParts
<1>3. /\ c < Len(blocks) /\ came <= Len(stream) /\ blocks[c + 1].wire <= came
      /\ in = Slice(stream, blocks[c + 1].wire, came)
  BY <1>2 DEF BufferInv
<1>4. PICK i \in 1..Len(blocks) : i = c + 1 /\ i < k /\ i < Len(blocks)
  BY <1>1, <1>2, <1>3
<1>5. PICK bw \in Nat, bp \in Nat, dw \in Nat, dp \in Nat :
        /\ bw = blocks[i].wire /\ bp = blocks[i].plain
        /\ dw = blocks[i + 1].wire /\ dp = blocks[i + 1].plain
        /\ bp < dp /\ dp <= Len(text) /\ dw <= Len(stream) /\ dw = bw + (dp - bp) + 3
        /\ Slice(stream, bw, dw) = Block(Slice(text, bp, dp), i - 1)
  <2>1. LET b == blocks[i]
            d == blocks[i + 1]
        IN  /\ b.wire \in Nat /\ b.plain \in Nat /\ d.wire \in Nat /\ d.plain \in Nat
            /\ b.plain < d.plain /\ d.plain <= Len(text) /\ d.wire <= Len(stream)
            /\ d.wire = b.wire + (d.plain - b.plain) + 3
            /\ Slice(stream, b.wire, d.wire) = Block(Slice(text, b.plain, d.plain), i - 1)
    BY <1>1, <1>4, BlockFacts
  <2>2. PICK bw \in Nat, bp \in Nat, dw \in Nat, dp \in Nat :
          bw = blocks[i].wire /\ bp = blocks[i].plain
          /\ dw = blocks[i + 1].wire /\ dp = blocks[i + 1].plain
    BY <2>1
  <2> QED BY <2>1, <2>2
<1>6. PICK n \in Nat : n = dp - bp
  BY <1>5
<1>7. bp <= dp /\ dp <= Len(text) /\ dw <= Len(stream) /\ dw = bw + n + 3
  <2>1. bp < dp /\ dp <= Len(text) /\ dw <= Len(stream) /\ dw = bw + (dp - bp) + 3
    BY <1>5
  <2> QED BY <1>6, <2>1
<1>8. dw <= came
  <2>1. CASE k = i + 1
    BY <1>5, <2>1
  <2>2. CASE k > i + 1
    <3>1. PICK j \in 1..Len(blocks) : j = i + 1
      BY <1>1, <1>4
    <3>2. blocks[j].wire < blocks[k].wire
      BY <2>2, <3>1 DEF BlocksInv
    <3>3. blocks[k] \in BlockType
      BY DEF BlocksInv
    <3>4. blocks[k].wire \in Nat
      BY <3>3 DEF BlockType
    <3>5. dw = blocks[j].wire
      BY <1>5, <3>1
    <3> QED BY <3>2, <3>4, <3>5
  <2> QED BY <1>4, <2>1, <2>2
<1> DEFINE data == Slice(text, bp, dp)
           b == Block(data, c)
<1>9. data \in Bytes /\ Len(data) = n
  <2>1. data \in Bytes /\ Len(data) = dp - bp
    BY <1>1, <1>7, SliceProperties
  <2> HIDE DEF data
  <2> QED BY <1>6, <2>1
<1>10. Slice(stream, bw, dw) = b
  BY <1>4, <1>5
<1> HIDE DEF data
<1>11. b[1] + 256 * b[2] = n
  BY <1>9, BlockBytes
<1> HIDE DEF b
<1>12. bw <= dw /\ bw <= came /\ came <= Len(stream) /\ in = Slice(stream, bw, came)
  <2>1. bw <= dw
    BY <1>7
  <2> QED BY <1>3, <1>4, <1>5, <2>1
<1>13. Len(in) = came - bw /\ \A h \in 1..(came - bw) : in[h] = stream[bw + h]
  <2>1. /\ Len(Slice(stream, bw, came)) = came - bw
        /\ \A h \in 1..(came - bw) : Slice(stream, bw, came)[h] = stream[bw + h]
    BY <1>1, <1>12, SliceProperties
  <2> QED BY <1>12, <2>1
<1>14. \A h \in 1..(dw - bw) : b[h] = stream[bw + h]
  <2>1. \A h \in 1..(dw - bw) : Slice(stream, bw, dw)[h] = stream[bw + h]
    BY <1>1, <1>7, <1>12, SliceProperties
  <2> QED BY <1>10, <2>1
<1>15. in[1] + 256 * in[2] = n
  <2> HIDE DEF in
  <2>1. came - bw >= 2 /\ dw - bw >= 3
    BY <1>7, <1>8
  <2>2. in[1] = stream[bw + 1] /\ in[2] = stream[bw + 2]
    BY <1>13, <2>1
  <2>3. b[1] = stream[bw + 1] /\ b[2] = stream[bw + 2]
    BY <1>14, <2>1
  <2> QED BY <1>11, <2>2, <2>3
<1>16. Len(in) >= n + 3 /\ Len(in) >= 2
  <2> HIDE DEF in
  <2> QED BY <1>7, <1>8, <1>13
<1> QED BY <1>15, <1>16 DEF BlockFound

(* The reader stands after the last message that has come as a whole.        *)
LEMMA StreamInvSays ==
  ASSUME StreamInv
  PROVE  CutAnywhere
<1>1. secure \in BOOLEAN /\ PiecesInv /\ BlocksInv /\ ReaderInv(Now, arrived) /\ Resting(Now)
  BY DEF StreamInv
<1>2. PICK s \in ReaderType, came \in Nat : s = Now /\ came = arrived
  BY <1>1 DEF ReaderInv
<1>3. s.incoming = incoming /\ s.counter = counter /\ s.received = received /\ s.doing = doing
  BY <1>2, ReaderFields DEF Now
<1>4. /\ s.doing # "broken" /\ BufferInv(s, came) /\ ParserInv(s, Fed(s, came))
      /\ ReceivedInv(s.received) /\ s.doing = "reading" /\ ~BlockFound(s.incoming)
  BY <1>1, <1>2 DEF ReaderInv, Resting
<1>5. /\ pieces \in Seq(PieceType) /\ Len(pieces) \in Nat /\ DOMAIN pieces = 1..Len(pieces)
      /\ blocks \in Seq(BlockType) /\ Len(blocks) \in Nat /\ DOMAIN blocks = 1..Len(blocks)
      /\ received \in Seq([name : Int, body : Bytes]) /\ DOMAIN received = 1..Len(received)
      /\ Len(received) \in Nat
  <2>1. pieces \in Seq(PieceType) /\ blocks \in Seq(BlockType)
    BY <1>1 DEF PiecesInv, BlocksInv
  <2>2. received \in Seq([name : Int, body : Bytes])
    BY <1>3, ReaderParts
  <2> QED BY <2>1, <2>2
<1>6. ASSUME NEW k \in DOMAIN received
      PROVE  \E i \in Messages :
               /\ pieces[i].nth = k
               /\ received[k] = [name |-> pieces[i].name, body |-> pieces[i].body]
  <2>1. k \in 1..Len(s.received) /\ k > 0
    BY <1>3, <1>5, <1>6
  <2>2. PICK i \in 1..Len(pieces) :
          /\ pieces[i].over /\ pieces[i].nth = k
          /\ s.received[k] = [name |-> pieces[i].name, body |-> pieces[i].body]
    BY <1>4, <2>1 DEF ReceivedInv
  <2>3. i \in Messages
    BY <1>5, <2>1, <2>2 DEF Messages
  <2> QED BY <1>3, <2>2, <2>3
<1>7. PICK upto \in Nat : upto = Fed(s, came) /\ upto <= Len(text)
  BY <1>1, <1>4, FedIs
<1>8. PICK j \in 1..Len(pieces), at \in 0..Len(text) : At(s, j, at, upto)
  BY <1>4, <1>7 DEF ParserInv
<1>9. \A i \in 1..Len(pieces) :
        pieces[i].end \in Nat /\ pieces[i].nth \in Nat /\ pieces[i].over \in BOOLEAN
  <2> SUFFICES ASSUME NEW i \in 1..Len(pieces)
               PROVE  pieces[i].end \in Nat /\ pieces[i].nth \in Nat /\ pieces[i].over \in BOOLEAN
    OBVIOUS
  <2>1. pieces[i] \in PieceType
    BY <1>1, PieceFacts
  <2> QED BY <2>1 DEF PieceType
<1>10. /\ pieces[j].end <= at /\ at <= upto /\ at \in Nat /\ pieces[j].nth = Len(received)
       /\ j < Len(pieces) => upto < pieces[j + 1].end
  <2>0. text \in Bytes /\ Len(text) \in Nat
    BY <1>1, Lengths DEF PiecesInv
  <2>1. pieces[j].end <= at /\ at <= upto /\ at \in Nat
        /\ (j < Len(pieces) => upto < pieces[j + 1].end)
    BY <1>4, <1>8, <2>0 DEF At
  <2>2. CASE Given(s, pieces[j])
    BY <1>3, <2>1, <2>2 DEF Given
  <2>3. CASE ~Given(s, pieces[j])
    <3>1. Within(s, pieces[j], at)
      BY <1>8, <2>3 DEF At
    <3>2. ~pieces[j].over /\ pieces[j].nth = Len(s.received)
      BY <1>4, <3>1 DEF Within
    <3> QED BY <1>3, <2>1, <3>2
  <2> QED BY <2>2, <2>3
<1>11. ASSUME NEW i \in 1..Len(pieces), pieces[i].over
       PROVE  pieces[i].nth <= Len(received) <=> pieces[i].end <= upto
  <2>1. \A g, h \in 1..Len(pieces) : g < h =>
          /\ pieces[g].end < pieces[h].end /\ pieces[g].nth <= pieces[h].nth
          /\ pieces[h].over => pieces[g].nth < pieces[h].nth
    BY <1>1 DEF PiecesInv
  <2>2. /\ pieces[i].end \in Nat /\ pieces[i].nth \in Nat
        /\ pieces[j].end \in Nat /\ pieces[j].nth \in Nat
    BY <1>9
  <2>3. CASE i = j
    BY <1>5, <1>10, <2>2, <2>3
  <2>4. CASE i < j
    <3>1. pieces[i].end < pieces[j].end /\ pieces[i].nth <= pieces[j].nth
      BY <2>1, <2>4
    <3> QED BY <1>5, <1>10, <2>2, <3>1
  <2>5. CASE j < i
    <3>1. PICK k \in 1..Len(pieces) : k = j + 1 /\ k <= i /\ j < Len(pieces)
      BY <1>5, <2>5
    <3>2. pieces[j].nth < pieces[i].nth
      BY <1>11, <2>1, <2>5
    <3>3. pieces[k].end \in Nat /\ upto < pieces[k].end
      BY <1>9, <1>10, <3>1
    <3>4. pieces[k].end <= pieces[i].end
      <4>1. CASE k = i
        BY <3>3, <4>1
      <4>2. CASE k < i
        <5>1. pieces[k].end < pieces[i].end
          BY <2>1, <4>2
        <5> QED BY <2>2, <3>3, <5>1
      <4> QED BY <3>1, <4>1, <4>2
    <3> QED BY <1>5, <1>10, <2>2, <3>2, <3>3, <3>4
  <2> QED BY <2>3, <2>4, <2>5
<1>12. ASSUME NEW n \in Nat
       PROVE  Come(n) <=> n <= upto
  <2>1. CASE ~secure
    BY <1>2, <1>7, <2>1 DEF Come, Fed
  <2>2. CASE secure
    <3>1. PICK c \in 1..Len(blocks) : c = s.counter + 1
      <4>1. s.counter \in Nat /\ s.counter < Len(blocks)
        BY <1>4, <2>2, ReaderParts DEF BufferInv
      <4> QED BY <1>5, <4>1
    <3>2. upto = blocks[c].plain /\ blocks[c].wire <= came
      BY <1>4, <1>7, <2>2, <3>1 DEF Fed, BufferInv
    <3>3. ASSUME n <= upto PROVE Come(n)
      BY <1>2, <1>5, <2>2, <3>2, <3>3 DEF Come
    <3>4. ASSUME Come(n) PROVE n <= upto
      <4>1. PICK k \in 1..Len(blocks) : blocks[k].wire <= came /\ n <= blocks[k].plain
        BY <1>2, <1>5, <2>2, <3>4 DEF Come
      <4>2. blocks[k] \in BlockType
        BY <1>5
      <4>3. blocks[k].wire \in Nat /\ blocks[k].plain \in Nat
        BY <4>2 DEF BlockType
      <4>4. ~(k > c)
        <5> SUFFICES ASSUME k > c PROVE FALSE
          OBVIOUS
        <5>1. blocks[k].wire > came
          BY <1>1, <1>4, <2>2, <3>1, BlockCome
        <5> QED BY <4>1, <4>3, <5>1
      <4>5. CASE k = c
        BY <3>2, <4>1, <4>5
      <4>6. CASE k < c
        <5>1. blocks[k].plain < blocks[c].plain
          BY <1>1, <4>6 DEF BlocksInv
        <5> QED BY <3>2, <4>1, <4>3, <5>1
      <4> QED BY <1>5, <4>4, <4>5, <4>6
    <3> QED BY <3>3, <3>4
  <2> QED BY <2>1, <2>2
<1>13. \A i \in Messages : pieces[i].nth <= Len(received) <=> Come(pieces[i].end)
  <2> SUFFICES ASSUME NEW i \in Messages
               PROVE  pieces[i].nth <= Len(received) <=> Come(pieces[i].end)
    OBVIOUS
  <2>1. i \in 1..Len(pieces) /\ pieces[i].over
    BY <1>5 DEF Messages
  <2>2. pieces[i].nth <= Len(received) <=> pieces[i].end <= upto
    BY <1>11, <2>1
  <2>3. Come(pieces[i].end) <=> pieces[i].end <= upto
    BY <1>9, <1>12, <2>1
  <2> QED BY <2>2, <2>3
<1> QED BY <1>3, <1>4, <1>6, <1>13 DEF CutAnywhere

(* The reader is always somewhere in what the accessory has written: what it *)
(* holds is the text from there on, as far as it has come, what it knows of  *)
(* the message is what has been written of it, and what it has given out are *)
(* messages of the accessory (HttpResponse.parse, both data_received).       *)
THEOREM StreamInvariant == StreamSpec => []StreamInv
<1>1. StreamInit => StreamInv
  BY StreamStart
<1>2. StreamInv /\ [StreamNext]_streamVars => StreamInv'
  BY StreamStep
<1> QED BY <1>1, <1>2, PTL DEF StreamSpec

(* Wherever TCP cuts the bytes and however the text is cut into blocks, the  *)
(* messages that have come as a whole are given out, in order and with their *)
(* bodies, and no others, and no block is refused (HttpResponse.parse, both  *)
(* data_received).                                                           *)
THEOREM MessagesWhole == StreamSpec => []CutAnywhere
<1>1. StreamInv => CutAnywhere
  BY StreamInvSays
<1> QED BY <1>1, StreamInvariant, PTL
=============================================================================
