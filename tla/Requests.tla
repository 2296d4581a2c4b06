------------------------------ MODULE Requests ------------------------------
(***************************************************************************)
(* Reads, writes and subscriptions of characteristics, what their answers   *)
(* say of each characteristic, and the listeners' copy of the values        *)
(* (Accessories.process_changes), on a connection on which events and       *)
(* answers cross (ip/pairing.py, coap/pairing.py with coap/connection.py,   *)
(* ble/pairing.py without its events, which BleStates has).                 *)
(*                                                                          *)
(* Every value is a fresh number.  An answer is received when its future is *)
(* set, and the call that waits for it goes on later (ready).               *)
(***************************************************************************)
EXTENDS Integers, Sequences, SequencesExt

CONSTANTS
  Chars,     \* characteristics of an accessory
  Readable,  \* those with the permission paired_read
  Lists,     \* the sequences of them that calls are made with
  Callers,
  MaxValue   \* bound: values that are written, by us or at the accessory

ASSUME RequestsAssumption ==
  Readable \subseteq Chars /\ Lists \subseteq Seq(Chars) \ {<<>>} /\ MaxValue \in Nat

VARIABLES
  medium, \* "ip", "coap" or "ble"
  up,        \* the connection
  push,      \* supports_subscribe
  log,       \* the values a characteristic of the accessory has had
  notifying, \* characteristics the accessory sends events of
  subscriptions, \* the pairing's
  view,      \* the listeners' copy: of which characteristic, and the value
  calls,     \* op, the characteristics asked for and not done, the value to write,
             \* the values read so far
  wire,      \* answers and events that have not come yet
  ready,     \* callers whose answers have come, with these
  values,    \* numbers used
  behind     \* history: a change of it was not told, or an older value came last

requestVars ==
  <<medium, up, push, log, notifying, subscriptions, view, calls, wire, ready, values, behind>>

NoCall == [op |-> "none", pc |-> "idle", ids |-> <<>>, value |-> 0, read |-> {}]

RequestsInit ==
  /\ medium \in {"ip", "coap", "ble"} /\ up = TRUE /\ push = TRUE
  /\ log = [c \in Chars |-> <<0>>] /\ view = [c \in Chars |-> <<c, 0>>]
  /\ notifying = {} /\ subscriptions = {}
  /\ calls = [k \in Callers |-> NoCall] /\ wire = <<>> /\ ready = <<>>
  /\ values = 0 /\ behind = {}

(* process_changes: the values that are there; the older one may come last.  *)
Position(c, n) == LET at == {i \in DOMAIN log[c] : log[c][i] = n}
                  IN IF at = {} THEN 0 ELSE CHOOSE i \in at : TRUE
ProcessChanges(changes, untold) ==
  /\ view' = [c \in Chars |-> IF c \in DOMAIN changes THEN changes[c] ELSE view[c]]
  /\ behind' =
       {c \in Chars :
          IF c \in DOMAIN changes
          THEN /\ changes[c] # <<c, Last(log[c])>>
               /\ c \in behind \/ Position(c, changes[c][2]) < Position(c, view[c][2])
          ELSE c \in behind \cup untold}

(* BLE goes through the characteristics one by one.                          *)
Part(call) == IF medium = "ble" THEN <<Head(call.ids)>> ELSE call.ids

-----------------------------------------------------------------------------
(* The callers.                                                              *)

(* IP has as many requests under way as there are callers.                   *)
MayCall(k) ==
  /\ calls[k].pc = "idle"
  /\ medium = "ip" \/ \A j \in Callers : calls[j].pc = "idle"
Request(k, op, ids, value) ==
  calls' = [calls EXCEPT ![k] = [NoCall EXCEPT !.op = op, !.pc = "asked", !.ids = ids,
                                               !.value = value]]

Call(k) ==
  /\ up /\ MayCall(k)
  /\ \E op \in {"get", "put"}, ids \in Lists :
       /\ op = "put" => values < MaxValue
       /\ values' = IF op = "put" THEN values + 1 ELSE values
       /\ Request(k, op, ids, IF op = "put" THEN values' ELSE 0)
  /\ UNCHANGED <<medium, up, push, log, notifying, subscriptions, view, wire, ready, behind>>

(* subscribe; CoAP asks for what is new, and for nothing if nothing is.  IP  *)
(* has recorded it when it finds that it is not connected, or that there are *)
(* no events in this session.                                                *)
Subscribe(k) ==
  /\ MayCall(k) /\ (medium = "ip" \/ (medium = "coap" /\ up))
  /\ \E ids \in Lists :
       LET asked == IF medium = "ip" THEN ids
                    ELSE SelectSeq(ids, LAMBDA c : c \notin subscriptions)
       IN /\ asked # <<>> /\ subscriptions' = subscriptions \cup ToSet(ids)
          /\ IF up /\ push THEN Request(k, "subscribe", asked, 0) ELSE UNCHANGED calls
  /\ UNCHANGED <<medium, up, push, log, notifying, view, wire, ready, values, behind>>

(* unsubscribe; CoAP forgets them at once, IP when they are not refused or   *)
(* there is no connection.                                                   *)
Unsubscribe(k) ==
  /\ MayCall(k) /\ (medium = "ip" \/ (medium = "coap" /\ up))
  /\ \E ids \in Lists :
       /\ subscriptions' = IF medium = "coap" \/ ~up THEN subscriptions \ ToSet(ids)
                           ELSE subscriptions
       /\ IF up THEN Request(k, "unsubscribe", ids, 0) ELSE UNCHANGED calls
  /\ UNCHANGED <<medium, up, push, log, notifying, view, wire, ready, values, behind>>

(* What an answer says of each characteristic that was asked for: IP's rows  *)
(* name them, CoAP's have the order of the request.                          *)
Rows(call, answer) ==
  IF answer.kind = "rows"
  THEN [c \in ToSet(Part(call)) |->
          answer.rows[CHOOSE i \in DOMAIN answer.rows : Part(call)[i] = c]]
  ELSE [c \in ToSet(Part(call)) |->
          [status |-> IF answer.kind = "empty" THEN "ok" ELSE "error", value |-> <<c, 0>>]]

(* Mutant: the values that were refused are told too.                        *)
ToldAll(call, answer) == ToSet(Part(call)) \cap Readable

(* The listeners are told what was written; IP takes a row for a refusal     *)
(* whatever its status, and has no rows to read in a global error.           *)
Told(call, answer) ==
  {c \in ToSet(Part(call)) \cap Readable :
     IF medium = "ip" THEN answer.kind = "empty"
     ELSE Rows(call, answer)[c].status = "ok"}

Done(k) == calls' = [calls EXCEPT ![k] = NoCall]

(* BLE's next characteristic, if there is one.                               *)
Finished(call) == medium # "ble" \/ Len(call.ids) = 1
GoOn(k, read) ==
  calls' = [calls EXCEPT ![k].ids = Tail(@), ![k].pc = "asked", ![k].read = read]

(* A read that is refused is passed over; BLE's results are one when all is  *)
(* read.                                                                     *)
ResumeGet(k, answer) ==
  LET rows == Rows(calls[k], answer)
      read == calls[k].read \cup {rows[c].value : c \in {d \in DOMAIN rows : rows[d].status = "ok"}}
  IN /\ IF Finished(calls[k])
        THEN /\ Done(k)
             /\ ProcessChanges([c \in {v[1] : v \in read} |-> CHOOSE v \in read : v[1] = c], {})
        ELSE GoOn(k, read) /\ UNCHANGED <<view, behind>>
     /\ UNCHANGED subscriptions

(* A write that BLE is refused raises, with what is left of it.              *)
ResumePut(k, answer) ==
  LET told == Told(calls[k], answer)
      rows == Rows(calls[k], answer)
      written == {c \in DOMAIN rows : rows[c].status = "ok"}
  IN /\ ProcessChanges([c \in told |-> <<c, calls[k].value>>], written \ told)
     /\ IF Finished(calls[k]) \/ DOMAIN rows # written THEN Done(k) ELSE GoOn(k, {})
     /\ UNCHANGED subscriptions

(* _update_subscriptions: a row keeps its characteristic subscribed.         *)
ResumeSubscriptions(k, answer) ==
  /\ subscriptions' = IF calls[k].op = "unsubscribe" /\ medium = "ip" /\ answer.kind # "rows"
                      THEN subscriptions \ ToSet(calls[k].ids) ELSE subscriptions
  /\ Done(k) /\ UNCHANGED <<view, behind>>

ResumeCall ==
  /\ ready # <<>> /\ ready' = Tail(ready)
  /\ LET k == Head(ready).caller
         answer == Head(ready).answer
     IN CASE calls[k].op = "get" -> ResumeGet(k, answer)
          [] calls[k].op = "put" -> ResumePut(k, answer)
          [] OTHER -> ResumeSubscriptions(k, answer)
  /\ UNCHANGED <<medium, up, push, log, notifying, wire, values>>

(* An event is told at once, and an answer sets its future.  CoAP's answers  *)
(* and events are separate exchanges, and pass each other.                   *)
Arrive ==
  \E i \in DOMAIN wire :
    /\ \A j \in 1..(i - 1) : medium = "coap" /\ wire[j].kind # wire[i].kind
    /\ wire' = RemoveAt(wire, i)
    /\ IF wire[i].kind = "event"
       THEN /\ ProcessChanges([c \in {wire[i].char} |-> <<c, wire[i].value>>], {})
            /\ UNCHANGED <<calls, ready>>
       ELSE /\ ready' = Append(ready, [caller |-> wire[i].caller, answer |-> wire[i].answer])
            /\ calls' = [calls EXCEPT ![wire[i].caller].pc = "ready"]
            /\ UNCHANGED <<view, behind>>
    /\ UNCHANGED <<medium, up, push, log, notifying, subscriptions, values>>

-----------------------------------------------------------------------------
(* The accessory and the network.                                            *)

(* It does what it is asked for some characteristics and refuses others, or  *)
(* refuses the whole request; IP says nothing when everything was done.      *)
Handle(k) ==
  /\ calls[k].pc = "asked"
  /\ \E refused \in SUBSET ToSet(Part(calls[k])), global \in BOOLEAN :
       LET part == Part(calls[k])
           op == calls[k].op
           done == ToSet(part) \ refused
           now == [c \in Chars |-> IF op = "put" /\ c \in done
                                   THEN Append(log[c], calls[k].value) ELSE log[c]]
           rows == [i \in DOMAIN part |->
                      [status |-> IF part[i] \in done THEN "ok" ELSE "error",
                       value |-> <<part[i], IF op = "get" THEN Last(log[part[i]]) ELSE 0>>]]
           kind == IF global THEN "global"
                   ELSE IF medium = "ip" /\ op # "get" /\ refused = {} THEN "empty"
                   ELSE "rows"
       IN /\ global => medium = "ip" /\ done = {}
          /\ log' = now
          /\ notifying' = CASE op = "subscribe" -> notifying \cup done
                            [] op = "unsubscribe" -> notifying \ done
                            [] OTHER -> notifying
          /\ wire' = Append(wire, [kind |-> "answer", caller |-> k,
                                   answer |-> [kind |-> kind, rows |-> IF kind = "rows" /\ op \in {"get", "put"} THEN rows
                                                       ELSE <<>>]])
          /\ calls' = [calls EXCEPT ![k].pc = "handled"]
  /\ UNCHANGED <<medium, up, push, subscriptions, view, ready, values, behind>>

Change(c) ==
  /\ values < MaxValue /\ values' = values + 1
  /\ log' = [log EXCEPT ![c] = Append(@, values')]
  /\ IF c \in notifying
     THEN wire' = Append(wire, [kind |-> "event", char |-> c, value |-> values']) /\ UNCHANGED behind
     ELSE behind' = behind \cup {c} /\ UNCHANGED wire
  /\ UNCHANGED <<medium, up, push, notifying, subscriptions, view, calls, ready>>

(* What is on the wire is lost, and what was written is not told; IP, when a *)
(* subscription is lost, takes it that there are no events.                  *)
LinkLost ==
  LET lost == ToSet(wire)
      events == {m.char : m \in {m \in lost : m.kind = "event"}}
      written(k) == IF calls[k].op = "put" /\ calls[k].pc = "handled"
                    THEN {c \in Chars : Last(log[c]) # view[c][2]} ELSE {}
  IN /\ up /\ up' = FALSE /\ wire' = <<>>
     /\ push' = (push /\ ~(medium = "ip" /\ \E k \in Callers :
                             calls[k].op = "subscribe" /\ calls[k].pc # "ready"))
     /\ notifying' = {}
     /\ behind' = behind \cup events \cup UNION {written(k) : k \in Callers}
     /\ calls' = [k \in Callers |-> IF calls[k].pc = "ready" THEN calls[k] ELSE NoCall]
     /\ UNCHANGED <<medium, log, subscriptions, view, ready, values>>

(* The subscriptions are made again, of which the accessory may refuse some, *)
(* unless one was being made when the connection was lost.                   *)
Reconnect ==
  /\ ~up /\ up' = TRUE /\ ready = <<>>
  /\ notifying' \in SUBSET (IF medium = "ble" \/ ~push THEN {} ELSE subscriptions)
  /\ UNCHANGED <<medium, push, log, subscriptions, view, calls, wire, ready, values, behind>>

RequestsNext ==
  \/ \E k \in Callers : Call(k) \/ Subscribe(k) \/ Unsubscribe(k) \/ Handle(k)
  \/ ResumeCall \/ Arrive \/ LinkLost \/ Reconnect
  \/ \E c \in Chars : Change(c)

RequestsSpec == RequestsInit /\ [][RequestsNext]_requestVars

-----------------------------------------------------------------------------
(* The listeners have of every characteristic a value that it had, never one *)
(* that was refused or is another's; and, once all is quiet, the last one of *)
(* what they are subscribed to, unless it changed unseen, the answer to a    *)
(* write was lost or had rows, or an answer and an event crossed (the        *)
(* get_characteristics and put_characteristics of the pairings).             *)
ViewFollows ==
  \A c \in Readable :
    /\ view[c][1] = c /\ view[c][2] \in ToSet(log[c])
    /\ wire = <<>> /\ ready = <<>> /\ c \in notifying \ behind
         => view[c][2] = Last(log[c])
=============================================================================
