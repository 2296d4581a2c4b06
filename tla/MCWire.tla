------------------------------- MODULE MCWire -------------------------------
(* What goes over the wire, one part of it at a time: pair setup and verify, *)
(* the bytes of a connection, the codecs, the requests.  The others rest.    *)
EXTENDS PairProtocol, HttpResponse, Codecs, Entities, Requests, TLC

CONSTANTS k1, k2
VARIABLE part

Symmetry == Permutations({k1, k2})
TwoLists == {<<1>>, <<2, 1>>}

SomeParts == {<<0, CR>>}

(* Bound: only a message that comes first and has chunks is followed that far. *)
LongIfChunked ==
  Len(text) <= 18 \/ \E i \in DOMAIN pieces : i <= 3 /\ pieces[i].chunked

(* Bound: calls for one characteristic come before the first new value; BLE  *)
(* has one left on the way.                                                  *)
BothWithValues ==
  values = 0 \/ medium = "ble" \/ \A k \in Callers : calls[k].ids # <<1>>

Ones(n) == {[i \in 1..k |-> 1] : k \in 0..n}
Bits(n) == UNION {[1..k -> {0, 1}] : k \in 0..n}
Fields == {5, 6} \X Ones(4)
SomeJobs ==
  [kind : {"tlv"}, of : UNION {[1..k -> Fields \cup {<<Separator, <<>>>>}] : k \in 0..3}] \cup
  [kind : {"fragments"}, of : [d : UNION {[1..k -> Fields] : k \in 1..2}, n : 1..6]] \cup
  [kind : {"struct"}, of : [one : {Absent} \cup Bits(4),
                            many : {Absent} \cup UNION {[1..k -> {Absent} \cup Ones(4)] : k \in 0..3}]] \cup
  [kind : {"pdu"}, of : [data : Ones(40), tid : {7}, mtu : {23, 27, 30}, maxWrite : {0, 30}, secure : BOOLEAN]] \cup
  [kind : {"pairings"}, of : UNION {[1..k -> [id : {<<7>>, <<7, 8, 8, 8>>}, key : {<<5, 5, 5, 5, 5>>, <<6>>},
                                              permissions : {<<0>>, <<1>>}]] : k \in 1..2}] \cup
  [kind : {"batch"}, of : UNION {[1..k -> [control : {0, 2}, tid : 0..2, status : {0, 6},
                                           body : Ones(2)]] : k \in 1..2}]

Widths == [uint8 |-> 1, uint16 |-> 2, int |-> 2]
Tables == [t |-> [format |-> "int", min |-> 1, max |-> 3, step |-> 1, valid |-> Unset]]
Bytes2(n) == [1..n -> 0..3]
Signature(f, n) ==
  [type : {"t", "u"}, format : {f},
   properties : SUBSET {"secure_reads", "secure_writes", "hidden"},
   value : {Unset} \cup Bytes2(n), range : {<<>>, [i \in 1..(2 * n) |-> i % 4]},
   step : {<<>>} \cup {[i \in 1..n |-> b] : b \in 0..1}]
Things ==
  [kind : {"reload"}, of : [type : {"t", "u"}, perms : {{}, {"pr"}}, format : {"int", "string", Unset},
                            value : {Unset, 0, 2}, min : {Unset, -1, 0, 1}, max : {Unset, 0, 3},
                            step : {Unset, 1}, valid : {Unset, <<>>, <<2, 3>>}]] \cup
  [kind : {"links"}, of : UNION {[1..k -> [iid : 1..2, linked : {Unset} \cup UNION {[1..j -> 0..3] : j \in 1..2}]] : k \in 1..2}] \cup
  [kind : {"signature"}, coap : BOOLEAN,
   of : Signature("uint8", 1) \cup Signature("uint16", 2) \cup Signature("int", 2) \cup
        [type : {"u"}, format : {"string"}, properties : {{}, {"secure_reads"}},
         value : {<<>>} \cup Bytes2(2), range : {<<>>}, step : {<<>>}]] \cup
  [kind : {"convert"}, n : -40..130,
   of : [format : {"int"}, min : {Unset, -20, 0, 10}, max : {Unset, 50, 120}, step : {Unset, 0, 10, 30}] \cup
        [format : {"float"}, min : {Unset, -25, 0, 3}, max : {Unset, 50, 120}, step : {Unset, 1, 5, 11, 25}]] \cup
  [kind : {"advertisement"}, of : [flags : {1}, id : {<<3, 2, 1, 0, 1, 2>>}, category : {0, 1, 15}, stateNum : {0, 4, 15},
                                   configNum : {0, 3}, hash : {[i \in 1..k |-> i % 4] : k \in {0, 3, 4, 5}}]]
NoJob == [kind |-> "none"]

PairingRests == Init /\ transport = "ip"
StreamRests == StreamInit /\ secure = FALSE
RequestsRest == RequestsInit /\ medium = "ip"

WireInit ==
  \/ part = "pairing" /\ Init /\ StreamRests /\ RequestsRest /\ job = NoJob
  \/ part = "stream" /\ PairingRests /\ StreamInit /\ RequestsRest /\ job = NoJob
  \/ part = "codecs" /\ PairingRests /\ StreamRests /\ RequestsRest /\ CodecsInit
  \/ part = "entities" /\ PairingRests /\ StreamRests /\ RequestsRest /\ job \in Things
  \/ part = "requests" /\ PairingRests /\ StreamRests /\ RequestsInit /\ job = NoJob

WireNext ==
  \/ part = "pairing" /\ Next /\ UNCHANGED <<part, job, streamVars, requestVars>>
  \/ part = "stream" /\ StreamNext /\ UNCHANGED <<part, job, vars, requestVars>>
  \/ part = "requests" /\ RequestsNext /\ UNCHANGED <<part, job, vars, streamVars>>

WireSpec == WireInit /\ [][WireNext]_<<part, job, vars, streamVars, requestVars>>

(* What a signature, an accessory's description, the cache, a caller or an   *)
(* advertisement says of a characteristic is what the model keeps and the    *)
(* accessory is sent (Characteristic, Accessory.create_from_dict,            *)
(* check_convert_value, to_bytes and from_bytes, HomeKitAdvertisement).      *)
EntitiesKept ==
  LET of == job.of
  IN CASE job.kind = "reload" -> ReloadKeeps(of)
       [] job.kind = "links" -> LinksKeep(of)
       [] job.kind = "signature" -> SignatureKeeps(of, job.coap)
       [] job.kind = "convert" -> ConvertKeeps(of, job.n)
       [] job.kind = "advertisement" -> AdvertisementKeeps(of)
       [] OTHER -> TRUE
=============================================================================
