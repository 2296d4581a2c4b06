------------------------------- MODULE Codecs -------------------------------
(***************************************************************************)
(* The encodings a request and its answer go through: TLV lists             *)
(* (protocol/tlv.py), TLV8 structures and sequences of them (tlv8.py), the  *)
(* PDUs of BLE with their fragments (pdu.py, ble/client.py), and the batch  *)
(* of PDUs of CoAP (coap/pdu.py).  A byte is a natural number; lengths have *)
(* one byte, of which MaxChunk is the largest value.  A behaviour is one    *)
(* job: something that is encoded, and decoded on the other side.           *)
(***************************************************************************)
EXTENDS Integers, Sequences, SequencesExt

CONSTANTS
  Absent,   \* a field that is not there
  Failed,   \* what is raised, or stands in a batch for a body
  MaxChunk, \* 255
  MinMtu,   \* HAP_MIN_REQUIRED_MTU
  Jobs      \* what is encoded and decoded

VARIABLE job

ASSUME LengthsAssumption == MaxChunk \in Nat \ {0} /\ MinMtu \in Nat /\ MinMtu > 26

From(s, n) == SubSeq(s, n, Len(s))
Take(s, n) == SubSeq(s, 1, IF n < Len(s) THEN n ELSE Len(s))

(* s in pieces of n bytes: range(0, len(s), n).                              *)
Pieces(s, n) ==
  [i \in 1..((Len(s) + n - 1) \div n) |-> Take(From(s, (i - 1) * n + 1), n)]

(* Entries <<type, value>> in bytes, and what divides a value into entries.  *)
Entry(e) == <<e[1], Len(e[2])>> \o e[2]
Written(entries) == FlattenSeq([i \in DOMAIN entries |-> Entry(entries[i])])
Divided(type, value) ==
  [i \in DOMAIN Pieces(value, MaxChunk) |-> <<type, Pieces(value, MaxChunk)[i]>>]

-----------------------------------------------------------------------------
(* TLV lists: sequences of <<key, value>>.                                   *)

Separator == 255

(* Mutant: a value that fills its last chunk gets an empty one more.         *)
EncodePaddedItem(key, value) == Append(Divided(key, value), <<key, <<>>>>)

EncodeItem(key, value) ==
  IF key = Separator THEN <<<<key, <<>>>>>> ELSE Divided(key, value)

EncodeList(d) == Written(FlattenSeq([i \in DOMAIN d |-> EncodeItem(d[i][1], d[i][2])]))

(* An item whose key is that of the item before goes on with its value.      *)
AddItem(result, item) ==
  IF result # <<>> /\ Last(result)[1] = item[1]
  THEN [result EXCEPT ![Len(result)] = <<item[1], @[2] \o item[2]>>]
  ELSE Append(result, item)

(* The loop takes an item a turn.  It stops at a key that is not expected.   *)
TakeItem(s, expected) ==
  LET length == s.tail[2]
      item == <<s.tail[1], SubSeq(s.tail, 3, length + 2)>>
  IN IF s.tail = <<>> THEN s
     ELSE IF expected # {} /\ s.tail[1] \notin expected THEN [s EXCEPT !.tail = <<>>]
     ELSE IF Len(s.tail) < length + 2 THEN [tail |-> <<>>, result |-> Failed]
     ELSE [tail |-> From(s.tail, length + 3), result |-> AddItem(s.result, item)]

Decode(bytes, expected) ==
  LET after[n \in 0..Len(bytes)] == IF n = 0 THEN [tail |-> bytes, result |-> <<>>]
                          ELSE TakeItem(after[n - 1], expected)
  IN after[Len(bytes)].result

(* _pairing_char_write: the answer comes in FragmentData items, one exchange *)
(* each, up to a FragmentLast; without these it is the answer itself.        *)
FragmentData == 12
FragmentLast == 13
Reassembled(answers) ==
  LET items == [i \in DOMAIN answers |-> Decode(answers[i], {})]
      Fragment(i) == items[i] # <<>> /\ items[i][1][1] \in {FragmentData, FragmentLast}
  IN IF Fragment(1) THEN Decode(FlattenSeq([i \in DOMAIN items |-> items[i][1][2]]), {})
     ELSE items[1]

-----------------------------------------------------------------------------
(* TLV8: an inner structure has one field, bytes or None, of type 1; the     *)
(* outer one has such a field of type 1 and a sequence of inner ones, 2.     *)

EncodeField(type, encoded) == Written(Divided(type, encoded))
EncodeInner(v) == IF v = Absent THEN <<>> ELSE EncodeField(1, v)

(* serialize_typing_sequence                                                 *)
EncodeSequence(vs) ==
  FlattenSeq([i \in DOMAIN vs |->
                (IF i = 1 THEN <<>> ELSE <<0, 0>>) \o EncodeInner(vs[i])])

EncodeStruct(s) ==
  EncodeInner(s.one) \o IF s.many = Absent THEN <<>> ELSE EncodeField(2, EncodeSequence(s.many))

(* tlv_iterator takes an entry a turn: found are records of type, value and  *)
(* where the last entry of the value starts.  A value goes on with the next  *)
(* entry if the last one is full and they are of the same type.              *)
AddEntry(found, full, e) ==
  IF full /\ Last(found).type = e.type
  THEN [found EXCEPT ![Len(found)] = [e EXCEPT !.value = found[Len(found)].value \o @]]
  ELSE Append(found, e)
TakeEntry(s, bytes) ==
  LET length == bytes[s.offset + 2]
      next == s.offset + 2 + length
      e == [offset |-> s.offset, type |-> bytes[s.offset + 1],
            value |-> SubSeq(bytes, s.offset + 3, IF next < Len(bytes) THEN next ELSE Len(bytes))]
  IN IF s.offset >= Len(bytes) THEN s
     ELSE [offset |-> next, full |-> length = MaxChunk, found |-> AddEntry(s.found, s.full, e)]
Iterate(bytes) ==
  LET after[n \in 0..Len(bytes)] == IF n = 0 THEN [offset |-> 0, full |-> FALSE, found |-> <<>>]
                          ELSE TakeEntry(after[n - 1], bytes)
  IN after[Len(bytes)].found

(* tlv_array: what is between the separators, and what is left if any.       *)
TakeSeparator(s, e, bytes) ==
  IF e.type # 0 THEN s
  ELSE [start |-> e.offset + 2, items |-> Append(s.items, SubSeq(bytes, s.start + 1, e.offset))]
Separated(found, bytes) ==
  LET after[n \in 0..Len(found)] == IF n = 0 THEN [start |-> 0, items |-> <<>>]
                                    ELSE TakeSeparator(after[n - 1], found[n], bytes)
  IN after[Len(found)]
TlvArray(bytes) ==
  LET cut == Separated(Iterate(bytes), bytes)
      left == From(bytes, cut.start + 1)
  IN IF left = <<>> THEN cut.items ELSE Append(cut.items, left)

(* TLVStruct.decode: the last value of a type.                               *)
Field(bytes, type) ==
  LET found == Iterate(bytes)
      at == {i \in DOMAIN found : found[i].type = type}
  IN IF at = {} THEN Absent ELSE found[Max(at)].value
DecodeInner(bytes) == Field(bytes, 1)
DecodeStruct(bytes) ==
  LET many == Field(bytes, 2)
  IN [one |-> Field(bytes, 1),
      many |-> IF many = Absent THEN Absent
               ELSE LET items == TlvArray(many)
                    IN [i \in DOMAIN items |-> DecodeInner(items[i])]]

-----------------------------------------------------------------------------
(* BLE PDUs.  A fragment is its control byte, transaction, further header    *)
(* and data; the headers take 7 bytes, and 2 in a continuation (5 and 2 in   *)
(* an answer).                                                               *)

LargerOf(a, b) == IF a > b THEN a ELSE b
FragmentSize(mtu, maxWrite, secure) ==
  LargerOf(maxWrite, LargerOf(mtu, MinMtu) - 3) - (IF secure THEN 16 ELSE 0)

(* encode_pdu                                                                *)
EncodePdu(tid, data, size) ==
  IF data = <<>> THEN <<[first |-> TRUE, tid |-> tid, length |-> 0, data |-> <<>>]>>
  ELSE <<[first |-> TRUE, tid |-> tid, length |-> Len(data), data |-> Take(data, size - 7)]>> \o
       LET rest == Pieces(From(data, size - 6), size - 2)
       IN [i \in DOMAIN rest |-> [first |-> FALSE, tid |-> tid, length |-> 0, data |-> rest[i]]]

PduSize(f) == IF f.first THEN (IF f.length = 0 THEN 5 ELSE 7) + Len(f.data) ELSE 2 + Len(f.data)

(* decode_pdu and decode_pdu_continuation                                    *)
Accepted(tid, f) == f.tid = tid
Continues(tid, f) == ~f.first /\ f.tid = tid

(* _read_pdu: it reads on while the data is short.                           *)
DataOf(fragments, n) == FlattenSeq([i \in 1..n |-> fragments[i].data])
ReadPdu(tid, fragments) ==
  LET enough == {n \in DOMAIN fragments : Len(DataOf(fragments, n)) >= fragments[1].length}
      n == Min(enough)
  IN IF ~Accepted(tid, fragments[1]) \/ \E i \in 2..n : ~Continues(tid, fragments[i])
     THEN Failed
     ELSE [data |-> DataOf(fragments, n), unread |-> From(fragments, n + 1)]

-----------------------------------------------------------------------------
(* CoAP: the answers to a batch, each <<control, tid, status, length>> and   *)
(* its body, in one payload.                                                 *)

Response == 2
Success == 0
DecodePdu(tid, data) ==
  LET length == data[4]
  IN [length |-> length,
      body |-> IF data[2] # tid \/ data[3] # Success \/ data[1] # Response
               THEN Failed ELSE SubSeq(data, 5, 4 + length)]

(* decode_all_pdus takes a PDU a turn, the first in any case.                *)
TakePdu(s, tid, data) ==
  LET pdu == DecodePdu(tid + Len(s.bodies), From(data, s.offset + 1))
  IN IF s.bodies # <<>> /\ s.offset >= Len(data) THEN s
     ELSE [offset |-> s.offset + 4 + pdu.length, bodies |-> Append(s.bodies, pdu.body)]
DecodeAllPdus(tid, data) ==
  LET after[n \in 0..Len(data)] == IF n = 0 THEN [offset |-> 0, bodies |-> <<>>]
                          ELSE TakePdu(after[n - 1], tid, data)
  IN after[Len(data)].bodies

-----------------------------------------------------------------------------
(* list_pairings: IP and BLE start an entry at every Identifier, and what    *)
(* follows is its own; CoAP puts the items of each kind side by side.        *)

Identifier == 1
PublicKey == 3
Permissions == 11
Stated == <<6, <<2>>>>
Listed(pairings) ==
  <<Stated>> \o
  FlattenSeq([i \in DOMAIN pairings |->
    (IF i = 1 THEN <<>> ELSE <<<<Separator, <<>>>>>>) \o
    <<<<Identifier, pairings[i].id>>, <<PublicKey, pairings[i].key>>,
      <<Permissions, pairings[i].permissions>>>>])

AddPairing(list, item) ==
  CASE item[1] = Identifier -> Append(list, [id |-> item[2], key |-> <<>>, permissions |-> <<>>])
    [] item[1] = PublicKey -> [list EXCEPT ![Len(list)].key = item[2]]
    [] item[1] = Permissions -> [list EXCEPT ![Len(list)].permissions = item[2]]
    [] OTHER -> list
InTurn(items) ==
  LET after[n \in 0..(Len(items) - 1)] == IF n = 0 THEN <<>> ELSE AddPairing(after[n - 1], items[n + 1])
  IN after[Len(items) - 1]

(* The values of one kind, in their order.                                   *)
AllOf(items, key) ==
  FlattenSeq([i \in DOMAIN items |-> IF items[i][1] = key THEN <<items[i][2]>> ELSE <<>>])
SideBySide(items) ==
  LET ids == AllOf(items, Identifier)
      keys == AllOf(items, PublicKey)
      permissions == AllOf(items, Permissions)
  IN [i \in DOMAIN ids \cap DOMAIN keys \cap DOMAIN permissions |->
        [id |-> ids[i], key |-> keys[i], permissions |-> permissions[i]]]

-----------------------------------------------------------------------------
(* What comes back of what was encoded.                                      *)

(* Every pairing with its key and its permissions, on all transports.        *)
PairingsRoundTrip(pairings) ==
  LET items == Decode(EncodeList(Listed(pairings)), {})
  IN InTurn(items) = pairings /\ SideBySide(items) = pairings

(* Empty values are lost, and neighbours with one key become one item.       *)
AddKept(result, item) ==
  IF item[1] # Separator /\ item[2] = <<>> THEN result ELSE AddItem(result, item)
Merged(d) ==
  LET after[n \in 0..Len(d)] == IF n = 0 THEN <<>> ELSE AddKept(after[n - 1], d[n])
  IN after[Len(d)]
TlvRoundTrip(d) == Decode(EncodeList(d), {}) = Merged(d)

(* The fragments of an answer, of n bytes each.                              *)
FragmentsRoundTrip(d, n) ==
  LET pieces == Pieces(EncodeList(d), n)
      key(i) == IF i = Len(pieces) THEN FragmentLast ELSE FragmentData
      answers == [i \in DOMAIN pieces |-> Written(EncodeItem(key(i), pieces[i]))]
  IN pieces # <<>> => Reassembled(answers) = Decode(EncodeList(d), {})

(* Empty bytes are absent, and so is a sequence that ends up empty; of a       *)
(* sequence an empty last structure is lost.                                 *)
StructRoundTrip(s) ==
  LET inner(v) == IF v = <<>> THEN Absent ELSE v
      items == [i \in DOMAIN s.many |-> inner(s.many[i])]
  IN DecodeStruct(EncodeStruct(s)) =
       [one |-> inner(s.one),
        many |-> IF s.many = Absent \/ EncodeSequence(s.many) = <<>> THEN Absent
                 ELSE IF Last(items) = Absent THEN Front(items) ELSE items]

(* A request fits the link in pieces, and as an answer reads as it was.      *)
PduRoundTrip(tid, data, size) ==
  LET fragments == EncodePdu(tid, data, size)
  IN /\ \A i \in DOMAIN fragments : PduSize(fragments[i]) <= size
     /\ ReadPdu(tid, fragments) = [data |-> data, unread |-> <<>>]

(* Every answer of a batch stays in its place, whichever of them fail.       *)
BatchRoundTrip(answers) ==
  LET pdu(a) == <<a.control, a.tid, a.status, Len(a.body)>> \o a.body
      fails(i) ==
        answers[i].tid # i - 1 \/ answers[i].status # Success \/ answers[i].control # Response
  IN DecodeAllPdus(0, FlattenSeq([i \in DOMAIN answers |-> pdu(answers[i])])) =
       [i \in DOMAIN answers |-> IF fails(i) THEN Failed ELSE answers[i].body]

-----------------------------------------------------------------------------
(* What the code encodes: any bytes and lists of them.  A separator has no   *)
(* value, an accessory names its pairings, and a batch has an answer.        *)

Bytes == Seq(Nat)
TlvItems == Nat \X Bytes
Listable(d) == d \in Seq(TlvItems) /\ \A i \in 1..Len(d) : d[i][1] = Separator => d[i][2] = <<>>
Values == {Absent} \cup Bytes
Pairings == [id : Bytes \ {<<>>}, key : Bytes \ {<<>>}, permissions : Bytes \ {<<>>}]
Replies == [control : Nat, tid : Nat, status : Nat, body : Bytes]

Encodable(j) ==
  \/ j.kind = "tlv" /\ Listable(j.of)
  \/ j.kind = "fragments" /\ Listable(j.of.d) /\ j.of.n \in Nat \ {0}
  \/ /\ j.kind = "struct" /\ j.of.one \in Values
     /\ j.of.many = Absent \/ (j.of.many \in Seq(Values) /\ EncodeSequence(j.of.many) # Absent)
  \/ /\ j.kind = "pdu" /\ j.of.data \in Bytes /\ j.of.tid \in Nat
     /\ j.of.mtu \in Nat /\ j.of.maxWrite \in Nat /\ j.of.secure \in BOOLEAN
  \/ j.kind = "pairings" /\ j.of \in Seq(Pairings)
  \/ j.kind = "batch" /\ j.of \in Seq(Replies) /\ j.of # <<>>

AllEncodable == \A j \in Jobs : Encodable(j)
ASSUME JobsAssumption == AllEncodable

CodecsInit == job \in Jobs
CodecsSpec == CodecsInit /\ [][FALSE]_job

(* What is encoded is what is decoded: TLV lists, the fragments of a pairing *)
(* answer, TLV8 structures, the PDUs of BLE, lists of pairings and the       *)
(* batches of CoAP (TLV, tlv8, pdu, list_pairings, coap/pdu).                *)
CodecsRoundTrip ==
  LET of == job.of
  IN /\ job.kind = "tlv" => TlvRoundTrip(of)
     /\ job.kind = "fragments" => FragmentsRoundTrip(of.d, of.n)
     /\ job.kind = "struct" => StructRoundTrip(of)
     /\ job.kind = "pdu" =>
          PduRoundTrip(of.tid, of.data, FragmentSize(of.mtu, of.maxWrite, of.secure))
     /\ job.kind = "pairings" => PairingsRoundTrip(of)
     /\ job.kind = "batch" => BatchRoundTrip(of)
=============================================================================
