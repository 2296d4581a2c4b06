------------------------------ MODULE Entities ------------------------------
(***************************************************************************)
(* What becomes of a characteristic's description and value: signatures     *)
(* (coap/structs.py, ble/structs.py), the entity model and its dictionaries *)
(* (model), the values written (check_convert_value) and their bytes        *)
(* (ble/values.py), and the advertisements of BLE (manufacturer_data.py).   *)
(*                                                                          *)
(* A number is an integer, in tenths where it need not be whole.            *)
(***************************************************************************)
EXTENDS Integers, Sequences, SequencesExt

CONSTANTS
  Unset,  \* None, and a key that is not there
  Illegal, \* what is raised
  Known,  \* the tables of characteristics/data.py, for the types they have
  Base,   \* 256
  Width,  \* the bytes of each format of numbers
  Prec    \* 6

ASSUME NumbersAssumption == Base \in Nat /\ Base > 1 /\ Prec \in Nat \ {0}

LesserOf(a, b) == IF a < b THEN a ELSE b
GreaterOf(a, b) == IF a > b THEN a ELSE b
Distance(a, b) == IF a > b THEN a - b ELSE b - a

-----------------------------------------------------------------------------
(* Values as bytes, the lowest first; the signed format is "int".            *)

Numeric(format) == format \in DOMAIN Width
Largest(format) == Base ^ Width[format] - 1
Signed(format, n) ==
  IF format = "int" /\ n > Largest(format) \div 2 THEN n - Base ^ Width[format] ELSE n
Unpack(format, bytes) ==
  IF ~Numeric(format) THEN bytes
  ELSE IF Len(bytes) # Width[format] THEN Illegal
  ELSE Signed(format, FoldRight(LAMBDA b, n : b + Base * n, bytes, 0))

Fits(format, n) ==
  IF format = "int" THEN -((Largest(format) + 1) \div 2) <= n /\ n <= Largest(format) \div 2
  ELSE 0 <= n /\ n <= Largest(format)

(* from_bytes; bytes there are too many of are not read.                     *)
FromBytes(format, bytes) ==
  Unpack(format, IF Numeric(format) THEN SubSeq(bytes, 1, LesserOf(Width[format], Len(bytes)))
                 ELSE bytes)

(* Mutant: the highest byte is first.                                        *)
PackHighFirst(format, value) ==
  IF ~Numeric(format) THEN value
  ELSE IF ~Fits(format, value) THEN Illegal
  ELSE [i \in 1..Width[format] |-> (value \div Base ^ (Width[format] - i)) % Base]

Pack(format, value) ==
  IF ~Numeric(format) THEN value
  ELSE IF ~Fits(format, value) THEN Illegal
  ELSE [i \in 1..Width[format] |-> (value \div Base ^ (i - 1)) % Base]

-----------------------------------------------------------------------------
(* Characteristic.__init__ and create_from_dict; what is not there is taken  *)
(* from the tables.                                                          *)

Filled(d, key) ==
  IF d[key] = Unset /\ d.type \in DOMAIN Known THEN Known[d.type][key] ELSE d[key]

Falsy(n) == n \in {Unset, 0}
FirstValue(d) ==
  LET zero == IF Numeric(d.format) THEN 0 ELSE Unset
      atLeast == IF Falsy(d.min) THEN zero ELSE d.min
  IN IF d.valid # Unset /\ d.valid # <<>> THEN d.valid[1]
     ELSE IF Falsy(d.max) THEN atLeast
     ELSE IF Falsy(atLeast) THEN d.max
     ELSE LesserOf(atLeast, d.max)

(* A value is set whatever the permissions are.                              *)
Create(d) ==
  LET full == [d EXCEPT !.format = Filled(d, "format"), !.min = Filled(d, "min"),
                        !.max = Filled(d, "max"), !.step = Filled(d, "step"),
                        !.valid = Filled(d, "valid")]
  IN [full EXCEPT !.value = IF d.value # Unset THEN d.value
                            ELSE IF "pr" \in d.perms THEN FirstValue(full) ELSE Unset]

(* to_accessory_and_service_list                                             *)
Serialize(char) == [char EXCEPT !.value = IF "pr" \in char.perms THEN @ ELSE Unset]

(* Links to services that are not there are left out; a service without     *)
(* links has no list of them.                                                *)
Links(services) ==
  [i \in DOMAIN services |-> IF services[i].linked = Unset THEN <<>>
     ELSE SelectSeq(services[i].linked, LAMBDA l :
            l # 0 /\ \E j \in DOMAIN services : services[j].iid = l)]
ServiceList(services) ==
  [i \in DOMAIN services |->
     [iid |-> services[i].iid,
      linked |-> IF Links(services)[i] = <<>> THEN Unset ELSE Links(services)[i]]]

-----------------------------------------------------------------------------
(* Signatures: the properties, the presentation format, and bytes for the    *)
(* value, the range and the step.                                            *)

Perms(properties) ==
  {p[2] : p \in {q \in {<<"secure_reads", "pr">>, <<"secure_writes", "pw">>,
                         <<"connected_events", "ev">>, <<"hidden", "hd">>} :
                   q[1] \in properties}}

Half(bytes, i) == LET n == Len(bytes) \div 2 IN SubSeq(bytes, (i - 1) * n + 1, i * n)
MinMax(s, i) == IF s.range = <<>> \/ ~Numeric(s.format) THEN Unset
                ELSE IF Len(s.range) # 2 * Width[s.format] THEN Illegal
                ELSE Unpack(s.format, Half(s.range, i))

(* to_dict; CoAP has one name for all integers, and no empty values.         *)
ToDict(s) ==
  [type |-> s.type, perms |-> Perms(s.properties), format |-> s.format,
   value |-> IF s.value = Unset THEN Unset ELSE Unpack(s.format, s.value),
   min |-> MinMax(s, 1), max |-> MinMax(s, 2), valid |-> Unset,
   step |-> IF s.step = <<>> \/ Unpack(s.format, s.step) = 0 THEN Unset
            ELSE Unpack(s.format, s.step)]
CoapToDict(s) ==
  [ToDict(s) EXCEPT !.format = IF Numeric(@) THEN "int" ELSE @,
                    !.value = IF s.value = <<>> THEN Unset ELSE @]

-----------------------------------------------------------------------------
(* check_convert_value, of numbers.                                          *)

HalfUp(n, d) == IF n >= 0 THEN (2 * n + d) \div (2 * d) ELSE -((d - 2 * n) \div (2 * d))
HalfEven(n, d) ==
  LET down == n \div d
      twice == 2 * (n - d * down)
  IN IF twice < d \/ (twice = d /\ down % 2 = 0) THEN down ELSE down + 1

Figures(n) ==
  CHOOSE k \in 0..9 : Distance(n, 0) < 10 ^ k /\ (k = 0 \/ 10 ^ (k - 1) <= Distance(n, 0))

(* n / d with Prec figures, as a fraction.                                   *)
Rounded(n, d) ==
  LET k == Figures(Distance(n, 0) \div d)
  IN IF k <= Prec THEN <<HalfUp(n * 10 ^ (Prec - k), d), 10 ^ (Prec - k)>>
     ELSE <<HalfUp(n, d * 10 ^ (k - Prec)) * 10 ^ (k - Prec), 1>>
Exact(fraction) == fraction[1] \div fraction[2]

Clamped(char, n) ==
  LET low == IF char.min = Unset THEN n ELSE GreaterOf(char.min, n)
  IN IF char.max = Unset THEN low ELSE LesserOf(char.max, low)

Stepped(char, n) ==
  LET offset == IF char.min = Unset THEN 0 ELSE char.min
      steps == Rounded(Exact(Rounded(n - offset, 1)), char.step)
      along == Exact(Rounded(HalfUp(steps[1], steps[2]) * char.step, 1))
  IN Exact(Rounded(offset + along, 1))

CheckConvertValue(char, n) ==
  LET near == IF Falsy(char.step) THEN Clamped(char, n) ELSE Stepped(char, Clamped(char, n))
  IN IF char.format = "float" THEN near ELSE 10 * HalfEven(near, 10)

(* validate_value                                                            *)
ValidateValue(char, n) ==
  /\ char.min = Unset \/ n >= char.min
  /\ char.max = Unset \/ n <= char.max
  /\ char.step = Unset \/
       (char.step # 0 /\ (n - (IF char.min = Unset THEN 0 ELSE char.min)) % char.step = 0)

-----------------------------------------------------------------------------
(* Advertisements.                                                           *)

Advertised(a) ==
  <<6, 0, a.flags>> \o a.id \o Pack("uint16", a.category) \o Pack("uint16", a.stateNum) \o
  <<a.configNum, 0>> \o a.hash
FromManufacturerData(data) ==
  IF Len(data) < 15 \/ data[1] # 6 THEN Illegal
  ELSE [flags |-> data[3], id |-> SubSeq(data, 4, 9),
        category |-> Unpack("uint16", SubSeq(data, 10, 11)),
        stateNum |-> Unpack("uint16", SubSeq(data, 12, 13)), configNum |-> data[14],
        hash |-> IF Len(data) >= 19 THEN SubSeq(data, 16, 19) ELSE <<>>]
Notified(id, payload) == <<17, 0>> \o id \o payload
FromNotification(data) == [id |-> SubSeq(data, 3, 8), payload |-> SubSeq(data, 9, Len(data))]

-----------------------------------------------------------------------------
(* What is kept.                                                             *)

(* Saved and loaded again, a characteristic is the same, with what it was    *)
(* given; so are the links, and none is to a service that is not there.      *)
ReloadKeeps(d) ==
  LET saved == Serialize(Create(d))
  IN /\ Serialize(Create(saved)) = saved
     /\ \A key \in {"min", "max", "step", "valid", "format"} : d[key] # Unset => saved[key] = d[key]
     /\ d.value # Unset /\ "pr" \in d.perms => saved.value = d.value
LinksKeep(services) ==
  /\ Links(ServiceList(services)) = Links(services)
  /\ \A i \in DOMAIN services : \A l \in ToSet(Links(services)[i]) :
       l \in {services[j].iid : j \in DOMAIN services}

(* The value, the range and the permissions of a signature, and BLE's values *)
(* in the bytes it reads.                                                    *)
SignatureKeeps(s, coap) ==
  LET char == Create(IF coap THEN CoapToDict(s) ELSE ToDict(s))
  IN /\ "pr" \in char.perms <=> "secure_reads" \in s.properties
     /\ s.range # <<>> /\ Numeric(s.format) =>
          Pack(s.format, char.min) \o Pack(s.format, char.max) = s.range
     /\ s.value = Unset \/ (coap /\ s.value = <<>>) \/ Pack(s.format, char.value) = s.value
     /\ ~coap /\ s.value # Unset =>
          FromBytes(char.format, Pack(char.format, char.value) \o <<0>>) =
            IF Numeric(char.format) THEN char.value ELSE char.value \o <<0>>

(* Of numbers with Prec figures, a value becomes the nearest step, as near   *)
(* as a quotient of Prec figures tells it, and is valid, unless the steps do *)
(* not end at the largest value and it is beyond that.                       *)
ConvertKeeps(char, n) ==
  LET result == CheckConvertValue(char, n)
      grain == GreaterOf(IF Falsy(char.step) THEN 0 ELSE char.step,
                         IF char.format = "float" THEN 0 ELSE 10)
  IN Figures(n) <= Prec =>
       /\ 20 * Distance(result, Clamped(char, n)) <= 11 * grain
       /\ char.step = 0 \/ ValidateValue(char, result) \/ result > char.max

AdvertisementKeeps(a) ==
  /\ FromManufacturerData(Advertised(a)) =
       [a EXCEPT !.hash = IF Len(@) >= 4 THEN SubSeq(@, 1, 4) ELSE <<>>]
  /\ FromNotification(Notified(a.id, a.hash)) = [id |-> a.id, payload |-> a.hash]
=============================================================================
