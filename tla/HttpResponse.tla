---------------------------- MODULE HttpResponse ----------------------------
(***************************************************************************)
(* How the bytes of a TCP connection become responses and events: the       *)
(* blocks of a secure session (SecureHomeKitProtocol.data_received), the    *)
(* parser (http/response.py) and InsecureHomeKitProtocol.data_received.     *)
(*                                                                          *)
(* A byte is an integer.  The text of a line is one byte: HTTP or EVENT, a  *)
(* header, or a number n >= 0, which is Content-Length: n among the headers *)
(* and the size of a chunk in a body.  A block is its length in two bytes,  *)
(* the data and a tag, which is the number of the block.                    *)
(***************************************************************************)
EXTENDS Integers, Sequences

CONSTANTS
  Parts,      \* the bodies and chunks the accessory may send
  BlockSizes, \* the sizes of its blocks
  MaxText,    \* bound: bytes of plain text on the connection
  MaxAhead    \* bound: bytes written before the next piece, more than have arrived

MaxBlock == 65535  \* a block's length is in two bytes

ASSUME PartsAssumption == Parts \subseteq Seq(Int) \ {<<>>}
ASSUME BlockSizesAssumption == BlockSizes \subseteq 1..MaxBlock
ASSUME MaxAssumption == MaxText \in Nat /\ MaxAhead \in Nat

CR == -1
LF == -2
HTTP == -3
EVENT == -4
ENCODING == -5  \* Transfer-Encoding: chunked
FIELD == -6     \* any other header
CRLF == <<CR, LF>>
Line(x) == <<x, CR, LF>>

VARIABLES
  secure,   \* the connection has keys
  text,     \* what the accessory has written, before encryption
  pieces,   \* history: where each line, chunk and body of it ends, and its message so far
  stream,   \* what it has written, encrypted
  blocks,   \* history: where each block ends, in stream and in text
  arrived,  \* how many bytes TCP has delivered
  incoming, \* _incoming_buffer
  response, \* current_response
  counter,  \* a2c_counter
  received, \* history: responses and events given out, in order
  doing     \* "reading" blocks, "parsing" what one held, "broken" by an exception

accessoryVars == <<text, pieces, stream, blocks>>
readerVars == <<arrived, incoming, response, counter, received, doing>>
streamVars == <<secure, accessoryVars, readerVars>>

(* The bytes of q after the first i, up to the first k.                      *)
Slice(q, i, k) == SubSeq(q, i + 1, k)

-----------------------------------------------------------------------------
(* The parser.                                                               *)

NoResponse ==
  [state |-> "status", raw |-> <<>>, chunked |-> FALSE, empty |-> FALSE,
   length |-> -1, name |-> FIELD, body |-> <<>>]

(* The first line's length, or -1.                                           *)
Find(raw) ==
  LET at == {i \in 1..(Len(raw) - 1) : raw[i] = CR /\ raw[i + 1] = LF}
  IN IF at = {} THEN -1 ELSE (CHOOSE i \in at : \A j \in at : i <= j) - 1

LineFound(p) == p.state \in {"status", "headers"} /\ Find(p.raw) # -1

TakeLine(p) ==
  LET pos == Find(p.raw)
      line == Slice(p.raw, 0, pos)
      q == [p EXCEPT !.raw = Slice(@, pos + 2, Len(@))]
  IN IF p.state = "status" THEN [q EXCEPT !.name = line[1], !.state = "headers"]
     ELSE IF line = <<>> THEN [q EXCEPT !.state = "body"]
     ELSE IF line[1] = ENCODING THEN [q EXCEPT !.chunked = TRUE]
     ELSE IF line[1] >= 0 THEN [q EXCEPT !.length = line[1]]
     ELSE q

(* A chunk that is not complete stays, with its size.                        *)
ChunkFound(p) ==
  /\ p.state = "body" /\ p.chunked
  /\ Find(p.raw) # -1 /\ p.raw[1] + 2 <= Len(p.raw) - (Find(p.raw) + 2)

TakeChunk(p) ==
  LET from == Find(p.raw) + 2
      length == p.raw[1]
      q == [p EXCEPT !.raw = Slice(@, from + length + 2, Len(@))]
  IN IF length = 0 THEN [q EXCEPT !.empty = TRUE, !.state = "done"]
     ELSE [q EXCEPT !.body = @ \o Slice(p.raw, from, from + length)]

(* Mutant: the body takes the bytes of the next message too.                 *)
CountedGreedy(p) ==
  IF p.state = "body" /\ p.length > 0
  THEN [p EXCEPT !.body = @ \o p.raw, !.raw = <<>>] ELSE p

Counted(p) ==
  LET remaining == p.length - Len(p.body)
      n == IF remaining < Len(p.raw) THEN remaining ELSE Len(p.raw)
  IN IF p.state = "body" /\ p.length > 0
     THEN [p EXCEPT !.body = @ \o Slice(p.raw, 0, n), !.raw = Slice(@, n, Len(@))]
     ELSE p

IsReadCompletely(p) ==
  IF p.chunked THEN p.empty
  ELSE p.state \notin {"status", "headers"} /\ p.length \in {-1, Len(p.body)}

-----------------------------------------------------------------------------
(* data_received of both protocols, on a record of the reader's state.       *)

Reader(in, p, n, out, what) ==
  [incoming |-> in, response |-> p, counter |-> n, received |-> out, doing |-> what]

(* The end of parse: the body by length, then what is complete is given out  *)
(* and the rest goes to the next response.                                   *)
Parsed(s) ==
  LET q == Counted(s.response)
      message == [name |-> q.name, body |-> q.body]
  IN IF ~IsReadCompletely(q)
     THEN Reader(s.incoming, q, s.counter, s.received, "reading")
     ELSE IF q.name \notin {HTTP, EVENT}
     THEN Reader(s.incoming, q, s.counter, s.received, "broken")
     ELSE Reader(s.incoming, [NoResponse EXCEPT !.raw = q.raw], s.counter,
                 Append(s.received, message),
                 IF q.raw = <<>> THEN "reading" ELSE "parsing")

BlockFound(in) == Len(in) >= 2 /\ Len(in) >= in[1] + 256 * in[2] + 3

(* The block is dropped before it is decrypted.                              *)
Decrypt(s) ==
  LET in == s.incoming
      n == in[1] + 256 * in[2]
      data == Slice(in, 2, n + 2)
      rest == Slice(in, n + 3, Len(in))
  IN IF in[n + 3] # s.counter
     THEN Reader(rest, s.response, s.counter, s.received, "broken")
     ELSE Reader(rest, [s.response EXCEPT !.raw = @ \o data], s.counter + 1, s.received,
                 IF data = <<>> THEN "reading" ELSE "parsing")

(* One turn of the innermost loop that is running.                           *)
Turn(s) ==
  LET p == s.response
      Parsing(q) == Reader(s.incoming, q, s.counter, s.received, "parsing")
  IN IF s.doing = "parsing"
     THEN IF LineFound(p) THEN Parsing(TakeLine(p))
          ELSE IF ChunkFound(p) THEN Parsing(TakeChunk(p))
          ELSE Parsed(s)
     ELSE IF s.doing = "reading" /\ BlockFound(s.incoming) THEN Decrypt(s)
     ELSE s

(* As many turns as the loops can make: each takes a byte or ends a loop.    *)
Handled(s) ==
  LET after[n \in Nat] == IF n = 0 THEN s ELSE Turn(after[n - 1])
  IN after[Len(s.incoming) + Len(s.response.raw) + 2]

-----------------------------------------------------------------------------
NoPiece == [end |-> 0, nth |-> 0, state |-> "done", over |-> TRUE,
            name |-> FIELD, chunked |-> FALSE, length |-> -1, body |-> <<>>]
NoBlock == [wire |-> 0, plain |-> 0]

StreamInit ==
  /\ secure \in BOOLEAN
  /\ text = <<>> /\ pieces = <<NoPiece>> /\ stream = <<>> /\ blocks = <<NoBlock>>
  /\ arrived = 0 /\ incoming = <<>> /\ response = NoResponse /\ counter = 0
  /\ received = <<>> /\ doing = "reading"

(* What the accessory writes, piece by piece.                                *)
Latest == pieces[Len(pieces)]

Write(bytes, state, over, name, chunked, length, body) ==
  /\ Len(text) <= arrived + MaxAhead /\ Len(text) + Len(bytes) <= MaxText
  /\ text' = text \o bytes
  /\ pieces' = Append(pieces,
       [end |-> Len(text) + Len(bytes), nth |-> IF over THEN Latest.nth + 1 ELSE Latest.nth,
        state |-> state, over |-> over,
        name |-> name, chunked |-> chunked, length |-> length, body |-> body])
  /\ UNCHANGED <<secure, stream, blocks, readerVars>>

WriteStatus(name) ==
  Latest.over /\ Write(Line(name), "headers", FALSE, name, FALSE, -1, <<>>)

WriteHeader(x) ==
  /\ Latest.state = "headers"
  /\ x # FIELD => ~Latest.chunked /\ Latest.length = -1
  /\ Write(Line(x), "headers", FALSE, Latest.name, Latest.chunked \/ x = ENCODING,
           IF x >= 0 THEN x ELSE Latest.length, <<>>)

WriteBlank ==
  /\ Latest.state = "headers"
  /\ Write(CRLF, "body", ~Latest.chunked /\ Latest.length <= 0,
           Latest.name, Latest.chunked, Latest.length, <<>>)

InBody == Latest.state = "body" /\ ~Latest.over

WriteBody(bytes) ==
  /\ InBody /\ ~Latest.chunked /\ Len(bytes) = Latest.length
  /\ Write(bytes, "body", TRUE, Latest.name, FALSE, Latest.length, bytes)

WriteChunk(bytes) ==
  /\ InBody /\ Latest.chunked
  /\ Write(Line(Len(bytes)) \o bytes \o CRLF, "body", FALSE,
           Latest.name, TRUE, Latest.length, Latest.body \o bytes)

WriteLastChunk ==
  /\ InBody /\ Latest.chunked
  /\ Write(Line(0) \o CRLF, "done", TRUE, Latest.name, TRUE, Latest.length, Latest.body)

(* What is written goes out in blocks.                                       *)
Block(data, n) == <<Len(data) % 256, Len(data) \div 256>> \o data \o <<n>>

Encrypt(n) ==
  LET from == blocks[Len(blocks)].plain
  IN /\ secure /\ from + n <= Len(text)
     /\ stream' = stream \o Block(Slice(text, from, from + n), Len(blocks) - 1)
     /\ blocks' = Append(blocks, [wire |-> Len(stream) + n + 3, plain |-> from + n])
     /\ UNCHANGED <<secure, text, pieces, readerVars>>

Accessory ==
  \/ \E name \in {HTTP, EVENT} : WriteStatus(name)
  \/ \E x \in {ENCODING, FIELD, 0} \cup {Len(bytes) : bytes \in Parts} : WriteHeader(x)
  \/ WriteBlank
  \/ \E bytes \in Parts : WriteBody(bytes) \/ WriteChunk(bytes)
  \/ WriteLastChunk
  \/ \E n \in BlockSizes : Encrypt(n)

(* TCP delivers any part of what is under way.                               *)
Deliver ==
  /\ doing = "reading"
  /\ \E n \in (arrived + 1)..Len(IF secure THEN stream ELSE text) :
       LET fresh == IF secure
                    THEN Reader(incoming \o Slice(stream, arrived, n), response,
                                counter, received, "reading")
                    ELSE Reader(incoming,
                                [response EXCEPT !.raw = @ \o Slice(text, arrived, n)],
                                counter, received, "parsing")
           s == Handled(fresh)
       IN /\ arrived' = n
          /\ incoming' = s.incoming /\ response' = s.response /\ counter' = s.counter
          /\ received' = s.received /\ doing' = s.doing
          /\ UNCHANGED <<secure, accessoryVars>>

StreamNext == Accessory \/ Deliver
StreamSpec == StreamInit /\ [][StreamNext]_streamVars

-----------------------------------------------------------------------------
(* The first n bytes of the text have come, and can be read.                 *)
Come(n) ==
  IF secure
  THEN \E i \in DOMAIN blocks : blocks[i].wire <= arrived /\ n <= blocks[i].plain
  ELSE n <= arrived

Messages == {i \in DOMAIN pieces : pieces[i].over /\ pieces[i].nth > 0}

(* Wherever TCP cuts the bytes, and however the accessory cuts its text into *)
(* blocks, what has been given out are the messages that have come as a      *)
(* whole, in order, with their bodies, and all of them; and no block is      *)
(* refused (HttpResponse.parse and both data_received).                      *)
CutAnywhere ==
  /\ doing # "broken"
  /\ \A k \in DOMAIN received :
       \E i \in Messages :
         /\ pieces[i].nth = k
         /\ received[k] = [name |-> pieces[i].name, body |-> pieces[i].body]
  /\ \A i \in Messages : pieces[i].nth <= Len(received) <=> Come(pieces[i].end)
=============================================================================
