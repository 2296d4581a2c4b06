---------------------------- MODULE PairProtocol ----------------------------
(***************************************************************************)
(* Pair setup, pair verify and the resumption of a session                  *)
(* (protocol/__init__.py), as the transports drive them ("ip" is CoAP too,  *)
(* whose finish_pairing works only once), with an accessory that may leave  *)
(* out the State, answer for another step, leave out items, or answer with  *)
(* what cannot be verified, and a link that drops.                          *)
(*                                                                          *)
(* A key, a salt, a secret is a fresh number; a session id and its secret   *)
(* are one number.  pc is the request that is not answered yet:             *)
(*   setup1 (M1), m3, m5 of pair setup; verify1 (M1), verify3 (M3)          *)
(***************************************************************************)
EXTENDS Integers

CONSTANTS
  None,
  MaxFresh,    \* bound: keys, salts and secrets
  MaxTries,    \* wrong proofs the accessory accepts (100)
  MaxAttempts  \* of retry_bluetooth_connection_error

ASSUME BoundsAssumption == {MaxFresh, MaxTries, MaxAttempts} \subseteq Nat \ {0}

VARIABLES
  transport, \* "ip" or "ble"
  c,     \* the controller: pc, the pin it was given, salt, attempt, its new key,
         \*   pairing data (its key), ephemeral key, session and keys
  a,     \* the accessory: the pair setup it is in, its wrong proofs, the key of
         \*   its owner, ephemeral key, session and keys
  net, answer, \* "none", "request" or "answer", and the answer
  fresh, \* numbers used
  lost,  \* history: the answer to M5 was lost or was not right
  refused \* history: M3 of pair verify was refused without a State

vars == <<transport, c, a, net, answer, fresh, lost, refused>>

Numbers == 1..MaxFresh
Pcs == {"idle", "setup1", "m3", "m5", "verify1", "verify3"}
Errors ==
  {"Unavailable", "Authentication", "Backoff", "MaxPeers", "MaxTries", "Busy", "Unknown"}
ASSUME NoneAssumption == None \notin Nat /\ None \notin {"right", "wrong"} \cup Errors
Flaws == {"tag", "items", "id", "signature"}
Items == {"PublicKey", "Salt", "Proof", "EncryptedData", "Method", "SessionID"}
Answers == [state : {"right", "wrong", "none"}, error : Errors \cup {None},
            items : SUBSET Items, flaw : Flaws \cup {None}, value : 0..MaxFresh]

ControllerOK ==
  c \in [pc : Pcs, pin : {"right", "wrong", None}, salt : 0..MaxFresh,
         attempt : 0..MaxAttempts, mine : 0..MaxFresh, data : Numbers \cup {None},
         eph : 0..MaxFresh, session : 0..MaxFresh, keys : Numbers \cup {None}]
AccessoryOK ==
  a \in [setup : 0..MaxFresh, proved : BOOLEAN, tries : 0..MaxTries,
         owner : Numbers \cup {None}, eph : 0..MaxFresh, session : 0..MaxFresh,
         keys : Numbers \cup {None}]

Right(items, v) ==
  [state |-> "right", error |-> None, items |-> items, flaw |-> None, value |-> v]
Refusal(e) == [Right({}, 0) EXCEPT !.error = e]

Init ==
  /\ transport \in {"ip", "ble"}
  /\ c = [pc |-> "idle", pin |-> None, salt |-> 0, attempt |-> 0, mine |-> 0,
          data |-> None, eph |-> 0, session |-> 0, keys |-> None]
  /\ a = [setup |-> 0, proved |-> FALSE, tries |-> 0, owner |-> None, eph |-> 0,
          session |-> 0, keys |-> None]
  /\ net = "none" /\ answer = Right({}, 0) /\ fresh = 0 /\ lost = FALSE /\ refused = FALSE

Asked == net = "request"
Answered == net = "answer"
New == fresh + 1
Fresh == fresh < MaxFresh /\ fresh' = New

-----------------------------------------------------------------------------
(* What the controller makes of an answer.                                   *)

(* error_handler; an error code it does not know is an InvalidError.         *)
ErrorHandler(e) ==
  CASE e = "Unavailable" -> "UnavailableError"
    [] e = "Authentication" -> "AuthenticationError"
    [] e = "Backoff" -> "BackoffError"
    [] e = "MaxPeers" -> "MaxPeersError"
    [] e = "MaxTries" -> "MaxTriesError"
    [] e = "Busy" -> "BusyError"
    [] OTHER -> "InvalidError"

(* handle_state_step: without a State nothing is looked at.                  *)
StateStep(ans) ==
  IF ans.state = "wrong" THEN "InvalidError"
  ELSE IF ans.state = "none" \/ ans.error = None THEN "ok"
  ELSE ErrorHandler(ans.error)

(* The answer to M1 of pair verify is decoded up to the first item that is   *)
(* not expected, and an Error is not; BLE does not say what it expects.      *)
Decoded(ans) ==
  IF transport = "ip" /\ c.pc = "verify1" THEN [ans EXCEPT !.error = None] ELSE ans

(* Mutant: M6 is not read.                                                   *)
NeedsNoM6 ==
  [setup1 |-> {"PublicKey", "Salt"}, m3 |-> {"Proof"}, m5 |-> {},
   verify1 |-> {"PublicKey", "EncryptedData"}, verify3 |-> {}]

Needs ==
  [setup1 |-> {"PublicKey", "Salt"}, m3 |-> {"Proof"}, m5 |-> {"EncryptedData"},
   verify1 |-> {"PublicKey", "EncryptedData"}, verify3 |-> {}]

(* Proofs, authentication tags, contents, identifiers and signatures.        *)
Verified(pc, flaw) ==
  IF flaw = None \/ pc \in {"setup1", "verify3"} THEN "ok"
  ELSE IF pc = "m3" THEN "AuthenticationError"
  ELSE CASE flaw = "tag" -> IF pc = "m5" THEN "IllegalData" ELSE "InvalidAuthTagError"
         [] flaw = "items" -> "InvalidError"
         [] flaw = "id" -> IF pc = "m5" THEN "ok" ELSE "IncorrectPairingIdError"
         [] flaw = "signature" -> "InvalidSignatureError"

(* resume_m3                                                                 *)
Resumed(ans) ==
  /\ c.pc = "verify1" /\ transport = "ble" /\ c.session # 0
  /\ {"Method", "SessionID", "EncryptedData"} \subseteq ans.items
  /\ ans.flaw # "tag"

Judge(ans) ==
  IF StateStep(ans) # "ok" THEN StateStep(ans)
  ELSE IF Resumed(ans) THEN "ok"
  ELSE IF ~(Needs[c.pc] \subseteq ans.items) THEN "InvalidError"
  ELSE Verified(c.pc, ans.flaw)

-----------------------------------------------------------------------------
(* The controller's calls.                                                   *)

Ask(new) == c' = new /\ net' = "request"
Rest(new) == c' = new /\ net' = "none"

(* async_start_pairing                                                       *)
StartPairing ==
  /\ c.pc = "idle" /\ c.data = None /\ net = "none"
  /\ Ask([c EXCEPT !.pc = "setup1", !.pin = None, !.salt = 0, !.attempt = 0])
  /\ UNCHANGED <<transport, a, answer, fresh, lost, refused>>

(* finish_pairing, which may be called again with another pin: BLE then      *)
(* starts over, IP uses the salt again.                                      *)
FinishPairing ==
  /\ c.pc = "idle" /\ c.data = None /\ c.salt # 0 /\ net = "none"
  /\ c.attempt < MaxAttempts
  /\ \E pin \in {"right", "wrong"} :
       Ask([c EXCEPT !.pc = IF transport = "ble" /\ c.attempt > 0 THEN "setup1" ELSE "m3",
                     !.pin = pin, !.attempt = @ + 1])
  /\ UNCHANGED <<transport, a, answer, fresh, lost, refused>>

(* get_session_keys                                                          *)
StartVerify ==
  /\ c.pc = "idle" /\ c.data # None /\ c.keys = None /\ net = "none"
  /\ Fresh
  /\ Ask([c EXCEPT !.pc = "verify1", !.eph = New])
  /\ UNCHANGED <<transport, a, answer, lost, refused>>

Fails == Rest([c EXCEPT !.pc = "idle"]) /\ UNCHANGED fresh

(* Mutant: the resumed session keeps the secret of the old one.              *)
ResumeOld(ans) ==
  /\ Rest([c EXCEPT !.pc = "idle", !.keys = c.session])
  /\ UNCHANGED fresh

Resume(ans) ==
  /\ Rest([c EXCEPT !.pc = "idle", !.session = ans.value, !.keys = ans.value])
  /\ UNCHANGED fresh

(* The salt is kept until finish_pairing, or the proof follows at once.      *)
Part1Done(ans) ==
  /\ IF c.pin = None
     THEN Rest([c EXCEPT !.pc = "idle", !.salt = ans.value, !.attempt = 0])
     ELSE Ask([c EXCEPT !.pc = "m3", !.salt = ans.value])
  /\ UNCHANGED fresh

ProofDone == Fresh /\ Ask([c EXCEPT !.pc = "m5", !.mine = New])

Part2Done ==
  /\ Rest([c EXCEPT !.pc = "idle", !.data = c.mine, !.salt = 0])
  /\ UNCHANGED fresh

VerifyGoesOn == Ask([c EXCEPT !.pc = "verify3"]) /\ UNCHANGED fresh

VerifyDone ==
  /\ Rest([c EXCEPT !.pc = "idle", !.keys = c.eph,
                    !.session = IF transport = "ble" THEN c.eph ELSE 0])
  /\ UNCHANGED fresh

Receive ==
  /\ Answered
  /\ LET ans == Decoded(answer)
     IN IF Judge(ans) # "ok" THEN Fails
        ELSE IF Resumed(ans) THEN Resume(ans)
        ELSE CASE c.pc = "setup1" -> Part1Done(ans)
               [] c.pc = "m3" -> ProofDone
               [] c.pc = "m5" -> Part2Done
               [] c.pc = "verify1" -> VerifyGoesOn
               [] c.pc = "verify3" -> VerifyDone
  /\ UNCHANGED <<transport, a, answer, lost, refused>>

-----------------------------------------------------------------------------
(* The accessory.                                                            *)

(* The answer as it is, or what a faulty accessory makes of it.              *)
Sent(ans) ==
  {ans, [ans EXCEPT !.state = "none"], [ans EXCEPT !.state = "wrong"],
   [ans EXCEPT !.items = {}]} \cup {[ans EXCEPT !.flaw = f] : f \in Flaws}

Answer(ans) ==
  /\ net' = "answer" /\ answer' \in Sent(ans)
  /\ lost' = (lost \/ (c.pc = "m5" /\ answer' # ans))
  /\ refused' = IF c.pc = "verify3"
                THEN ans.error # None /\ answer'.state = "none" ELSE refused

AnswersSetup1 ==
  /\ Asked /\ c.pc = "setup1"
  /\ CASE a.owner # None -> Answer(Refusal("Unavailable")) /\ UNCHANGED <<a, fresh>>
       [] a.owner = None /\ a.tries >= MaxTries -> Answer(Refusal("MaxTries")) /\ UNCHANGED <<a, fresh>>
       [] OTHER -> /\ Fresh /\ a' = [a EXCEPT !.setup = New, !.proved = FALSE]
                   /\ Answer(Right({"PublicKey", "Salt"}, New))
  /\ UNCHANGED <<transport, c>>

AnswersM3 ==
  /\ Asked /\ c.pc = "m3"
  /\ IF a.setup # 0 /\ a.setup = c.salt /\ c.pin = "right"
     THEN a' = [a EXCEPT !.proved = TRUE] /\ Answer(Right({"Proof"}, 0))
     ELSE /\ a' = [a EXCEPT !.setup = 0, !.tries = IF @ < MaxTries THEN @ + 1 ELSE @]
          /\ Answer(Refusal("Authentication"))
  /\ UNCHANGED <<transport, c, fresh>>

(* It has no proof if it has forgotten the pair setup.                       *)
AnswersM5 ==
  /\ Asked /\ c.pc = "m5"
  /\ IF a.proved /\ a.setup = c.salt
     THEN /\ a' = [a EXCEPT !.owner = c.mine, !.setup = 0, !.proved = FALSE]
          /\ Answer(Right({"EncryptedData"}, 0))
     ELSE Answer(Refusal("Authentication")) /\ UNCHANGED a
  /\ UNCHANGED <<transport, c, fresh>>

AnswersVerify1 ==
  /\ Asked /\ c.pc = "verify1"
  /\ IF transport = "ble" /\ c.session # 0 /\ a.session = c.session
     THEN /\ Fresh /\ a' = [a EXCEPT !.session = New, !.keys = New]
          /\ Answer(Right({"Method", "SessionID", "EncryptedData"}, New))
     ELSE /\ a' = [a EXCEPT !.eph = c.eph] /\ UNCHANGED fresh
          /\ Answer(Right({"PublicKey", "EncryptedData"}, 0))
  /\ UNCHANGED <<transport, c>>

AnswersVerify3 ==
  /\ Asked /\ c.pc = "verify3"
  /\ IF a.owner = c.data /\ a.eph = c.eph
     THEN /\ a' = [a EXCEPT !.keys = c.eph, !.session = c.eph]
          /\ Answer(Right({}, 0))
     ELSE Answer(Refusal("Authentication")) /\ UNCHANGED a
  /\ UNCHANGED <<transport, c, fresh>>

(* It may refuse whatever it is asked.                                       *)
Refuses(e) ==
  /\ Asked /\ Answer(Refusal(e))
  /\ UNCHANGED <<transport, c, a, fresh>>

(* The link drops and the accessory forgets what belongs to it.  The         *)
(* transports fail the call; for BLE it is a connection error, and           *)
(* retry_bluetooth_connection_error starts pair setup over.                  *)
LinkDrops ==
  /\ net # "none" \/ c.keys # None \/ a.setup # 0
  /\ a' = [a EXCEPT !.setup = 0, !.proved = FALSE, !.eph = 0, !.keys = None]
  /\ lost' = (lost \/ (c.pc = "m5" /\ Answered))
  /\ IF transport = "ble" /\ c.pc \in {"setup1", "m3", "m5"} /\ c.attempt < MaxAttempts
     THEN Ask([c EXCEPT !.pc = "setup1", !.attempt = @ + 1])
     ELSE Rest([c EXCEPT !.pc = "idle", !.keys = None])
  /\ UNCHANGED <<transport, answer, fresh, refused>>

Next ==
  \/ StartPairing \/ FinishPairing \/ StartVerify \/ Receive \/ LinkDrops
  \/ AnswersSetup1 \/ AnswersM3 \/ AnswersM5 \/ AnswersVerify1 \/ AnswersVerify3
  \/ \E e \in Errors : Refuses(e)

Spec == Init /\ [][Next]_vars

-----------------------------------------------------------------------------
(* Pairing data is what the accessory keeps too; and the accessory has no    *)
(* owner that does not know of it, unless the answer to M5 was lost or not   *)
(* right (perform_pair_setup_part2 and the transports' finish_pairing).      *)
PairedTogether ==
  /\ c.data # None => a.owner = c.data
  /\ a.owner # None /\ c.data = None => c.pc = "m5" \/ lost

(* The keys of a session are the accessory's, after a full verify or a       *)
(* resumption, whatever was lost before, unless the accessory's refusal had  *)
(* no State and went unseen (get_session_keys, resume_m3, handle_state_step).*)
KeysAgree == c.keys # None => a.keys = c.keys \/ refused
=============================================================================
