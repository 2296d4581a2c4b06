------------------------- MODULE PairProtocolProofs -------------------------
(* Pair setup leaves both sides with the same pairing, or a named trace of   *)
(* what went wrong, and a session has the same keys on both sides.           *)
EXTENDS PairProtocol, TLAPS

Typed ==
  /\ transport \in {"ip", "ble"} /\ ControllerOK /\ AccessoryOK
  /\ net \in {"none", "request", "answer"} /\ answer \in Answers
  /\ fresh \in 0..MaxFresh /\ lost \in BOOLEAN /\ refused \in BOOLEAN

(* What a pending request has made sure of.                                  *)
Pending ==
  /\ c.pc = "idle" <=> net = "none"
  /\ c.pc \in {"setup1", "m3", "m5"} => c.data = None
  /\ c.pc = "m5" => c.mine # 0
  /\ c.pc \in {"verify1", "verify3"} => c.eph # 0 /\ c.keys = None /\ c.data # None
  /\ c.data = None => c.keys = None

(* What an answer says of the accessory.                                     *)
Resumes(ans) == {"Method", "SessionID", "EncryptedData"} \subseteq ans.items
Informed ==
  Answered =>
    /\ c.pc = "m5" /\ "EncryptedData" \in answer.items => a.owner = c.mine
    /\ c.pc = "verify1" /\ Resumes(answer) => answer.value # 0 /\ a.keys = answer.value
    /\ c.pc = "verify3" => \/ a.keys = c.eph
                           \/ answer.error # None /\ (answer.state = "none" => refused)

(* Without pairing data there is an owner only if its answer to M5 is about  *)
(* to be read, or was lost.                                                  *)
Owned ==
  /\ c.data # None => a.owner = c.data
  /\ c.data = None /\ a.owner # None =>
       lost \/ (c.pc = "m5" /\ Answered /\ answer = Right({"EncryptedData"}, 0))

PairInv == Typed /\ Pending /\ Informed /\ Owned /\ KeysAgree

-----------------------------------------------------------------------------
(* An answer as it is sent is the accessory's but for its flaws.             *)
LEMMA SentAnswer ==
  ASSUME Typed, NEW ans \in Answers, ans.state = "right", Answer(ans)
  PROVE  /\ answer' \in Answers /\ net' = "answer" /\ lost' \in BOOLEAN /\ refused' \in BOOLEAN
         /\ answer'.error = ans.error /\ answer'.value = ans.value
         /\ answer'.items \subseteq ans.items
         /\ lost => lost'
         /\ c.pc = "m5" => answer' = ans \/ lost'
         /\ c.pc = "verify3" =>
              (ans.error # None /\ answer'.state = "none" => refused')
         /\ c.pc # "verify3" => refused' = refused
<1>1. answer' \in Answers /\ answer'.error = ans.error /\ answer'.value = ans.value
      /\ answer'.items \subseteq ans.items
  <2>1. answer' \in Sent(ans)
    BY DEF Answer
  <2>2. CASE answer' = ans
    BY <2>2
  <2>3. CASE answer' = [ans EXCEPT !.state = "none"]
    BY <2>3 DEF Answers
  <2>4. CASE answer' = [ans EXCEPT !.state = "wrong"]
    BY <2>4 DEF Answers
  <2>5. CASE answer' = [ans EXCEPT !.items = {}]
    BY <2>5 DEF Answers
  <2>6. ASSUME NEW f \in Flaws, answer' = [ans EXCEPT !.flaw = f]
        PROVE  answer' \in Answers /\ answer'.error = ans.error /\ answer'.value = ans.value
               /\ answer'.items \subseteq ans.items
    BY <2>6 DEF Answers
  <2> QED
    BY <2>1, <2>2, <2>3, <2>4, <2>5, <2>6 DEF Sent
<1>2. net' = "answer" /\ lost' \in BOOLEAN /\ (lost => lost')
      /\ (c.pc = "m5" => answer' = ans \/ lost')
  BY DEF Answer, Typed
<1>3. /\ refused' \in BOOLEAN
      /\ c.pc = "verify3" => (ans.error # None /\ answer'.state = "none" => refused')
      /\ c.pc # "verify3" => refused' = refused
  BY DEF Answer, Typed
<1> QED
  BY <1>1, <1>2, <1>3

LEMMA Replies ==
  /\ \A items \in SUBSET Items, v \in 0..MaxFresh :
       /\ Right(items, v) \in Answers /\ Right(items, v).state = "right"
       /\ Right(items, v).items = items /\ Right(items, v).value = v
       /\ Right(items, v).error = None
  /\ \A e \in Errors :
       /\ Refusal(e) \in Answers /\ Refusal(e).state = "right" /\ Refusal(e).items = {}
       /\ Refusal(e).error = e /\ Refusal(e).error # None
<1>1. ASSUME NEW items \in SUBSET Items, NEW v \in 0..MaxFresh
      PROVE  /\ Right(items, v) \in Answers /\ Right(items, v).state = "right"
             /\ Right(items, v).items = items /\ Right(items, v).value = v
             /\ Right(items, v).error = None
  BY DEF Right, Answers
<1>2. ASSUME NEW e \in Errors
      PROVE  /\ Refusal(e) \in Answers /\ Refusal(e).state = "right" /\ Refusal(e).items = {}
             /\ Refusal(e).error = e /\ Refusal(e).error # None
  <2>1. 0 \in 0..MaxFresh
    BY BoundsAssumption
  <2> QED
    BY <2>1, NoneAssumption DEF Refusal, Right, Answers
<1> QED
  BY <1>1, <1>2

(* A refusal, whoever it is that refuses, tells the controller nothing.      *)
LEMMA RefusalKeeps ==
  ASSUME PairInv, NEW e \in Errors, Asked, Answer(Refusal(e)),
         UNCHANGED <<transport, c, a, fresh>>
  PROVE  PairInv'
<1>1. /\ answer' \in Answers /\ net' = "answer" /\ lost' \in BOOLEAN /\ refused' \in BOOLEAN
      /\ answer'.error = e /\ e # None /\ answer'.items = {}
      /\ lost => lost'
      /\ c.pc = "verify3" => (answer'.state = "none" => refused')
      /\ c.pc # "verify3" => refused' = refused
  BY SentAnswer, Replies DEF PairInv
<1>2. Typed'
  BY <1>1 DEF PairInv, Typed, ControllerOK, AccessoryOK
<1>3. Pending' /\ Informed'
  BY <1>1 DEF PairInv, Pending, Informed, Answered, Asked, Resumes
<1>4. Owned'
  BY <1>1 DEF PairInv, Owned, Answered, Asked
<1>5. KeysAgree'
  BY <1>1 DEF PairInv, KeysAgree, Pending
<1> QED
  BY <1>2, <1>3, <1>4, <1>5 DEF PairInv

LEMMA InitPairInv == Init => PairInv
<1> SUFFICES ASSUME Init PROVE PairInv
  OBVIOUS
<1>1. 0 \in 0..MaxFresh /\ 0 \in 0..MaxAttempts /\ 0 \in 0..MaxTries
  BY BoundsAssumption
<1>2. answer \in Answers
  BY <1>1, Replies DEF Init
<1>3. Typed
  BY <1>1, <1>2 DEF Init, Typed, ControllerOK, AccessoryOK, Pcs
<1> QED
  BY <1>3 DEF Init, PairInv, Pending, Informed, Owned, KeysAgree, Answered

-----------------------------------------------------------------------------
(* The controller's calls.                                                   *)
LEMMA StartPairingKeeps == PairInv /\ StartPairing => PairInv'
<1> SUFFICES ASSUME PairInv, StartPairing PROVE PairInv'
  OBVIOUS
<1>1. 0 \in 0..MaxFresh /\ 0 \in 0..MaxAttempts
  BY BoundsAssumption
<1>2. c' = [c EXCEPT !.pc = "setup1", !.pin = None, !.salt = 0, !.attempt = 0]
      /\ net' = "request" /\ c.pc = "idle" /\ c.data = None
  BY DEF StartPairing, Ask
<1>3. Typed'
  BY <1>1, <1>2 DEF PairInv, Typed, ControllerOK, AccessoryOK, Pcs, StartPairing
<1> QED
  BY <1>2, <1>3 DEF PairInv, StartPairing, Typed, ControllerOK, Pending, Informed, Owned,
                    KeysAgree, Answered

LEMMA FinishPairingKeeps == PairInv /\ FinishPairing => PairInv'
<1> SUFFICES ASSUME PairInv, FinishPairing PROVE PairInv'
  OBVIOUS
<1>1. PICK pin \in {"right", "wrong"}, pc \in {"setup1", "m3"} :
        c' = [c EXCEPT !.pc = pc, !.pin = pin, !.attempt = @ + 1]
  BY DEF FinishPairing, Ask
<1>2. net' = "request" /\ c.pc = "idle" /\ c.data = None
  BY DEF FinishPairing, Ask
<1>3. c.attempt + 1 \in 0..MaxAttempts
  BY BoundsAssumption DEF FinishPairing, PairInv, Typed, ControllerOK
<1>4. Typed'
  BY <1>1, <1>2, <1>3 DEF PairInv, Typed, ControllerOK, AccessoryOK, Pcs, FinishPairing
<1> QED
  BY <1>1, <1>2, <1>4 DEF PairInv, FinishPairing, Typed, ControllerOK, Pending, Informed,
                          Owned, KeysAgree, Answered

LEMMA NewIsFresh ==
  ASSUME Typed, Fresh
  PROVE  New \in Numbers /\ New \in 0..MaxFresh /\ New # 0 /\ fresh' \in 0..MaxFresh
BY BoundsAssumption DEF Typed, Fresh, New, Numbers

LEMMA StartVerifyKeeps == PairInv /\ StartVerify => PairInv'
<1> SUFFICES ASSUME PairInv, StartVerify PROVE PairInv'
  OBVIOUS
<1>1. New \in 0..MaxFresh /\ New # 0 /\ fresh' \in 0..MaxFresh
  BY NewIsFresh DEF PairInv, StartVerify
<1>2. c' = [c EXCEPT !.pc = "verify1", !.eph = New] /\ net' = "request" /\ c.pc = "idle"
      /\ c.data # None /\ c.keys = None
  BY DEF StartVerify, Ask
<1>3. Typed'
  BY <1>1, <1>2 DEF PairInv, Typed, ControllerOK, AccessoryOK, Pcs, StartVerify
<1> QED
  BY <1>1, <1>2, <1>3 DEF PairInv, StartVerify, Typed, ControllerOK, Pending, Informed,
                          Owned, KeysAgree, Answered

-----------------------------------------------------------------------------
(* Whatever is judged right in the last step of pair setup, or of verify,    *)
(* the accessory has the key; an answer that was not tampered with is right. *)
LEMMA Judged ==
  ASSUME PairInv, Answered
  PROVE  LET ans == Decoded(answer) IN
         /\ c.pc = "m5" => ans = answer
         /\ c.pc = "m5" /\ Judge(ans) = "ok" => a.owner = c.mine
         /\ c.pc = "m5" /\ answer = Right({"EncryptedData"}, 0) => Judge(ans) = "ok"
         /\ c.pc = "verify3" /\ Judge(ans) = "ok" => a.keys = c.eph \/ refused
         /\ Resumed(ans) => /\ c.pc = "verify1" /\ ans.value \in Numbers
                            /\ a.keys = ans.value
         /\ ans.value \in 0..MaxFresh
<1> DEFINE ans == Decoded(answer)
<1>1. /\ c.pc # "verify1" => ans = answer
      /\ ans.value = answer.value /\ ans.items = answer.items /\ ans.state = answer.state
      /\ ans.value \in 0..MaxFresh
  BY DEF Decoded, PairInv, Typed, Answers
<1>2. ASSUME c.pc = "m5", Judge(ans) = "ok" PROVE a.owner = c.mine
  <2>1. ~Resumed(ans)
    BY <1>2 DEF Resumed
  <2>2. "EncryptedData" \in ans.items
    BY <1>2, <2>1 DEF Judge, Needs
  <2> QED
    BY <1>1, <1>2, <2>2 DEF PairInv, Informed
<1>3. ASSUME c.pc = "m5", answer = Right({"EncryptedData"}, 0) PROVE Judge(ans) = "ok"
  BY <1>1, <1>3 DEF Judge, StateStep, Right, Resumed, Needs, Verified
<1>4. ASSUME c.pc = "verify3", Judge(ans) = "ok" PROVE a.keys = c.eph \/ refused
  <2>1. StateStep(ans) = "ok"
    BY <1>4 DEF Judge
  <2>2. answer.error = None \/ answer.state = "none"
    BY <1>1, <1>4, <2>1 DEF StateStep, ErrorHandler
  <2> QED
    BY <1>4, <2>2 DEF PairInv, Informed
<1>5. ASSUME Resumed(ans)
      PROVE  c.pc = "verify1" /\ ans.value \in Numbers /\ a.keys = ans.value
  BY <1>1, <1>5, BoundsAssumption
     DEF Resumed, PairInv, Informed, Resumes, Numbers
<1> QED
  BY <1>1, <1>2, <1>3, <1>4, <1>5

(* The controller gives up, and is where it was before.                      *)
LEMMA FailsKeep ==
  ASSUME PairInv, Answered, Fails, UNCHANGED <<transport, a, answer, lost, refused>>,
         ~(c.pc = "m5" /\ answer = Right({"EncryptedData"}, 0))
  PROVE  PairInv'
<1>1. c' = [c EXCEPT !.pc = "idle"] /\ net' = "none" /\ fresh' = fresh
  BY DEF Fails, Rest
<1>2. Typed'
  BY <1>1 DEF PairInv, Typed, ControllerOK, AccessoryOK, Pcs
<1> QED
  BY <1>1, <1>2 DEF PairInv, Typed, ControllerOK, Pending, Informed, Owned, KeysAgree, Answered

LEMMA ReceiveKeeps == PairInv /\ Receive => PairInv'
<1> SUFFICES ASSUME PairInv, Receive PROVE PairInv'
  OBVIOUS
<1> DEFINE ans == Decoded(answer)
<1>1. Answered /\ UNCHANGED <<transport, a, answer, lost, refused>>
  BY DEF Receive
<1>2. /\ c.pc = "m5" /\ Judge(ans) = "ok" => a.owner = c.mine
      /\ c.pc = "m5" /\ answer = Right({"EncryptedData"}, 0) => Judge(ans) = "ok"
      /\ c.pc = "verify3" /\ Judge(ans) = "ok" => a.keys = c.eph \/ refused
      /\ Resumed(ans) => c.pc = "verify1" /\ ans.value \in Numbers /\ a.keys = ans.value
      /\ ans.value \in 0..MaxFresh
  BY <1>1, Judged
<1>3. 0 \in 0..MaxFresh /\ 0 \in 0..MaxAttempts /\ Numbers \subseteq 0..MaxFresh
  BY BoundsAssumption DEF Numbers
<1>4. CASE Judge(ans) # "ok"
  BY <1>1, <1>2, <1>4, FailsKeep DEF Receive
<1>5. CASE Judge(ans) = "ok" /\ Resumed(ans)
  <2>1. /\ c' = [c EXCEPT !.pc = "idle", !.session = ans.value, !.keys = ans.value]
        /\ net' = "none" /\ fresh' = fresh
    BY <1>5 DEF Receive, Resume, Rest
  <2>2. Typed'
    BY <1>1, <1>2, <1>5, <2>1 DEF PairInv, Typed, ControllerOK, AccessoryOK, Pcs
  <2> QED
    BY <1>1, <1>2, <1>5, <2>1, <2>2
       DEF PairInv, Typed, ControllerOK, Pending, Informed, Owned, KeysAgree, Answered
<1>6. CASE Judge(ans) = "ok" /\ ~Resumed(ans) /\ c.pc = "setup1"
  <2>1. Part1Done(ans)
    BY <1>6 DEF Receive
  <2>2. CASE c.pin = None
    <3>1. /\ c' = [c EXCEPT !.pc = "idle", !.salt = ans.value, !.attempt = 0]
          /\ net' = "none" /\ fresh' = fresh
      BY <2>1, <2>2 DEF Part1Done, Rest
    <3>2. Typed'
      BY <1>1, <1>2, <1>3, <3>1 DEF PairInv, Typed, ControllerOK, AccessoryOK, Pcs
    <3> QED
      BY <1>1, <1>6, <3>1, <3>2
         DEF PairInv, Typed, ControllerOK, Pending, Informed, Owned, KeysAgree, Answered
  <2>3. CASE c.pin # None
    <3>1. c' = [c EXCEPT !.pc = "m3", !.salt = ans.value] /\ net' = "request" /\ fresh' = fresh
      BY <2>1, <2>3 DEF Part1Done, Ask
    <3>2. Typed'
      BY <1>1, <1>2, <3>1 DEF PairInv, Typed, ControllerOK, AccessoryOK, Pcs
    <3> QED
      BY <1>1, <1>6, <3>1, <3>2
         DEF PairInv, Typed, ControllerOK, Pending, Informed, Owned, KeysAgree, Answered
  <2> QED
    BY <2>2, <2>3
<1>7. CASE Judge(ans) = "ok" /\ ~Resumed(ans) /\ c.pc = "m3"
  <2>1. ProofDone
    BY <1>7 DEF Receive
  <2>2. New \in 0..MaxFresh /\ New # 0 /\ fresh' \in 0..MaxFresh
    BY <2>1, NewIsFresh DEF PairInv, ProofDone
  <2>3. c' = [c EXCEPT !.pc = "m5", !.mine = New] /\ net' = "request"
    BY <2>1 DEF ProofDone, Ask
  <2>4. Typed'
    BY <1>1, <2>2, <2>3 DEF PairInv, Typed, ControllerOK, AccessoryOK, Pcs
  <2> QED
    BY <1>1, <1>7, <2>2, <2>3, <2>4
       DEF PairInv, Typed, ControllerOK, Pending, Informed, Owned, KeysAgree, Answered
<1>8. CASE Judge(ans) = "ok" /\ ~Resumed(ans) /\ c.pc = "m5"
  <2>1. /\ c' = [c EXCEPT !.pc = "idle", !.data = c.mine, !.salt = 0]
        /\ net' = "none" /\ fresh' = fresh
    BY <1>8 DEF Receive, Part2Done, Rest
  <2>2. c.mine \in Numbers /\ c.mine # None
    BY <1>8, BoundsAssumption, NoneAssumption
       DEF PairInv, Typed, ControllerOK, Pending, Numbers
  <2>3. Typed'
    BY <1>1, <1>3, <2>1, <2>2 DEF PairInv, Typed, ControllerOK, AccessoryOK, Pcs
  <2> QED
    BY <1>1, <1>2, <1>8, <2>1, <2>2, <2>3
       DEF PairInv, Typed, ControllerOK, Pending, Informed, Owned, KeysAgree, Answered
<1>9. CASE Judge(ans) = "ok" /\ ~Resumed(ans) /\ c.pc = "verify1"
  <2>1. c' = [c EXCEPT !.pc = "verify3"] /\ net' = "request" /\ fresh' = fresh
    BY <1>9 DEF Receive, VerifyGoesOn, Ask
  <2>2. Typed'
    BY <1>1, <2>1 DEF PairInv, Typed, ControllerOK, AccessoryOK, Pcs
  <2> QED
    BY <1>1, <1>9, <2>1, <2>2
       DEF PairInv, Typed, ControllerOK, Pending, Informed, Owned, KeysAgree, Answered
<1>10. CASE Judge(ans) = "ok" /\ ~Resumed(ans) /\ c.pc = "verify3"
  <2>1. PICK session \in {c.eph, 0} :
          /\ c' = [c EXCEPT !.pc = "idle", !.keys = c.eph, !.session = session]
          /\ net' = "none" /\ fresh' = fresh
    BY <1>10 DEF Receive, VerifyDone, Rest
  <2>2. c.eph \in Numbers
    BY <1>10, BoundsAssumption DEF PairInv, Typed, ControllerOK, Pending, Numbers
  <2>3. Typed'
    BY <1>1, <1>3, <2>1, <2>2 DEF PairInv, Typed, ControllerOK, AccessoryOK, Pcs
  <2> QED
    BY <1>1, <1>2, <1>10, <2>1, <2>2, <2>3
       DEF PairInv, Typed, ControllerOK, Pending, Informed, Owned, KeysAgree, Answered
<1>11. c.pc \in {"setup1", "m3", "m5", "verify1", "verify3"}
  BY <1>1 DEF Answered, PairInv, Typed, ControllerOK, Pcs, Pending
<1> QED
  BY <1>4, <1>5, <1>6, <1>7, <1>8, <1>9, <1>10, <1>11

-----------------------------------------------------------------------------
(* The accessory.                                                            *)
LEMMA AnswersSetup1Keeps == PairInv /\ AnswersSetup1 => PairInv'
<1> SUFFICES ASSUME PairInv, AnswersSetup1 PROVE PairInv'
  OBVIOUS
<1>1. Asked /\ c.pc = "setup1" /\ UNCHANGED <<transport, c>>
  BY DEF AnswersSetup1
<1>2. ASSUME NEW e \in Errors, Answer(Refusal(e)), UNCHANGED <<a, fresh>> PROVE PairInv'
  BY <1>1, <1>2, RefusalKeeps
<1>3. ASSUME Fresh, a' = [a EXCEPT !.setup = New, !.proved = FALSE],
             Answer(Right({"PublicKey", "Salt"}, New))
      PROVE  PairInv'
  <2>1. New \in 0..MaxFresh /\ fresh' \in 0..MaxFresh
    BY <1>3, NewIsFresh DEF PairInv
  <2>2. {"PublicKey", "Salt"} \in SUBSET Items
    BY DEF Items
  <2>3. Right({"PublicKey", "Salt"}, New) \in Answers
        /\ Right({"PublicKey", "Salt"}, New).state = "right"
    BY <2>1, <2>2, Replies
  <2>4. /\ answer' \in Answers /\ net' = "answer" /\ lost' \in BOOLEAN
        /\ refused' = refused /\ (lost => lost')
    BY <1>1, <1>3, <2>3, SentAnswer DEF PairInv
  <2>5. Typed'
    BY <1>1, <1>3, <2>1, <2>4 DEF PairInv, Typed, ControllerOK, AccessoryOK
  <2> QED
    BY <1>1, <1>3, <2>4, <2>5
       DEF PairInv, Typed, AccessoryOK, Pending, Informed, Owned, KeysAgree, Asked, Answered
<1>4. "Unavailable" \in Errors /\ "MaxTries" \in Errors
  BY DEF Errors
<1> QED
  BY <1>2, <1>3, <1>4 DEF AnswersSetup1

LEMMA AnswersM3Keeps == PairInv /\ AnswersM3 => PairInv'
<1> SUFFICES ASSUME PairInv, AnswersM3 PROVE PairInv'
  OBVIOUS
<1>1. Asked /\ c.pc = "m3" /\ UNCHANGED <<transport, c, fresh>>
  BY DEF AnswersM3
<1>2. 0 \in 0..MaxFresh /\ {"Proof"} \in SUBSET Items /\ "Authentication" \in Errors
  BY BoundsAssumption DEF Items, Errors
<1>3. PICK ans \in {Right({"Proof"}, 0), Refusal("Authentication")} : Answer(ans)
  BY DEF AnswersM3
<1>4. /\ answer' \in Answers /\ net' = "answer" /\ lost' \in BOOLEAN
      /\ refused' = refused /\ (lost => lost')
  <2>1. ans \in Answers /\ ans.state = "right"
    BY <1>2, Replies
  <2> QED
    BY <1>1, <1>3, <2>1, SentAnswer DEF PairInv
<1>5. AccessoryOK' /\ a'.owner = a.owner /\ a'.keys = a.keys
  <2>1. CASE a.setup # 0 /\ a.setup = c.salt /\ c.pin = "right"
    <3>1. a' = [a EXCEPT !.proved = TRUE]
      BY <2>1 DEF AnswersM3
    <3> QED
      BY <3>1 DEF PairInv, Typed, AccessoryOK
  <2>2. CASE ~(a.setup # 0 /\ a.setup = c.salt /\ c.pin = "right")
    <3>1. a' = [a EXCEPT !.setup = 0, !.tries = IF @ < MaxTries THEN @ + 1 ELSE @]
      BY <2>2 DEF AnswersM3
    <3>2. (IF a.tries < MaxTries THEN a.tries + 1 ELSE a.tries) \in 0..MaxTries
      BY BoundsAssumption DEF PairInv, Typed, AccessoryOK
    <3> QED
      BY <1>2, <3>1, <3>2 DEF PairInv, Typed, AccessoryOK
  <2> QED
    BY <2>1, <2>2
<1>6. Typed'
  BY <1>1, <1>4, <1>5 DEF PairInv, Typed, ControllerOK, AccessoryOK
<1> QED
  BY <1>1, <1>4, <1>5, <1>6
     DEF PairInv, Typed, AccessoryOK, Pending, Informed, Owned, KeysAgree, Asked, Answered

LEMMA AnswersM5Keeps == PairInv /\ AnswersM5 => PairInv'
<1> SUFFICES ASSUME PairInv, AnswersM5 PROVE PairInv'
  OBVIOUS
<1>1. Asked /\ c.pc = "m5" /\ UNCHANGED <<transport, c, fresh>>
  BY DEF AnswersM5
<1>2. 0 \in 0..MaxFresh /\ {"EncryptedData"} \in SUBSET Items /\ "Authentication" \in Errors
  BY BoundsAssumption DEF Items, Errors
<1>3. CASE a.proved /\ a.setup = c.salt
  <2>1. /\ a' = [a EXCEPT !.owner = c.mine, !.setup = 0, !.proved = FALSE]
        /\ Answer(Right({"EncryptedData"}, 0))
    BY <1>3 DEF AnswersM5
  <2>2. /\ answer' \in Answers /\ net' = "answer" /\ lost' \in BOOLEAN
        /\ refused' = refused /\ (lost => lost')
        /\ answer' = Right({"EncryptedData"}, 0) \/ lost'
    BY <1>1, <1>2, <2>1, Replies, SentAnswer DEF PairInv
  <2>3. c.mine \in Numbers
    BY <1>1, BoundsAssumption DEF PairInv, Typed, ControllerOK, Pending, Numbers
  <2>4. Typed'
    BY <1>1, <1>2, <2>1, <2>2, <2>3 DEF PairInv, Typed, ControllerOK, AccessoryOK
  <2> QED
    BY <1>1, <2>1, <2>2, <2>4
       DEF PairInv, Typed, AccessoryOK, Pending, Informed, Owned, KeysAgree, Asked, Answered
<1>4. CASE ~(a.proved /\ a.setup = c.salt)
  BY <1>1, <1>2, <1>4, RefusalKeeps DEF AnswersM5
<1> QED
  BY <1>3, <1>4

LEMMA AnswersVerify1Keeps == PairInv /\ AnswersVerify1 => PairInv'
<1> SUFFICES ASSUME PairInv, AnswersVerify1 PROVE PairInv'
  OBVIOUS
<1> DEFINE resumption == {"Method", "SessionID", "EncryptedData"}
<1>1. Asked /\ c.pc = "verify1" /\ UNCHANGED <<transport, c>>
  BY DEF AnswersVerify1
<1>2. 0 \in 0..MaxFresh /\ resumption \in SUBSET Items
      /\ {"PublicKey", "EncryptedData"} \in SUBSET Items
  BY BoundsAssumption DEF Items
<1>3. CASE transport = "ble" /\ c.session # 0 /\ a.session = c.session
  <2>1. /\ Fresh /\ a' = [a EXCEPT !.session = New, !.keys = New]
        /\ Answer(Right(resumption, New))
    BY <1>3 DEF AnswersVerify1
  <2>2. New \in 0..MaxFresh /\ New \in Numbers /\ New # 0 /\ fresh' \in 0..MaxFresh
    BY <2>1, NewIsFresh DEF PairInv
  <2>3. /\ answer' \in Answers /\ net' = "answer" /\ lost' \in BOOLEAN
        /\ refused' = refused /\ (lost => lost') /\ answer'.value = New
    <3>1. /\ Right(resumption, New) \in Answers /\ Right(resumption, New).state = "right"
          /\ Right(resumption, New).value = New
      BY <1>2, <2>2, Replies
    <3> QED
      BY <1>1, <2>1, <3>1, SentAnswer DEF PairInv
  <2>4. Typed'
    BY <1>1, <2>1, <2>2, <2>3 DEF PairInv, Typed, ControllerOK, AccessoryOK
  <2> QED
    BY <1>1, <2>1, <2>2, <2>3, <2>4
       DEF PairInv, Typed, AccessoryOK, Pending, Informed, Owned, KeysAgree, Asked, Answered
<1>4. CASE ~(transport = "ble" /\ c.session # 0 /\ a.session = c.session)
  <2>1. /\ a' = [a EXCEPT !.eph = c.eph] /\ UNCHANGED fresh
        /\ Answer(Right({"PublicKey", "EncryptedData"}, 0))
    BY <1>4 DEF AnswersVerify1
  <2>2. /\ answer' \in Answers /\ net' = "answer" /\ lost' \in BOOLEAN
        /\ refused' = refused /\ (lost => lost')
        /\ answer'.items \subseteq {"PublicKey", "EncryptedData"}
    BY <1>1, <1>2, <2>1, Replies, SentAnswer DEF PairInv
  <2>3. ~Resumes(answer')
    BY <2>2 DEF Resumes
  <2>4. Typed'
    BY <1>1, <2>1, <2>2 DEF PairInv, Typed, ControllerOK, AccessoryOK
  <2> QED
    BY <1>1, <2>1, <2>2, <2>3, <2>4
       DEF PairInv, Typed, AccessoryOK, Pending, Informed, Owned, KeysAgree, Asked, Answered
<1> QED
  BY <1>3, <1>4

LEMMA AnswersVerify3Keeps == PairInv /\ AnswersVerify3 => PairInv'
<1> SUFFICES ASSUME PairInv, AnswersVerify3 PROVE PairInv'
  OBVIOUS
<1>1. Asked /\ c.pc = "verify3" /\ UNCHANGED <<transport, c, fresh>>
  BY DEF AnswersVerify3
<1>2. 0 \in 0..MaxFresh /\ {} \in SUBSET Items /\ "Authentication" \in Errors
  BY BoundsAssumption DEF Errors
<1>3. CASE a.owner = c.data /\ a.eph = c.eph
  <2>1. /\ a' = [a EXCEPT !.keys = c.eph, !.session = c.eph]
        /\ Answer(Right({}, 0))
    BY <1>3 DEF AnswersVerify3
  <2>2. /\ answer' \in Answers /\ net' = "answer" /\ lost' \in BOOLEAN
        /\ refused' \in BOOLEAN /\ (lost => lost')
    BY <1>2, <2>1, Replies, SentAnswer DEF PairInv
  <2>3. c.eph \in Numbers
    BY <1>1, BoundsAssumption DEF PairInv, Typed, ControllerOK, Pending, Numbers
  <2>4. Typed'
    BY <1>1, <2>1, <2>2, <2>3 DEF PairInv, Typed, ControllerOK, AccessoryOK
  <2> QED
    BY <1>1, <2>1, <2>2, <2>4
       DEF PairInv, Typed, AccessoryOK, Pending, Informed, Owned, KeysAgree, Asked, Answered
<1>4. CASE ~(a.owner = c.data /\ a.eph = c.eph)
  BY <1>1, <1>2, <1>4, RefusalKeeps DEF AnswersVerify3
<1> QED
  BY <1>3, <1>4

LEMMA LinkDropsKeeps == PairInv /\ LinkDrops => PairInv'
<1> SUFFICES ASSUME PairInv, LinkDrops PROVE PairInv'
  OBVIOUS
<1>1. /\ a' = [a EXCEPT !.setup = 0, !.proved = FALSE, !.eph = 0, !.keys = None]
      /\ lost' \in BOOLEAN /\ (lost => lost') /\ (c.pc = "m5" /\ Answered => lost')
      /\ UNCHANGED <<transport, answer, fresh, refused>>
  BY DEF LinkDrops, PairInv, Typed
<1>2. 0 \in 0..MaxFresh
  BY BoundsAssumption
<1>3. CASE transport = "ble" /\ c.pc \in {"setup1", "m3", "m5"} /\ c.attempt < MaxAttempts
  <2>1. c' = [c EXCEPT !.pc = "setup1", !.attempt = @ + 1] /\ net' = "request"
    BY <1>3 DEF LinkDrops, Ask
  <2>2. c.attempt + 1 \in 0..MaxAttempts
    BY <1>3, BoundsAssumption DEF PairInv, Typed, ControllerOK
  <2>3. Typed'
    BY <1>1, <1>2, <2>1, <2>2 DEF PairInv, Typed, ControllerOK, AccessoryOK, Pcs
  <2> QED
    BY <1>1, <1>3, <2>1, <2>3
       DEF PairInv, Typed, ControllerOK, AccessoryOK, Pending, Informed, Owned, KeysAgree,
           Answered
<1>4. CASE ~(transport = "ble" /\ c.pc \in {"setup1", "m3", "m5"} /\ c.attempt < MaxAttempts)
  <2>1. c' = [c EXCEPT !.pc = "idle", !.keys = None] /\ net' = "none"
    BY <1>4 DEF LinkDrops, Rest
  <2>2. Typed'
    BY <1>1, <1>2, <2>1 DEF PairInv, Typed, ControllerOK, AccessoryOK, Pcs
  <2> QED
    BY <1>1, <2>1, <2>2
       DEF PairInv, Typed, ControllerOK, AccessoryOK, Pending, Informed, Owned, KeysAgree,
           Answered
<1> QED
  BY <1>3, <1>4

-----------------------------------------------------------------------------
LEMMA NextKeeps == PairInv /\ [Next]_vars => PairInv'
<1> SUFFICES ASSUME PairInv, [Next]_vars PROVE PairInv'
  OBVIOUS
<1>1. ASSUME NEW e \in Errors, Refuses(e) PROVE PairInv'
  BY <1>1, RefusalKeeps DEF Refuses
<1>2. CASE UNCHANGED vars
  BY <1>2 DEF vars, PairInv, Typed, ControllerOK, AccessoryOK, Pending, Informed, Owned,
              KeysAgree, Answered
<1> QED
  BY <1>1, <1>2, StartPairingKeeps, FinishPairingKeeps, StartVerifyKeeps, ReceiveKeeps,
     LinkDropsKeeps, AnswersSetup1Keeps, AnswersM3Keeps, AnswersM5Keeps,
     AnswersVerify1Keeps, AnswersVerify3Keeps DEF Next

LEMMA PairInvHolds == Spec => []PairInv
BY InitPairInv, NextKeeps, PTL DEF Spec

(* The two sides, the keys they hold and the message between them keep their *)
(* types, whatever the accessory answers and whenever the link drops.        *)
THEOREM TypeCorrect == Spec => [](ControllerOK /\ AccessoryOK)
<1>1. PairInv => ControllerOK /\ AccessoryOK
  BY DEF PairInv, Typed
<1> QED
  BY <1>1, PairInvHolds, PTL

(* Pairing data is never kept by the controller alone, nor by the accessory  *)
(* alone but while, or after, the answer to M5 is lost or not right.         *)
THEOREM PairedOnBothSides == Spec => []PairedTogether
<1>1. PairInv => PairedTogether
  BY DEF PairInv, Owned, PairedTogether
<1> QED
  BY <1>1, PairInvHolds, PTL

(* A session, new or resumed, has one set of keys, but for a refusal that    *)
(* the missing State hides.                                                  *)
THEOREM SessionKeysAgree == Spec => []KeysAgree
<1>1. PairInv => KeysAgree
  BY DEF PairInv
<1> QED
  BY <1>1, PairInvHolds, PTL
=============================================================================
