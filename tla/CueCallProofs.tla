---------------------------- MODULE CueCallProofs ----------------------------
(***************************************************************************)
(* What CueCall keeps for every set of calls and entities.                 *)
(***************************************************************************)
EXTENDS CueCall, TLAPS

\* The answers are answers, read as what they are made of.
LEMMA RanRead ==
    ASSUME NEW ok \in BOOLEAN, NEW simulated \in BOOLEAN, NEW skipped \in BOOLEAN
    PROVE  /\ Ran(ok, simulated, skipped) \in Answer
           /\ Ran(ok, simulated, skipped).status = 200
           /\ Ran(ok, simulated, skipped).body # None
           /\ Result(Ran(ok, simulated, skipped)) =
                IF ~ok THEN "failed" ELSE IF simulated THEN "simulated"
                ELSE IF skipped THEN "skipped" ELSE "dispatched"
  <1> DEFINE body == [ok |-> ok, simulated |-> simulated, skipped |-> skipped, confirm |-> FALSE]
  <1>5. body \in Body
    BY DEF Body
  <1>6. None \notin Body
    BY CallAssumption
  <1>1. body \in Body /\ body # None
    BY <1>5, <1>6
  <1>2. Ran(ok, simulated, skipped) = [status |-> 200, json |-> TRUE, body |-> body]
    BY DEF Ran
  <1>3. Heard(Ran(ok, simulated, skipped)) = body
    BY <1>1, <1>2 DEF Heard
  <1>4. Reported(Ran(ok, simulated, skipped)) =
            IF ~ok THEN "failed" ELSE IF simulated THEN "simulated"
            ELSE IF skipped THEN "skipped" ELSE "dispatched"
    BY <1>3 DEF Reported
  <1> HIDE DEF body
  <1> QED
    BY <1>1, <1>2, <1>4 DEF Answer, Result

\* A body says of a cue what became of it, in the order the client reads it.
LEMMA BodyTrue ==
    ASSUME NEW what \in DOMAIN Bodies, NEW answer \in Bodies[what]
    PROVE  /\ answer \in Answer /\ answer.status = 200 /\ answer.body # None
           /\ what = "pressed" => Result(answer) = "dispatched"
           /\ what # "pressed" => Result(answer) \in Results \ {"dispatched"}
  <1>1. what \in {"pressed", "skipped", "simulated", "failed"}
    BY DEF Bodies
  <1>2. CASE what = "pressed"
    <2>1. answer = Ran(TRUE, FALSE, FALSE)
      BY <1>2 DEF Bodies
    <2> QED
      BY <1>2, <2>1, RanRead
  <1>3. CASE what = "skipped"
    <2>1. answer = Ran(TRUE, FALSE, TRUE)
      BY <1>3 DEF Bodies
    <2> QED
      BY <1>3, <2>1, RanRead DEF Results
  <1>4. CASE what = "simulated"
    <2>1. PICK s \in BOOLEAN : answer = Ran(TRUE, TRUE, s)
      BY <1>4 DEF Bodies
    <2> QED
      BY <1>4, <2>1, RanRead DEF Results
  <1>5. CASE what = "failed"
    <2>1. PICK s \in BOOLEAN : answer = Ran(FALSE, s, FALSE)
      BY <1>5 DEF Bodies
    <2> QED
      BY <1>5, <2>1, RanRead DEF Results
  <1> QED
    BY <1>1, <1>2, <1>3, <1>4, <1>5

\* An answer without a body is an answer, and is read as its status says: a 200 as
\* a cue that ran.
LEMMA BareRead ==
    ASSUME NEW answer, NEW status \in {200, 401, 404, 409, 500},
           answer = [status |-> status, json |-> TRUE, body |-> None]
    PROVE  /\ answer \in Answer /\ answer.status # 202 /\ answer.body = None
           /\ status = 200 => Result(answer) = "dispatched"
           /\ status = 500 => Result(answer) = "unreached"
           /\ status # 200 => Result(answer) \in Failures
  <1>1. answer.status = status /\ answer.json /\ answer.body = None
    OBVIOUS
  <1>2. answer \in Answer
    BY DEF Answer
  <1>3. Reported(answer) = "dispatched"
    BY <1>1 DEF Reported, Heard, Defaults
  <1>4. Result(answer) = IF status = 200 THEN Reported(answer)
                         ELSE IF status = 401 THEN "unauthorised"
                         ELSE IF status = 404 THEN "unknown"
                         ELSE IF status = 409 THEN "refused" ELSE "unreached"
    BY <1>1 DEF Result
  <1> QED
    BY <1>1, <1>2, <1>3, <1>4 DEF Failures

\* What a proxy puts in an answer's place has no body, and is read as a cue that
\* ran or as nothing the server said.
LEMMA MangledSilent ==
    ASSUME NEW answer \in Mangled
    PROVE  /\ answer \in Answer /\ answer.status # 202 /\ answer.body = None
           /\ Result(answer) \in {"dispatched", "unreached", "crashed"}
  <1>1. CASE answer = Bare(500, TRUE)
    BY <1>1, BareRead DEF Bare
  <1>2. CASE answer = Bare(200, FALSE)
    <2>1. answer \in Answer /\ answer.status = 200 /\ answer.body = None /\ ~answer.json
      BY <1>2 DEF Bare, Answer
    <2> QED
      BY <2>1 DEF Result
  <1>3. CASE answer = Bare(200, TRUE)
    BY <1>3, BareRead DEF Bare
  <1> QED
    BY <1>1, <1>2, <1>3 DEF Mangled

\* A 202 is an answer with a body, and is read as nothing the server said.
LEMMA AsksRead ==
    ASSUME NEW token \in BOOLEAN
    PROVE  /\ Asks(token) \in Answer /\ Result(Asks(token)) = "unreached"
  <1>1. [Defaults EXCEPT !.confirm = token] \in Body
    BY DEF Defaults, Body
  <1>2. Asks(token) \in Answer /\ Asks(token).status = 202 /\ Asks(token).json
    BY <1>1 DEF Asks, Answer
  <1> QED
    BY <1>2 DEF Result

\* Every outcome is a result or a failure.
LEMMA ResultType ==
    ASSUME NEW answer \in Answer
    PROVE  Result(answer) \in Results \cup Failures
  BY DEF Result, Reported, Results, Failures

-----------------------------------------------------------------------------
\* The parts of the invariant about calls, and those about entities.
CallInv   == PressedOnce /\ ToldWhatHappened /\ ReplyAwaited /\ UnpressedYet /\ ReplyTrue
EntityInv == ShownIsLatest /\ WarnedPerRun /\ Remembered

LEMMA InvInit == Init => IInv
  <1>1. Init => TypeOK
    BY DEF Init, TypeOK, Phases
  <1>2. None \notin Results \cup Failures
    BY CallAssumption
  <1>3. Init => EntityInv
    BY <1>2 DEF Init, EntityInv, ShownIsLatest, WarnedPerRun, Remembered, Results
  <1>4. Init => CallInv
    BY <1>2 DEF Init, CallInv, PressedOnce, ToldWhatHappened, ReplyAwaited, UnpressedYet, ReplyTrue,
       Results, Failures
  <1> QED
    BY <1>1, <1>3, <1>4 DEF IInv, CallInv, EntityInv

\* A step that leaves the entities alone leaves what holds of them.
LEMMA EntitiesAlone == EntityInv /\ UNCHANGED entity => EntityInv'
  BY DEF EntityInv, ShownIsLatest, WarnedPerRun, Remembered, entity

\* What holds of one call; the parts of the invariant about calls hold of each.
CallOK(k) ==
    /\ presses[k] <= 1
    /\ told[k] = "dispatched" => presses[k] = 1 \/ mute[k]
    /\ told[k] \in {"skipped", "simulated", "failed", "refused", "unknown", "unauthorised"}
         => presses[k] = 0
    /\ reply[k] # None => calls[k] # None /\ request[k] = None
    /\ request[k] # None \/ asked[k] => presses[k] = 0
    /\ request[k] # None => told[k] \in {None, "unreached"}
    /\ calls[k] # None => told[k] = None
    /\ reply[k] # None =>
        /\ Result(reply[k]) = "dispatched" => presses[k] = 1 \/ reply[k].body = None
        /\ Result(reply[k]) \in Results \cup {"refused", "unknown", "unauthorised"}
             => Result(reply[k]) = "dispatched" \/ presses[k] = 0
        /\ reply[k].status = 202 => presses[k] = 0

LEMMA CallByCall == CallInv <=> \A k \in Calls : CallOK(k)
  BY DEF CallInv, PressedOnce, ToldWhatHappened, ReplyAwaited, UnpressedYet, ReplyTrue, CallOK

\* A step of one call leaves what holds of the others.
LEMMA OthersAlone ==
    ASSUME CallInv, NEW k \in Calls, CallOK(k)',
           \A j \in Calls : j # k =>
               /\ calls'[j] = calls[j] /\ request'[j] = request[j] /\ asked'[j] = asked[j]
               /\ reply'[j] = reply[j] /\ presses'[j] = presses[j] /\ told'[j] = told[j]
               /\ mute'[j] = mute[j]
    PROVE  CallInv'
  <1>1. ASSUME NEW j \in Calls, j # k PROVE CallOK(j)'
    <2>1. CallOK(j)
      BY CallByCall
    <2> QED
      BY <1>1, <2>1 DEF CallOK
  <1>2. \A j \in Calls : CallOK(j)'
    BY <1>1
  <1> QED
    BY <1>2 DEF CallInv, PressedOnce, ToldWhatHappened, ReplyAwaited, UnpressedYet, ReplyTrue, CallOK

\* An answer on its way is one of those given, or a mangled one; no other call is
\* concerned.
LEMMA Handled ==
    ASSUME TypeOK, NEW k \in Calls, CallOK(k), request[k] # None, NEW answers,
           Replies(k, answers)
    PROVE  /\ \A j \in Calls : j # k => request'[j] = request[j] /\ reply'[j] = reply[j]
           /\ request'[k] = None /\ request' \in [Calls -> Request \cup {None}]
           /\ reply[k] = None /\ (calls[k] = None => reply'[k] = None)
           /\ reply'[k] # None => reply'[k] \in answers \cup Mangled
           /\ reply'[k] \in Answer \cup {None} => reply' \in [Calls -> Answer \cup {None}]
  BY DEF TypeOK, CallOK, Replies

\* What the server answers, and what it did, agree - whoever waits for it.
LEMMA ServerRunsStep ==
    ASSUME IInv, NEW k \in Calls, NEW what \in DOMAIN Bodies, ServerRuns(k, what)
    PROVE  IInv'
  <1>0. TypeOK /\ CallInv /\ EntityInv /\ CallOK(k)
    BY CallByCall DEF IInv, CallInv, EntityInv
  <1>1. request[k] # None /\ Replies(k, Bodies[what])
    BY DEF ServerRuns
  <1>2. calls' = calls /\ UNCHANGED entity /\ told' = told /\ mute' = mute
    BY DEF ServerRuns
  <1>3. /\ presses[k] = 0 /\ presses'[k] = (IF what = "pressed" THEN 1 ELSE 0)
        /\ \A j \in Calls : j # k => presses'[j] = presses[j] /\ asked'[j] = asked[j]
        /\ asked'[k] = FALSE
    BY <1>0 DEF ServerRuns, CallOK, TypeOK
  <1>4. reply'[k] # None => reply'[k] \in Bodies[what] \cup Mangled
    BY <1>0, <1>1, Handled
  <1>5. reply'[k] # None =>
            /\ reply'[k] \in Answer /\ reply'[k].status # 202
            /\ Result(reply'[k]) = "dispatched" => what = "pressed" \/ reply'[k].body = None
            /\ Result(reply'[k]) \in Results \cup {"refused", "unknown", "unauthorised"}
                 => Result(reply'[k]) = "dispatched" \/ what # "pressed"
    BY <1>4, BodyTrue, MangledSilent DEF Results
  <1>6. request' \in [Calls -> Request \cup {None}] /\ reply' \in [Calls -> Answer \cup {None}]
    BY <1>0, <1>1, <1>5, Handled
  <1>7. asked' \in [Calls -> BOOLEAN] /\ presses' \in [Calls -> Nat]
    BY <1>0 DEF ServerRuns, TypeOK
  <1>8. TypeOK'
    BY <1>0, <1>2, <1>6, <1>7 DEF TypeOK, entity
  <1>9. told[k] \in {None, "unreached"}
    BY <1>0, <1>1 DEF CallOK
  <1>10. CallOK(k)'
    BY <1>0, <1>1, <1>2, <1>3, <1>5, <1>9, Handled, CallAssumption DEF CallOK, Results, Failures
  <1> QED
    BY <1>0, <1>1, <1>2, <1>3, <1>8, <1>10, Handled, OthersAlone, EntitiesAlone
       DEF IInv, CallInv, EntityInv

\* Being asked again says nothing ran, with or without a token in it.
LEMMA ServerAsksStep ==
    ASSUME IInv, NEW k \in Calls, NEW token \in BOOLEAN, ServerAsks(k, token)
    PROVE  IInv'
  <1>0. TypeOK /\ CallInv /\ EntityInv /\ CallOK(k)
    BY CallByCall DEF IInv, CallInv, EntityInv
  <1>1. request[k] # None /\ Replies(k, {Asks(token)})
    BY DEF ServerAsks
  <1>2. /\ calls' = calls /\ UNCHANGED entity
        /\ presses' = presses /\ told' = told /\ mute' = mute
    BY DEF ServerAsks
  <1>3. /\ presses[k] = 0
        /\ \A j \in Calls : j # k => asked'[j] = asked[j]
        /\ asked' \in [Calls -> BOOLEAN]
    BY <1>0 DEF ServerAsks, CallOK, TypeOK
  <1>4. reply'[k] # None => reply'[k] \in {Asks(token)} \cup Mangled
    BY <1>0, <1>1, Handled
  <1>6. reply'[k] # None =>
            /\ reply'[k] \in Answer
            /\ Result(reply'[k]) \in {"dispatched", "unreached", "crashed"}
            /\ Result(reply'[k]) = "dispatched" => reply'[k].body = None
    BY <1>4, AsksRead, MangledSilent
  <1>7. request' \in [Calls -> Request \cup {None}] /\ reply' \in [Calls -> Answer \cup {None}]
    BY <1>0, <1>1, <1>6, Handled
  <1>8. TypeOK'
    BY <1>0, <1>2, <1>3, <1>7 DEF TypeOK, entity
  <1>10. request'[k] = None /\ (reply'[k] # None => calls[k] # None)
    BY <1>0, <1>1, Handled
  <1>9. CallOK(k)'
    <2>1. told'[k] = told[k] /\ presses'[k] = presses[k] /\ calls'[k] = calls[k]
      BY <1>2
    <2>2. reply'[k] # None /\ Result(reply'[k]) # "dispatched" =>
              Result(reply'[k]) \notin Results \cup {"refused", "unknown", "unauthorised"}
      BY <1>6 DEF Results
    <2>3. mute'[k] = mute[k] /\ presses[k] = 0
      BY <1>2, <1>3
    <2> QED
      BY <1>0, <1>3, <1>6, <1>10, <2>1, <2>2, <2>3 DEF CallOK
  <1> QED
    BY <1>0, <1>1, <1>2, <1>3, <1>8, <1>9, Handled, OthersAlone, EntitiesAlone
       DEF IInv, CallInv, EntityInv

\* A refusal is only ever of a cue that has not run.
LEMMA ServerRefusesStep ==
    ASSUME IInv, NEW k \in Calls, ServerRefuses(k)
    PROVE  IInv'
  <1> DEFINE refusals == {Bare(status, TRUE) : status \in {401, 404, 409, 500}}
  <1>0. TypeOK /\ CallInv /\ EntityInv /\ CallOK(k)
    BY CallByCall DEF IInv, CallInv, EntityInv
  <1>1. request[k] # None /\ Replies(k, refusals)
    BY DEF ServerRefuses
  <1>2. /\ calls' = calls /\ asked' = asked /\ UNCHANGED entity
        /\ presses' = presses /\ told' = told /\ mute' = mute
    BY DEF ServerRefuses
  <1>3. presses[k] = 0
    BY <1>0, <1>1 DEF CallOK
  <1>4. \A answer \in refusals : answer \in Answer /\ answer.status # 202
                                 /\ Result(answer) \in Failures
    <2> SUFFICES ASSUME NEW answer \in refusals
                 PROVE  answer \in Answer /\ answer.status # 202 /\ Result(answer) \in Failures
      OBVIOUS
    <2>1. PICK status \in {401, 404, 409, 500} : answer = Bare(status, TRUE)
      OBVIOUS
    <2> QED
      BY <2>1, BareRead DEF Bare
  <1> HIDE DEF refusals
  <1>5. reply'[k] # None => reply'[k] \in refusals \cup Mangled
    BY <1>0, <1>1, Handled
  <1>6. reply'[k] # None =>
            /\ reply'[k] \in Answer
            /\ Result(reply'[k]) \in Failures \/ (Result(reply'[k]) = "dispatched" /\ reply'[k].body = None)
    BY <1>4, <1>5, MangledSilent DEF Failures
  <1>7. request' \in [Calls -> Request \cup {None}] /\ reply' \in [Calls -> Answer \cup {None}]
    BY <1>0, <1>1, <1>6, Handled
  <1>8. TypeOK'
    BY <1>0, <1>2, <1>7 DEF TypeOK, entity
  <1>9. CallOK(k)'
    BY <1>0, <1>1, <1>2, <1>3, <1>6, Handled DEF CallOK, Failures
  <1> QED
    BY <1>0, <1>1, <1>2, <1>8, <1>9, Handled, OthersAlone, EntitiesAlone
       DEF IInv, CallInv, EntityInv

\* A call takes a place nothing is left of.
LEMMA StartsStep ==
    ASSUME IInv, NEW k \in Calls, NEW e \in Entities, Starts(k, e)
    PROVE  IInv'
  <1>0. TypeOK /\ CallInv /\ EntityInv /\ CallOK(k)
    BY CallByCall DEF IInv, CallInv, EntityInv
  <1>1. UNCHANGED entity /\ reply' = reply /\ reply[k] = None
    BY <1>0 DEF Starts, CallOK
  <1>2. \A j \in Calls : j # k => /\ calls'[j] = calls[j] /\ request'[j] = request[j]
                                  /\ asked'[j] = asked[j] /\ presses'[j] = presses[j]
                                  /\ told'[j] = told[j] /\ mute'[j] = mute[j]
    BY <1>0 DEF Starts, TypeOK
  <1>3. presses'[k] = 0 /\ told'[k] = None
    BY <1>0 DEF Starts, TypeOK
  <1>4. TypeOK'
    BY <1>0, <1>1 DEF Starts, TypeOK, Call, Request, entity
  <1>5. CallOK(k)'
    BY <1>1, <1>3, CallAssumption DEF CallOK, Results, Failures
  <1> QED
    BY <1>0, <1>1, <1>2, <1>4, <1>5, OthersAlone, EntitiesAlone DEF IInv, CallInv, EntityInv

\* A 202 is of a cue that has not run, so its confirmation may run it.
LEMMA ConfirmsStep ==
    ASSUME IInv, NEW k \in Calls, Confirms(k)
    PROVE  IInv'
  <1>0. TypeOK /\ CallInv /\ EntityInv /\ CallOK(k)
    BY CallByCall DEF IInv, CallInv, EntityInv
  <1>1. /\ UNCHANGED entity /\ asked' = asked
        /\ presses' = presses /\ told' = told /\ mute' = mute
    BY DEF Confirms
  <1>2. /\ \A j \in Calls : j # k => /\ calls'[j] = calls[j] /\ request'[j] = request[j]
                                     /\ reply'[j] = reply[j]
        /\ reply'[k] = None
    BY <1>0 DEF Confirms, TypeOK
  <1>3. presses[k] = 0 /\ told[k] = None /\ calls[k] \in Call
    BY <1>0 DEF Confirms, Confirmable, CallOK, TypeOK
  <1>4. [calls[k] EXCEPT !.confirming = TRUE] \in Call
    BY <1>3 DEF Call
  <1>5. calls' \in [Calls -> Call \cup {None}]
    BY <1>0, <1>4 DEF Confirms, TypeOK
  <1>6. request' \in [Calls -> Request \cup {None}] /\ reply' \in [Calls -> Answer \cup {None}]
    BY <1>0 DEF Confirms, TypeOK, Request
  <1>7. TypeOK'
    BY <1>0, <1>1, <1>5, <1>6 DEF TypeOK, entity
  <1>8. CallOK(k)'
    BY <1>1, <1>2, <1>3, CallAssumption DEF CallOK, Results, Failures
  <1> QED
    BY <1>0, <1>1, <1>2, <1>7, <1>8, OthersAlone, EntitiesAlone DEF IInv, CallInv, EntityInv

-----------------------------------------------------------------------------
\* The entities.

\* What holds of one entity; the parts of the invariant about entities hold of each.
EntityOK(e) ==
    /\ shown[e] = IF phase[e] = "added" THEN latest[e] ELSE None
    /\ warnings[e] = IF latest[e] = "simulated" THEN 1 ELSE 0
    /\ lastResult[e] = latest[e]
    /\ warnedSimulated[e] = (latest[e] = "simulated")

LEMMA EntityByEntity == EntityInv <=> \A e \in Entities : EntityOK(e)
  BY DEF EntityInv, ShownIsLatest, WarnedPerRun, Remembered, EntityOK

\* A result is noted where its entity is, added or not, in any order.
LEMMA Noted ==
    ASSUME TypeOK, EntityInv, NEW e \in Entities, NEW result \in Results, NoteResult(e, result)
    PROVE  /\ EntityInv'
           /\ phase' = phase
           /\ lastResult' \in [Entities -> Results \cup {None}]
           /\ warnedSimulated' \in [Entities -> BOOLEAN]
           /\ shown' \in [Entities -> Results \cup {None}]
           /\ latest' \in [Entities -> Results \cup {None}]
           /\ warnings' \in [Entities -> Nat]
  <1>1. /\ phase' = phase
        /\ lastResult' = [lastResult EXCEPT ![e] = result]
        /\ shown' = IF result # lastResult[e] /\ phase[e] = "added"
                    THEN [shown EXCEPT ![e] = result] ELSE shown
        /\ warnedSimulated' = [warnedSimulated EXCEPT ![e] = result = "simulated"]
        /\ warnings' = [warnings EXCEPT
                          ![e] = IF result # "simulated" THEN 0
                                 ELSE IF warnedSimulated[e] THEN @ ELSE @ + 1]
        /\ latest' = [latest EXCEPT ![e] = result]
    BY DEF NoteResult, Publish, Warns
  <1>2. EntityOK(e)
    BY EntityByEntity
  <1>3. /\ shown'[e] = IF phase[e] = "added" THEN result ELSE None
        /\ latest'[e] = result /\ lastResult'[e] = result
    BY <1>1, <1>2 DEF TypeOK, EntityOK
  <1>4. warnings'[e] = IF result = "simulated" THEN 1 ELSE 0
    <2>1. warnedSimulated[e] = (latest[e] = "simulated")
      BY <1>2 DEF EntityOK
    <2>2. warnings[e] = IF latest[e] = "simulated" THEN 1 ELSE 0
      BY <1>2 DEF EntityOK
    <2> QED
      BY <1>1, <2>1, <2>2 DEF TypeOK
  <1>5. warnedSimulated'[e] = (result = "simulated")
    BY <1>1 DEF TypeOK
  <1>6. EntityOK(e)'
    BY <1>1, <1>3, <1>4, <1>5 DEF EntityOK
  <1>7. ASSUME NEW d \in Entities, d # e PROVE EntityOK(d)'
    <2>1. EntityOK(d)
      BY EntityByEntity
    <2>2. /\ shown'[d] = shown[d] /\ warnings'[d] = warnings[d] /\ latest'[d] = latest[d]
          /\ lastResult'[d] = lastResult[d] /\ warnedSimulated'[d] = warnedSimulated[d]
      BY <1>1, <1>7 DEF TypeOK
    <2> QED
      BY <1>1, <2>1, <2>2 DEF EntityOK
  <1>8. EntityInv'
    BY <1>6, <1>7 DEF EntityInv, ShownIsLatest, WarnedPerRun, Remembered, EntityOK
  <1>9. \A d \in Entities : warnings[d] \in Nat
    BY DEF TypeOK
  <1>10. warnings' \in [Entities -> Nat]
    BY <1>1, <1>9 DEF TypeOK
  <1> QED
    BY <1>1, <1>8, <1>10 DEF TypeOK

\* A call that comes back with an outcome its presses bear out is told the truth,
\* and what it reported is noted.
LEMMA EndsStep ==
    ASSUME TypeOK, CallInv, EntityInv, NEW k \in Calls, calls[k] # None,
           NEW outcome \in Results \cup Failures, Ends(k, outcome),
           outcome = "dispatched" => presses[k] = 1 \/ mute'[k],
           mute' \in [Calls -> BOOLEAN], \A j \in Calls : j # k => mute'[j] = mute[j],
           outcome \in {"skipped", "simulated", "failed", "refused", "unknown", "unauthorised"}
             => presses[k] = 0,
           request' \in [Calls -> Request \cup {None}],
           \A j \in Calls : j # k => request'[j] = request[j],
           request'[k] # None => request[k] # None /\ outcome = "unreached"
    PROVE  IInv'
  <1>0. CallOK(k)
    BY CallByCall
  <1>1. /\ calls' = [calls EXCEPT ![k] = None] /\ reply' = [reply EXCEPT ![k] = None]
        /\ told' = [told EXCEPT ![k] = outcome] /\ asked' = asked /\ presses' = presses
    BY DEF Ends
  <1>2. calls'[k] = None /\ reply'[k] = None /\ told'[k] = outcome
    BY <1>1 DEF TypeOK
  <1>3. calls[k].by \in Entities
    BY DEF TypeOK, Call
  <1>4. /\ EntityInv'
        /\ phase' \in [Entities -> Phases]
        /\ lastResult' \in [Entities -> Results \cup {None}]
        /\ warnedSimulated' \in [Entities -> BOOLEAN]
        /\ shown' \in [Entities -> Results \cup {None}]
        /\ latest' \in [Entities -> Results \cup {None}]
        /\ warnings' \in [Entities -> Nat]
    <2>1. CASE outcome \in Results
      <3>1. NoteResult(calls[k].by, outcome)
        BY <2>1 DEF Ends, Recorded
      <3>2. phase' = phase /\ phase \in [Entities -> Phases]
        BY <1>3, <2>1, <3>1, Noted DEF TypeOK
      <3> QED
        BY <1>3, <2>1, <3>1, <3>2, Noted
    <2>2. CASE outcome \notin Results
      <3>1. UNCHANGED entity
        BY <2>2 DEF Ends, Recorded
      <3> QED
        BY <3>1, EntitiesAlone DEF TypeOK, entity
    <2> QED
      BY <2>1, <2>2
  <1>5. /\ calls' \in [Calls -> Call \cup {None}] /\ reply' \in [Calls -> Answer \cup {None}]
        /\ told' \in [Calls -> Results \cup Failures \cup {None}]
    BY <1>1 DEF TypeOK
  <1>6. TypeOK'
    BY <1>1, <1>4, <1>5 DEF TypeOK
  <1>7. CallOK(k)'
    BY <1>0, <1>1, <1>2 DEF CallOK
  <1>8. CallInv'
    <2>1. ASSUME NEW j \in Calls, j # k
          PROVE  /\ calls'[j] = calls[j] /\ request'[j] = request[j] /\ asked'[j] = asked[j]
                 /\ reply'[j] = reply[j] /\ presses'[j] = presses[j] /\ told'[j] = told[j]
                 /\ mute'[j] = mute[j]
      BY <1>1, <2>1 DEF TypeOK
    <2> QED
      BY <1>7, <2>1, OthersAlone
  <1> QED
    BY <1>4, <1>6, <1>8 DEF IInv, CallInv, EntityInv

\* The answer on its way is true when the call comes back with it.
LEMMA ReturnsStep ==
    ASSUME IInv, NEW k \in Calls, Returns(k)
    PROVE  IInv'
  <1>0. TypeOK /\ CallInv /\ EntityInv /\ CallOK(k)
    BY CallByCall DEF IInv, CallInv, EntityInv
  <1>1. /\ reply[k] # None /\ reply[k] \in Answer /\ calls[k] # None /\ request[k] = None
        /\ Ends(k, Result(reply[k])) /\ request' = request
        /\ mute' = [mute EXCEPT ![k] = reply[k].body = None]
    BY <1>0 DEF Returns, CallOK, TypeOK
  <1>2. Result(reply[k]) \in Results \cup Failures
    BY <1>1, ResultType
  <1>5. /\ mute' \in [Calls -> BOOLEAN] /\ mute'[k] = (reply[k].body = None)
        /\ \A j \in Calls : j # k => mute'[j] = mute[j]
    BY <1>0, <1>1 DEF TypeOK
  <1>3. /\ Result(reply[k]) = "dispatched" => presses[k] = 1 \/ mute'[k]
        /\ Result(reply[k]) \in {"skipped", "simulated", "failed", "refused", "unknown", "unauthorised"}
             => presses[k] = 0
    BY <1>0, <1>1, <1>5 DEF CallOK, Results
  <1>4. request' \in [Calls -> Request \cup {None}]
    BY <1>0, <1>1 DEF TypeOK
  <1> QED
    BY <1>0, <1>1, <1>2, <1>3, <1>4, <1>5, EndsStep

\* A call that gives up says nothing of the gear.
LEMMA GivesUpStep ==
    ASSUME IInv, NEW k \in Calls, GivesUp(k)
    PROVE  IInv'
  <1>0. TypeOK /\ CallInv /\ EntityInv
    BY DEF IInv, CallInv, EntityInv
  <1>1. calls[k] # None /\ Ends(k, "unreached")
    BY DEF GivesUp
  <1>2. /\ request' \in [Calls -> Request \cup {None}]
        /\ \A j \in Calls : j # k => request'[j] = request[j]
        /\ request'[k] # None => request[k] # None
        /\ mute' = mute
    BY <1>0 DEF GivesUp, TypeOK
  <1>3. "unreached" \in Results \cup Failures
    BY DEF Failures
  <1>4. mute' \in [Calls -> BOOLEAN] /\ \A j \in Calls : mute'[j] = mute[j]
    BY <1>0, <1>2 DEF TypeOK
  <1> QED
    BY <1>0, <1>1, <1>2, <1>3, <1>4, EndsStep

\* An entity that Home Assistant adds is shown with what was recorded before.
LEMMA ComesOrGoesStep ==
    ASSUME IInv, NEW e \in Entities, Adds(e) \/ Removes(e)
    PROVE  IInv'
  <1>0. TypeOK /\ CallInv /\ EntityInv
    BY DEF IInv, CallInv, EntityInv
  <1>1. /\ calls' = calls /\ request' = request /\ asked' = asked /\ reply' = reply
        /\ presses' = presses /\ told' = told /\ mute' = mute /\ lastResult' = lastResult
        /\ warnedSimulated' = warnedSimulated /\ latest' = latest /\ warnings' = warnings
    BY DEF Adds, Removes, wire
  <1>2. TypeOK'
    BY <1>0, <1>1 DEF TypeOK, Adds, Removes, Phases
  <1>3. CallInv'
    <2>1. ASSUME NEW k \in Calls PROVE CallOK(k)'
      <3>1. CallOK(k)
        BY <1>0, CallByCall
      <3> QED
        BY <1>1, <3>1 DEF CallOK
    <2> QED
      BY <2>1 DEF CallInv, PressedOnce, ToldWhatHappened, ReplyAwaited, UnpressedYet, ReplyTrue, CallOK
  <1>4. EntityOK(e)'
    <2>1. EntityOK(e)
      BY <1>0, EntityByEntity
    <2> QED
      BY <1>0, <1>1, <2>1 DEF EntityOK, Adds, Removes, TypeOK
  <1>5. EntityInv'
    <2>1. ASSUME NEW d \in Entities, d # e PROVE EntityOK(d)'
      <3>1. EntityOK(d)
        BY <1>0, EntityByEntity
      <3>2. shown'[d] = shown[d] /\ phase'[d] = phase[d]
        BY <1>0, <2>1 DEF Adds, Removes, TypeOK
      <3> QED
        BY <1>1, <3>1, <3>2 DEF EntityOK
    <2> QED
      BY <1>4, <2>1 DEF EntityInv, ShownIsLatest, WarnedPerRun, Remembered, EntityOK
  <1> QED
    BY <1>2, <1>3, <1>5 DEF IInv, CallInv, EntityInv

-----------------------------------------------------------------------------
LEMMA InvNext == IInv /\ [Next]_vars => IInv'
  <1> SUFFICES ASSUME IInv, [Next]_vars PROVE IInv'
    OBVIOUS
  <1>1. CASE UNCHANGED vars
    BY <1>1 DEF vars, wire, entity, IInv, TypeOK, PressedOnce, ToldWhatHappened, ShownIsLatest,
       WarnedPerRun, ReplyAwaited, UnpressedYet, ReplyTrue, Remembered
  <1>2. ASSUME NEW k \in Calls, NEW e \in Entities, Starts(k, e) PROVE IInv'
    BY <1>2, StartsStep
  <1>3. ASSUME NEW k \in Calls, NEW what \in DOMAIN Bodies, ServerRuns(k, what) PROVE IInv'
    BY <1>3, ServerRunsStep
  <1>4. ASSUME NEW k \in Calls, NEW token \in BOOLEAN, ServerAsks(k, token) PROVE IInv'
    BY <1>4, ServerAsksStep
  <1>5. ASSUME NEW k \in Calls, ServerRefuses(k) PROVE IInv'
    BY <1>5, ServerRefusesStep
  <1>6. ASSUME NEW k \in Calls, Confirms(k) PROVE IInv'
    BY <1>6, ConfirmsStep
  <1>7. ASSUME NEW k \in Calls, Returns(k) PROVE IInv'
    BY <1>7, ReturnsStep
  <1>8. ASSUME NEW k \in Calls, GivesUp(k) PROVE IInv'
    BY <1>8, GivesUpStep
  <1>9. ASSUME NEW e \in Entities, Adds(e) \/ Removes(e) PROVE IInv'
    BY <1>9, ComesOrGoesStep
  <1> QED
    BY <1>1, <1>2, <1>3, <1>4, <1>5, <1>6, <1>7, <1>8, <1>9 DEF Next

\* The invariant is inductive, for any calls and entities.
THEOREM CallInductive == Spec => []IInv
  BY InvInit, InvNext, PTL DEF Spec

\* Every variable of a call and of an entity keeps its shape.
THEOREM CallTypeCorrect == Spec => []TypeOK
  BY CallInductive, PTL DEF IInv

\* One press of a switch presses the gear once at most: async_call_cue confirms
\* once, and repeats no POST.
THEOREM NeverPressedTwice == Spec => []PressedOnce
  BY CallInductive, PTL DEF IInv

\* A call that ends as run was pressed for, unless the 200 it ended with had no body
\* of the server's; one that ends as anything else the server says was not
\* (async_run_cue, _result).
THEOREM AlwaysToldWhatHappened == Spec => []ToldWhatHappened
  BY CallInductive, PTL DEF IInv

\* Home Assistant shows the last result of an entity that is there
\* (_publish_result), in whatever order its calls were answered.
THEOREM LatestResultShown == Spec => []ShownIsLatest
  BY CallInductive, PTL DEF IInv

\* One WARNING for each run of simulated calls (_warned_simulated).
THEOREM WarnedOncePerRun == Spec => []WarnedPerRun
  BY CallInductive, PTL DEF IInv
=============================================================================
