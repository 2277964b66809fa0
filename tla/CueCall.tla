------------------------------- MODULE CueCall -------------------------------
(***************************************************************************)
(* A cue call from the press to what Home Assistant is told of it          *)
(* (api.py, async_call_cue; entity.py, async_run_cue): the POST, the       *)
(* confirmation a two-step cue asks for, the answer as an error or a       *)
(* result, and the result as the entity's last_result.                     *)
(*                                                                         *)
(* A POST is handled by the server in a step of its own, so it may be       *)
(* handled after its caller has given up; its answer is a later step still. *)
(* The server is external: it presses nothing for an answer other than a   *)
(* plain 200, and asks only of cues it has not run.  A proxy may replace    *)
(* its answer by an error, by no JSON, or by a 200 whose JSON says nothing  *)
(* of the cue, which the client reads as a cue that ran.                    *)
(* An entity is an object here: a cue that comes back has a new one.       *)
(***************************************************************************)
EXTENDS Integers

CONSTANTS
    Calls,     \* bound: the calls that may be in flight at once
    Entities,  \* the entity objects
    None       \* Python's None, for whatever may be absent

VARIABLES
    calls,      \* calls[k]: whose call k is and whether it has confirmed
    request,    \* request[k]: the POST of k the server has not handled
    asked,      \* asked[k]: the server would take k's confirmation token
    reply,      \* reply[k]: the answer on its way to k
    phase,      \* the entity has no hass yet, is in Home Assistant, or left it
    lastResult, \* _last_result
    warnedSimulated, \* _warned_simulated
    shown,      \* last_result as the state machine has it
    \* History, read by no action.
    presses,    \* presses[k]: what the server pressed for k
    told,       \* told[k]: how k ended
    mute,       \* mute[k]: the answer k ended with had no body to say so
    latest,     \* latest[e]: the result of e's last call to have one
    warnings    \* warnings[e]: simulate WARNINGs since a result that was not one

wire    == <<request, asked, reply>>
entity  == <<phase, lastResult, warnedSimulated, shown, latest, warnings>>
vars    == <<calls, wire, entity, presses, told, mute>>

Results  == {"dispatched", "skipped", "simulated", "failed"}
Failures == {"refused", "unknown", "unauthorised", "unreached", "crashed"}
Phases   == {"new", "added", "removed"}

Call    == [by : Entities, confirming : BOOLEAN]
Request == [confirm : BOOLEAN]

\* What async_call_cue reads of an answer: its status, whether it is JSON, and
\* the object in it that says what became of the cue, or None for a body that is
\* empty, is no object or has none of these; confirm is a token.
Body   == [ok : BOOLEAN, simulated : BOOLEAN, skipped : BOOLEAN, confirm : BOOLEAN]
Answer == [status : {200, 202, 401, 404, 409, 500}, json : BOOLEAN, body : Body \cup {None}]

\* What is read where the body does not say.
Defaults == [ok |-> TRUE, simulated |-> FALSE, skipped |-> FALSE, confirm |-> FALSE]

\* The body of an answer as the client has it: no object is read as an empty one.
Heard(answer) == IF answer.body = None THEN Defaults ELSE answer.body

\* A 200 of the server's, a 202 of its with or without a token, and an answer
\* with no body of the server's.
Ran(ok, simulated, skipped) ==
    [status |-> 200, json |-> TRUE,
     body |-> [ok |-> ok, simulated |-> simulated, skipped |-> skipped, confirm |-> FALSE]]
Asks(token) == [status |-> 202, json |-> TRUE, body |-> [Defaults EXCEPT !.confirm = token]]
Bare(status, json) == [status |-> status, json |-> json, body |-> None]

ASSUME CallAssumption ==
    None \notin Results \cup Failures \cup Call \cup Request \cup Answer \cup Body
-----------------------------------------------------------------------------
Init ==
    /\ calls = [k \in Calls |-> None]
    /\ request = [k \in Calls |-> None]
    /\ asked = [k \in Calls |-> FALSE]
    /\ reply = [k \in Calls |-> None]
    /\ phase = [e \in Entities |-> "new"]
    /\ lastResult = [e \in Entities |-> None]
    /\ warnedSimulated = [e \in Entities |-> FALSE]
    /\ shown = [e \in Entities |-> None]
    /\ presses = [k \in Calls |-> 0]
    /\ told = [k \in Calls |-> None]
    /\ mute = [k \in Calls |-> FALSE]
    /\ latest = [e \in Entities |-> None]
    /\ warnings = [e \in Entities |-> 0]

-----------------------------------------------------------------------------
\* The server.

\* The 200 bodies that say of a cue what became of it; in simulate mode the
\* server may have skipped the press as well.
Bodies == [pressed   |-> {Ran(TRUE, FALSE, FALSE)},
           skipped   |-> {Ran(TRUE, FALSE, TRUE)},
           simulated |-> {Ran(TRUE, TRUE, s) : s \in BOOLEAN},
           failed    |-> {Ran(FALSE, s, FALSE) : s \in BOOLEAN}]

\* What may arrive in the place of an answer: an error, a page that is no JSON,
\* and a 200 whose JSON is not the server's.
Mangled == {Bare(500, TRUE), Bare(200, FALSE), Bare(200, TRUE)}

\* The answer reaches a caller that still waits.
Replies(k, answers) ==
    /\ request' = [request EXCEPT ![k] = None]
    /\ IF calls[k] = None THEN UNCHANGED reply
       ELSE \E answer \in answers \cup Mangled : reply' = [reply EXCEPT ![k] = answer]

\* The server does what a one-step cue, or one confirmed with its token, is for.
ServerRuns(k, what) ==
    /\ request[k] # None
    /\ request[k].confirm => asked[k]
    /\ asked' = [asked EXCEPT ![k] = FALSE]
    /\ presses' = [presses EXCEPT ![k] = IF what = "pressed" THEN @ + 1 ELSE @]
    /\ Replies(k, Bodies[what])
    /\ UNCHANGED <<calls, entity, told, mute>>

\* ... or wants to be asked again, with a token it remembers or with none.
ServerAsks(k, token) ==
    /\ request[k] # None
    /\ asked' = [asked EXCEPT ![k] = token]
    /\ Replies(k, {Asks(token)})
    /\ UNCHANGED <<calls, entity, presses, told, mute>>

ServerRefuses(k) ==
    /\ request[k] # None
    /\ Replies(k, {Bare(status, TRUE) : status \in {401, 404, 409, 500}})
    /\ UNCHANGED <<calls, asked, entity, presses, told, mute>>

-----------------------------------------------------------------------------
\* The client.

\* async_run_cue up to the first await.  A call that gave up keeps its place
\* while its POST is under way.
Starts(k, e) ==
    /\ calls[k] = None /\ request[k] = None
    /\ phase[e] # "removed"
    /\ calls' = [calls EXCEPT ![k] = [by |-> e, confirming |-> FALSE]]
    /\ request' = [request EXCEPT ![k] = [confirm |-> FALSE]]
    /\ asked' = [asked EXCEPT ![k] = FALSE]
    /\ presses' = [presses EXCEPT ![k] = 0]
    /\ told' = [told EXCEPT ![k] = None]
    /\ mute' = [mute EXCEPT ![k] = FALSE]
    /\ UNCHANGED <<reply, entity>>

\* Mutant: a confirmation asked for again is given again.
ConfirmableAgain(k) ==
    /\ reply[k].json
    /\ reply[k].status = 202 /\ Heard(reply[k]).confirm

\* A 202 with a token is confirmed, the first time.
Confirmable(k) ==
    /\ reply[k].json
    /\ reply[k].status = 202 /\ Heard(reply[k]).confirm
    /\ ~calls[k].confirming

Confirms(k) ==
    /\ reply[k] # None
    /\ Confirmable(k)
    /\ calls' = [calls EXCEPT ![k].confirming = TRUE]
    /\ request' = [request EXCEPT ![k] = [confirm |-> TRUE]]
    /\ reply' = [reply EXCEPT ![k] = None]
    /\ UNCHANGED <<asked, entity, presses, told, mute>>

\* Mutant: a press that did not land reads as one.
ReportedWhateverOk(answer) ==
    IF Heard(answer).simulated THEN "simulated"
    ELSE IF Heard(answer).skipped THEN "skipped" ELSE "dispatched"

\* What _async_note_result makes of a 200.
Reported(answer) ==
    IF ~Heard(answer).ok THEN "failed"
    ELSE IF Heard(answer).simulated THEN "simulated"
    ELSE IF Heard(answer).skipped THEN "skipped" ELSE "dispatched"

\* _result: an error by status.  What is not JSON raises past every except.
Result(answer) ==
    IF ~answer.json THEN "crashed"
    ELSE CASE answer.status = 200 -> Reported(answer)
           [] answer.status = 401 -> "unauthorised"
           [] answer.status = 404 -> "unknown"
           [] answer.status = 409 -> "refused"
           [] OTHER -> "unreached"

\* Mutant: the result is published whether or not the entity is there.
PublishAnyway(e, result) ==
    /\ lastResult' = [lastResult EXCEPT ![e] = result]
    /\ shown' = IF result # lastResult[e] THEN [shown EXCEPT ![e] = result] ELSE shown

\* _publish_result: kept in any case, written when it changed something that
\* Home Assistant has.
Publish(e, result) ==
    /\ lastResult' = [lastResult EXCEPT ![e] = result]
    /\ shown' = IF result # lastResult[e] /\ phase[e] = "added"
                THEN [shown EXCEPT ![e] = result] ELSE shown

\* Mutant: a call that failed leaves the warning as said.
WarnsFailedOn(e, result) ==
    /\ warnedSimulated' = [warnedSimulated EXCEPT
                             ![e] = result = "simulated" \/ (result = "failed" /\ @)]
    /\ warnings' = [warnings EXCEPT
                      ![e] = IF result # "simulated" THEN 0
                             ELSE IF warnedSimulated[e] THEN @ ELSE @ + 1]

\* A simulated call warns unless one warned since a call that was none.
Warns(e, result) ==
    /\ warnedSimulated' = [warnedSimulated EXCEPT ![e] = result = "simulated"]
    /\ warnings' = [warnings EXCEPT
                      ![e] = IF result # "simulated" THEN 0
                             ELSE IF warnedSimulated[e] THEN @ ELSE @ + 1]

\* _async_note_result, for the entity object that called, wherever it is now.
NoteResult(e, result) ==
    /\ Publish(e, result)
    /\ Warns(e, result)
    /\ latest' = [latest EXCEPT ![e] = result]
    /\ UNCHANGED phase

\* Mutant: a call that raised is recorded like one that did not.
IsRecorded(outcome) == TRUE

\* Only what a 200 reported is recorded.
Recorded(outcome) == outcome \in Results

\* The call comes back, raising for every outcome but three.
Ends(k, outcome) ==
    /\ calls' = [calls EXCEPT ![k] = None]
    /\ reply' = [reply EXCEPT ![k] = None]
    /\ told' = [told EXCEPT ![k] = outcome]
    /\ IF Recorded(outcome) THEN NoteResult(calls[k].by, outcome) ELSE UNCHANGED entity
    /\ UNCHANGED <<asked, presses>>

Returns(k) ==
    /\ reply[k] # None
    /\ ~Confirmable(k)
    /\ Ends(k, Result(reply[k]))
    /\ mute' = [mute EXCEPT ![k] = reply[k].body = None]
    /\ UNCHANGED request

\* Mutant: a POST that timed out is sent again.
GivesUpTriesAgain(k) ==
    /\ calls[k] # None
    /\ request' = [request EXCEPT ![k] = [confirm |-> FALSE]]
    /\ reply' = [reply EXCEPT ![k] = None]
    /\ UNCHANGED <<calls, asked, entity, presses, told, mute>>

\* Ten seconds are up, or the connection broke: the POST or its answer may be
\* lost or still to come.
GivesUp(k) ==
    /\ calls[k] # None
    /\ Ends(k, "unreached")
    /\ request' \in {request, [request EXCEPT ![k] = None]}
    /\ UNCHANGED mute

-----------------------------------------------------------------------------
\* Home Assistant adds the entity, which writes its state, and takes it away.
Adds(e) ==
    /\ phase[e] = "new"
    /\ phase' = [phase EXCEPT ![e] = "added"]
    /\ shown' = [shown EXCEPT ![e] = lastResult[e]]
    /\ UNCHANGED <<calls, wire, presses, told, mute, lastResult, warnedSimulated, latest, warnings>>

Removes(e) ==
    /\ phase[e] = "added"
    /\ phase' = [phase EXCEPT ![e] = "removed"]
    /\ shown' = [shown EXCEPT ![e] = None]
    /\ UNCHANGED <<calls, wire, presses, told, mute, lastResult, warnedSimulated, latest, warnings>>

Next ==
    \/ \E k \in Calls, e \in Entities : Starts(k, e)
    \/ \E k \in Calls : \/ \E what \in DOMAIN Bodies : ServerRuns(k, what)
                        \/ \E token \in BOOLEAN : ServerAsks(k, token)
                        \/ ServerRefuses(k)
                        \/ Confirms(k) \/ Returns(k) \/ GivesUp(k)
    \/ \E e \in Entities : Adds(e) \/ Removes(e)

Spec == Init /\ [][Next]_vars

\* The client's side of a call goes on; REQUEST_TIMEOUT sees to it where the
\* server does not.
Fairness == \A k \in Calls : WF_vars(Confirms(k) \/ Returns(k) \/ GivesUp(k))

FairSpec == Spec /\ Fairness
-----------------------------------------------------------------------------
\* Every variable has the shape the code, or the network, gives it.
TypeOK ==
    /\ calls \in [Calls -> Call \cup {None}]
    /\ request \in [Calls -> Request \cup {None}]
    /\ asked \in [Calls -> BOOLEAN]
    /\ reply \in [Calls -> Answer \cup {None}]
    /\ phase \in [Entities -> Phases]
    /\ lastResult \in [Entities -> Results \cup {None}]
    /\ warnedSimulated \in [Entities -> BOOLEAN]
    /\ shown \in [Entities -> Results \cup {None}]
    /\ presses \in [Calls -> Nat]
    /\ told \in [Calls -> Results \cup Failures \cup {None}]
    /\ mute \in [Calls -> BOOLEAN]
    /\ latest \in [Entities -> Results \cup {None}]
    /\ warnings \in [Entities -> Nat]

\* One press of a switch presses the gear once at most, whatever was confirmed,
\* given up on or handled late (async_call_cue).
PressedOnce == \A k \in Calls : presses[k] <= 1

\* "A cue that did not run must never read as one that did" (async_run_cue): a call
\* ends as run only when the server pressed, unless the 200 it ended with had no
\* body of the server's, which _result reads as run; and it ends as refused, skipped,
\* simulated or failed only when nothing was pressed.
ToldWhatHappened ==
    \A k \in Calls :
        /\ told[k] = "dispatched" => presses[k] = 1 \/ mute[k]
        /\ told[k] \in {"skipped", "simulated", "failed", "refused", "unknown", "unauthorised"}
             => presses[k] = 0

\* What Home Assistant shows as last_result is the last result, of calls that were
\* answered in any order, before the entity was added or after (_publish_result);
\* an entity that is not there shows none.
ShownIsLatest ==
    \A e \in Entities : shown[e] = IF phase[e] = "added" THEN latest[e] ELSE None

\* One WARNING for a run of simulated calls, and one for each such run, with other
\* failures in between or not (_warned_simulated).
WarnedPerRun ==
    \A e \in Entities : warnings[e] = IF latest[e] = "simulated" THEN 1 ELSE 0

\* Every call ends, with a server that asks to be confirmed over and over or that
\* never answers.
CallEnds == \A k \in Calls : calls[k] # None ~> calls[k] = None
-----------------------------------------------------------------------------
\* The parts of the inductive invariant behind the safety properties above.

\* An answer is on its way only to a call that waits, whose POST was handled.
ReplyAwaited == \A k \in Calls : reply[k] # None => calls[k] # None /\ request[k] = None

\* Nothing has been pressed for a call while its POST is to be handled, or while
\* the server would take its confirmation; a POST handled late was given up on.
UnpressedYet ==
    \A k \in Calls : /\ request[k] # None \/ asked[k] => presses[k] = 0
                     /\ request[k] # None => told[k] \in {None, "unreached"}
                     /\ calls[k] # None => told[k] = None

\* The answer on its way says what was pressed, if it has a body to say it.
ReplyTrue ==
    \A k \in Calls : reply[k] # None =>
        LET result == Result(reply[k]) IN
        /\ result = "dispatched" => presses[k] = 1 \/ reply[k].body = None
        /\ result \in Results \cup {"refused", "unknown", "unauthorised"}
             => result = "dispatched" \/ presses[k] = 0
        /\ reply[k].status = 202 => presses[k] = 0

\* The code's own record of results is the history's.
Remembered ==
    \A e \in Entities : /\ lastResult[e] = latest[e]
                        /\ warnedSimulated[e] = (latest[e] = "simulated")

IInv ==
    /\ TypeOK
    /\ PressedOnce
    /\ ToldWhatHappened
    /\ ShownIsLatest
    /\ WarnedPerRun
    /\ ReplyAwaited
    /\ UnpressedYet
    /\ ReplyTrue
    /\ Remembered
=============================================================================
