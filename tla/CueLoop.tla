------------------------------- MODULE CueLoop -------------------------------
(***************************************************************************)
(* A cue from the press to the gear and back, with the stream up: the       *)
(* windows of SettleWindow, and the two ways by which a state of the gear   *)
(* reaches them - the event stream (CueStream), and the answers to the cue  *)
(* calls (CueCall).  Each keeps its own order; nothing orders one against   *)
(* the other.                                                              *)
(*                                                                         *)
(* What the server holds of a cue's gear is gear; that it may lag behind    *)
(* the gear itself is no business of Home Assistant's.  Cues are listed     *)
(* throughout, and their entities stay.                                    *)
(***************************************************************************)
EXTENDS SettleWindow

CONSTANT MaxQueue  \* bound: events sent and not yet read

ASSUME LoopAssumption == MaxQueue \in Nat /\ None \notin [Cues -> Value]

VARIABLES
    gear,      \* the state of each cue and its reason, as the server has them
    queue,     \* events sent and not read, in order
    rereading, \* the stream task waits for the manifest
    reply,     \* a manifest on its way to it, or None
    reports,   \* reports[c][i]: what the answer to calls[c][i] says of the gear
    \* History, read by no action.
    stale      \* the last read of a cue was a report that an event had overtaken

server == <<gear, queue, rereading, reply, reports, stale>>
loop   == <<vars, server>>

Unserved == "unserved"

\* An event of the cues channel: a cue's state, or "the list changed".
StateEvent    == [type : {"state"}, cue : Cues, value : Value]
ManifestEvent == [type |-> "manifest"]
Event         == StateEvent \cup {ManifestEvent}

Sends(event) == Len(queue) < MaxQueue /\ queue' = Append(queue, event)

About(event, c) == event.type = "state" /\ event.cue = c

\* No change of this cue is still to be read.
Unqueued(c) == \A i \in 1..Len(queue) : ~About(queue[i], c)
-----------------------------------------------------------------------------
LoopInit ==
    /\ Init
    /\ \A c \in Cues : rows[c] # None
    /\ gear = rows
    /\ queue = <<>>
    /\ rereading = FALSE
    /\ reply = None
    /\ reports = [c \in Cues |-> <<>>]
    /\ stale = [c \in Cues |-> FALSE]

\* The server reads another state: somebody at the wall, or a cue come true.
Turns(c, value) ==
    /\ gear[c] # value
    /\ gear' = [gear EXCEPT ![c] = value]
    /\ Sends([type |-> "state", cue |-> c, value |-> value])

GearTurns(c, value) ==
    /\ Turns(c, value)
    /\ UNCHANGED <<vars, rereading, reply, reports, stale>>

ListChanges ==
    /\ Sends(ManifestEvent)
    /\ UNCHANGED <<vars, gear, rereading, reply, reports, stale>>

\* A press: its call is on its way.
Calls(c, wanted) ==
    /\ Press(c, wanted)
    /\ reports' = [reports EXCEPT ![c] = Append(@, Unserved)]
    /\ UNCHANGED <<gear, queue, rereading, reply, stale>>

\* The server runs the cue.  The gear may have turned as it answers, or turn later,
\* and the answer may tell its state or not.
ServerRuns(c, i) ==
    /\ reports[c][i] = Unserved
    /\ \/ Turns(c, [state |-> calls[c][i].wanted, reason |-> NoReason])
       \/ UNCHANGED <<gear, queue>>
    /\ \E report \in {None, gear'[c].state} : reports' = [reports EXCEPT ![c][i] = report]
    /\ UNCHANGED <<vars, rereading, reply, stale>>

\* _async_call after its await: the answer, whatever was read since it was given.
AnswerArrives(c, i) ==
    LET report == reports[c][i] IN
    /\ report \in States \cup {None}
    /\ CallOpens(c, i, report) \/ CallContradicts(c, i, report)
    /\ reports' = [reports EXCEPT ![c] = Answered(@, i)]
    /\ stale' = [stale EXCEPT ![c] = IF report = None THEN @
                                     ELSE report # gear[c].state /\ Unqueued(c)]
    /\ UNCHANGED <<gear, queue, rereading, reply>>

\* The call fails, before the server runs it or after.
CallFails(c, i) ==
    /\ CallDoesNothing(c, i)
    /\ reports' = [reports EXCEPT ![c] = Answered(@, i)]
    /\ UNCHANGED <<gear, queue, rereading, reply, stale>>

-----------------------------------------------------------------------------
\* The stream's task.

\* Mutant: events are read while the manifest is.
ReadStateMeanwhile(c) ==
    /\ queue # <<>> /\ About(Head(queue), c)
    /\ Observe(c, Head(queue).value)
    /\ stale' = [stale EXCEPT ![c] = FALSE]
    /\ queue' = Tail(queue)
    /\ UNCHANGED <<gear, rereading, reply, reports>>

\* _handle_cue_event, a state: applied as a read.
ReadState(c) ==
    /\ ~rereading
    /\ queue # <<>> /\ About(Head(queue), c)
    /\ Observe(c, Head(queue).value)
    /\ stale' = [stale EXCEPT ![c] = FALSE]
    /\ queue' = Tail(queue)
    /\ UNCHANGED <<gear, rereading, reply, reports>>

\* ... or "the list changed": nothing is read until the manifest is.
ReadManifest ==
    /\ ~rereading
    /\ queue # <<>> /\ Head(queue).type = "manifest"
    /\ queue' = Tail(queue)
    /\ rereading' = TRUE
    /\ UNCHANGED <<vars, gear, reply, reports, stale>>

ManifestServed ==
    /\ rereading /\ reply = None
    /\ reply' = gear
    /\ UNCHANGED <<vars, gear, queue, rereading, reports, stale>>

ManifestArrives ==
    /\ reply # None
    /\ Refetch(reply)
    /\ rereading' = FALSE /\ reply' = None
    /\ stale' = [c \in Cues |-> FALSE]
    /\ UNCHANGED <<gear, queue, reports>>

\* A failure is told, but for one after another.
ManifestFails ==
    /\ rereading
    /\ rereading' = FALSE /\ reply' = None
    /\ Retell \/ UNCHANGED vars
    /\ UNCHANGED <<gear, queue, reports, stale>>

StreamStep == (\E c \in Cues : ReadState(c)) \/ ReadManifest \/ ManifestArrives \/ ManifestFails

WindowEnds(c, g) == TimerFires(c, g) /\ UNCHANGED server
TimePasses       == Tick /\ UNCHANGED server

LoopNext ==
    \/ \E c \in Cues :
         \/ \E value \in Value : GearTurns(c, value)
         \/ \E wanted \in Commands : Calls(c, wanted)
         \/ \E i \in 1..Len(calls[c]) : ServerRuns(c, i) \/ AnswerArrives(c, i) \/ CallFails(c, i)
         \/ \E g \in Gens : WindowEnds(c, g)
    \/ ListChanges
    \/ StreamStep \/ ManifestServed
    \/ TimePasses

LoopSpec == LoopInit /\ [][LoopNext]_loop

\* Home Assistant goes on reading what was sent, time passes, and a due timer fires.
\* Nothing is assumed of the gear, of people, or of the answers to calls.
LoopFairness ==
    /\ WF_loop(StreamStep)
    /\ WF_loop(TimePasses)
    /\ \A c \in Cues, g \in Gens : WF_loop(WindowEnds(c, g))

LoopFairSpec == LoopSpec /\ LoopFairness
-----------------------------------------------------------------------------
\* What a cue shows once no window is in the way: now, or when its window ends.
Behind(c) == IF settling[c] = None THEN written[c].value.state ELSE GivenBack(settling[c]).state

\* Behind its window a switch shows what the gear does as soon as the stream has been
\* read that far, in whatever order events, manifests, answers and presses came ("the
\* switch reports what the gear says", README.md) - unless a window was opened over
\* another, or a report was handed on after an event that was newer.
FollowsGear ==
    \A c \in Cues : Unqueued(c) /\ ~overlapped[c] /\ ~stale[c] => Behind(c) = gear[c].state

\* A record that lapsed and whose timer was cancelled: nothing will end it.
Forgotten(c) == settling[c] # None /\ ~Live(settling[c]) /\ timers[c] = NoTimers

\* When a cue's gear and the people at its switch come to rest, the switch comes to
\* show what the gear does, but for those two cases and a record that is forgotten.
ComesToRest ==
    \A c \in Cues, state \in States :
        <>[](gear[c].state = state /\ calls[c] = <<>>) =>
        <>[](written[c].value.state = state \/ overlapped[c] \/ stale[c] \/ Forgotten(c))
-----------------------------------------------------------------------------
\* The parts of the inductive invariant behind FollowsGear, beside SettleWindow's.

\* Cues stay listed, and what moves between them and the server keeps its shape.
LoopTypeOK ==
    /\ \A c \in Cues : rows[c] # None
    /\ gear \in [Cues -> Value]
    /\ queue \in Seq(Event)
    /\ rereading \in BOOLEAN
    /\ reply \in [Cues -> Value] \cup {None}
    /\ stale \in [Cues -> BOOLEAN]

\* The last queued event about a cue says what its gear does.
QueueCurrent ==
    \A c \in Cues, i \in 1..Len(queue) :
        About(queue[i], c) /\ (\A j \in (i + 1)..Len(queue) : ~About(queue[j], c))
            => queue[i].value = gear[c]

\* A manifest on its way is what the gear does, but for what is queued; so is what
\* was last read.
ReplyCurrent == reply # None => rereading /\ \A c \in Cues : Unqueued(c) => reply[c] = gear[c]
ReadCurrent  ==
    \A c \in Cues : Unqueued(c) /\ ~stale[c] => lastRead[c] # None /\ lastRead[c].state = gear[c].state

LoopInv == IInv /\ LoopTypeOK /\ QueueCurrent /\ ReplyCurrent /\ ReadCurrent
=============================================================================
