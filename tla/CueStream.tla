------------------------------ MODULE CueStream ------------------------------
(***************************************************************************)
(* How the cue states stay current (coordinator.py): the task that holds   *)
(* the one event stream, the task that polls while the stream is down, and *)
(* what the two make of last_update_success, by which Home Assistant shows *)
(* every entity available or not.                                          *)
(*                                                                         *)
(* A request and its answer are two steps, and a snapshot is taken by the  *)
(* server between them; everything else is one step up to its next await.  *)
(* The server's events reach the reader through a queue, in order.  Sleeps *)
(* last any time.  What a settle window hides is left to SettleWindow:     *)
(* rows is what was read, and a window is only the writes it causes.       *)
(***************************************************************************)
EXTENDS Integers, Sequences

CONSTANTS
    Cues,       \* the cue pairs of the manifest
    None,       \* Python's None, for whatever may be absent
    WarnTicks,  \* UNREACHABLE_WARNING, in ticks
    MaxQueue    \* bound: events sent and not yet read

ASSUME StreamAssumption ==
    /\ WarnTicks \in Nat \ {0}
    /\ MaxQueue \in Nat

States   == {"on", "off"}
Snapshot == [Cues -> States]

\* An event of the cues channel: one cue's new state, or "the list changed".
StateEvent    == [type : {"state"}, cue : Cues, state : States]
ManifestEvent == [type |-> "manifest"]
Event         == StateEvent \cup {ManifestEvent}

ASSUME NoneAssumption == None \notin Snapshot \cup Nat

VARIABLES
    server,     \* "up", "failing" (accepts, then answers an error or nonsense), "down"
    truth,      \* what the gear is doing
    rows,       \* the states last read into coordinator.data
    queue,      \* events the server has sent and _read_events has not read
    cut,        \* the open stream is dead and nobody has noticed
    stream,     \* where _stream_loop is
    connected,  \* stream_connected: "unresolved" (None), "up", "down"
    fallback,   \* where _fallback_loop is: "none", "polling", "sleeping", "dead"
    reply,      \* a manifest on its way to the stream task
    polled,     \* states on their way to the poll
    success,    \* last_update_success
    since,      \* ticks since _unreachable_since was set, or None
    warned,     \* _unreachable_warned
    window,     \* "answered": a cue call's 200 is on its way; "open": a settle window is
    \* History, read by no action.
    missed,     \* the gear or the cue list changed and no event will say so
    warnings    \* WARNINGs since a read was last answered; None if the last one was

feed  == <<truth, rows, queue, cut, missed>>
tasks == <<stream, connected, fallback, reply, polled>>
reach == <<success, since, warned, warnings>>
vars  == <<server, feed, tasks, reach, window>>

Listening == stream \in {"refetching", "reading", "rereading"}
-----------------------------------------------------------------------------
Init ==
    /\ server = "up"
    /\ truth \in Snapshot
    /\ rows = truth
    /\ queue = <<>>
    /\ cut = FALSE
    /\ stream = "opening"
    /\ connected = "unresolved"
    /\ fallback = "none"
    /\ reply = None
    /\ polled = None
    /\ success = TRUE
    /\ since = None
    /\ warned = FALSE
    /\ window = {}
    /\ missed = FALSE
    /\ warnings = None

-----------------------------------------------------------------------------
\* The server and the network.

\* A server that goes down takes the open stream with it.
ServerTurns(mode) ==
    /\ server # mode
    /\ server' = mode
    /\ cut' = (cut \/ (mode = "down" /\ Listening))
    /\ UNCHANGED <<truth, rows, queue, missed, tasks, reach, window>>

\* The server sends an event to whoever listens; nothing is replayed to others.
Sends(event) ==
    IF Listening /\ ~cut
    THEN /\ Len(queue) < MaxQueue
         /\ queue' = Append(queue, event)
         /\ UNCHANGED missed
    ELSE /\ missed' = TRUE
         /\ UNCHANGED queue

\* Somebody at the wall.
GearChanges(c, state) ==
    /\ truth[c] # state
    /\ truth' = [truth EXCEPT ![c] = state]
    /\ Sends([type |-> "state", cue |-> c, state |-> state])
    /\ UNCHANGED <<server, rows, cut, tasks, reach, window>>

\* The cue list is edited in Stage Utility.
ListChanges ==
    /\ Sends(ManifestEvent)
    /\ UNCHANGED <<server, truth, rows, cut, tasks, reach, window>>

\* The connection dies without a word.
SocketDies ==
    /\ Listening /\ ~cut
    /\ cut' = TRUE
    /\ UNCHANGED <<server, truth, rows, queue, missed, tasks, reach, window>>

ManifestServed ==
    /\ stream \in {"refetching", "rereading"}
    /\ reply = None
    /\ server = "up"
    /\ reply' = truth
    /\ UNCHANGED <<server, feed, stream, connected, fallback, polled, reach, window>>

StatesServed ==
    /\ fallback = "polling"
    /\ polled = None
    /\ server = "up"
    /\ polled' = truth
    /\ UNCHANGED <<server, feed, stream, connected, fallback, reply, reach, window>>

-----------------------------------------------------------------------------
\* Reachability.

\* async_set_updated_data after a read, which makes every entity available.  A
\* read that changed nothing is not published; one that a window swallows is not
\* either, and one that ends a window always is.
Published(changed) ==
    IF "open" \in window THEN success' \in {success, TRUE} ELSE success' = (success \/ changed)

\* A read was answered.
Answered == warnings' = None

Unanswered == warnings' = IF warnings = None THEN 0 ELSE warnings

\* Mutant: every failure starts the clock again.
NoteUnreachableAnew ==
    /\ since' = 0
    /\ IF since = WarnTicks /\ ~warned
       THEN /\ warned' = TRUE
            /\ warnings' = IF warnings = None THEN 1 ELSE warnings + 1
       ELSE Unanswered /\ UNCHANGED warned
    /\ success' = FALSE

\* _note_unreachable: the first failure starts the clock, a later one may warn.
NoteUnreachable ==
    /\ since' = IF since = None THEN 0 ELSE since
    /\ IF since = WarnTicks /\ ~warned
       THEN /\ warned' = TRUE
            /\ warnings' = IF warnings = None THEN 1 ELSE warnings + 1
       ELSE Unanswered /\ UNCHANGED warned
    /\ success' = FALSE

\* _note_reachable, but for the republishing.
NoteReachable == since' = None /\ warned' = FALSE

-----------------------------------------------------------------------------
\* The stream task.

\* Mutant: the poll goes on beside a stream that is back.
StopFallbackNot == UNCHANGED <<fallback, polled>>

\* _stop_fallback: a cancelled task never sees the answer it awaited.
StopFallback == fallback' = "none" /\ polled' = None

\* _set_connected(False) and the sleep after it.  Only a change starts the poll.
Drop ==
    /\ stream' = "sleeping"
    /\ connected' = "down"
    /\ fallback' = IF connected # "down" /\ fallback \in {"none", "dead"}
                   THEN "polling" ELSE fallback

\* Mutant: the socket alone ends the outage.
StreamOpensReachable ==
    /\ stream = "opening"
    /\ server # "down"
    /\ stream' = "refetching"
    /\ connected' = "up"
    /\ StopFallback
    /\ NoteReachable
    /\ queue' = <<>>
    /\ cut' = FALSE
    /\ UNCHANGED <<server, truth, rows, missed, reply, success, warnings, window>>

\* _stream_once: connected and subscribed; the manifest is asked for next.
StreamOpens ==
    /\ stream = "opening"
    /\ server # "down"
    /\ stream' = "refetching"
    /\ connected' = "up"
    /\ StopFallback
    /\ queue' = <<>>
    /\ cut' = FALSE
    /\ UNCHANGED <<server, truth, rows, missed, reply, reach, window>>

OpenFails ==
    /\ stream = "opening"
    /\ server # "up"
    /\ Drop
    /\ UNCHANGED <<server, feed, reply, polled, reach, window>>

\* Mutant: a manifest read again leaves the entities as unavailable as they were.
TakesManifestQuietly ==
    /\ reply # None
    /\ rows' = reply
    /\ reply' = None
    /\ UNCHANGED success
    /\ missed' = (missed /\ cut)
    /\ Answered
    /\ stream' = "reading"

\* Mutant: a manifest is taken in before it has come.
TakesManifestUnasked ==
    /\ rows' = reply
    /\ reply' = None
    /\ success' = TRUE
    /\ missed' = (missed /\ cut)
    /\ Answered
    /\ stream' = "reading"

\* async_refresh took the manifest in: every entity is told and available.
TakesManifest ==
    /\ reply # None
    /\ rows' = reply
    /\ reply' = None
    /\ success' = TRUE
    /\ missed' = (missed /\ cut)
    /\ Answered
    /\ stream' = "reading"

\* _async_refetch_on_reconnect: only the manifest's answer ends an outage.
RefetchAnswers ==
    /\ stream = "refetching"
    /\ TakesManifest
    /\ NoteReachable
    /\ UNCHANGED <<server, truth, queue, cut, connected, fallback, polled, window>>

RefetchFails ==
    /\ stream = "refetching"
    /\ server # "up"
    /\ stream' = "reading"
    /\ reply' = None
    /\ success' = FALSE
    /\ Unanswered
    /\ UNCHANGED <<server, feed, connected, fallback, polled, since, warned, window>>

\* _handle_cue_event, a state: applied as a read.
ReadState ==
    /\ stream = "reading"
    /\ queue # <<>>
    /\ LET event == Head(queue) IN
       /\ event.type = "state"
       /\ rows' = [rows EXCEPT ![event.cue] = event.state]
       /\ Published(rows[event.cue] # event.state)
    /\ queue' = Tail(queue)
    /\ UNCHANGED <<server, truth, cut, missed, tasks, since, warned, warnings, window>>

\* ... or "the list changed": nothing more is read until the manifest is.
ReadManifest ==
    /\ stream = "reading"
    /\ queue # <<>>
    /\ Head(queue).type = "manifest"
    /\ queue' = Tail(queue)
    /\ stream' = "rereading"
    /\ UNCHANGED <<server, truth, rows, cut, missed, connected, fallback, reply, polled, reach, window>>

RereadAnswers ==
    /\ stream = "rereading"
    /\ TakesManifest
    /\ UNCHANGED <<server, truth, queue, cut, connected, fallback, polled, since, warned, window>>

RereadFails ==
    /\ stream = "rereading"
    /\ server # "up"
    /\ stream' = "reading"
    /\ reply' = None
    /\ success' = FALSE
    /\ missed' = TRUE
    /\ Unanswered
    /\ UNCHANGED <<server, truth, rows, queue, cut, connected, fallback, polled, since, warned, window>>

\* The server closed the stream, the connection broke, or nothing came for
\* sixty seconds.  What was on its way is lost.
StreamEnds ==
    /\ stream = "reading"
    /\ Drop
    /\ queue' = <<>>
    /\ missed' = (missed \/ queue # <<>>)
    /\ UNCHANGED <<server, truth, rows, cut, reply, polled, reach, window>>

StreamWakes ==
    /\ stream = "sleeping"
    /\ stream' = "opening"
    /\ UNCHANGED <<server, feed, connected, fallback, reply, polled, reach, window>>

-----------------------------------------------------------------------------
\* The poll task.

\* async_poll_states_once: the outage is over, and each row is a read.
PollAnswers ==
    /\ fallback = "polling"
    /\ polled # None
    /\ rows' = polled
    /\ polled' = None
    /\ NoteReachable
    /\ Answered
    /\ IF since # None THEN success' = TRUE ELSE Published(rows # polled)
    /\ fallback' = "sleeping"
    /\ UNCHANGED <<server, truth, queue, cut, missed, stream, connected, reply, window>>

PollFails ==
    /\ fallback = "polling"
    /\ server # "up"
    /\ polled' = None
    /\ fallback' = "sleeping"
    /\ IF connected # "up" THEN NoteUnreachable ELSE UNCHANGED reach
    /\ UNCHANGED <<server, feed, stream, connected, reply, window>>

\* An answer that is not JSON raises past every except: the task is over.
PollDies ==
    /\ fallback = "polling"
    /\ server = "failing"
    /\ polled' = None
    /\ fallback' = "dead"
    /\ Unanswered
    /\ UNCHANGED <<server, feed, stream, connected, reply, success, since, warned, window>>

PollWakes ==
    /\ fallback = "sleeping"
    /\ fallback' = IF connected = "up" THEN "dead" ELSE "polling"
    /\ UNCHANGED <<server, feed, stream, connected, reply, polled, reach, window>>

-----------------------------------------------------------------------------
\* A cue call is answered, its window is published when the answer is there, which
\* may be after the server is gone, and published again when it ends.
CallAnswered ==
    /\ server = "up"
    /\ window' = window \cup {"answered"}
    /\ UNCHANGED <<server, feed, tasks, reach>>

WindowOpens ==
    /\ "answered" \in window
    /\ window' = {"open"}
    /\ success' = TRUE
    /\ UNCHANGED <<server, feed, tasks, since, warned, warnings>>

WindowEnds ==
    /\ "open" \in window
    /\ window' = window \ {"open"}
    /\ success' = TRUE
    /\ UNCHANGED <<server, feed, tasks, since, warned, warnings>>

Tick ==
    /\ since # None
    /\ since < WarnTicks
    /\ since' = since + 1
    /\ UNCHANGED <<server, feed, tasks, success, warned, warnings, window>>

StreamStep ==
    \/ StreamOpens \/ OpenFails \/ StreamWakes
    \/ ManifestServed \/ RefetchAnswers \/ RefetchFails
    \/ ReadState \/ ReadManifest \/ RereadAnswers \/ RereadFails

PollStep == StatesServed \/ PollAnswers \/ PollFails \/ PollDies \/ PollWakes

Next ==
    \/ \E mode \in {"up", "failing", "down"} : ServerTurns(mode)
    \/ \E c \in Cues, state \in States : GearChanges(c, state)
    \/ ListChanges
    \/ SocketDies
    \/ StreamStep
    \/ StreamEnds
    \/ PollStep
    \/ CallAnswered
    \/ WindowOpens
    \/ WindowEnds
    \/ Tick

Spec == Init /\ [][Next]_vars

\* Both tasks go on, time passes, and a stream that is dead is noticed by its
\* sixty-second read timeout.  Nothing is assumed of the server or the gear.
Fairness ==
    /\ WF_vars(StreamStep)
    /\ WF_vars(PollStep)
    /\ WF_vars(Tick)
    /\ WF_vars(StreamEnds /\ cut)

FairSpec == Spec /\ Fairness
-----------------------------------------------------------------------------
\* Every variable has the shape the code, or the network, gives it.
TypeOK ==
    /\ server \in {"up", "failing", "down"}
    /\ truth \in Snapshot /\ rows \in Snapshot
    /\ queue \in Seq(Event)
    /\ stream \in {"opening", "refetching", "reading", "rereading", "sleeping"}
    /\ connected \in {"unresolved", "up", "down"}
    /\ fallback \in {"none", "polling", "sleeping", "dead"}
    /\ reply \in Snapshot \cup {None} /\ polled \in Snapshot \cup {None}
    /\ since \in 0..WarnTicks \cup {None}
    /\ warnings \in Nat \cup {None}
    /\ cut \in BOOLEAN /\ success \in BOOLEAN /\ warned \in BOOLEAN
    /\ window \in SUBSET {"answered", "open"} /\ missed \in BOOLEAN

\* "Never polls a healthy server" (README.md): while the stream is up no poll is
\* running and no poll's answer can still arrive.
NoPollBesideStream == connected = "up" => fallback = "none" /\ polled = None

\* A stream that is up and has been read to the end has left the data as the gear
\* is, whatever drops, polls and late answers came before - unless a change was
\* missed and no manifest has been read since.
QuietIsCurrent ==
    stream = "reading" /\ queue = <<>> /\ ~cut /\ ~missed => rows = truth

\* One WARNING for a stretch in which no read was answered, however often the
\* stream's socket came back in between (_async_refetch_on_reconnect).
WarnedOnce == warnings # None => warnings <= 1

\* A drop comes to an end when the server is up and stays up: the stream is back
\* and the entities are available.
DropIsRepaired == (connected = "down" /\ [](server = "up")) ~> (connected = "up" /\ success)

\* A server that stays down is warned about, as long as there is a poll to notice.
OutageIsWarned == <>[](server = "down") => <>[](warned \/ fallback = "dead")
-----------------------------------------------------------------------------
\* The parts of the inductive invariant behind the safety properties above.

\* The manifest is on its way only to a stream task that waits for it, events are
\* queued only for one that listens, and it listens only while it is connected.
TasksAgree ==
    /\ reply # None => stream \in {"refetching", "rereading"}
    /\ queue # <<>> => Listening
    /\ Listening => connected = "up"

\* Nothing was warned about but what the flag says.
WarnedByFlag == ~warned => warnings \in {None, 0}

About(event, c) == event.type = "state" /\ event.cue = c

\* Nothing that is still to be read is about this cue.
Unqueued(c) == \A i \in 1..Len(queue) : ~About(queue[i], c)

\* Everything that happened since the stream opened is in the queue, or was.
AllQueued == ~cut \/ ~missed

\* The last queued event about a cue says what its gear does.
QueueCurrent ==
    AllQueued =>
        \A c \in Cues, i \in 1..Len(queue) :
            About(queue[i], c) /\ (\A j \in (i + 1)..Len(queue) : ~About(queue[j], c))
                => queue[i].state = truth[c]

\* A manifest on its way is what the gear does, but for what is queued.
ReplyCurrent ==
    AllQueued /\ reply # None => \A c \in Cues : Unqueued(c) => reply[c] = truth[c]

\* So are the rows, if nothing was missed, and so is what a poll is to be told.
RowsCurrent   == ~missed => \A c \in Cues : Unqueued(c) => rows[c] = truth[c]
PolledCurrent == ~missed /\ polled # None => polled = truth

IInv ==
    /\ TypeOK
    /\ NoPollBesideStream
    /\ TasksAgree
    /\ WarnedOnce
    /\ WarnedByFlag
    /\ QueueCurrent
    /\ ReplyCurrent
    /\ RowsCurrent
    /\ PolledCurrent
=============================================================================
