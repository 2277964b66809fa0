---------------------------- MODULE SettleWindow ----------------------------
(***************************************************************************)
(* What a cue switch shows between a press and the gear agreeing.          *)
(*                                                                         *)
(* The coordinator (coordinator.py) holds the last manifest and one settle *)
(* record per commanded cue; the switch entity (switch.py) calls the cue,  *)
(* opens the window when the call lands and owns the timer that ends it.   *)
(* Everything runs on one event loop, so a handler is one step up to its   *)
(* next await.  The await that matters is the cue call: a press is a step  *)
(* (Press) and its answer is a later one (CallDoesNothing, CallOpens,      *)
(* CallContradicts), with reads, manifests, timers, further presses and    *)
(* the removal of the very switch in between.                              *)
(*                                                                         *)
(* A reload of the config entry is a behaviour of its own: the coordinator  *)
(* is a new one, and what the old one left in flight reaches only the old.  *)
(*                                                                         *)
(* Seconds are abstracted to ticks.  A record ages with Tick and lapses at *)
(* SettleTicks; a timer may fire at any moment once it is due, so it can   *)
(* be late, as Home Assistant's timers can.                                *)
(***************************************************************************)
EXTENDS Integers, Sequences

CONSTANTS
    Cues,         \* ids of the cue pairs the manifest may list
    Reasons,      \* the sentences that may come with a state
    NoReason,     \* the absent sentence
    None,         \* Python's None, for whatever may be absent
    SettleTicks,  \* SETTLE_SECONDS, in ticks
    MaxCalls,     \* bound: cue calls of one cue in flight at once
    MaxGen        \* bound: how often a deleted cue may come back

ASSUME SettleAssumption ==
    /\ NoReason \in Reasons
    /\ SettleTicks \in Nat \ {0}
    /\ MaxCalls \in Nat
    /\ MaxGen \in Nat

States   == {"on", "off", "unknown"}
Commands == {"on", "off"}
Gens     == 0..MaxGen

\* The two manifest columns a read can move: CueSwitch.state and .reason.
Value == [state: States, reason: Reasons]

\* A settle window.  "by" is history: the incarnation of the switch entity
\* whose call opened it.
Settle == [state: Commands, age: 0..SettleTicks, previous: Value,
           contradictions: 0..1, held: Value \cup {None}, by: Gens]

\* A cue call awaiting its answer.  "by" is the entity that awaits it.
Call == [wanted: Commands, by: Gens]

\* The switch as Home Assistant's state machine has it.
Face == [value: Value, settling: BOOLEAN]

ASSUME NoneAssumption == None \notin States \cup Value \cup Settle \cup Face \cup Nat

VARIABLES
    rows,       \* coordinator.data.switches, a Value per listed cue
    settling,   \* coordinator._settling
    gen,        \* which incarnation of the switch entity a cue is on
    timers,     \* ticks left of _settle_unsub, per incarnation
    calls,      \* the cue calls in flight
    commanded,  \* the present entity's _last_commanded
    written,    \* what the entity last wrote to the state machine
    \* History, read by no action: the last state anything read of a cue and
    \* whether, since the last read, a window was opened or the manifest re-read
    \* over an open window.
    lastRead, overlapped

history == <<lastRead, overlapped>>
vars == <<rows, settling, gen, timers, calls, commanded, written, history>>

NoTimers == [g \in Gens |-> None]

-----------------------------------------------------------------------------
\* settle_of: a lapsed record is left in place but no longer counts.
Live(rec) == rec # None /\ rec.age < SettleTicks

\* What every listed cue's entity writes when it is told.
Faces(rs, st) ==
    [c \in Cues |-> IF rs[c] = None THEN None
                    ELSE [value |-> rs[c], settling |-> Live(st[c])]]

\* Mutant: a told switch cancels its scheduled end, settling or not.
SweptWhole == [c \in Cues |-> IF rows'[c] = None THEN timers[c]
                              ELSE [timers[c] EXCEPT ![gen[c]] = None]]

\* A told switch that is not settling cancels its scheduled end of window.
Swept == [c \in Cues |-> IF rows'[c] = None \/ Live(settling'[c]) THEN timers[c]
                         ELSE [timers[c] EXCEPT ![gen[c]] = None]]

\* async_set_updated_data: every listener runs before the caller goes on.
Tell == written' = Faces(rows', settling')

\* Mutant: every contradicting read is swallowed while the window lives.
SwallowsEvery(rec, read) == Live(rec) /\ read.state # rec.state

\* async_apply_state: a live window swallows its first contradicting read;
\* any other read ends the window, if there is one, and stands.
Swallows(rec, read) ==
    /\ Live(rec)
    /\ read.state # rec.state
    /\ rec.contradictions = 0

\* Mutant: an agreeing read leaves the window open.
RecordAfterDisagreement(rec, read) ==
    IF Swallows(rec, read) THEN [rec EXCEPT !.contradictions = 1, !.held = read]
    ELSE IF Live(rec) /\ read.state = rec.state THEN rec ELSE None

RecordAfter(rec, read) ==
    IF Swallows(rec, read)
    THEN [rec EXCEPT !.contradictions = 1, !.held = read]
    ELSE None

RowAfter(row, rec, read) == IF Swallows(rec, read) THEN row ELSE read

\* Mutant: ending a window does not force a write of data that did not move.
PublishesMoves(row, rec, read) == ~Swallows(rec, read) /\ row # read

\* ... and is published when it ended a window or moved the data.
Publishes(row, rec, read) == ~Swallows(rec, read) /\ (rec # None \/ row # read)

\* Mutant: the swallowed read is forgotten.
GivenBackPrevious(rec) == rec.previous

\* async_end_settle: the swallowed read stands, else what the command replaced.
GivenBack(rec) == IF rec.held # None THEN rec.held ELSE rec.previous

\* async_begin_settle's record, over the row the command replaces.
Opened(wanted, row, g) ==
    [state |-> wanted, age |-> 0, previous |-> row,
     contradictions |-> 0, held |-> None, by |-> g]

\* Mutant: the end of the window is scheduled a tick short.
EndDelayShort == SettleTicks - 1

\* Mutant: ... or a tick long.
EndDelayLong == SettleTicks + 1

\* _async_schedule_settle_end: an entity has one timer, and it starts over.
EndDelay == SettleTicks

\* The calls left when the one at i is answered, which need not be the first asked.
Answered(seq, i) == SubSeq(seq, 1, i - 1) \o SubSeq(seq, i + 1, Len(seq))

-----------------------------------------------------------------------------
Init ==
    /\ rows \in [Cues -> Value \cup {None}]
    /\ settling = [c \in Cues |-> None]
    /\ gen = [c \in Cues |-> 0]
    /\ timers = [c \in Cues |-> NoTimers]
    /\ calls = [c \in Cues |-> <<>>]
    /\ commanded = [c \in Cues |-> None]
    /\ written = Faces(rows, settling)
    /\ lastRead = rows
    /\ overlapped = [c \in Cues |-> FALSE]

\* async_apply_state, for a listed cue.
ApplyState(c, read) ==
    /\ rows' = [rows EXCEPT ![c] = RowAfter(@, settling[c], read)]
    /\ settling' = [settling EXCEPT ![c] = RecordAfter(@, read)]
    /\ IF Publishes(rows[c], settling[c], read)
       THEN Tell /\ timers' = Swept
       ELSE UNCHANGED <<written, timers>>
    /\ lastRead' = [lastRead EXCEPT ![c] = read]
    /\ overlapped' = [overlapped EXCEPT ![c] = FALSE]

\* A state event or a row of the fallback poll.  A cue that is not listed is
\* ignored, hence the guard.
Observe(c, read) ==
    /\ rows[c] # None
    /\ ApplyState(c, read)
    /\ UNCHANGED <<gen, calls, commanded>>

\* _async_call up to its await.
Press(c, wanted) ==
    /\ rows[c] # None
    /\ Len(calls[c]) < MaxCalls
    /\ calls' = [calls EXCEPT ![c] = Append(@, [wanted |-> wanted, by |-> gen[c]])]
    /\ UNCHANGED <<rows, settling, gen, timers, commanded, written, history>>

\* Whether the entity awaiting this call is the one listed now.
Mine(c, call) == rows[c] # None /\ call.by = gen[c]

\* The call raised, or only simulated: nothing was commanded.  _publish_result
\* may write the entity on the way, when last_result changed.
CallDoesNothing(c, i) ==
    /\ calls' = [calls EXCEPT ![c] = Answered(@, i)]
    /\ \/ UNCHANGED written
       \/ /\ Mine(c, calls[c][i])
          /\ written' = [written EXCEPT ![c] = Faces(rows, settling)[c]]
    /\ UNCHANGED <<rows, settling, gen, timers, commanded, history>>

\* The bookkeeping of a call that pressed something.
Commanded(c, i) ==
    LET call == calls[c][i] IN
    /\ calls' = [calls EXCEPT ![c] = Answered(@, i)]
    /\ commanded' = IF Mine(c, call) THEN [commanded EXCEPT ![c] = call.wanted] ELSE commanded

\* What is left of the timers when a call's report was published before its window
\* opened: the entity listed, which was not settling then, had its own cancelled.
SweptTwice(c, published) ==
    IF published THEN [Swept EXCEPT ![c][gen[c]] = None] ELSE Swept

\* The answer carries no state, or the one asked for: the report is applied as
\* a read, then the window opens over whatever is shown, then its end is
\* scheduled.  A cue no longer listed gets no window; its departed entity
\* schedules the end all the same.
CallOpens(c, i, report) ==
    LET call  == calls[c][i]
        read  == [state |-> report, reason |-> NoReason]
        heard == report # None /\ rows[c] # None
        row   == IF heard THEN RowAfter(rows[c], settling[c], read) ELSE rows[c]
        rec   == IF heard THEN RecordAfter(settling[c], read) ELSE settling[c]
        swept == SweptTwice(c, heard /\ Publishes(rows[c], settling[c], read))
    IN
    /\ report \in {None, call.wanted}
    /\ Commanded(c, i)
    /\ IF rows[c] = None
       THEN /\ timers' = [timers EXCEPT ![c][call.by] = EndDelay]
            /\ UNCHANGED <<rows, settling, written, lastRead, overlapped>>
       ELSE /\ rows' = [rows EXCEPT ![c] = [row EXCEPT !.state = call.wanted]]
            /\ settling' = [settling EXCEPT ![c] = Opened(call.wanted, row, call.by)]
            /\ Tell
            /\ timers' = [swept EXCEPT ![c][call.by] = EndDelay]
            /\ lastRead' = IF heard THEN [lastRead EXCEPT ![c] = read] ELSE lastRead
            /\ overlapped' = [overlapped EXCEPT ![c] = rec # None \/ (~heard /\ @)]
    /\ UNCHANGED gen

\* The answer carries another state than the one asked for: a report about the
\* gear, applied as a read, and no window.
CallContradicts(c, i, report) ==
    LET read == [state |-> report, reason |-> NoReason] IN
    /\ report \notin {None, calls[c][i].wanted}
    /\ Commanded(c, i)
    /\ IF rows[c] = None
       THEN UNCHANGED <<rows, settling, timers, written, lastRead, overlapped>>
       ELSE ApplyState(c, read)
    /\ UNCHANGED gen

\* The manifest was read again, on a reconnect or a manifest event: the rows
\* are replaced outright, past any window.  A cue that departed loses its
\* entity, which cancels its timer but leaves the record; one that came back
\* gets a new entity.
Refetch(manifest) ==
    LET back(c) == rows[c] = None /\ manifest[c] # None
        gone(c) == rows[c] # None /\ manifest[c] = None
        new(c)  == back(c) \/ gone(c)
    IN
    /\ \A c \in Cues : back(c) => gen[c] < MaxGen
    /\ rows' = manifest
    /\ gen' = [c \in Cues |-> IF back(c) THEN gen[c] + 1 ELSE gen[c]]
    /\ timers' = [c \in Cues |->
                    IF gone(c) \/ (rows[c] # None /\ ~Live(settling[c]))
                    THEN [timers[c] EXCEPT ![gen[c]] = None] ELSE timers[c]]
    /\ commanded' = [c \in Cues |-> IF new(c) THEN None ELSE commanded[c]]
    /\ written' = Faces(manifest, settling)
    /\ lastRead' = manifest
    /\ overlapped' = [c \in Cues |-> settling[c] # None]
    /\ UNCHANGED <<settling, calls>>

\* Any other notification of the listeners: an outage noted or ended, a refetch
\* that failed, a row of another cue.
Retell ==
    /\ UNCHANGED <<rows, settling, gen, calls, commanded, history>>
    /\ Tell
    /\ timers' = Swept

\* Mutant: the state given back is not published.
TimerFiresQuietly(c, g) ==
    /\ timers[c][g] = 0
    /\ timers' = [timers EXCEPT ![c][g] = None]
    /\ settling' = [settling EXCEPT ![c] = None]
    /\ rows' = IF settling[c] = None \/ rows[c] = None THEN rows
               ELSE [rows EXCEPT ![c] = GivenBack(settling[c])]
    /\ UNCHANGED <<gen, calls, commanded, written, history>>

\* _async_settle_ended, of a present or a departed entity alike: whatever
\* record the cue has is popped and its state given back.
TimerFires(c, g) ==
    /\ timers[c][g] = 0
    /\ settling' = [settling EXCEPT ![c] = None]
    /\ IF settling[c] = None \/ rows[c] = None
       THEN /\ timers' = [timers EXCEPT ![c][g] = None]
            /\ UNCHANGED <<rows, written>>
       ELSE /\ rows' = [rows EXCEPT ![c] = GivenBack(settling[c])]
            /\ Tell
            /\ timers' = [Swept EXCEPT ![c][g] = None]
    /\ UNCHANGED <<gen, calls, commanded, history>>

\* Time passes: records age until they have lapsed, timers run until they are due.
Tick ==
    /\ settling' = [c \in Cues |-> IF Live(settling[c])
                                   THEN [settling[c] EXCEPT !.age = @ + 1] ELSE settling[c]]
    /\ timers' = [c \in Cues |-> [g \in Gens |->
                    IF timers[c][g] \in {None, 0} THEN timers[c][g] ELSE timers[c][g] - 1]]
    /\ <<settling, timers>>' # <<settling, timers>>
    /\ UNCHANGED <<rows, gen, calls, commanded, written, history>>

Manifests == [Cues -> Value \cup {None}]

CallAnswered(c, i) ==
    \/ CallDoesNothing(c, i)
    \/ \E report \in States \cup {None} : CallOpens(c, i, report) \/ CallContradicts(c, i, report)

Next ==
    \/ \E c \in Cues, read \in Value : Observe(c, read)
    \/ \E c \in Cues, wanted \in Commands : Press(c, wanted)
    \/ \E c \in Cues : \E i \in 1..Len(calls[c]) : CallAnswered(c, i)
    \/ \E manifest \in Manifests : Refetch(manifest)
    \/ Retell
    \/ \E c \in Cues, g \in Gens : TimerFires(c, g)
    \/ Tick

Spec == Init /\ [][Next]_vars

\* Time passes, and a timer that is due fires in the end: the event loop runs
\* every callback it has been given.  Nothing is assumed of people or the server.
Fairness == WF_vars(Tick) /\ \A c \in Cues, g \in Gens : WF_vars(TimerFires(c, g))

FairSpec == Spec /\ Fairness
-----------------------------------------------------------------------------
\* Every variable has the shape the code gives it; a cue's entity is written
\* exactly while the cue is listed.
TypeOK ==
    /\ rows \in [Cues -> Value \cup {None}]
    /\ settling \in [Cues -> Settle \cup {None}]
    /\ gen \in [Cues -> Gens]
    /\ timers \in [Cues -> [Gens -> 0..SettleTicks \cup {None}]]
    /\ calls \in [Cues -> Seq(Call)]
    /\ commanded \in [Cues -> Commands \cup {None}]
    /\ written \in [Cues -> Face \cup {None}]
    /\ lastRead \in [Cues -> Value \cup {None}]
    /\ overlapped \in [Cues -> BOOLEAN]

\* What a window would give back is what was last read, whatever reads, presses
\* and answers came in which order - unless a window was opened, or the manifest
\* read again, over a window and nothing was read since.  (Settle.previous and
\* Settle.held, against "gives the state back to whatever was last read".)
GiveBackIsLastRead ==
    \A c \in Cues : settling[c] # None /\ ~overlapped[c] /\ rows[c] # None
                      => GivenBack(settling[c]) = lastRead[c]

\* With no window open, the data and the entity both show what was last read,
\* under the same proviso: a command leaves no trace once its window is gone.
ShowsLastRead ==
    \A c \in Cues : settling[c] = None /\ ~overlapped[c] /\ rows[c] # None
                      => /\ rows[c] = lastRead[c]
                         /\ written[c] = [value |-> lastRead[c], settling |-> FALSE]

\* An entity that says it is settling has a record behind it, and if it opened
\* that window itself it has the timer that will end it (the claim of
\* _async_schedule_settle_end: nothing else would write the entity again).
SettlingIsBacked ==
    \A c \in Cues : written[c] # None /\ written[c].settling
                      => /\ settling[c] # None
                         /\ settling[c].by = gen[c] => timers[c][gen[c]] # None

\* The entity's own timer never runs out before the window it opened has lapsed.
OwnTimerNotEarly ==
    \A c \in Cues : /\ settling[c] # None
                      /\ settling[c].by = gen[c]
                      /\ timers[c][gen[c]] # None
                      => timers[c][gen[c]] >= SettleTicks - settling[c].age

\* An entity showing its own command as settling, or settling over no window at
\* all, stops doing so or is commanded again, whatever the gear and the server do.
OwnWindowEnds ==
    \A c \in Cues :
        LET mine(rec) == rec # None /\ rec.by = gen[c]
            shown     == written[c] # None /\ written[c].settling IN
        (shown /\ (settling[c] = None \/ (mine(settling[c]) /\ settling[c].age > 0)))
        ~> (~shown \/ (settling[c] # None /\ settling[c].age = 0))

\* What a cue owes while it has a record.
Debt(rec) == IF rec = None THEN None
             ELSE [command |-> rec.state, back |-> GivenBack(rec), spent |-> rec.contradictions = 1]

Promise == INSTANCE SwitchPromise WITH
             heard <- lastRead, shown <- written,
             owed <- [c \in Cues |-> Debt(settling[c])]

\* Windows, timers, late answers and entities that come and go keep the promise: a
\* command is shown until a read or its end, one contradicting read at most is
\* withheld of each, and the end shows that read, or what the command replaced.
KeepsPromise == Promise!Spec

-----------------------------------------------------------------------------
\* The parts of the inductive invariant behind the four above.

\* What an entity last wrote is its row, and it says settling only over a record.
WritesItsRow ==
    \A c \in Cues :
        IF rows[c] = None THEN written[c] = None
        ELSE /\ written[c] # None
             /\ written[c].value = rows[c]
             /\ written[c].settling => settling[c] # None

\* Nothing was asked for by an entity that is still to come.
OpenedByNow ==
    \A c \in Cues : /\ settling[c] # None => settling[c].by <= gen[c]
                    /\ \A i \in 1..Len(calls[c]) : calls[c][i].by <= gen[c]

\* A window that lives, or is still shown, has its opener's timer behind it.
TimerBacksWindow ==
    \A c \in Cues : /\ rows[c] # None /\ settling[c] # None
                    /\ settling[c].by = gen[c]
                    /\ Live(settling[c]) \/ written[c].settling
                    => timers[c][gen[c]] # None

RowIsLastRead ==
    \A c \in Cues : settling[c] = None /\ ~overlapped[c] /\ rows[c] # None
                      => rows[c] = lastRead[c]

IInv ==
    /\ TypeOK
    /\ WritesItsRow
    /\ OpenedByNow
    /\ TimerBacksWindow
    /\ OwnTimerNotEarly
    /\ RowIsLastRead
    /\ GiveBackIsLastRead
=============================================================================
