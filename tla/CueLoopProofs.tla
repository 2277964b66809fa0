----------------------------- MODULE CueLoopProofs -----------------------------
(***************************************************************************)
(* A switch follows its gear for every set of cues, every bound on the     *)
(* calls and on the queue.  Every step of the loop is one of SettleWindow,  *)
(* or leaves its variables alone, so the windows' invariant is theirs; what *)
(* is added is that what was last read is current, but for what is queued. *)
(***************************************************************************)
EXTENDS CueLoop, SettleWindowProofs

LEMMA Absent == None \notin Value /\ None \notin [Cues -> Value]
  BY NoneAssumption, LoopAssumption

\* The queue, longer by one ...
LEMMA Longer ==
    ASSUME NEW q \in Seq(Event), NEW e \in Event
    PROVE  /\ Append(q, e) \in Seq(Event) /\ Len(q) \in Nat
           /\ Len(Append(q, e)) = Len(q) + 1
           /\ \A i \in 1..Len(q) : Append(q, e)[i] = q[i]
           /\ Append(q, e)[Len(q) + 1] = e
  OBVIOUS

\* ... or without its head.
LEMMA Shorter ==
    ASSUME NEW q \in Seq(Event), q # <<>>
    PROVE  /\ Tail(q) \in Seq(Event) /\ Len(q) \in Nat \ {0}
           /\ Len(Tail(q)) = Len(q) - 1
           /\ \A i \in 1..Len(Tail(q)) : Tail(q)[i] = q[i + 1]
           /\ Head(q) = q[1] /\ Head(q) \in Event
  OBVIOUS

\* A state event is about a listed cue, and an event of either kind may be sent.
LEMMA EventsTyped ==
    /\ \A e \in Event : e.type = "state" => e.cue \in Cues /\ e.value \in Value
    /\ \A c \in Cues, value \in Value :
         [type |-> "state", cue |-> c, value |-> value] \in Event
    /\ ManifestEvent \in Event
  BY DEF Event, StateEvent, ManifestEvent

\* The parts of the invariant that SettleWindow does not have.
Feed == LoopTypeOK /\ QueueCurrent /\ ReplyCurrent /\ ReadCurrent

-----------------------------------------------------------------------------
\* What a step of the loop does to the windows is a step of theirs.
LEMMA StepOfWindows ==
    ASSUME TypeOK, LoopTypeOK, [LoopNext]_loop
    PROVE  [Next]_vars
  <1>1. ASSUME NEW c \in Cues, NEW wanted \in Commands, Calls(c, wanted)
        PROVE  Next
    BY <1>1 DEF Calls, Next
  <1>2. ASSUME NEW c \in Cues, NEW i \in 1..Len(calls[c]), AnswerArrives(c, i)
        PROVE  Next
    <2>1. CallAnswered(c, i)
      BY <1>2 DEF AnswerArrives, CallAnswered
    <2> QED
      BY <2>1 DEF Next
  <1>3. ASSUME NEW c \in Cues, NEW i \in 1..Len(calls[c]), CallFails(c, i)
        PROVE  Next
    BY <1>3 DEF CallFails, CallAnswered, Next
  <1>4. ASSUME NEW c \in Cues, ReadState(c)
        PROVE  Next
    <2>1. Head(queue) \in Event /\ Head(queue).type = "state"
      BY <1>4, Shorter DEF ReadState, About, LoopTypeOK
    <2>2. Head(queue).value \in Value
      BY <2>1, EventsTyped
    <2> QED
      BY <1>4, <2>2 DEF ReadState, Next
  <1>5. ASSUME ManifestArrives
        PROVE  Next
    <2>1. reply \in [Cues -> Value]
      BY <1>5 DEF ManifestArrives, LoopTypeOK
    <2>2. reply \in Manifests
      BY <2>1 DEF Manifests
    <2> QED
      BY <1>5, <2>2 DEF ManifestArrives, Next
  <1>6. ASSUME ManifestFails
        PROVE  [Next]_vars
    BY <1>6 DEF ManifestFails, Next
  <1>7. ASSUME NEW c \in Cues, NEW g \in Gens, WindowEnds(c, g)
        PROVE  Next
    BY <1>7 DEF WindowEnds, Next
  <1>8. ASSUME TimePasses
        PROVE  Next
    BY <1>8 DEF TimePasses, Next
  <1>9. ASSUME NEW c \in Cues, NEW value \in Value, GearTurns(c, value)
        PROVE  UNCHANGED vars
    BY <1>9 DEF GearTurns
  <1>10. ASSUME NEW c \in Cues, NEW i \in 1..Len(calls[c]), ServerRuns(c, i)
         PROVE  UNCHANGED vars
    BY <1>10 DEF ServerRuns
  <1>11. ASSUME ListChanges \/ ReadManifest \/ ManifestServed \/ UNCHANGED loop
         PROVE  UNCHANGED vars
    BY <1>11 DEF ListChanges, ReadManifest, ManifestServed, loop
  <1> QED
    BY <1>1, <1>2, <1>3, <1>4, <1>5, <1>6, <1>7, <1>8, <1>9, <1>10, <1>11
    DEF LoopNext, StreamStep

\* A listed cue stays listed, whatever its window does.
LEMMA RowsStay ==
    ASSUME TypeOK, TypeOK', LoopTypeOK, [LoopNext]_loop
    PROVE  \A c \in Cues : rows'[c] # None
  <1> USE Absent
  <1>1. ASSUME NEW c \in Cues
        PROVE  rows[c] \in Value /\ settling[c] \in Settle \cup {None}
    BY DEF TypeOK, LoopTypeOK
  <1>2. ASSUME NEW c \in Cues, NEW read \in Value, ApplyState(c, read)
        PROVE  \A d \in Cues : rows'[d] # None
    <2>1. RowAfter(rows[c], settling[c], read) \in Value
      BY <1>1, ReadTypes
    <2> QED
      BY <1>1, <1>2, <2>1 DEF ApplyState, TypeOK
  <1>3. ASSUME NEW c \in Cues, NEW i \in 1..Len(calls[c]), AnswerArrives(c, i)
        PROVE  \A d \in Cues : rows'[d] # None
    <2> DEFINE report == reports[c][i]
               read   == [state |-> report, reason |-> NoReason]
               heard  == report # None
               row    == IF heard THEN RowAfter(rows[c], settling[c], read) ELSE rows[c]
    <2>1. report \in States \cup {None} /\ rows[c] # None
      BY <1>1, <1>3 DEF AnswerArrives
    <2>2. None \notin States
      BY NoneAssumption
    <2>3. heard => read \in Value
      BY <2>1, SettleAssumption DEF Value
    <2>4. CASE CallOpens(c, i, report)
      <3> DEFINE shown == [row EXCEPT !.state = calls[c][i].wanted]
      <3>1. row \in Value
        BY <1>1, <2>3, ReadTypes
      <3>2. calls[c][i].wanted \in States
        <4>1. calls[c] \in Seq(Call)
          BY DEF TypeOK
        <4>2. calls[c][i] \in Call
          BY <4>1
        <4> QED
          BY <4>2 DEF Call, Commands, States
      <3>3. shown \in Value
        BY <3>1, <3>2 DEF Value
      <3>4. rows' = [rows EXCEPT ![c] = shown]
        BY <2>1, <2>4 DEF CallOpens
      <3> HIDE DEF shown
      <3>5. rows' = [d \in Cues |-> IF d = c THEN shown ELSE rows[d]]
        BY <3>4 DEF TypeOK
      <3> QED
        BY <1>1, <3>3, <3>5
    <2>5. CASE CallContradicts(c, i, report)
      <3>1. heard /\ ApplyState(c, read)
        BY <2>1, <2>5 DEF CallContradicts
      <3> QED
        BY <2>3, <3>1, <1>2
    <2> QED
      BY <1>3, <2>4, <2>5 DEF AnswerArrives
  <1>4. ASSUME NEW c \in Cues, ReadState(c)
        PROVE  \A d \in Cues : rows'[d] # None
    <2>1. Head(queue) \in Event /\ Head(queue).type = "state"
      BY <1>4, Shorter DEF ReadState, About, LoopTypeOK
    <2>2. Head(queue).value \in Value
      BY <2>1, EventsTyped
    <2> QED
      BY <1>2, <1>4, <2>2 DEF ReadState, Observe
  <1>5. ASSUME ManifestArrives
        PROVE  \A d \in Cues : rows'[d] # None
    <2>1. reply \in [Cues -> Value] /\ rows' = reply
      BY <1>5 DEF ManifestArrives, Refetch, LoopTypeOK
    <2> QED
      BY <2>1
  <1>6. ASSUME NEW c \in Cues, NEW g \in Gens, WindowEnds(c, g)
        PROVE  \A d \in Cues : rows'[d] # None
    <2>1. settling[c] # None => GivenBack(settling[c]) \in Value
      BY <1>1, ReadTypes
    <2>2. \/ rows' = rows
          \/ settling[c] # None /\ rows' = [rows EXCEPT ![c] = GivenBack(settling[c])]
      BY <1>6 DEF WindowEnds, TimerFires
    <2>3. \/ rows' = rows
          \/ /\ settling[c] # None
             /\ rows' = [d \in Cues |-> IF d = c THEN GivenBack(settling[c]) ELSE rows[d]]
      BY <2>2 DEF TypeOK
    <2> QED
      BY <1>1, <2>1, <2>3
  <1>7. ASSUME rows' = rows
        PROVE  \A d \in Cues : rows'[d] # None
    BY <1>1, <1>7
  <1>8. ASSUME \/ \E c \in Cues : \/ \E value \in Value : GearTurns(c, value)
                                  \/ \E wanted \in Commands : Calls(c, wanted)
                                  \/ \E i \in 1..Len(calls[c]) : ServerRuns(c, i) \/ CallFails(c, i)
               \/ ListChanges \/ ReadManifest \/ ManifestServed \/ ManifestFails
               \/ TimePasses \/ UNCHANGED loop
        PROVE  rows' = rows
    BY <1>8
    DEF GearTurns, Calls, Press, ServerRuns, CallFails, CallDoesNothing, ListChanges,
        ReadManifest, ManifestServed, ManifestFails, Retell, TimePasses, Tick, loop, vars
  <1> QED
    BY <1>3, <1>4, <1>5, <1>6, <1>7, <1>8 DEF LoopNext, StreamStep

-----------------------------------------------------------------------------
\* The feed: what is queued, on its way and read agrees with the gear.

\* A cue's gear turns, and an event says so.
LEMMA TurnsFeeds ==
    ASSUME LoopTypeOK, Feed, NEW c \in Cues, NEW value \in Value, Turns(c, value),
           UNCHANGED <<rereading, reply, stale, lastRead>>
    PROVE  /\ gear' \in [Cues -> Value] /\ queue' \in Seq(Event)
           /\ QueueCurrent' /\ ReplyCurrent' /\ ReadCurrent'
  <1> DEFINE e == [type |-> "state", cue |-> c, value |-> value]
  <1>1. queue \in Seq(Event) /\ e \in Event /\ queue' = Append(queue, e)
    BY EventsTyped DEF Turns, Sends, LoopTypeOK
  <1>2. /\ queue' \in Seq(Event) /\ Len(queue) \in Nat /\ Len(queue') = Len(queue) + 1
        /\ \A i \in 1..Len(queue) : queue'[i] = queue[i]
        /\ queue'[Len(queue) + 1] = e
    BY <1>1, Longer
  <1>3. gear' \in [Cues -> Value] /\ gear'[c] = value /\ \A d \in Cues \ {c} : gear'[d] = gear[d]
    BY DEF Turns, LoopTypeOK
  <1>4. e.type = "state" /\ e.cue = c /\ e.value = value
    OBVIOUS
  <1> HIDE DEF e
  <1>5. \A d \in Cues : About(queue'[Len(queue) + 1], d) <=> d = c
    BY <1>2, <1>4 DEF About
  <1>6. \A d \in Cues, i \in 1..Len(queue) : About(queue'[i], d) <=> About(queue[i], d)
    BY <1>2
  <1>7. \A d \in Cues : Unqueued(d)' => d # c /\ Unqueued(d)
    BY <1>2, <1>5, <1>6 DEF Unqueued, About
  <1>8. ASSUME NEW d \in Cues, NEW i \in 1..Len(queue'), About(queue'[i], d),
               \A j \in (i + 1)..Len(queue') : ~About(queue'[j], d)
        PROVE  queue'[i].value = gear'[d]
    <2>1. CASE i = Len(queue) + 1
      BY <2>1, <1>2, <1>3, <1>4, <1>5, <1>8
    <2>2. CASE i # Len(queue) + 1
      <3>1. i \in 1..Len(queue) /\ Len(queue) + 1 \in (i + 1)..Len(queue')
        BY <2>2, <1>2
      <3>2. d # c
        BY <3>1, <1>5, <1>8
      <3>3. About(queue[i], d) /\ \A j \in (i + 1)..Len(queue) : ~About(queue[j], d)
        BY <3>1, <1>2, <1>6, <1>8
      <3>4. queue[i].value = gear[d]
        BY <3>1, <3>3 DEF Feed, QueueCurrent
      <3> QED
        BY <3>1, <3>2, <3>4, <1>2, <1>3
    <2> QED
      BY <2>1, <2>2
  <1>9. QueueCurrent'
    BY <1>8 DEF QueueCurrent, About
  <1>10. ReplyCurrent' /\ ReadCurrent'
    BY <1>3, <1>7 DEF Feed, ReplyCurrent, ReadCurrent
  <1> QED
    BY <1>2, <1>3, <1>9, <1>10

\* The list of cues changes, and an event says so: it is about no cue.
LEMMA ListChangesFeeds ==
    ASSUME LoopTypeOK, Feed, Sends(ManifestEvent),
           UNCHANGED <<gear, rereading, reply, stale, lastRead>>
    PROVE  queue' \in Seq(Event) /\ QueueCurrent' /\ ReplyCurrent' /\ ReadCurrent'
  <1>1. queue \in Seq(Event) /\ queue' = Append(queue, ManifestEvent)
    BY DEF Sends, LoopTypeOK
  <1>2. /\ queue' \in Seq(Event) /\ Len(queue) \in Nat /\ Len(queue') = Len(queue) + 1
        /\ \A i \in 1..Len(queue) : queue'[i] = queue[i]
        /\ queue'[Len(queue) + 1] = ManifestEvent
    BY <1>1, EventsTyped, Longer
  <1>3. \A d \in Cues : ~About(queue'[Len(queue) + 1], d)
    BY <1>2 DEF About, ManifestEvent
  <1>4. \A d \in Cues : Unqueued(d)' => Unqueued(d)
    BY <1>2 DEF Unqueued, About
  <1>5. ASSUME NEW d \in Cues, NEW i \in 1..Len(queue'), About(queue'[i], d),
               \A j \in (i + 1)..Len(queue') : ~About(queue'[j], d)
        PROVE  queue'[i].value = gear'[d]
    <2>1. i \in 1..Len(queue)
      BY <1>2, <1>3, <1>5
    <2>2. \A j \in (i + 1)..Len(queue) : j \in (i + 1)..Len(queue') /\ queue'[j] = queue[j]
      BY <2>1, <1>2
    <2>3. About(queue[i], d) /\ \A j \in (i + 1)..Len(queue) : ~About(queue[j], d)
      BY <2>1, <2>2, <1>2, <1>5
    <2> QED
      BY <2>1, <2>3, <1>2 DEF Feed, QueueCurrent
  <1>6. QueueCurrent'
    BY <1>5 DEF QueueCurrent, About
  <1>7. ReplyCurrent' /\ ReadCurrent'
    BY <1>4 DEF Feed, ReplyCurrent, ReadCurrent
  <1> QED
    BY <1>2, <1>6, <1>7

\* The head of the queue is taken: the last event about a cue is still the last,
\* unless it was the head.
LEMMA HeadTaken ==
    ASSUME LoopTypeOK, QueueCurrent, queue # <<>>, queue' = Tail(queue), gear' = gear
    PROVE  /\ queue' \in Seq(Event)
           /\ QueueCurrent'
           /\ \A c \in Cues : Unqueued(c)' /\ ~About(Head(queue), c) => Unqueued(c)
           /\ \A c \in Cues : Unqueued(c)' /\ About(Head(queue), c)
                 => Head(queue).value = gear[c]
  <1>1. /\ Len(queue) \in Nat \ {0} /\ Len(queue') = Len(queue) - 1
        /\ \A i \in 1..Len(queue') : queue'[i] = queue[i + 1]
        /\ Head(queue) = queue[1] /\ queue' \in Seq(Event)
    BY Shorter DEF LoopTypeOK
  <1>2. ASSUME NEW d \in Cues, NEW i \in 1..Len(queue'), About(queue'[i], d),
               \A j \in (i + 1)..Len(queue') : ~About(queue'[j], d)
        PROVE  queue'[i].value = gear'[d]
    <2>1. i + 1 \in 1..Len(queue) /\ About(queue[i + 1], d)
      BY <1>1, <1>2
    <2>2. \A j \in (i + 1 + 1)..Len(queue) : ~About(queue[j], d)
      <3>1. \A j \in (i + 1 + 1)..Len(queue) :
               j - 1 \in (i + 1)..Len(queue') /\ queue'[j - 1] = queue[j]
        BY <1>1
      <3> QED
        BY <3>1, <1>2
    <2>3. queue[i + 1].value = gear[d]
      BY <2>1, <2>2 DEF QueueCurrent
    <2> QED
      BY <1>1, <2>3
  <1>3. QueueCurrent'
    BY <1>2 DEF QueueCurrent, About
  <1>4. ASSUME NEW c \in Cues, Unqueued(c)'
        PROVE  \A j \in 2..Len(queue) : ~About(queue[j], c)
    <2>1. \A i \in 1..Len(queue') : ~About(queue'[i], c)
      BY <1>4 DEF Unqueued, About
    <2>2. \A j \in 2..Len(queue) : j - 1 \in 1..Len(queue') /\ queue'[j - 1] = queue[j]
      BY <1>1
    <2> QED
      BY <2>1, <2>2
  <1>5. ASSUME NEW c \in Cues, Unqueued(c)', ~About(Head(queue), c)
        PROVE  Unqueued(c)
    BY <1>1, <1>4, <1>5 DEF Unqueued
  <1>6. ASSUME NEW c \in Cues, Unqueued(c)', About(Head(queue), c)
        PROVE  Head(queue).value = gear[c]
    <2>1. 1 \in 1..Len(queue) /\ \A j \in (1 + 1)..Len(queue) : ~About(queue[j], c)
      BY <1>1, <1>4, <1>6
    <2> QED
      BY <1>1, <1>6, <2>1 DEF QueueCurrent
  <1> QED
    BY <1>1, <1>3, <1>5, <1>6

\* A state read is the newest of its cue, and current when no later one is queued.
LEMMA ReadStateFeeds ==
    ASSUME TypeOK, Feed, NEW c \in Cues, ReadState(c)
    PROVE  /\ queue' \in Seq(Event) /\ stale' \in [Cues -> BOOLEAN]
           /\ QueueCurrent' /\ ReplyCurrent' /\ ReadCurrent'
  <1> DEFINE value == Head(queue).value
  <1>1. /\ queue # <<>> /\ queue' = Tail(queue) /\ About(Head(queue), c) /\ ~rereading
        /\ UNCHANGED <<gear, rereading, reply>>
        /\ lastRead' = [lastRead EXCEPT ![c] = value]
        /\ stale' = [stale EXCEPT ![c] = FALSE]
    BY DEF ReadState, Observe, ApplyState
  <1>2. value \in Value
    BY <1>1, Shorter, EventsTyped DEF Feed, LoopTypeOK, About
  <1>3. /\ queue' \in Seq(Event)
        /\ QueueCurrent'
        /\ \A d \in Cues : Unqueued(d)' /\ ~About(Head(queue), d) => Unqueued(d)
        /\ Unqueued(c)' => value = gear[c]
    BY <1>1, HeadTaken DEF Feed
  <1>4. \A d \in Cues : About(Head(queue), d) <=> d = c
    BY <1>1 DEF About
  <1> HIDE DEF value
  <1>5. /\ lastRead'[c] = value /\ stale'[c] = FALSE /\ stale' \in [Cues -> BOOLEAN]
        /\ \A d \in Cues \ {c} : lastRead'[d] = lastRead[d] /\ stale'[d] = stale[d]
    BY <1>1 DEF Feed, LoopTypeOK, TypeOK
  <1>6. ASSUME NEW d \in Cues, Unqueued(d)', ~stale'[d]
        PROVE  lastRead'[d] # None /\ lastRead'[d].state = gear[d].state
    <2>1. CASE d = c
      BY <2>1, <1>2, <1>3, <1>5, <1>6, Absent
    <2>2. CASE d # c
      <3>1. Unqueued(d) /\ ~stale[d]
        BY <2>2, <1>3, <1>4, <1>5, <1>6
      <3> QED
        BY <2>2, <3>1, <1>5 DEF Feed, ReadCurrent
    <2> QED
      BY <2>1, <2>2
  <1>7. ReadCurrent'
    BY <1>1, <1>6 DEF ReadCurrent, Unqueued, About
  <1>8. ReplyCurrent'
    BY <1>1 DEF Feed, ReplyCurrent
  <1> QED
    BY <1>3, <1>5, <1>7, <1>8

\* A call's report is what was last read; it is counted as stale when an event has
\* overtaken it.
LEMMA AnswerFeeds ==
    ASSUME TypeOK, Feed, NEW c \in Cues, NEW i \in 1..Len(calls[c]), AnswerArrives(c, i)
    PROVE  stale' \in [Cues -> BOOLEAN] /\ QueueCurrent' /\ ReplyCurrent' /\ ReadCurrent'
  <1> DEFINE report == reports[c][i]
             read   == [state |-> report, reason |-> NoReason]
  <1>1. /\ UNCHANGED <<gear, queue, rereading, reply>>
        /\ stale' = [stale EXCEPT ![c] = IF report = None THEN stale[c]
                                         ELSE report # gear[c].state /\ Unqueued(c)]
        /\ report \in States \cup {None} /\ rows[c] # None
    BY DEF AnswerArrives, Feed, LoopTypeOK
  <1>2. IF report = None THEN lastRead' = lastRead
        ELSE lastRead' = [lastRead EXCEPT ![c] = read]
    BY <1>1 DEF AnswerArrives, CallOpens, CallContradicts, ApplyState
  <1>3. report # None => read \in Value /\ read.state = report
    BY <1>1, SettleAssumption DEF Value
  <1> HIDE DEF report, read
  <1>4. (report # gear[c].state /\ Unqueued(c)) \in BOOLEAN
    BY DEF Unqueued
  <1>5. /\ stale' \in [Cues -> BOOLEAN]
        /\ stale'[c] = IF report = None THEN stale[c] ELSE report # gear[c].state /\ Unqueued(c)
        /\ \A d \in Cues \ {c} : stale'[d] = stale[d]
    BY <1>1, <1>4 DEF Feed, LoopTypeOK
  <1>6. /\ report = None => lastRead'[c] = lastRead[c]
        /\ report # None => lastRead'[c] = read
        /\ \A d \in Cues \ {c} : lastRead'[d] = lastRead[d]
    BY <1>2 DEF TypeOK
  <1>7. ASSUME NEW d \in Cues, Unqueued(d), ~stale'[d]
        PROVE  lastRead'[d] # None /\ lastRead'[d].state = gear[d].state
    <2>1. CASE d = c /\ report # None
      <3>1. report = gear[c].state
        BY <2>1, <1>5, <1>7
      <3> QED
        BY <2>1, <3>1, <1>3, <1>6, Absent
    <2>2. CASE d # c \/ report = None
      <3>1. ~stale[d] /\ lastRead'[d] = lastRead[d]
        BY <2>2, <1>5, <1>6, <1>7
      <3> QED
        BY <3>1, <1>7 DEF Feed, ReadCurrent
    <2> QED
      BY <2>1, <2>2
  <1>8. ReadCurrent'
    BY <1>1, <1>7 DEF ReadCurrent, Unqueued, About
  <1>9. QueueCurrent' /\ ReplyCurrent'
    BY <1>1 DEF Feed, QueueCurrent, ReplyCurrent, Unqueued, About
  <1> QED
    BY <1>5, <1>8, <1>9

\* The manifest's way: asked for, served as the gear is, read or given up on.
LEMMA ManifestFeeds ==
    ASSUME TypeOK, Feed, ReadManifest \/ ManifestServed \/ ManifestArrives \/ ManifestFails
    PROVE  /\ gear' = gear /\ queue' \in Seq(Event) /\ rereading' \in BOOLEAN
           /\ reply' \in [Cues -> Value] \cup {None} /\ stale' \in [Cues -> BOOLEAN]
           /\ QueueCurrent' /\ ReplyCurrent' /\ ReadCurrent'
  <1> USE DEF Feed, LoopTypeOK
  <1>1. CASE ReadManifest
    <2>1. /\ queue # <<>> /\ queue' = Tail(queue) /\ Head(queue).type = "manifest"
          /\ rereading' = TRUE /\ ~rereading
          /\ UNCHANGED <<gear, reply, stale, lastRead>>
      BY <1>1 DEF ReadManifest, vars, history
    <2>2. \A d \in Cues : ~About(Head(queue), d)
      BY <2>1 DEF About
    <2>3. queue' \in Seq(Event) /\ QueueCurrent' /\ \A d \in Cues : Unqueued(d)' => Unqueued(d)
      BY <2>1, <2>2, HeadTaken
    <2>4. ReadCurrent'
      BY <2>1, <2>3 DEF ReadCurrent
    <2>5. ReplyCurrent'
      BY <2>1 DEF ReplyCurrent
    <2> QED
      BY <2>1, <2>3, <2>4, <2>5
  <1>2. CASE ManifestServed
    <2>1. rereading /\ reply' = gear /\ UNCHANGED <<gear, queue, rereading, stale, lastRead>>
      BY <1>2 DEF ManifestServed, vars, history
    <2>2. ReplyCurrent'
      BY <2>1 DEF ReplyCurrent
    <2>3. QueueCurrent' /\ ReadCurrent'
      BY <2>1 DEF QueueCurrent, ReadCurrent, Unqueued, About
    <2> QED
      BY <2>1, <2>2, <2>3
  <1>3. CASE ManifestArrives
    <2>1. /\ reply # None /\ lastRead' = reply /\ rereading' = FALSE /\ reply' = None
          /\ stale' = [d \in Cues |-> FALSE] /\ UNCHANGED <<gear, queue>>
      BY <1>3 DEF ManifestArrives, Refetch
    <2>2. \A d \in Cues : reply[d] # None
      BY <2>1, Absent
    <2>3. ReadCurrent'
      BY <2>1, <2>2 DEF ReadCurrent, ReplyCurrent, Unqueued, About
    <2>4. QueueCurrent' /\ ReplyCurrent'
      BY <2>1 DEF QueueCurrent, ReplyCurrent, About
    <2> QED
      BY <2>1, <2>3, <2>4
  <1>4. CASE ManifestFails
    <2>1. rereading' = FALSE /\ reply' = None /\ UNCHANGED <<gear, queue, stale, lastRead>>
      BY <1>4 DEF ManifestFails, Retell, vars, history
    <2>2. QueueCurrent' /\ ReadCurrent' /\ ReplyCurrent'
      BY <2>1 DEF QueueCurrent, ReadCurrent, ReplyCurrent, Unqueued, About
    <2> QED
      BY <2>1, <2>2
  <1> QED
    BY <1>1, <1>2, <1>3, <1>4

\* No step but those disturbs the feed.
LEMMA FeedStep ==
    ASSUME TypeOK, TypeOK', Feed, [LoopNext]_loop
    PROVE  Feed'
  <1> LoopTypeOK
    BY DEF Feed
  <1>1. \A c \in Cues : rows'[c] # None
    BY RowsStay
  <1>2. ASSUME UNCHANGED <<gear, queue, rereading, reply, stale, lastRead>>
        PROVE  Feed'
    BY <1>1, <1>2
    DEF Feed, LoopTypeOK, QueueCurrent, ReplyCurrent, ReadCurrent, Unqueued, About
  <1>3. ASSUME NEW c \in Cues, NEW value \in Value, GearTurns(c, value)
        PROVE  Feed'
    <2>1. Turns(c, value) /\ UNCHANGED <<rereading, reply, stale, lastRead>>
      BY <1>3 DEF GearTurns, vars, history
    <2> QED
      BY <1>1, <2>1, TurnsFeeds DEF Feed, LoopTypeOK
  <1>4. ASSUME NEW c \in Cues, NEW i \in 1..Len(calls[c]), ServerRuns(c, i)
        PROVE  Feed'
    <2> DEFINE value == [state |-> calls[c][i].wanted, reason |-> NoReason]
    <2>1. UNCHANGED <<rereading, reply, stale, lastRead>>
      BY <1>4 DEF ServerRuns, vars, history
    <2>2. value \in Value
      <3>1. calls[c] \in Seq(Call)
        BY DEF TypeOK
      <3>2. calls[c][i] \in Call
        BY <3>1
      <3> QED
        BY <3>2, SettleAssumption DEF Call, Commands, States, Value
    <2>3. CASE Turns(c, value)
      BY <1>1, <2>1, <2>2, <2>3, TurnsFeeds DEF Feed, LoopTypeOK
    <2>4. CASE UNCHANGED <<gear, queue>>
      BY <1>2, <2>1, <2>4
    <2> QED
      BY <1>4, <2>3, <2>4 DEF ServerRuns
  <1>5. ASSUME ListChanges
        PROVE  Feed'
    <2>1. Sends(ManifestEvent) /\ UNCHANGED <<gear, rereading, reply, stale, lastRead>>
      BY <1>5 DEF ListChanges, vars, history
    <2> QED
      BY <1>1, <2>1, ListChangesFeeds DEF Feed, LoopTypeOK
  <1>6. ASSUME NEW c \in Cues, NEW i \in 1..Len(calls[c]), AnswerArrives(c, i)
        PROVE  Feed'
    <2>1. UNCHANGED <<gear, queue, rereading, reply>>
      BY <1>6 DEF AnswerArrives
    <2> QED
      BY <1>1, <1>6, <2>1, AnswerFeeds DEF Feed, LoopTypeOK
  <1>7. ASSUME NEW c \in Cues, ReadState(c)
        PROVE  Feed'
    <2>1. UNCHANGED <<gear, rereading, reply>>
      BY <1>7 DEF ReadState
    <2> QED
      BY <1>1, <1>7, <2>1, ReadStateFeeds DEF Feed, LoopTypeOK
  <1>8. ASSUME ReadManifest \/ ManifestServed \/ ManifestArrives \/ ManifestFails
        PROVE  Feed'
    BY <1>1, <1>8, ManifestFeeds DEF Feed, LoopTypeOK
  <1>9. ASSUME \/ \E c \in Cues : \/ \E wanted \in Commands : Calls(c, wanted)
                                  \/ \E i \in 1..Len(calls[c]) : CallFails(c, i)
                                  \/ \E g \in Gens : WindowEnds(c, g)
               \/ TimePasses \/ UNCHANGED loop
        PROVE  UNCHANGED <<gear, queue, rereading, reply, stale, lastRead>>
    BY <1>9
    DEF Calls, Press, CallFails, CallDoesNothing, WindowEnds, TimerFires, TimePasses, Tick,
        server, loop, vars, history
  <1> QED
    BY <1>2, <1>3, <1>4, <1>5, <1>6, <1>7, <1>8, <1>9 DEF LoopNext, StreamStep

LEMMA FeedInit == TypeOK /\ LoopInit => Feed
  <1> SUFFICES ASSUME TypeOK, LoopInit PROVE Feed
    OBVIOUS
  <1>1. gear = rows /\ lastRead = rows /\ queue = <<>> /\ reply = None
        /\ \A c \in Cues : rows[c] # None
    BY DEF LoopInit, Init
  <1>2. gear \in [Cues -> Value]
    BY <1>1 DEF TypeOK
  <1>3. LoopTypeOK
    <2>1. queue \in Seq(Event)
      BY <1>1
    <2>2. rereading = FALSE /\ stale = [c \in Cues |-> FALSE]
      BY DEF LoopInit
    <2> QED
      BY <1>1, <1>2, <2>1, <2>2 DEF LoopTypeOK
  <1>4. QueueCurrent /\ ReplyCurrent
    BY <1>1 DEF QueueCurrent, ReplyCurrent
  <1>5. ReadCurrent
    BY <1>1 DEF ReadCurrent
  <1> QED
    BY <1>3, <1>4, <1>5 DEF Feed

-----------------------------------------------------------------------------
\* LoopInv, the inductive invariant of the loop: SettleWindow's, and that what was
\* last read of a cue is what its gear does, but for what is queued and what is stale.
THEOREM LoopInductive == LoopSpec => []LoopInv
  <1>1. LoopInv <=> TypeOK /\ Kept /\ Feed
    BY DEF LoopInv, IInv, Kept, Feed
  <1>2. LoopInit => TypeOK /\ Kept /\ Feed
    BY TypeInit, KeptInit, FeedInit DEF LoopInit
  <1>3. TypeOK /\ Kept /\ Feed /\ [LoopNext]_loop => (TypeOK /\ Kept /\ Feed)'
    <2> SUFFICES ASSUME TypeOK, Kept, Feed, [LoopNext]_loop
                 PROVE  TypeOK' /\ Kept' /\ Feed'
      OBVIOUS
    <2>1. [Next]_vars
      BY StepOfWindows DEF Feed
    <2>2. TypeOK' /\ Kept'
      BY <2>1, TypeStep, KeptStep
    <2> QED
      BY <2>2, FeedStep
  <1> QED
    BY <1>1, <1>2, <1>3, PTL DEF LoopSpec

\* FollowsGear: behind its window, a switch shows what its gear does once the stream
\* has been read that far.
THEOREM FollowsGearCorrect == LoopSpec => []FollowsGear
  <1>1. LoopInv => FollowsGear
    <2> SUFFICES ASSUME LoopInv, NEW c \in Cues, Unqueued(c), ~overlapped[c], ~stale[c]
                 PROVE  Behind(c) = gear[c].state
      BY DEF FollowsGear
    <2>1. rows[c] # None /\ lastRead[c].state = gear[c].state
      BY DEF LoopInv, LoopTypeOK, ReadCurrent
    <2>2. CASE settling[c] = None
      <3>1. rows[c] = lastRead[c] /\ written[c].value = rows[c]
        BY <2>1, <2>2 DEF LoopInv, IInv, RowIsLastRead, WritesItsRow
      <3> QED
        BY <2>1, <2>2, <3>1 DEF Behind
    <2>3. CASE settling[c] # None
      <3>1. GivenBack(settling[c]) = lastRead[c]
        BY <2>1, <2>3 DEF LoopInv, IInv, GiveBackIsLastRead
      <3> QED
        BY <2>1, <2>3, <3>1 DEF Behind
    <2> QED
      BY <2>2, <2>3
  <1> QED
    BY <1>1, LoopInductive, PTL
-----------------------------------------------------------------------------
\* Spec of SettleWindow: seen from the windows, the loop is that specification.  Where
\* SettleWindow lets any read come at any time, the stream and the calls let some.
THEOREM LoopImplementsWindows == LoopSpec => Spec
  <1>1. LoopInit => Init
    BY DEF LoopInit
  <1>2. LoopInv /\ [LoopNext]_loop => [Next]_vars
    BY StepOfWindows DEF LoopInv, IInv
  <1> QED
    BY <1>1, <1>2, LoopInductive, PTL DEF LoopSpec, Spec

\* KeepsPromise: so what the loop shows is what SwitchPromise allows.
THEOREM LoopKeepsPromise == LoopSpec => KeepsPromise
  BY LoopImplementsWindows, PromiseKept
=============================================================================
