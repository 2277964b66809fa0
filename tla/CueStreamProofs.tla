--------------------------- MODULE CueStreamProofs ---------------------------
(***************************************************************************)
(* What CueStream keeps for every set of cues, every bound on the queue    *)
(* and every number of ticks before the warning.                           *)
(***************************************************************************)
EXTENDS CueStream, TLAPS

\* The conjuncts about tasks and warnings, and those about what has been read.
TaskInv == NoPollBesideStream /\ TasksAgree /\ WarnedOnce /\ WarnedByFlag
DataInv == QueueCurrent /\ ReplyCurrent /\ RowsCurrent /\ PolledCurrent

LEMMA Absent == None \notin Snapshot /\ None \notin Nat
  BY NoneAssumption

LEMMA InvInit == Init => IInv
  <1> SUFFICES ASSUME Init PROVE IInv
    OBVIOUS
  <1>1. TypeOK
    <2>1. truth \in Snapshot /\ rows \in Snapshot /\ queue \in Seq(Event)
      BY DEF Init
    <2> QED
      BY <2>1 DEF Init, TypeOK
  <1>2. TaskInv
    BY DEF Init, TaskInv, NoPollBesideStream, TasksAgree, WarnedOnce, WarnedByFlag, Listening
  <1>3. QueueCurrent
    BY DEF Init, QueueCurrent
  <1>4. ReplyCurrent /\ RowsCurrent /\ PolledCurrent
    BY DEF Init, ReplyCurrent, RowsCurrent, PolledCurrent
  <1> QED
    BY <1>1, <1>2, <1>3, <1>4 DEF IInv, TaskInv

-----------------------------------------------------------------------------
\* The queue.

LEMMA Longer ==
    ASSUME NEW q \in Seq(Event), NEW e \in Event
    PROVE  /\ Append(q, e) \in Seq(Event) /\ Len(q) \in Nat
           /\ Len(Append(q, e)) = Len(q) + 1
           /\ \A i \in 1..Len(q) : Append(q, e)[i] = q[i]
           /\ Append(q, e)[Len(q) + 1] = e
  OBVIOUS

LEMMA Shorter ==
    ASSUME NEW q \in Seq(Event), q # <<>>
    PROVE  /\ Tail(q) \in Seq(Event) /\ Len(q) \in Nat \ {0}
           /\ Len(Tail(q)) = Len(q) - 1
           /\ \A i \in 1..Len(Tail(q)) : Tail(q)[i] = q[i + 1]
           /\ Head(q) = q[1] /\ Head(q) \in Event
  OBVIOUS

LEMMA NothingQueued == ASSUME queue = <<>> PROVE \A c \in Cues : Unqueued(c)
  BY DEF Unqueued

\* An event read is one the invariant speaks of.
LEMMA EventRead ==
    ASSUME NEW e \in Event, e.type = "state"
    PROVE  e.cue \in Cues /\ e.state \in States
  BY DEF Event, StateEvent, ManifestEvent

LEMMA EventsTyped ==
    ASSUME NEW c \in Cues, NEW s \in States
    PROVE  [type |-> "state", cue |-> c, state |-> s] \in Event /\ ManifestEvent \in Event
  BY DEF Event, StateEvent

-----------------------------------------------------------------------------
\* Types, tasks and warnings, action by action.

LEMMA SendsTyped ==
    ASSUME TypeOK, NEW e \in Event, Sends(e)
    PROVE  /\ queue' \in Seq(Event) /\ missed' \in BOOLEAN
           /\ queue' # <<>> => queue # <<>> \/ Listening
  BY Longer DEF TypeOK, Sends

\* The warnings counted so far, as the flag knows them.
WarningsOK == warnings \in Nat \cup {None} /\ WarnedOnce /\ WarnedByFlag

LEMMA UnansweredOK == ASSUME WarningsOK, Unanswered, warned' = warned PROVE WarningsOK'
  <1>1. CASE warnings = None
    <2>1. warnings' = 0
      BY <1>1 DEF Unanswered
    <2> QED
      BY <2>1 DEF WarningsOK, WarnedOnce, WarnedByFlag
  <1>2. CASE warnings # None
    <2>1. warnings' = warnings
      BY <1>2 DEF Unanswered
    <2> QED
      BY <2>1 DEF WarningsOK, WarnedOnce, WarnedByFlag
  <1> QED
    BY <1>1, <1>2

LEMMA UnreachableOK ==
    ASSUME TypeOK, WarningsOK, NoteUnreachable
    PROVE  /\ WarningsOK' /\ warned' \in BOOLEAN
           /\ since' \in 0..WarnTicks \cup {None} /\ success' \in BOOLEAN
  <1>1. since' \in 0..WarnTicks \cup {None} /\ success' \in BOOLEAN
    <2>1. success' = FALSE /\ since' = (IF since = None THEN 0 ELSE since)
      BY DEF NoteUnreachable
    <2>2. 0 \in 0..WarnTicks /\ since \in 0..WarnTicks \cup {None}
      BY StreamAssumption DEF TypeOK
    <2> QED
      BY <2>1, <2>2
  <1>2. CASE since = WarnTicks /\ ~warned
    <2>1. warned' = TRUE /\ warnings \in {None, 0}
      BY <1>2 DEF NoteUnreachable, WarningsOK, WarnedByFlag
    <2>2. warnings' = IF warnings = None THEN 1 ELSE warnings + 1
      BY <1>2 DEF NoteUnreachable
    <2>3. warnings' = 1
      BY <2>1, <2>2
    <2> QED
      BY <1>1, <2>1, <2>3 DEF WarningsOK, WarnedOnce, WarnedByFlag
  <1>3. CASE ~(since = WarnTicks /\ ~warned)
    <2>1. Unanswered /\ warned' = warned
      BY <1>3 DEF NoteUnreachable
    <2> QED
      BY <1>1, <2>1, UnansweredOK DEF TypeOK
  <1> QED
    BY <1>2, <1>3

LEMMA WorldStep ==
    ASSUME TypeOK, TaskInv,
           \/ \E mode \in {"up", "failing", "down"} : ServerTurns(mode)
           \/ \E c \in Cues, state \in States : GearChanges(c, state)
           \/ ListChanges
           \/ SocketDies
           \/ ManifestServed
           \/ StatesServed
    PROVE  TypeOK' /\ TaskInv'
  <1> USE DEF tasks, reach, feed
  <1> USE DEF TaskInv, NoPollBesideStream, TasksAgree, WarnedOnce, WarnedByFlag, Listening
  <1>1. CASE \E mode \in {"up", "failing", "down"} : ServerTurns(mode)
    BY <1>1 DEF ServerTurns, TypeOK
  <1>2. CASE \E c \in Cues, state \in States : GearChanges(c, state)
    <2>1. PICK c \in Cues, state \in States : GearChanges(c, state)
      BY <1>2
    <2>2. /\ queue' \in Seq(Event) /\ missed' \in BOOLEAN
          /\ queue' # <<>> => queue # <<>> \/ Listening
      BY <2>1, EventsTyped, SendsTyped DEF GearChanges
    <2>3. truth' \in Snapshot
      BY <2>1 DEF GearChanges, TypeOK, Snapshot
    <2> QED
      BY <2>1, <2>2, <2>3 DEF GearChanges, TypeOK
  <1>3. CASE ListChanges
    <2>1. /\ queue' \in Seq(Event) /\ missed' \in BOOLEAN
          /\ queue' # <<>> => queue # <<>> \/ Listening
      BY <1>3, SendsTyped DEF ListChanges, Event
    <2> QED
      BY <1>3, <2>1 DEF ListChanges, TypeOK
  <1>4. CASE SocketDies
    BY <1>4 DEF SocketDies, TypeOK
  <1>5. CASE ManifestServed
    BY <1>5 DEF ManifestServed, TypeOK
  <1>6. CASE StatesServed
    BY <1>6 DEF StatesServed, TypeOK
  <1> QED
    BY <1>1, <1>2, <1>3, <1>4, <1>5, <1>6

LEMMA StreamTaskStep ==
    ASSUME TypeOK, TaskInv,
           \/ StreamOpens \/ OpenFails \/ StreamWakes \/ StreamEnds
           \/ RefetchAnswers \/ RefetchFails
           \/ ReadState \/ ReadManifest \/ RereadAnswers \/ RereadFails
    PROVE  TypeOK' /\ TaskInv'
  <1> USE DEF tasks, reach, feed
  <1> USE DEF TaskInv, NoPollBesideStream, TasksAgree, WarnedOnce, WarnedByFlag, Listening
  <1> USE Absent
  <1>1. CASE StreamOpens
    BY <1>1 DEF StreamOpens, StopFallback, TypeOK
  <1>2. CASE OpenFails
    BY <1>2 DEF OpenFails, Drop, TypeOK
  <1>3. CASE StreamWakes
    BY <1>3 DEF StreamWakes, TypeOK
  <1>4. CASE StreamEnds
    BY <1>4 DEF StreamEnds, Drop, TypeOK
  <1>5. CASE RefetchAnswers
    BY <1>5 DEF RefetchAnswers, TakesManifest, NoteReachable, Answered, TypeOK
  <1>6. CASE RefetchFails
    <2>1. WarningsOK'
      BY <1>6, UnansweredOK DEF RefetchFails, WarningsOK, TypeOK
    <2> QED
      BY <1>6, <2>1 DEF RefetchFails, WarningsOK, TypeOK
  <1>7. CASE ReadState
    <2>1. queue' \in Seq(Event) /\ Head(queue) \in Event /\ Head(queue).type = "state"
      BY <1>7, Shorter DEF ReadState, TypeOK
    <2>2. rows' \in Snapshot
      BY <1>7, <2>1, EventRead DEF ReadState, TypeOK, Snapshot
    <2>3. success' \in BOOLEAN
      BY <1>7 DEF ReadState, Published, TypeOK
    <2> QED
      BY <1>7, <2>1, <2>2, <2>3 DEF ReadState, TypeOK
  <1>8. CASE ReadManifest
    <2>1. queue' \in Seq(Event)
      BY <1>8, Shorter DEF ReadManifest, TypeOK
    <2> QED
      BY <1>8, <2>1 DEF ReadManifest, TypeOK
  <1>9. CASE RereadAnswers
    BY <1>9 DEF RereadAnswers, TakesManifest, Answered, TypeOK
  <1>10. CASE RereadFails
    <2>1. WarningsOK'
      BY <1>10, UnansweredOK DEF RereadFails, WarningsOK, TypeOK
    <2> QED
      BY <1>10, <2>1 DEF RereadFails, WarningsOK, TypeOK
  <1> QED
    BY <1>1, <1>2, <1>3, <1>4, <1>5, <1>6, <1>7, <1>8, <1>9, <1>10

LEMMA OtherStep ==
    ASSUME TypeOK, TaskInv,
           \/ PollAnswers \/ PollFails \/ PollDies \/ PollWakes
           \/ CallAnswered \/ WindowOpens \/ WindowEnds \/ Tick \/ UNCHANGED vars
    PROVE  TypeOK' /\ TaskInv'
  <1> USE DEF tasks, reach, feed
  <1> USE DEF TaskInv, NoPollBesideStream, TasksAgree, WarnedOnce, WarnedByFlag, Listening
  <1> USE Absent, StreamAssumption
  <1>1. CASE PollAnswers
    <2>1. success' \in BOOLEAN
      BY <1>1 DEF PollAnswers, Published, TypeOK
    <2> QED
      BY <1>1, <2>1 DEF PollAnswers, NoteReachable, Answered, TypeOK
  <1>2. CASE PollFails
    <2>1. CASE connected # "up"
      <3>1. /\ WarningsOK' /\ warned' \in BOOLEAN
            /\ since' \in 0..WarnTicks \cup {None} /\ success' \in BOOLEAN
        BY <1>2, <2>1, UnreachableOK DEF PollFails, WarningsOK, TypeOK
      <3> QED
        BY <1>2, <3>1 DEF PollFails, WarningsOK, TypeOK
    <2>2. CASE connected = "up"
      BY <1>2, <2>2 DEF PollFails, TypeOK
    <2> QED
      BY <2>1, <2>2
  <1>3. CASE PollDies
    <2>1. WarningsOK'
      BY <1>3, UnansweredOK DEF PollDies, WarningsOK, TypeOK
    <2> QED
      BY <1>3, <2>1 DEF PollDies, WarningsOK, TypeOK
  <1>4. CASE PollWakes
    BY <1>4 DEF PollWakes, TypeOK
  <1>5. CASE CallAnswered \/ WindowOpens
    BY <1>5 DEF CallAnswered, WindowOpens, TypeOK, feed, tasks, reach
  <1>6. CASE WindowEnds
    BY <1>6 DEF WindowEnds, TypeOK
  <1>7. CASE Tick
    BY <1>7 DEF Tick, TypeOK
  <1>8. CASE UNCHANGED vars
    BY <1>8 DEF vars, TypeOK
  <1> QED
    BY <1>1, <1>2, <1>3, <1>4, <1>5, <1>6, <1>7, <1>8

-----------------------------------------------------------------------------
\* What has been read, what is queued and what is on its way.

\* A step that neither reads nor sends leaves everything as current as it was.
LEMMA NothingRead ==
    ASSUME DataInv,
           UNCHANGED <<truth, rows, queue>>, missed => missed', cut => cut',
           missed \in BOOLEAN, missed' \in BOOLEAN, cut \in BOOLEAN, cut' \in BOOLEAN,
           reply' \in {reply, None, truth}, polled' \in {polled, None, truth}
    PROVE  DataInv'
  <1>1. AllQueued' => AllQueued
    BY DEF AllQueued
  <1>2. QueueCurrent'
    BY <1>1 DEF DataInv, QueueCurrent, About
  <1>3. ReplyCurrent'
    BY <1>1 DEF DataInv, ReplyCurrent, Unqueued, About
  <1>4. RowsCurrent'
    BY DEF DataInv, RowsCurrent, Unqueued, About
  <1>5. PolledCurrent'
    BY DEF DataInv, PolledCurrent
  <1> QED
    BY <1>2, <1>3, <1>4, <1>5 DEF DataInv

\* A change nobody listens to is missed: nothing is queued and no manifest is due.
LEMMA Unheard ==
    ASSUME TypeOK, TaskInv, NEW e, Sends(e), ~(Listening /\ ~cut), cut' = cut, reply' = reply
    PROVE  DataInv'
  <1>1. missed' = TRUE /\ queue' = queue
    BY DEF Sends
  <1>2. AllQueued' => queue' = <<>> /\ reply' = None
    BY <1>1 DEF AllQueued, TaskInv, TasksAgree, Listening, TypeOK
  <1>3. QueueCurrent'
    BY <1>2 DEF QueueCurrent
  <1>4. ReplyCurrent'
    BY <1>2 DEF ReplyCurrent
  <1>5. RowsCurrent' /\ PolledCurrent'
    BY <1>1 DEF RowsCurrent, PolledCurrent
  <1> QED
    BY <1>3, <1>4, <1>5 DEF DataInv

LEMMA GearChangesData ==
    ASSUME TypeOK, TaskInv, DataInv, NEW c \in Cues, NEW state \in States,
           GearChanges(c, state)
    PROVE  DataInv'
  <1> DEFINE e == [type |-> "state", cue |-> c, state |-> state]
  <1>1. CASE ~(Listening /\ ~cut)
    BY <1>1, Unheard DEF GearChanges, tasks
  <1>2. CASE Listening /\ ~cut
    <2>1. queue' = Append(queue, e) /\ missed' = missed
      BY <1>2 DEF GearChanges, Sends
    <2>2. queue \in Seq(Event) /\ e \in Event
      BY EventsTyped DEF TypeOK
    <2>3. /\ Len(queue) \in Nat /\ Len(queue') = Len(queue) + 1
          /\ \A i \in 1..Len(queue) : queue'[i] = queue[i]
          /\ queue'[Len(queue) + 1] = e
      BY <2>1, <2>2, Longer
    <2>4. /\ rows' = rows /\ reply' = reply /\ polled' = polled /\ cut' = cut
          /\ truth'[c] = state /\ \A d \in Cues \ {c} : truth'[d] = truth[d]
      BY DEF GearChanges, tasks, TypeOK, Snapshot
    <2>5. e.type = "state" /\ e.cue = c /\ e.state = state
      OBVIOUS
    <2> HIDE DEF e
    <2>6. \A d \in Cues : About(queue'[Len(queue) + 1], d) <=> d = c
      BY <2>3, <2>5 DEF About
    <2>7. \A d \in Cues, i \in 1..Len(queue) : About(queue'[i], d) <=> About(queue[i], d)
      BY <2>3
    <2>8. \A d \in Cues : Unqueued(d)' => d # c /\ Unqueued(d)
      BY <2>3, <2>6, <2>7 DEF Unqueued, About
    <2>9. ASSUME AllQueued', NEW d \in Cues, NEW i \in 1..Len(queue'), About(queue'[i], d),
                 \A j \in (i + 1)..Len(queue') : ~About(queue'[j], d)
          PROVE  queue'[i].state = truth'[d]
      <3>1. CASE i = Len(queue) + 1
        BY <3>1, <2>3, <2>4, <2>5, <2>6, <2>9
      <3>2. CASE i # Len(queue) + 1
        <4>1. i \in 1..Len(queue) /\ Len(queue) + 1 \in (i + 1)..Len(queue')
          BY <3>2, <2>3
        <4>2. ~About(queue'[Len(queue) + 1], d)
          BY <4>1, <2>9
        <4>3. d # c
          BY <4>2, <2>6
        <4>4. About(queue[i], d) /\ \A j \in (i + 1)..Len(queue) : ~About(queue[j], d)
          BY <4>1, <2>3, <2>7, <2>9
        <4>5. AllQueued
          BY <2>1, <2>4, <2>9 DEF AllQueued
        <4>6. queue[i].state = truth[d]
          BY <4>1, <4>4, <4>5 DEF DataInv, QueueCurrent
        <4> QED
          BY <4>1, <4>3, <4>6, <2>3, <2>4
      <3> QED
        BY <3>1, <3>2
    <2>10. QueueCurrent'
      BY <2>9 DEF QueueCurrent, About
    <2>11. ReplyCurrent'
      BY <2>1, <2>4, <2>8 DEF DataInv, ReplyCurrent, AllQueued
    <2>12. RowsCurrent'
      BY <2>1, <2>4, <2>8 DEF DataInv, RowsCurrent
    <2>13. PolledCurrent'
      BY <1>2, <2>4 DEF PolledCurrent, TaskInv, TasksAgree, NoPollBesideStream
    <2> QED
      BY <2>10, <2>11, <2>12, <2>13 DEF DataInv
  <1> QED
    BY <1>1, <1>2

LEMMA ListChangesData ==
    ASSUME TypeOK, TaskInv, DataInv, ListChanges
    PROVE  DataInv'
  <1>1. CASE ~(Listening /\ ~cut)
    BY <1>1, Unheard DEF ListChanges, tasks
  <1>2. CASE Listening /\ ~cut
    <2>1. queue' = Append(queue, ManifestEvent) /\ missed' = missed
      BY <1>2 DEF ListChanges, Sends
    <2>2. queue \in Seq(Event) /\ ManifestEvent \in Event
      BY DEF TypeOK, Event
    <2>3. /\ Len(queue) \in Nat /\ Len(queue') = Len(queue) + 1
          /\ \A i \in 1..Len(queue) : queue'[i] = queue[i]
          /\ queue'[Len(queue) + 1] = ManifestEvent
      BY <2>1, <2>2, Longer
    <2>4. /\ rows' = rows /\ reply' = reply /\ polled' = polled /\ cut' = cut
          /\ truth' = truth
      BY DEF ListChanges, tasks
    <2>5. \A d \in Cues : ~About(queue'[Len(queue) + 1], d)
      BY <2>3 DEF About, ManifestEvent
    <2>6. \A d \in Cues : Unqueued(d)' => Unqueued(d)
      BY <2>3 DEF Unqueued, About
    <2>7. ASSUME AllQueued', NEW d \in Cues, NEW i \in 1..Len(queue'), About(queue'[i], d),
                 \A j \in (i + 1)..Len(queue') : ~About(queue'[j], d)
          PROVE  queue'[i].state = truth'[d]
      <3>1. i # Len(queue) + 1
        BY <2>5, <2>7
      <3>2. i \in 1..Len(queue)
        BY <3>1, <2>3
      <3>3. About(queue[i], d) /\ \A j \in (i + 1)..Len(queue) : ~About(queue[j], d)
        <4>1. \A j \in (i + 1)..Len(queue) : j \in (i + 1)..Len(queue') /\ queue'[j] = queue[j]
          BY <3>2, <2>3
        <4> QED
          BY <4>1, <3>2, <2>3, <2>7
      <3>4. queue[i].state = truth[d]
        <4>1. AllQueued
          BY <2>1, <2>4, <2>7 DEF AllQueued
        <4> QED
          BY <4>1, <3>2, <3>3 DEF DataInv, QueueCurrent
      <3> QED
        BY <3>2, <3>4, <2>3, <2>4
    <2>8. QueueCurrent'
      BY <2>7 DEF QueueCurrent, About
    <2>9. ReplyCurrent'
      BY <2>1, <2>4, <2>6 DEF DataInv, ReplyCurrent, AllQueued
    <2>10. RowsCurrent' /\ PolledCurrent'
      BY <2>1, <2>4, <2>6 DEF DataInv, RowsCurrent, PolledCurrent
    <2> QED
      BY <2>8, <2>9, <2>10 DEF DataInv
  <1> QED
    BY <1>1, <1>2

\* The head of the queue is taken: the last event about a cue is still the last,
\* unless it was the head.
LEMMA HeadTaken ==
    ASSUME TypeOK, QueueCurrent, queue # <<>>, queue' = Tail(queue),
           UNCHANGED <<truth, cut, missed>>
    PROVE  /\ QueueCurrent'
           /\ \A c \in Cues : Unqueued(c)' /\ ~About(Head(queue), c) => Unqueued(c)
           /\ \A c \in Cues : AllQueued /\ Unqueued(c)' /\ About(Head(queue), c)
                 => Head(queue).state = truth[c]
  <1>1. /\ Len(queue) \in Nat \ {0} /\ Len(queue') = Len(queue) - 1
        /\ \A i \in 1..Len(queue') : queue'[i] = queue[i + 1]
        /\ Head(queue) = queue[1]
    BY Shorter DEF TypeOK
  <1>2. AllQueued' = AllQueued
    BY DEF AllQueued
  <1>3. ASSUME AllQueued', NEW d \in Cues, NEW i \in 1..Len(queue'), About(queue'[i], d),
               \A j \in (i + 1)..Len(queue') : ~About(queue'[j], d)
        PROVE  queue'[i].state = truth'[d]
    <2>1. i + 1 \in 1..Len(queue) /\ About(queue[i + 1], d)
      BY <1>1, <1>3
    <2>2. \A j \in (i + 1 + 1)..Len(queue) : ~About(queue[j], d)
      <3>1. \A j \in (i + 1 + 1)..Len(queue) :
               j - 1 \in (i + 1)..Len(queue') /\ queue'[j - 1] = queue[j]
        BY <1>1
      <3> QED
        BY <3>1, <1>3
    <2>3. queue[i + 1].state = truth[d]
      BY <1>2, <1>3, <2>1, <2>2 DEF QueueCurrent
    <2> QED
      BY <1>1, <2>3
  <1>4. QueueCurrent'
    BY <1>3 DEF QueueCurrent, About
  <1>5. ASSUME NEW c \in Cues, Unqueued(c)'
        PROVE  \A j \in 2..Len(queue) : ~About(queue[j], c)
    <2>1. \A i \in 1..Len(queue') : ~About(queue'[i], c)
      BY <1>5 DEF Unqueued, About
    <2>2. \A j \in 2..Len(queue) : j - 1 \in 1..Len(queue') /\ queue'[j - 1] = queue[j]
      BY <1>1
    <2> QED
      BY <2>1, <2>2
  <1>6. ASSUME NEW c \in Cues, Unqueued(c)', ~About(Head(queue), c)
        PROVE  Unqueued(c)
    BY <1>1, <1>5, <1>6 DEF Unqueued
  <1>7. ASSUME NEW c \in Cues, AllQueued, Unqueued(c)', About(Head(queue), c)
        PROVE  Head(queue).state = truth[c]
    <2>1. 1 \in 1..Len(queue) /\ \A j \in (1 + 1)..Len(queue) : ~About(queue[j], c)
      BY <1>1, <1>5, <1>7
    <2> QED
      BY <1>1, <1>7, <2>1 DEF QueueCurrent
  <1> QED
    BY <1>4, <1>6, <1>7

LEMMA ReadStateData ==
    ASSUME TypeOK, TaskInv, DataInv, ReadState
    PROVE  DataInv'
  <1> DEFINE event == Head(queue)
  <1>1. /\ queue # <<>> /\ queue' = Tail(queue) /\ event.type = "state"
        /\ rows' = [rows EXCEPT ![event.cue] = event.state]
        /\ truth' = truth /\ cut' = cut /\ missed' = missed
        /\ reply' = reply /\ polled' = polled /\ stream = "reading"
    BY DEF ReadState, tasks
  <1>2. reply = None /\ polled = None
    BY <1>1 DEF TaskInv, TasksAgree, NoPollBesideStream, Listening
  <1>3. /\ QueueCurrent'
        /\ \A c \in Cues : Unqueued(c)' /\ ~About(event, c) => Unqueued(c)
        /\ \A c \in Cues : AllQueued /\ Unqueued(c)' /\ About(event, c)
              => event.state = truth[c]
    BY <1>1, HeadTaken DEF DataInv
  <1>4. event.cue \in Cues /\ rows \in Snapshot
    BY <1>1, Shorter, EventRead DEF TypeOK
  <1>5. rows'[event.cue] = event.state /\ \A c \in Cues \ {event.cue} : rows'[c] = rows[c]
    BY <1>1, <1>4 DEF Snapshot
  <1>6. \A c \in Cues : About(event, c) <=> c = event.cue
    BY <1>1 DEF About
  <1> HIDE DEF event
  <1>7. ASSUME ~missed', NEW c \in Cues, Unqueued(c)'
        PROVE  rows'[c] = truth'[c]
    <2>1. AllQueued /\ RowsCurrent /\ ~missed
      BY <1>1, <1>7 DEF AllQueued, DataInv
    <2>2. CASE c = event.cue
      BY <2>1, <2>2, <1>1, <1>3, <1>5, <1>6, <1>7
    <2>3. CASE c # event.cue
      <3>1. Unqueued(c)
        BY <2>3, <1>3, <1>6, <1>7
      <3> QED
        BY <2>1, <2>3, <3>1, <1>1, <1>5 DEF RowsCurrent
    <2> QED
      BY <2>2, <2>3
  <1>8. RowsCurrent'
    BY <1>7 DEF RowsCurrent, Unqueued
  <1>9. ReplyCurrent' /\ PolledCurrent'
    BY <1>1, <1>2 DEF ReplyCurrent, PolledCurrent
  <1> QED
    BY <1>3, <1>8, <1>9 DEF DataInv

LEMMA ReadManifestData ==
    ASSUME TypeOK, TaskInv, DataInv, ReadManifest
    PROVE  DataInv'
  <1>1. /\ queue # <<>> /\ queue' = Tail(queue) /\ Head(queue).type = "manifest"
        /\ UNCHANGED <<truth, cut, missed, rows, reply, polled>> /\ stream = "reading"
    BY DEF ReadManifest
  <1>2. reply = None /\ polled = None
    BY <1>1 DEF TaskInv, TasksAgree, NoPollBesideStream, Listening
  <1>3. QueueCurrent' /\ \A c \in Cues : Unqueued(c)' => Unqueued(c)
    <2>1. \A c \in Cues : ~About(Head(queue), c)
      BY <1>1 DEF About
    <2> QED
      BY <1>1, <2>1, HeadTaken DEF DataInv
  <1>4. RowsCurrent'
    BY <1>1, <1>3 DEF DataInv, RowsCurrent
  <1>5. ReplyCurrent' /\ PolledCurrent'
    BY <1>1, <1>2 DEF ReplyCurrent, PolledCurrent
  <1> QED
    BY <1>3, <1>4, <1>5 DEF DataInv

\* A manifest makes the rows as current as it is, and makes up for what was missed
\* while its stream is alive.
LEMMA TakesManifestData ==
    ASSUME TypeOK, TaskInv, DataInv, TakesManifest, UNCHANGED <<truth, queue, cut, polled>>,
           connected = "up"
    PROVE  DataInv'
  <1>1. /\ reply # None /\ rows' = reply /\ reply' = None /\ missed' = (missed /\ cut)
    BY DEF TakesManifest
  <1>2. (AllQueued' => AllQueued) /\ (~missed' => AllQueued) /\ polled = None
    BY <1>1 DEF AllQueued, TypeOK, TaskInv, NoPollBesideStream
  <1>3. \A c \in Cues : Unqueued(c)' => Unqueued(c)
    BY DEF Unqueued, About
  <1>4. RowsCurrent'
    BY <1>1, <1>2, <1>3 DEF DataInv, ReplyCurrent, RowsCurrent
  <1>5. ReplyCurrent' /\ PolledCurrent'
    BY <1>1, <1>2 DEF ReplyCurrent, PolledCurrent
  <1>6. QueueCurrent'
    <2>1. ~cut \/ ~missed => AllQueued
      BY DEF AllQueued
    <2>2. cut /\ missed => ~AllQueued'
      BY <1>1 DEF AllQueued
    <2>3. AllQueued' => AllQueued
      BY <2>1, <2>2 DEF TypeOK
    <2> QED
      BY <2>3 DEF DataInv, QueueCurrent, About
  <1> QED
    BY <1>4, <1>5, <1>6 DEF DataInv

LEMMA StreamRenewsData ==
    ASSUME TypeOK, TaskInv, DataInv, StreamOpens \/ StreamEnds
    PROVE  DataInv'
  <1>1. /\ queue' = <<>> /\ rows' = rows /\ truth' = truth /\ reply' = reply
        /\ stream \in {"opening", "reading"}
    BY DEF StreamOpens, StreamEnds
  <1>2. reply = None
    BY <1>1 DEF TaskInv, TasksAgree
  <1>3. ~missed' => ~missed /\ queue = <<>>
    BY DEF StreamOpens, StreamEnds, TypeOK, TaskInv, TasksAgree, Listening
  <1>4. polled' = None \/ polled' = polled
    BY DEF StreamOpens, StopFallback, StreamEnds
  <1>5. QueueCurrent'
    BY <1>1 DEF QueueCurrent
  <1>6. RowsCurrent'
    BY <1>1, <1>3, NothingQueued DEF DataInv, RowsCurrent
  <1>7. ReplyCurrent' /\ PolledCurrent'
    BY <1>1, <1>2, <1>3, <1>4 DEF DataInv, ReplyCurrent, PolledCurrent
  <1> QED
    BY <1>5, <1>6, <1>7 DEF DataInv

\* A poll is answered only where no stream is listening, so nothing is queued.
LEMMA PollAnswersData ==
    ASSUME TypeOK, TaskInv, DataInv, PollAnswers
    PROVE  DataInv'
  <1>1. /\ polled # None /\ rows' = polled /\ polled' = None
        /\ UNCHANGED <<truth, queue, cut, missed, reply>>
    BY DEF PollAnswers
  <1>2. queue = <<>> /\ reply = None
    BY <1>1 DEF TaskInv, NoPollBesideStream, TasksAgree, Listening
  <1>3. QueueCurrent' /\ ReplyCurrent' /\ PolledCurrent'
    BY <1>1, <1>2 DEF QueueCurrent, ReplyCurrent, PolledCurrent
  <1>4. RowsCurrent'
    BY <1>1 DEF DataInv, PolledCurrent, RowsCurrent
  <1> QED
    BY <1>3, <1>4 DEF DataInv

-----------------------------------------------------------------------------
LEMMA InvNext == IInv /\ [Next]_vars => IInv'
  <1> SUFFICES ASSUME TypeOK, TaskInv, DataInv, [Next]_vars
               PROVE  TypeOK' /\ TaskInv' /\ DataInv'
    BY DEF IInv, TaskInv, DataInv
  <1>1. CASE \/ \E mode \in {"up", "failing", "down"} : ServerTurns(mode)
             \/ \E c \in Cues, state \in States : GearChanges(c, state)
             \/ ListChanges
             \/ SocketDies
             \/ ManifestServed
             \/ StatesServed
    <2>1. TypeOK' /\ TaskInv'
      BY <1>1, WorldStep
    <2>2. CASE \/ \E mode \in {"up", "failing", "down"} : ServerTurns(mode)
               \/ SocketDies \/ ManifestServed \/ StatesServed
      <3>1. UNCHANGED <<truth, rows, queue, missed>> /\ (cut => cut')
        <4>1. ASSUME NEW mode \in {"up", "failing", "down"}, ServerTurns(mode)
              PROVE  UNCHANGED <<truth, rows, queue, missed>> /\ (cut => cut')
          BY <4>1 DEF ServerTurns, TypeOK
        <4>2. ASSUME SocketDies \/ ManifestServed \/ StatesServed
              PROVE  UNCHANGED <<truth, rows, queue, missed>> /\ (cut => cut')
          BY <4>2 DEF SocketDies, ManifestServed, StatesServed, feed
        <4> QED
          BY <2>2, <4>1, <4>2
      <3>2. reply' \in {reply, None, truth} /\ polled' \in {polled, None, truth}
        BY <2>2 DEF ServerTurns, SocketDies, ManifestServed, StatesServed, tasks
      <3> QED
        BY <2>1, <3>1, <3>2, NothingRead DEF TypeOK
    <2> QED
      BY <1>1, <2>1, <2>2, GearChangesData, ListChangesData
  <1>2. CASE \/ StreamOpens \/ OpenFails \/ StreamWakes \/ StreamEnds
             \/ RefetchAnswers \/ RefetchFails
             \/ ReadState \/ ReadManifest \/ RereadAnswers \/ RereadFails
    <2>1. TypeOK' /\ TaskInv'
      BY <1>2, StreamTaskStep
    <2>2. CASE OpenFails \/ StreamWakes \/ RefetchFails \/ RereadFails
      <3>1. UNCHANGED <<truth, rows, queue, cut>> /\ (missed => missed')
        BY <2>2 DEF OpenFails, StreamWakes, RefetchFails, RereadFails, feed
      <3>2. reply' \in {reply, None, truth} /\ polled' \in {polled, None, truth}
        BY <2>2 DEF OpenFails, StreamWakes, RefetchFails, RereadFails, feed
      <3> QED
        BY <2>1, <3>1, <3>2, NothingRead DEF TypeOK
    <2>3. CASE RefetchAnswers \/ RereadAnswers
      <3>1. TakesManifest /\ UNCHANGED <<truth, queue, cut, polled>>
        BY <2>3 DEF RefetchAnswers, RereadAnswers
      <3>2. connected = "up"
        BY <2>3 DEF RefetchAnswers, RereadAnswers, TaskInv, TasksAgree, Listening
      <3> QED
        BY <2>1, <3>1, <3>2, TakesManifestData
    <2> QED
      BY <1>2, <2>1, <2>2, <2>3, StreamRenewsData, ReadStateData, ReadManifestData
  <1>3. CASE \/ PollAnswers \/ PollFails \/ PollDies \/ PollWakes
             \/ CallAnswered \/ WindowOpens \/ WindowEnds \/ Tick \/ UNCHANGED vars
    <2>1. TypeOK' /\ TaskInv'
      BY <1>3, OtherStep
    <2>2. CASE \/ PollFails \/ PollDies \/ PollWakes
               \/ CallAnswered \/ WindowOpens \/ WindowEnds \/ Tick \/ UNCHANGED vars
      <3>1. UNCHANGED <<truth, rows, queue, cut, missed, reply>>
        BY <2>2 DEF PollFails, PollDies, PollWakes, CallAnswered, WindowOpens, WindowEnds, Tick, vars, feed, tasks
      <3>2. polled' \in {polled, None, truth}
        BY <2>2 DEF PollFails, PollDies, PollWakes, CallAnswered, WindowOpens, WindowEnds, Tick, vars, feed, tasks
      <3> QED
        BY <2>1, <3>1, <3>2, NothingRead DEF TypeOK
    <2> QED
      BY <1>3, <2>1, <2>2, PollAnswersData
  <1> QED
    BY <1>1, <1>2, <1>3 DEF Next, StreamStep, PollStep

\* The invariant the others are parts of: what is queued, on its way and read agrees
\* with the gear, and the two tasks keep out of each other's way.
THEOREM StreamInductive == Spec => []IInv
  BY InvInit, InvNext, PTL DEF Spec

\* Every variable keeps its shape.
THEOREM StreamTypeCorrect == Spec => []TypeOK
  <1>1. IInv => TypeOK
    BY DEF IInv
  <1> QED
    BY <1>1, StreamInductive, PTL

\* While the stream is up no poll runs, and none can still answer (_set_connected).
THEOREM NoPollCorrect == Spec => []NoPollBesideStream
  <1>1. IInv => NoPollBesideStream
    BY DEF IInv
  <1> QED
    BY <1>1, StreamInductive, PTL

\* A stream read to the end, of which nothing was missed, has left the data as the
\* gear is: no event, manifest or poll that came late has undone another.
THEOREM QuietCorrect == Spec => []QuietIsCurrent
  <1>1. IInv => QuietIsCurrent
    <2> SUFFICES ASSUME IInv, queue = <<>>, ~missed
                 PROVE  rows = truth
      BY DEF QuietIsCurrent
    <2>1. \A c \in Cues : rows[c] = truth[c]
      BY NothingQueued DEF IInv, RowsCurrent
    <2>2. rows \in [Cues -> States] /\ truth \in [Cues -> States]
      BY DEF IInv, TypeOK, Snapshot
    <2> QED
      BY <2>1, <2>2
  <1> QED
    BY <1>1, StreamInductive, PTL

\* One WARNING at most for a stretch without an answered read (_note_unreachable).
THEOREM WarnedOnceCorrect == Spec => []WarnedOnce
  <1>1. IInv => WarnedOnce
    BY DEF IInv
  <1> QED
    BY <1>1, StreamInductive, PTL
=============================================================================
