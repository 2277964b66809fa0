------------------------- MODULE SettleWindowProofs -------------------------
(***************************************************************************)
(* What SettleWindow keeps for every set of cues and sentences, every      *)
(* length of window and every number of calls in flight.                   *)
(***************************************************************************)
EXTENDS SettleWindow, SequenceTheorems, TLAPS

\* A record after a read, the row after a read and what a window gives back are
\* of the types their callers store them as.
LEMMA ReadTypes ==
    ASSUME NEW rec \in Settle \cup {None}, NEW row \in Value, NEW read \in Value
    PROVE  /\ RecordAfter(rec, read) \in Settle \cup {None}
           /\ RowAfter(row, rec, read) \in Value
           /\ rec # None => GivenBack(rec) \in Value
  <1>1. ASSUME rec \in Settle
        PROVE  [rec EXCEPT !.contradictions = 1, !.held = read] \in Settle
    BY <1>1, 1 \in 0..1 DEF Settle
  <1>2. ASSUME rec \in Settle
        PROVE  GivenBack(rec) \in Value
    BY <1>2 DEF GivenBack, Settle
  <1>3. RecordAfter(rec, read) \in Settle \cup {None}
    BY <1>1 DEF RecordAfter, Swallows, Live
  <1> QED
    BY <1>2, <1>3 DEF RowAfter

\* The record a command opens has the type of a settle window.
LEMMA OpenedType ==
    ASSUME NEW wanted \in Commands, NEW row \in Value, NEW g \in Gens
    PROVE  Opened(wanted, row, g) \in Settle
  BY SettleAssumption DEF Opened, Settle

\* What every entity writes when it is told is a face, or nothing when unlisted.
LEMMA FacesType ==
    ASSUME NEW rs \in [Cues -> Value \cup {None}], NEW st \in [Cues -> Settle \cup {None}]
    PROVE  Faces(rs, st) \in [Cues -> Face \cup {None}]
  BY DEF Faces, Face, Live

\* A call leaves the queue: what remains are calls still.
LEMMA AnsweredType ==
    ASSUME NEW seq \in Seq(Call), NEW i \in 1..Len(seq)
    PROVE  Answered(seq, i) \in Seq(Call)
  <1>1. SubSeq(seq, 1, i - 1) \in Seq(Call) /\ SubSeq(seq, i + 1, Len(seq)) \in Seq(Call)
    OBVIOUS
  <1> QED
    BY <1>1 DEF Answered

\* ... and each was asked by the entity it was asked by.
LEMMA AnsweredBy ==
    ASSUME NEW seq \in Seq(Call), NEW i \in 1..Len(seq), NEW now \in Gens,
           \A k \in 1..Len(seq) : seq[k].by <= now
    PROVE  \A k \in 1..Len(Answered(seq, i)) : Answered(seq, i)[k].by <= now
  <1> DEFINE rest == SubSeq(seq, 1, i - 1) \o SubSeq(seq, i + 1, Len(seq))
  <1>1. ASSUME NEW k \in 1..Len(rest)
        PROVE  rest[k].by <= now
    <2> DEFINE front == SubSeq(seq, 1, i - 1)
               back  == SubSeq(seq, i + 1, Len(seq))
    <2>1. /\ front \in Seq(Call) /\ Len(front) = i - 1
          /\ \A j \in 1..(i - 1) : front[j] = seq[j]
      OBVIOUS
    <2>2. /\ back \in Seq(Call) /\ Len(back) = Len(seq) - i
          /\ \A j \in 1..(Len(seq) - i) : back[j] = seq[i + j]
      OBVIOUS
    <2>3. /\ rest = front \o back
          /\ Len(rest) = Len(front) + Len(back)
          /\ rest[k] = IF k <= Len(front) THEN front[k] ELSE back[k - Len(front)]
      BY <2>1, <2>2, ConcatProperties
    <2>4. Len(seq) \in Nat /\ i \in Int
      OBVIOUS
    <2> HIDE DEF rest, front, back
    <2>5. k \in 1..(Len(seq) - 1)
      BY <2>1, <2>2, <2>3, <2>4
    <2>6. CASE k <= i - 1
      <3>1. k \in 1..(i - 1) /\ k \in 1..Len(seq)
        BY <2>4, <2>5, <2>6
      <3> QED
        BY <2>1, <2>3, <2>6, <3>1
    <2>7. CASE ~(k <= i - 1)
      <3>1. /\ k - (i - 1) \in 1..(Len(seq) - i)
            /\ i + (k - (i - 1)) = k + 1
            /\ k + 1 \in 1..Len(seq)
        BY <2>4, <2>5, <2>7
      <3>2. rest[k] = seq[k + 1]
        BY <2>1, <2>2, <2>3, <2>7, <3>1
      <3> QED
        BY <3>1, <3>2
    <2> QED
      BY <2>6, <2>7
  <1> QED
    BY <1>1 DEF Answered

-----------------------------------------------------------------------------
\* Cancelling, starting and sweeping timers keeps them timers.
Timers == [Cues -> [Gens -> 0..SettleTicks \cup {None}]]

\* ... all of them, whether one is swept, cancelled or started.
LEMMA TimersType ==
    ASSUME TypeOK, gen' = gen, NEW c \in Cues, NEW g \in Gens
    PROVE  /\ Swept \in Timers
           /\ [timers EXCEPT ![c][g] = None] \in Timers
           /\ [timers EXCEPT ![c][g] = EndDelay] \in Timers
           /\ [Swept EXCEPT ![c][g] = None] \in Timers
           /\ [Swept EXCEPT ![c][g] = EndDelay] \in Timers
  <1>1. timers \in Timers /\ gen \in [Cues -> Gens]
    BY DEF TypeOK, Timers
  <1>2. EndDelay \in 0..SettleTicks
    BY SettleAssumption DEF EndDelay
  <1>3. Swept \in Timers
    BY <1>1 DEF Swept, Timers
  <1> QED
    BY <1>1, <1>2, <1>3 DEF Timers

\* So does sweeping twice; no other cue's timer is touched by the second sweep.
LEMMA SweptTwiceType ==
    ASSUME TypeOK, gen' = gen, NEW c \in Cues, NEW published \in BOOLEAN
    PROVE  /\ SweptTwice(c, published) \in Timers
           /\ \A d \in Cues \ {c} : SweptTwice(c, published)[d] = Swept[d]
  <1>1. gen[c] \in Gens
    BY DEF TypeOK
  <1>2. Swept \in Timers /\ [Swept EXCEPT ![c][gen[c]] = None] \in Timers
    BY <1>1, TimersType
  <1> QED
    BY <1>2 DEF SweptTwice, Timers

\* A read applied to a listed cue keeps the types of all it touches.
LEMMA ApplyStateType ==
    ASSUME TypeOK, gen' = gen, NEW c \in Cues, NEW read \in Value, rows[c] # None,
           ApplyState(c, read)
    PROVE  /\ rows' \in [Cues -> Value \cup {None}]
           /\ settling' \in [Cues -> Settle \cup {None}]
           /\ timers' \in [Cues -> [Gens -> 0..SettleTicks \cup {None}]]
           /\ written' \in [Cues -> Face \cup {None}]
           /\ lastRead' \in [Cues -> Value \cup {None}]
           /\ overlapped' \in [Cues -> BOOLEAN]
  <1>1. settling[c] \in Settle \cup {None} /\ rows[c] \in Value
    BY DEF TypeOK
  <1>2. /\ RecordAfter(settling[c], read) \in Settle \cup {None}
        /\ RowAfter(rows[c], settling[c], read) \in Value
    BY <1>1, ReadTypes
  <1>3. /\ rows' \in [Cues -> Value \cup {None}]
        /\ settling' \in [Cues -> Settle \cup {None}]
        /\ lastRead' \in [Cues -> Value \cup {None}]
        /\ overlapped' \in [Cues -> BOOLEAN]
    BY <1>2 DEF ApplyState, TypeOK
  <1>4. Faces(rows', settling') \in [Cues -> Face \cup {None}]
    BY <1>3, FacesType
  <1>5. Swept \in [Cues -> [Gens -> 0..SettleTicks \cup {None}]]
    <2>1. gen[c] \in Gens
      BY DEF TypeOK
    <2> QED
      BY <2>1, TimersType DEF Timers
  <1> QED
    BY <1>3, <1>4, <1>5 DEF ApplyState, Tell, TypeOK

\* Type correctness at the start ...
LEMMA TypeInit == Init => TypeOK
  <1> SUFFICES ASSUME Init PROVE TypeOK
    OBVIOUS
  <1>1. 0 \in Gens
    BY SettleAssumption DEF Gens
  <1>2. written \in [Cues -> Face \cup {None}]
    BY FacesType DEF Init
  <1>3. calls \in [Cues -> Seq(Call)]
    BY DEF Init
  <1> QED
    BY <1>1, <1>2, <1>3 DEF Init, TypeOK, NoTimers

\* ... every step keeps the types, one action at a time.
LEMMA TypeStep == TypeOK /\ [Next]_vars => TypeOK'
  <1> SUFFICES ASSUME TypeOK, [Next]_vars PROVE TypeOK'
    OBVIOUS
  <1>1. ASSUME NEW c \in Cues, NEW read \in Value, Observe(c, read)
        PROVE  TypeOK'
    BY <1>1, ApplyStateType DEF Observe, TypeOK
  <1>2. ASSUME NEW c \in Cues, NEW wanted \in Commands, Press(c, wanted)
        PROVE  TypeOK'
    <2>1. [wanted |-> wanted, by |-> gen[c]] \in Call
      BY DEF TypeOK, Call
    <2>2. calls' \in [Cues -> Seq(Call)]
      BY <1>2, <2>1 DEF Press, TypeOK
    <2> QED
      BY <1>2, <2>2 DEF Press, TypeOK, history
  <1>3. ASSUME NEW c \in Cues, NEW i \in 1..Len(calls[c]), CallDoesNothing(c, i)
        PROVE  TypeOK'
    <2>1. calls' \in [Cues -> Seq(Call)]
      BY <1>3, AnsweredType DEF CallDoesNothing, TypeOK
    <2>2. written' \in [Cues -> Face \cup {None}]
      <3>1. Faces(rows, settling) \in [Cues -> Face \cup {None}]
        BY FacesType DEF TypeOK
      <3> QED
        BY <1>3, <3>1 DEF CallDoesNothing, TypeOK
    <2> QED
      BY <1>3, <2>1, <2>2 DEF CallDoesNothing, TypeOK, history
  <1>4. ASSUME NEW c \in Cues, NEW i \in 1..Len(calls[c]), Commanded(c, i)
        PROVE  /\ calls' \in [Cues -> Seq(Call)]
               /\ commanded' \in [Cues -> Commands \cup {None}]
               /\ calls[c][i] \in Call
    <2>1. calls[c] \in Seq(Call) /\ calls[c][i] \in Call
      BY DEF TypeOK
    <2>2. calls' \in [Cues -> Seq(Call)]
      BY <1>4, <2>1, AnsweredType DEF Commanded, TypeOK
    <2> QED
      BY <1>4, <2>1, <2>2 DEF Commanded, TypeOK, Call
  <1>5. ASSUME NEW c \in Cues, NEW i \in 1..Len(calls[c]), NEW report \in States \cup {None},
               CallOpens(c, i, report)
        PROVE  TypeOK'
    <2> DEFINE call  == calls[c][i]
               read  == [state |-> report, reason |-> NoReason]
               heard == report # None /\ rows[c] # None
               row   == IF heard THEN RowAfter(rows[c], settling[c], read) ELSE rows[c]
    <2>1. Commanded(c, i) /\ call \in Call /\ call.by \in Gens /\ call.wanted \in Commands
      BY <1>4, <1>5 DEF CallOpens, Call
    <2>2. CASE rows[c] = None
      <3>1. timers' \in Timers
        BY <1>5, <2>1, <2>2, TimersType DEF CallOpens
      <3> QED
        BY <1>4, <1>5, <2>1, <2>2, <3>1 DEF CallOpens, TypeOK, Timers
    <2>3. CASE rows[c] # None
      <3>1. heard => read \in Value
        BY SettleAssumption DEF Value
      <3>2. row \in Value
        BY <2>3, <3>1, ReadTypes DEF TypeOK
      <3>3. [row EXCEPT !.state = call.wanted] \in Value
        BY <2>1, <3>2 DEF Value, Commands, States
      <3>4. Opened(call.wanted, row, call.by) \in Settle
        BY <2>1, <3>2, OpenedType
      <3>5. /\ rows' \in [Cues -> Value \cup {None}]
            /\ settling' \in [Cues -> Settle \cup {None}]
        BY <1>5, <2>3, <3>3, <3>4 DEF CallOpens, TypeOK
      <3>6. written' \in [Cues -> Face \cup {None}]
        BY <1>5, <2>3, <3>5, FacesType DEF CallOpens, Tell
      <3>7. timers' \in Timers
        <4> DEFINE swept == SweptTwice(c, heard /\ Publishes(rows[c], settling[c], read))
        <4>1. swept \in Timers
          BY <1>5, SweptTwiceType DEF CallOpens
        <4>2. timers' = [swept EXCEPT ![c][call.by] = EndDelay]
          BY <1>5, <2>3 DEF CallOpens
        <4>3. EndDelay \in 0..SettleTicks
          BY SettleAssumption DEF EndDelay
        <4> HIDE DEF swept
        <4> QED
          BY <2>1, <4>1, <4>2, <4>3 DEF Timers
      <3>8. /\ lastRead' \in [Cues -> Value \cup {None}]
            /\ overlapped' \in [Cues -> BOOLEAN]
        BY <1>5, <2>3, <3>1 DEF CallOpens, TypeOK
      <3> QED
        BY <1>4, <1>5, <2>1, <3>5, <3>6, <3>7, <3>8 DEF CallOpens, TypeOK, Timers
    <2> QED
      BY <2>2, <2>3
  <1>6. ASSUME NEW c \in Cues, NEW i \in 1..Len(calls[c]), NEW report \in States \cup {None},
               CallContradicts(c, i, report)
        PROVE  TypeOK'
    <2> DEFINE read == [state |-> report, reason |-> NoReason]
    <2>1. read \in Value
      BY <1>6, SettleAssumption DEF CallContradicts, Value
    <2>2. CASE rows[c] = None
      BY <1>4, <1>6, <2>2 DEF CallContradicts, TypeOK
    <2>3. CASE rows[c] # None
      BY <1>4, <1>6, <2>1, <2>3, ApplyStateType DEF CallContradicts, TypeOK
    <2> QED
      BY <2>2, <2>3
  <1>7. ASSUME NEW manifest \in Manifests, Refetch(manifest)
        PROVE  TypeOK'
    <2>1. written' \in [Cues -> Face \cup {None}]
      BY <1>7, FacesType DEF Refetch, TypeOK, Manifests
    <2>2. gen' \in [Cues -> Gens]
      BY <1>7, SettleAssumption DEF Refetch, TypeOK, Gens
    <2>3. timers' \in Timers
      BY <1>7 DEF Refetch, TypeOK, Timers
    <2> QED
      BY <1>7, <2>1, <2>2, <2>3 DEF Refetch, TypeOK, Timers, Manifests
  <1>8. ASSUME Retell
        PROVE  TypeOK'
    <2>1. written' \in [Cues -> Face \cup {None}]
      BY <1>8, FacesType DEF Retell, Tell, TypeOK
    <2>2. timers' \in Timers
      <3>1. timers' = Swept /\ gen' = gen
        BY <1>8 DEF Retell, history
      <3>2. timers \in Timers /\ gen \in [Cues -> Gens]
        BY <1>8 DEF TypeOK, Timers
      <3> QED
        BY <3>1, <3>2 DEF Swept, Timers
    <2> QED
      BY <1>8, <2>1, <2>2 DEF Retell, TypeOK, Timers, history
  <1>9. ASSUME NEW c \in Cues, NEW g \in Gens, TimerFires(c, g)
        PROVE  TypeOK'
    <2>1. /\ rows' \in [Cues -> Value \cup {None}]
          /\ settling' \in [Cues -> Settle \cup {None}]
      <3>1. settling[c] # None => GivenBack(settling[c]) \in Value
        BY ReadTypes DEF TypeOK, GivenBack, Settle
      <3> QED
        BY <1>9, <3>1 DEF TimerFires, TypeOK
    <2>2. written' \in [Cues -> Face \cup {None}]
      <3>1. Faces(rows', settling') \in [Cues -> Face \cup {None}]
        BY <2>1, FacesType
      <3> QED
        BY <1>9, <3>1 DEF TimerFires, TypeOK, Tell
    <2>3. timers' \in Timers
      BY <1>9, TimersType DEF TimerFires
    <2> QED
      BY <1>9, <2>1, <2>2, <2>3 DEF TimerFires, TypeOK, Timers, history
  <1>10. ASSUME Tick
         PROVE  TypeOK'
    <2>1. ASSUME NEW c \in Cues, Live(settling[c])
          PROVE  [settling[c] EXCEPT !.age = @ + 1] \in Settle
      <3>1. settling[c] \in Settle /\ settling[c].age < SettleTicks
        BY <2>1 DEF Live, TypeOK
      <3> QED
        BY <3>1, SettleAssumption DEF Settle
    <2>2. settling' \in [Cues -> Settle \cup {None}]
      BY <1>10, <2>1 DEF Tick, TypeOK
    <2>3. timers' \in Timers
      BY <1>10, SettleAssumption DEF Tick, TypeOK, Timers
    <2> QED
      BY <1>10, <2>2, <2>3 DEF Tick, TypeOK, Timers, history
  <1>11. CASE UNCHANGED vars
    BY <1>11 DEF vars, history, TypeOK
  <1> QED
    BY <1>1, <1>2, <1>3, <1>5, <1>6, <1>7, <1>8, <1>9, <1>10, <1>11 DEF Next, CallAnswered

\* TypeOK: every variable keeps the shape the code gives it.
THEOREM TypeCorrect == Spec => []TypeOK
  BY TypeInit, TypeStep, PTL DEF Spec

-----------------------------------------------------------------------------
\* The rest of the inductive invariant, which the steps below carry over.
Kept == WritesItsRow /\ OpenedByNow /\ TimerBacksWindow /\ OwnTimerNotEarly
        /\ RowIsLastRead /\ GiveBackIsLastRead

\* Where all listeners are told and told switches sweep, what is written agrees
\* with the rows and the records, and a live window's timer is left as it was.
LEMMA ToldFaces ==
    ASSUME TypeOK, TypeOK', gen' = gen, Tell, NEW d \in Cues
    PROVE  /\ rows'[d] = None => written'[d] = None
           /\ rows'[d] # None => /\ written'[d] # None
                                 /\ written'[d].value = rows'[d]
                                 /\ written'[d].settling = Live(settling'[d])
           /\ rows'[d] # None /\ Live(settling'[d]) => Swept[d] = timers[d]
           /\ \A g \in Gens : Swept[d][g] \in {None, timers[d][g]}
  <1>1. rows'[d] # None => [value |-> rows'[d], settling |-> Live(settling'[d])] # None
    <2>1. rows'[d] # None => [value |-> rows'[d], settling |-> Live(settling'[d])] \in Face
      BY DEF TypeOK, Face, Live
    <2> QED
      BY <2>1, NoneAssumption
  <1>2. written'[d] = IF rows'[d] = None THEN None
                      ELSE [value |-> rows'[d], settling |-> Live(settling'[d])]
    BY DEF Tell, Faces
  <1>3. Swept[d] = IF rows'[d] = None \/ Live(settling'[d]) THEN timers[d]
                   ELSE [timers[d] EXCEPT ![gen[d]] = None]
    BY DEF Swept
  <1>4. timers[d] \in [Gens -> 0..SettleTicks \cup {None}] /\ gen[d] \in Gens
    BY DEF TypeOK
  <1> QED
    BY <1>1, <1>2, <1>3, <1>4

\* A read applied to a listed cue, by an event, a poll or a cue call's answer.
LEMMA ApplyStateKeeps ==
    ASSUME TypeOK, TypeOK', Kept, gen' = gen,
           NEW c \in Cues, NEW read \in Value, rows[c] # None, ApplyState(c, read)
    PROVE  /\ WritesItsRow' /\ TimerBacksWindow' /\ OwnTimerNotEarly'
           /\ RowIsLastRead' /\ GiveBackIsLastRead'
           /\ \A d \in Cues : settling'[d] # None => settling'[d].by <= gen[d]
  <1> DEFINE rec == settling[c]
  <1>1. /\ rec \in Settle \cup {None}
        /\ rows[c] \in Value
        /\ read # None
    BY NoneAssumption DEF TypeOK
  <1>2. /\ rows'[c] = RowAfter(rows[c], rec, read)
        /\ settling'[c] = RecordAfter(rec, read)
        /\ lastRead'[c] = read
        /\ overlapped'[c] = FALSE
        /\ \A d \in Cues \ {c} : /\ rows'[d] = rows[d]
                                 /\ settling'[d] = settling[d]
                                 /\ lastRead'[d] = lastRead[d]
                                 /\ overlapped'[d] = overlapped[d]
    BY DEF ApplyState, TypeOK
  <1>3. rows'[c] # None
    BY <1>1, <1>2, NoneAssumption DEF RowAfter
  <1>4. CASE Swallows(rec, read)
    <2>1. /\ settling'[c] = [rec EXCEPT !.contradictions = 1, !.held = read]
          /\ rows'[c] = rows[c]
          /\ rec \in Settle
      BY <1>1, <1>2, <1>4 DEF RecordAfter, RowAfter, Swallows, Live
    <2>2. /\ settling'[c].by = rec.by /\ settling'[c].age = rec.age /\ settling'[c].held = read
          /\ settling'[c] # None /\ rec # None
          /\ Live(settling'[c])
      <3>1. [rec EXCEPT !.contradictions = 1, !.held = read] \in Settle
        BY <2>1, 1 \in 0..1 DEF Settle
      <3> QED
        BY <1>4, <2>1, <3>1, NoneAssumption DEF Settle, Live, Swallows
    <2>3. written' = written /\ timers' = timers
      BY <1>4 DEF ApplyState, Publishes
    <2>4. WritesItsRow'
      BY <1>2, <2>1, <2>2, <2>3 DEF WritesItsRow, Kept
    <2>5. TimerBacksWindow'
      <3> SUFFICES ASSUME NEW d \in Cues, rows'[d] # None, settling'[d] # None,
                          settling'[d].by = gen[d],
                          Live(settling'[d]) \/ written[d].settling
                   PROVE  timers[d][gen[d]] # None
        BY <2>3 DEF TimerBacksWindow
      <3>1. /\ rows[d] # None /\ settling[d] # None
            /\ settling[d].by = gen[d]
            /\ Live(settling[d]) \/ written[d].settling
        BY <1>2, <1>4, <2>1, <2>2 DEF Swallows
      <3> QED
        BY <3>1 DEF TimerBacksWindow, Kept
    <2>6. OwnTimerNotEarly'
      <3> SUFFICES ASSUME NEW d \in Cues, settling'[d] # None, settling'[d].by = gen[d],
                          timers[d][gen[d]] # None
                   PROVE  timers[d][gen[d]] >= SettleTicks - settling'[d].age
        BY <2>3 DEF OwnTimerNotEarly
      <3>1. /\ settling[d] # None
            /\ settling[d].by = gen[d]
            /\ settling'[d].age = settling[d].age
        BY <1>2, <2>1, <2>2
      <3> QED
        BY <3>1 DEF OwnTimerNotEarly, Kept
    <2>7. RowIsLastRead'
      BY <1>2, <2>2 DEF RowIsLastRead, Kept
    <2>8. GivenBack(settling'[c]) = read
      BY <1>1, <2>2 DEF GivenBack
    <2>9. GiveBackIsLastRead'
      BY <1>2, <2>8 DEF GiveBackIsLastRead, Kept
    <2>10. \A d \in Cues : settling'[d] # None => settling'[d].by <= gen[d]
      BY <1>2, <2>2 DEF OpenedByNow, Kept
    <2> QED
      BY <2>4, <2>5, <2>6, <2>7, <2>9, <2>10
  <1>5. CASE ~Swallows(rec, read)
    <2>1. settling'[c] = None /\ rows'[c] = read
      BY <1>2, <1>5 DEF RecordAfter, RowAfter
    <2>2. GiveBackIsLastRead' /\ RowIsLastRead'
      BY <1>2, <2>1 DEF GiveBackIsLastRead, RowIsLastRead, Kept
    <2>3. \A d \in Cues : settling'[d] # None => settling'[d].by <= gen[d]
      BY <1>2, <2>1 DEF OpenedByNow, Kept
    <2>4. CASE Publishes(rows[c], rec, read)
      <3>1. Tell /\ timers' = Swept
        BY <2>4 DEF ApplyState
      <3>2. WritesItsRow'
        BY <3>1, ToldFaces DEF WritesItsRow, Live
      <3>3. TimerBacksWindow'
        BY <1>2, <2>1, <3>1, ToldFaces DEF TimerBacksWindow, Kept, Live
      <3>4. OwnTimerNotEarly'
        <4> SUFFICES ASSUME NEW d \in Cues, settling'[d] # None, settling'[d].by = gen[d],
                            Swept[d][gen[d]] # None
                     PROVE  Swept[d][gen[d]] >= SettleTicks - settling'[d].age
          BY <3>1 DEF OwnTimerNotEarly
        <4>1. settling'[d] = settling[d]
          BY <1>2, <2>1
        <4>2. Swept[d][gen[d]] = timers[d][gen[d]]
          BY <3>1, ToldFaces DEF TypeOK
        <4> QED
          BY <4>1, <4>2 DEF OwnTimerNotEarly, Kept
      <3> QED
        BY <2>2, <2>3, <3>2, <3>3, <3>4
    <2>5. CASE ~Publishes(rows[c], rec, read)
      <3>1. rec = None /\ rows[c] = read /\ written' = written /\ timers' = timers
        BY <1>5, <2>5 DEF ApplyState, Publishes
      <3> QED
        BY <1>2, <2>1, <2>2, <2>3, <3>1
        DEF WritesItsRow, TimerBacksWindow, OwnTimerNotEarly, Kept
    <2> QED
      BY <2>4, <2>5
  <1> QED
    BY <1>4, <1>5

\* The end of a window, by whichever entity's timer.
LEMMA TimerFiresKeeps ==
    ASSUME TypeOK, TypeOK', Kept, NEW c \in Cues, NEW g \in Gens, TimerFires(c, g)
    PROVE  Kept'
  <1>1. /\ settling'[c] = None
        /\ \A d \in Cues \ {c} : settling'[d] = settling[d] /\ rows'[d] = rows[d]
        /\ UNCHANGED <<gen, calls, lastRead, overlapped>>
    BY DEF TimerFires, history, TypeOK
  <1>2. GiveBackIsLastRead'
    BY <1>1 DEF GiveBackIsLastRead, Kept
  <1>3. OpenedByNow'
    BY <1>1 DEF OpenedByNow, Kept
  <1>4. CASE settling[c] = None \/ rows[c] = None
    <2>1. /\ rows' = rows /\ written' = written
          /\ \A d \in Cues \ {c} : timers'[d] = timers[d]
      BY <1>4 DEF TimerFires, TypeOK
    <2>2. WritesItsRow'
      BY <1>1, <1>4, <2>1 DEF WritesItsRow, Kept
    <2>3. TimerBacksWindow' /\ OwnTimerNotEarly' /\ RowIsLastRead'
      BY <1>1, <1>4, <2>1 DEF TimerBacksWindow, OwnTimerNotEarly, RowIsLastRead, Kept
    <2> QED
      BY <1>2, <1>3, <2>2, <2>3 DEF Kept
  <1>5. CASE settling[c] # None /\ rows[c] # None
    <2>1. /\ rows'[c] = GivenBack(settling[c])
          /\ Tell
          /\ \A d \in Cues \ {c} : timers'[d] = Swept[d]
      BY <1>5, TimersType DEF TimerFires, TypeOK, Timers
    <2>2. WritesItsRow'
      BY <1>1, <2>1, ToldFaces DEF WritesItsRow, Live
    <2>3. TimerBacksWindow'
      BY <1>1, <2>1, ToldFaces DEF TimerBacksWindow, Kept
    <2>4. OwnTimerNotEarly'
      <3> SUFFICES ASSUME NEW d \in Cues \ {c}, settling[d] # None, settling[d].by = gen[d],
                          Swept[d][gen[d]] # None
                   PROVE  Swept[d][gen[d]] >= SettleTicks - settling[d].age
        BY <1>1, <2>1 DEF OwnTimerNotEarly
      <3>1. Swept[d][gen[d]] = timers[d][gen[d]]
        BY <1>1, <2>1, ToldFaces DEF TypeOK
      <3> QED
        BY <3>1 DEF OwnTimerNotEarly, Kept
    <2>5. RowIsLastRead'
      BY <1>1, <1>5, <2>1 DEF RowIsLastRead, GiveBackIsLastRead, Kept
    <2> QED
      BY <1>2, <1>3, <2>2, <2>3, <2>4, <2>5 DEF Kept
  <1> QED
    BY <1>4, <1>5

\* A call that lands opens a window over the row it leaves behind.
LEMMA CallOpensKeeps ==
    ASSUME TypeOK, TypeOK', Kept, NEW c \in Cues, NEW i \in 1..Len(calls[c]),
           NEW report \in States \cup {None}, CallOpens(c, i, report)
    PROVE  Kept'
  <1> DEFINE call  == calls[c][i]
             read  == [state |-> report, reason |-> NoReason]
             heard == report # None /\ rows[c] # None
             row   == IF heard THEN RowAfter(rows[c], settling[c], read) ELSE rows[c]
             rec   == IF heard THEN RecordAfter(settling[c], read) ELSE settling[c]
  <1>1. call \in Call /\ call.by \in Gens /\ call.by <= gen[c] /\ gen' = gen
    <2>1. calls[c] \in Seq(Call)
      BY DEF TypeOK
    <2>2. call \in Call
      BY <2>1
    <2> QED
      BY <2>2 DEF Call, OpenedByNow, Kept, CallOpens
  <1>2. \A d \in Cues : \A k \in 1..Len(calls'[d]) : calls'[d][k].by <= gen[d]
    BY AnsweredBy DEF CallOpens, Commanded, TypeOK, OpenedByNow, Kept
  <1>3. CASE rows[c] = None
    <2>1. /\ UNCHANGED <<rows, settling, gen, written, lastRead, overlapped>>
          /\ timers' = [timers EXCEPT ![c][call.by] = EndDelay]
      BY <1>3 DEF CallOpens
    <2>2. OpenedByNow'
      BY <1>2, <2>1 DEF OpenedByNow, Kept
    <2>3. \A d \in Cues : \/ timers'[d][gen[d]] = timers[d][gen[d]]
                          \/ d = c /\ timers'[d][gen[d]] = SettleTicks
      BY <2>1 DEF TypeOK, EndDelay
    <2>4. OwnTimerNotEarly'
      <3> SUFFICES ASSUME NEW d \in Cues, settling[d] # None, settling[d].by = gen[d],
                          timers'[d][gen[d]] # None
                   PROVE  timers'[d][gen[d]] >= SettleTicks - settling[d].age
        BY <2>1 DEF OwnTimerNotEarly
      <3>1. settling[d].age \in 0..SettleTicks
        BY DEF TypeOK, Settle
      <3> QED
        BY <2>3, <3>1, SettleAssumption DEF OwnTimerNotEarly, Kept
    <2>5. TimerBacksWindow'
      BY <1>3, <2>1, <2>3 DEF TimerBacksWindow, Kept
    <2> QED
      BY <2>1, <2>2, <2>4, <2>5 DEF Kept, WritesItsRow, RowIsLastRead, GiveBackIsLastRead
  <1>4. CASE rows[c] # None
    <2> DEFINE opened == Opened(call.wanted, row, call.by)
    <2>1. heard => read \in Value
      BY SettleAssumption DEF Value
    <2>2. row \in Value /\ rows[c] \in Value
      BY <1>4, <2>1, ReadTypes DEF TypeOK
    <2>3. opened \in Settle /\ opened # None
      BY <1>1, <2>2, OpenedType, NoneAssumption DEF Call
    <2>4. /\ settling'[c] = opened
          /\ lastRead'[c] = IF heard THEN read ELSE lastRead[c]
          /\ overlapped'[c] = (rec # None \/ (~heard /\ overlapped[c]))
          /\ \A d \in Cues \ {c} : /\ rows'[d] = rows[d]
                                   /\ settling'[d] = settling[d]
                                   /\ lastRead'[d] = lastRead[d]
                                   /\ overlapped'[d] = overlapped[d]
          /\ Tell
      BY <1>4 DEF CallOpens, TypeOK
    <2>5. /\ opened.by = call.by /\ opened.age = 0
          /\ opened.previous = row /\ opened.held = None
      BY DEF Opened
    <2>6. /\ \A d \in Cues \ {c} : timers'[d] = Swept[d]
          /\ opened.by = gen[c] => timers'[c][gen[c]] = SettleTicks
      <3> DEFINE swept == SweptTwice(c, heard /\ Publishes(rows[c], settling[c], read))
      <3>1. swept \in Timers /\ \A d \in Cues \ {c} : swept[d] = Swept[d]
        BY <1>1, SweptTwiceType DEF CallOpens
      <3>2. timers' = [swept EXCEPT ![c][call.by] = SettleTicks]
        BY <1>4 DEF CallOpens, EndDelay
      <3>3. call.by \in Gens
        BY <1>1 DEF Call
      <3> HIDE DEF swept
      <3> QED
        BY <2>5, <3>1, <3>2, <3>3 DEF Timers
    <2>7. WritesItsRow'
      BY <2>3, <2>4, <1>1, ToldFaces DEF WritesItsRow, Live
    <2>8. OpenedByNow'
      BY <1>1, <1>2, <2>4, <2>5 DEF OpenedByNow, Kept
    <2>9. TimerBacksWindow'
      BY <1>1, <2>4, <2>6, ToldFaces, SettleAssumption, NoneAssumption DEF TimerBacksWindow, Kept
    <2>10. OwnTimerNotEarly'
      <3> SUFFICES ASSUME NEW d \in Cues, settling'[d] # None, settling'[d].by = gen[d],
                          timers'[d][gen[d]] # None
                   PROVE  timers'[d][gen[d]] >= SettleTicks - settling'[d].age
        BY <1>1 DEF OwnTimerNotEarly
      <3>1. CASE d = c
        BY <2>4, <2>5, <2>6, <3>1, SettleAssumption
      <3>2. CASE d # c
        <4>1. timers'[d][gen[d]] = timers[d][gen[d]]
          <5>1. Swept[d][gen[d]] \in {None, timers[d][gen[d]]}
            BY <1>1, <2>4, ToldFaces DEF TypeOK
          <5> QED
            BY <2>6, <3>2, <5>1
        <4> QED
          BY <2>4, <3>2, <4>1 DEF OwnTimerNotEarly, Kept
      <3> QED
        BY <3>1, <3>2
    <2>11. RowIsLastRead'
      BY <2>3, <2>4 DEF RowIsLastRead, Kept
    <2>12. ASSUME ~overlapped'[c]
           PROVE  row = lastRead'[c]
      <3>1. rec = None /\ (heard \/ ~overlapped[c])
        BY <2>4, <2>12
      <3>2. CASE heard
        <4>1. ~Swallows(settling[c], read)
          <5>1. ASSUME Swallows(settling[c], read)
                PROVE  rec \in Settle
            <6>1. settling[c] \in Settle
              BY <5>1 DEF Swallows, Live, TypeOK
            <6> QED
              BY <2>1, <3>2, <5>1, <6>1, 1 \in 0..1 DEF RecordAfter, Settle
          <5> QED
            BY <3>1, <5>1, NoneAssumption
        <4> QED
          BY <2>4, <3>2, <4>1 DEF RowAfter
      <3>3. CASE ~heard
        BY <1>4, <2>4, <3>1, <3>3 DEF RowIsLastRead, Kept
      <3> QED
        BY <3>2, <3>3
    <2>13. GivenBack(opened) = row
      BY <2>5 DEF GivenBack
    <2>14. GiveBackIsLastRead'
      BY <2>4, <2>12, <2>13 DEF GiveBackIsLastRead, Kept
    <2> QED
      BY <2>7, <2>8, <2>9, <2>10, <2>11, <2>14 DEF Kept
  <1> QED
    BY <1>3, <1>4

\* The manifest read again, over whatever windows are open.
LEMMA RefetchKeeps ==
    ASSUME TypeOK, TypeOK', Kept, NEW manifest \in Manifests, Refetch(manifest)
    PROVE  Kept'
  <1>1. /\ rows' = manifest /\ lastRead' = manifest
        /\ settling' = settling /\ calls' = calls
        /\ overlapped' = [d \in Cues |-> settling[d] # None]
        /\ Tell
        /\ \A d \in Cues : /\ gen'[d] = IF rows[d] = None /\ manifest[d] # None
                                      THEN gen[d] + 1 ELSE gen[d]
                          /\ timers'[d] = IF \/ rows[d] # None /\ manifest[d] = None
                                             \/ rows[d] # None /\ ~Live(settling[d])
                                          THEN [timers[d] EXCEPT ![gen[d]] = None]
                                          ELSE timers[d]
    BY DEF Refetch, Tell
  <1>2. /\ timers \in [Cues -> [Gens -> 0..SettleTicks \cup {None}]]
        /\ gen \in [Cues -> 0..MaxGen] /\ gen \in [Cues -> Gens]
        /\ settling \in [Cues -> Settle \cup {None}]
    BY DEF TypeOK, Gens
  <1>3. ASSUME NEW d \in Cues
        PROVE  IF rows'[d] = None THEN written'[d] = None
               ELSE /\ written'[d] # None
                    /\ written'[d].value = rows'[d]
                    /\ written'[d].settling = Live(settling'[d])
    <2>1. rows'[d] # None => [value |-> rows'[d], settling |-> Live(settling'[d])] \in Face
      BY DEF TypeOK, Face, Live
    <2> QED
      BY <1>1, <2>1, NoneAssumption DEF Tell, Faces
  <1>4. WritesItsRow'
    BY <1>3 DEF WritesItsRow, Live
  <1>5. ASSUME NEW d \in Cues
        PROVE  gen[d] <= gen'[d] /\ gen[d] \in Int /\ gen'[d] \in Int
    <2>1. gen[d] \in Int
      BY <1>2
    <2>2. gen'[d] = gen[d] + 1 \/ gen'[d] = gen[d]
      BY <1>1
    <2> QED
      BY <2>1, <2>2
  <1>6. ASSUME NEW d \in Cues, settling[d] # None, settling[d].by = gen'[d]
        PROVE  gen'[d] = gen[d] /\ (rows[d] # None \/ manifest[d] = None)
    <2>1. settling[d].by <= gen[d]
      BY <1>6 DEF OpenedByNow, Kept
    <2>2. ~(rows[d] = None /\ manifest[d] # None)
      <3> SUFFICES ASSUME rows[d] = None, manifest[d] # None PROVE FALSE
        OBVIOUS
      <3>1. gen'[d] = gen[d] + 1 /\ gen'[d] <= gen[d]
        BY <1>1, <1>6, <2>1
      <3> QED
        BY <1>5, <3>1
    <2> QED
      BY <1>1, <2>2
  <1>7. OpenedByNow'
    <2> SUFFICES ASSUME NEW d \in Cues
                 PROVE  /\ settling[d] # None => settling[d].by <= gen'[d]
                        /\ \A i \in 1..Len(calls[d]) : calls[d][i].by <= gen'[d]
      BY <1>1 DEF OpenedByNow
    <2>1. settling[d] # None => settling[d].by \in Int
      BY <1>2 DEF Settle, Gens
    <2>2. \A i \in 1..Len(calls[d]) : calls[d][i].by \in Int
      <3>1. calls[d] \in Seq(Call)
        BY DEF TypeOK
      <3>2. \A call \in Call : call.by \in Int
        BY DEF Call, Gens
      <3>3. \A i \in 1..Len(calls[d]) : calls[d][i] \in Call
        BY <3>1
      <3> QED
        BY <3>2, <3>3
    <2> QED
      BY <1>5, <2>1, <2>2 DEF OpenedByNow, Kept
  <1>8. TimerBacksWindow'
    <2> SUFFICES ASSUME NEW d \in Cues, manifest[d] # None, settling[d] # None,
                        settling[d].by = gen'[d], Live(settling[d])
                 PROVE  timers'[d][gen'[d]] # None
      BY <1>1, <1>3 DEF TimerBacksWindow
    <2>1. gen'[d] = gen[d] /\ rows[d] # None
      BY <1>6
    <2> QED
      BY <1>1, <2>1 DEF TimerBacksWindow, Kept
  <1>9. OwnTimerNotEarly'
    <2> SUFFICES ASSUME NEW d \in Cues, settling[d] # None, settling[d].by = gen'[d],
                        timers'[d][gen'[d]] # None
                 PROVE  timers'[d][gen'[d]] >= SettleTicks - settling[d].age
      BY <1>1 DEF OwnTimerNotEarly
    <2>1. gen'[d] = gen[d]
      BY <1>6
    <2>2. timers'[d][gen[d]] = timers[d][gen[d]]
      BY <1>1, <1>2, <2>1
    <2> QED
      BY <2>1, <2>2 DEF OwnTimerNotEarly, Kept
  <1>10. RowIsLastRead' /\ GiveBackIsLastRead'
    BY <1>1 DEF RowIsLastRead, GiveBackIsLastRead
  <1> QED
    BY <1>4, <1>7, <1>8, <1>9, <1>10 DEF Kept

\* Time passing brings records and timers on together.
LEMMA TickKeeps ==
    ASSUME TypeOK, TypeOK', Kept, Tick
    PROVE  Kept'
  <1>1. UNCHANGED <<rows, gen, calls, written, lastRead, overlapped>>
    BY DEF Tick, history
  <1>2. ASSUME NEW d \in Cues, settling'[d] # None
        PROVE  /\ settling[d] # None
               /\ settling'[d].by = settling[d].by
               /\ GivenBack(settling'[d]) = GivenBack(settling[d])
               /\ Live(settling'[d]) => Live(settling[d])
               /\ settling[d].age \in 0..SettleTicks
               /\ settling'[d].age = IF settling[d].age < SettleTicks
                                     THEN settling[d].age + 1 ELSE settling[d].age
    <2>1. settling[d] # None
      BY <1>2 DEF Tick, Live
    <2>2. settling[d] \in Settle
      BY <2>1 DEF TypeOK
    <2>3. settling'[d] = IF settling[d].age < SettleTicks
                         THEN [settling[d] EXCEPT !.age = @ + 1] ELSE settling[d]
      BY <2>1 DEF Tick, Live
    <2> QED
      BY <2>1, <2>2, <2>3, SettleAssumption DEF Settle, GivenBack, Live
  <1>3. ASSUME NEW d \in Cues, settling'[d] = None
        PROVE  settling[d] = None
    <2>1. settling[d] # None => [settling[d] EXCEPT !.age = @ + 1] # None
      <3> SUFFICES ASSUME settling[d] # None, [settling[d] EXCEPT !.age = @ + 1] = None
                   PROVE  FALSE
        OBVIOUS
      <3>1. settling[d] \in Settle
        BY DEF TypeOK
      <3>2. CASE Live(settling[d])
        <4>1. [settling[d] EXCEPT !.age = @ + 1] \in Settle
          BY <3>1, <3>2, SettleAssumption DEF Live, Settle
        <4> QED
          BY <4>1, NoneAssumption
      <3>3. CASE ~Live(settling[d])
        BY <1>3, <3>3 DEF Tick
      <3> QED
        BY <3>2, <3>3
    <2> QED
      BY <1>3, <2>1 DEF Tick
  <1>4. ASSUME NEW d \in Cues
        PROVE  LET now == timers[d][gen[d]] IN
               /\ now \in 0..SettleTicks \cup {None}
               /\ timers'[d][gen[d]] = IF now \in {None, 0} THEN now ELSE now - 1
               /\ timers'[d][gen[d]] = None <=> now = None
    <2>1. gen[d] \in Gens /\ timers[d] \in [Gens -> 0..SettleTicks \cup {None}]
      BY DEF TypeOK
    <2>2. timers'[d][gen[d]] = IF timers[d][gen[d]] \in {None, 0} THEN timers[d][gen[d]]
                               ELSE timers[d][gen[d]] - 1
      BY <2>1 DEF Tick
    <2>3. None \notin Nat
      BY NoneAssumption
    <2> QED
      BY <2>1, <2>2, <2>3, SettleAssumption
  <1>5. WritesItsRow'
    BY <1>1, <1>3 DEF WritesItsRow, Kept
  <1>6. OpenedByNow'
    BY <1>1, <1>2 DEF OpenedByNow, Kept
  <1>7. TimerBacksWindow'
    BY <1>1, <1>2, <1>4 DEF TimerBacksWindow, Kept
  <1>8. OwnTimerNotEarly'
    <2> SUFFICES ASSUME NEW d \in Cues, settling'[d] # None, settling'[d].by = gen[d],
                        timers'[d][gen[d]] # None
                 PROVE  timers'[d][gen[d]] >= SettleTicks - settling'[d].age
      BY <1>1 DEF OwnTimerNotEarly
    <2>1. timers[d][gen[d]] # None /\ timers[d][gen[d]] \in 0..SettleTicks
      BY <1>4
    <2>2. timers[d][gen[d]] >= SettleTicks - settling[d].age
      BY <1>2, <2>1 DEF OwnTimerNotEarly, Kept
    <2> QED
      BY <1>2, <1>4, <2>1, <2>2, SettleAssumption
  <1>9. RowIsLastRead' /\ GiveBackIsLastRead'
    BY <1>1, <1>2, <1>3 DEF RowIsLastRead, GiveBackIsLastRead, Kept
  <1> QED
    BY <1>5, <1>6, <1>7, <1>8, <1>9 DEF Kept

-----------------------------------------------------------------------------
\* The invariant's parts hold at the start, where no window is open ...
LEMMA KeptInit == Init => Kept
  <1> SUFFICES ASSUME Init PROVE Kept
    OBVIOUS
  <1>1. WritesItsRow
    <2> SUFFICES ASSUME NEW d \in Cues
                 PROVE  IF rows[d] = None THEN written[d] = None
                        ELSE /\ written[d] # None
                             /\ written[d].value = rows[d]
                             /\ ~written[d].settling
      BY DEF WritesItsRow
    <2>1. rows[d] # None => [value |-> rows[d], settling |-> FALSE] \in Face
      BY DEF Init, Face
    <2> QED
      BY <2>1, NoneAssumption DEF Init, Faces, Live
  <1>2. OpenedByNow
    <2>1. \A d \in Cues : settling[d] = None /\ calls[d] = <<>>
      BY DEF Init
    <2>2. Len(<<>>) = 0
      OBVIOUS
    <2> QED
      BY <2>1, <2>2 DEF OpenedByNow
  <1> QED
    BY <1>1, <1>2
    DEF Init, Kept, TimerBacksWindow, OwnTimerNotEarly, RowIsLastRead, GiveBackIsLastRead

\* ... and every step of the switch, the server and the clock keeps them.
LEMMA KeptStep == TypeOK /\ Kept /\ [Next]_vars => Kept'
  <1> SUFFICES ASSUME TypeOK, Kept, [Next]_vars PROVE Kept'
    OBVIOUS
  <1> TypeOK'
    BY TypeStep
  <1>1. ASSUME NEW c \in Cues, NEW read \in Value, Observe(c, read)
        PROVE  Kept'
    <2>1. gen' = gen /\ calls' = calls
      BY <1>1 DEF Observe
    <2> QED
      BY <1>1, <2>1, ApplyStateKeeps DEF Observe, Kept, OpenedByNow
  <1>2. ASSUME NEW c \in Cues, NEW wanted \in Commands, Press(c, wanted)
        PROVE  Kept'
    <2>1. UNCHANGED <<rows, settling, gen, timers, commanded, written, history>>
      BY <1>2 DEF Press
    <2>2. OpenedByNow'
      <3> SUFFICES ASSUME NEW d \in Cues, NEW i \in 1..Len(calls'[d])
                   PROVE  calls'[d][i].by <= gen[d]
        BY <2>1 DEF OpenedByNow, Kept
      <3>1. calls[d] \in Seq(Call) /\ gen[d] \in Int
        BY DEF TypeOK, Gens
      <3>2. \/ calls'[d] = calls[d]
            \/ calls'[d] = Append(calls[d], [wanted |-> wanted, by |-> gen[d]])
        BY <1>2 DEF Press, TypeOK
      <3> QED
        BY <3>1, <3>2 DEF OpenedByNow, Kept
    <2> QED
      BY <2>1, <2>2
      DEF Kept, WritesItsRow, TimerBacksWindow, OwnTimerNotEarly, RowIsLastRead,
          GiveBackIsLastRead, history
  <1>3. ASSUME NEW c \in Cues, NEW i \in 1..Len(calls[c]), CallDoesNothing(c, i)
        PROVE  Kept'
    <2>1. UNCHANGED <<rows, settling, gen, timers, commanded, history>>
      BY <1>3 DEF CallDoesNothing
    <2>2. OpenedByNow'
      BY <1>3, <2>1, AnsweredBy DEF CallDoesNothing, OpenedByNow, Kept, TypeOK
    <2>3. ASSUME NEW d \in Cues
          PROVE  \/ written'[d] = written[d]
                 \/ /\ rows[d] # None
                    /\ written'[d] = [value |-> rows[d], settling |-> Live(settling[d])]
      BY <1>3 DEF CallDoesNothing, Mine, Faces, TypeOK
    <2>4. ASSUME NEW d \in Cues, rows[d] # None
          PROVE  [value |-> rows[d], settling |-> Live(settling[d])] # None
      <3>1. [value |-> rows[d], settling |-> Live(settling[d])] \in Face
        BY <2>4 DEF TypeOK, Face, Live
      <3> QED
        BY <3>1, NoneAssumption
    <2>5. WritesItsRow'
      <3> SUFFICES ASSUME NEW d \in Cues
                   PROVE  IF rows[d] = None THEN written'[d] = None
                          ELSE /\ written'[d] # None
                               /\ written'[d].value = rows[d]
                               /\ written'[d].settling => settling[d] # None
        BY <2>1 DEF WritesItsRow
      <3>1. CASE written'[d] = written[d]
        BY <3>1 DEF WritesItsRow, Kept
      <3>2. CASE rows[d] # None /\ written'[d] = [value |-> rows[d], settling |-> Live(settling[d])]
        <4>1. written'[d] # None /\ written'[d].value = rows[d]
          BY <2>4, <3>2
        <4>2. written'[d].settling => Live(settling[d])
          BY <3>2
        <4> QED
          BY <3>2, <4>1, <4>2 DEF Live
      <3> QED
        BY <2>3, <3>1, <3>2
    <2>6. TimerBacksWindow'
      <3> SUFFICES ASSUME NEW d \in Cues, rows[d] # None, settling[d] # None,
                          settling[d].by = gen[d], Live(settling[d]) \/ written'[d].settling
                   PROVE  timers[d][gen[d]] # None
        BY <2>1 DEF TimerBacksWindow
      <3>1. CASE written'[d] = written[d]
        BY <3>1 DEF TimerBacksWindow, Kept
      <3>2. CASE written'[d] = [value |-> rows[d], settling |-> Live(settling[d])]
        BY <3>2 DEF TimerBacksWindow, Kept
      <3> QED
        BY <2>3, <3>1, <3>2
    <2> QED
      BY <2>1, <2>2, <2>5, <2>6
      DEF Kept, OwnTimerNotEarly, RowIsLastRead, GiveBackIsLastRead, history
  <1>4. ASSUME NEW c \in Cues, NEW i \in 1..Len(calls[c]), NEW report \in States \cup {None},
               CallContradicts(c, i, report)
        PROVE  Kept'
    <2> DEFINE read == [state |-> report, reason |-> NoReason]
    <2>1. gen' = gen /\ read \in Value
      BY <1>4, SettleAssumption DEF CallContradicts, Value
    <2>2. \A d \in Cues : \A k \in 1..Len(calls'[d]) : calls'[d][k].by <= gen[d]
      BY <1>4, AnsweredBy DEF CallContradicts, Commanded, TypeOK, OpenedByNow, Kept
    <2>3. CASE rows[c] = None
      <3>1. UNCHANGED <<rows, settling, timers, written, lastRead, overlapped>>
        BY <1>4, <2>3 DEF CallContradicts
      <3> QED
        BY <2>1, <2>2, <3>1
        DEF Kept, WritesItsRow, OpenedByNow, TimerBacksWindow, OwnTimerNotEarly, RowIsLastRead,
            GiveBackIsLastRead
    <2>4. CASE rows[c] # None
      BY <1>4, <2>1, <2>2, <2>4, ApplyStateKeeps DEF CallContradicts, Kept, OpenedByNow
    <2> QED
      BY <2>3, <2>4
  <1>5. ASSUME Retell
        PROVE  Kept'
    <2>1. UNCHANGED <<rows, settling, gen, calls, lastRead, overlapped>> /\ Tell
      BY <1>5 DEF Retell, history, Tell
    <2>2. timers' = Swept
      BY <1>5, <2>1 DEF Retell, Swept
    <2>3. WritesItsRow'
      BY <2>1, ToldFaces DEF WritesItsRow, Live
    <2>4. TimerBacksWindow'
      BY <2>1, <2>2, ToldFaces DEF TimerBacksWindow, Kept
    <2>5. OwnTimerNotEarly'
      <3> SUFFICES ASSUME NEW d \in Cues, settling[d] # None, settling[d].by = gen[d],
                          Swept[d][gen[d]] # None
                   PROVE  Swept[d][gen[d]] >= SettleTicks - settling[d].age
        BY <2>1, <2>2 DEF OwnTimerNotEarly
      <3>1. Swept[d][gen[d]] = timers[d][gen[d]]
        BY <2>1, ToldFaces DEF TypeOK
      <3> QED
        BY <3>1 DEF OwnTimerNotEarly, Kept
    <2> QED
      BY <2>1, <2>3, <2>4, <2>5 DEF Kept, OpenedByNow, RowIsLastRead, GiveBackIsLastRead
  <1>6. CASE UNCHANGED vars
    BY <1>6
    DEF vars, history, Kept, WritesItsRow, OpenedByNow, TimerBacksWindow, OwnTimerNotEarly,
        RowIsLastRead, GiveBackIsLastRead
  <1> QED
    BY <1>1, <1>2, <1>3, <1>4, <1>5, <1>6, CallOpensKeeps, RefetchKeeps, TimerFiresKeeps, TickKeeps
    DEF Next, CallAnswered

\* IInv, the inductive invariant, holds of every behaviour: the four properties
\* below are parts of it or follow from it.
THEOREM Inductive == Spec => []IInv
  <1>1. IInv <=> TypeOK /\ Kept
    BY DEF IInv, Kept
  <1>2. Init => TypeOK /\ Kept
    BY TypeInit, KeptInit
  <1>3. TypeOK /\ Kept /\ [Next]_vars => (TypeOK /\ Kept)'
    BY TypeStep, KeptStep
  <1> QED
    BY <1>1, <1>2, <1>3, PTL DEF Spec

\* GiveBackIsLastRead: what a window gives back is what was last read.
THEOREM GiveBackCorrect == Spec => []GiveBackIsLastRead
  <1>1. IInv => GiveBackIsLastRead
    BY DEF IInv
  <1> QED
    BY <1>1, Inductive, PTL

\* ShowsLastRead: a command leaves no trace once its window is gone.
THEOREM ShownCorrect == Spec => []ShowsLastRead
  <1>1. IInv => ShowsLastRead
    <2> SUFFICES ASSUME IInv, NEW c \in Cues, settling[c] = None, ~overlapped[c], rows[c] # None
                 PROVE  /\ rows[c] = lastRead[c]
                        /\ written[c] = [value |-> lastRead[c], settling |-> FALSE]
      BY DEF ShowsLastRead
    <2>1. rows[c] = lastRead[c]
      BY DEF IInv, RowIsLastRead
    <2>2. written[c] \in Face /\ written[c].value = rows[c] /\ ~written[c].settling
      BY DEF IInv, WritesItsRow, TypeOK
    <2> QED
      BY <2>1, <2>2 DEF Face
  <1> QED
    BY <1>1, Inductive, PTL

\* SettlingIsBacked: what shows as settling has a record, and its opener a timer.
THEOREM BackedCorrect == Spec => []SettlingIsBacked
  <1>1. IInv => SettlingIsBacked
    BY DEF IInv, SettlingIsBacked, WritesItsRow, TimerBacksWindow
  <1> QED
    BY <1>1, Inductive, PTL

\* OwnTimerNotEarly: an entity's timer never ends its own window early.
THEOREM NotEarlyCorrect == Spec => []OwnTimerNotEarly
  <1>1. IInv => OwnTimerNotEarly
    BY DEF IInv
  <1> QED
    BY <1>1, Inductive, PTL

-----------------------------------------------------------------------------
(***************************************************************************)
(* SettleWindow keeps the promise of SwitchPromise: its initial states are  *)
(* initial states there, and each of its steps is a step there or changes  *)
(* nothing that is shown, heard or owed.                                   *)
(***************************************************************************)

\* What is owed of every cue.
Owed == [c \in Cues |-> Debt(settling[c])]

\* A window that lives is shown as settling, so that no step of another cue shows
\* it as settling anew.
LiveShown ==
    \A c \in Cues : rows[c] # None /\ Live(settling[c]) => written[c].settling

\* All the refinement needs of a state.
Good == TypeOK /\ Kept /\ LiveShown

-----------------------------------------------------------------------------
\* A face is its value and its flag.
LEMMA FaceIs ==
    ASSUME NEW f \in Face, NEW g \in Face, f.value = g.value, f.settling = g.settling
    PROVE  f = g
  BY DEF Face

\* Cues whose rows and windows are left alone fade at most when they are told.
LEMMA ToldFades ==
    ASSUME Good, TypeOK', gen' = gen, Tell, NEW d \in Cues,
           rows'[d] = rows[d], settling'[d] = settling[d]
    PROVE  written'[d] \in Promise!Fading(written[d])
  <1>1. CASE rows[d] = None
    <2>1. written[d] = None /\ written'[d] = None
      BY <1>1, ToldFaces DEF Good, Kept, WritesItsRow
    <2> QED
      BY <2>1 DEF Promise!Fading
  <1>2. CASE rows[d] # None
    <2>1. /\ written[d] # None /\ written[d].value = rows[d]
          /\ Live(settling[d]) => written[d].settling
          /\ written[d] \in Face
      BY <1>2 DEF Good, Kept, WritesItsRow, LiveShown, TypeOK
    <2>2. /\ written'[d] # None /\ written'[d].value = rows[d]
          /\ written'[d].settling = Live(settling[d])
      BY <1>2, ToldFaces DEF Good
    <2>3. written'[d] \in Face
      BY <2>2 DEF TypeOK
    <2>4. CASE Live(settling[d])
      <3>1. written[d].settling \in BOOLEAN /\ written'[d].settling \in BOOLEAN
        BY <2>1, <2>3 DEF Face
      <3>2. written'[d].settling = written[d].settling
        BY <2>1, <2>2, <2>4, <3>1
      <3>3. written'[d] = written[d]
        BY <2>1, <2>2, <2>3, <3>2, FaceIs
      <3> QED
        BY <2>1, <3>3 DEF Promise!Fading
    <2>5. CASE ~Live(settling[d])
      <3>1. written'[d].settling = FALSE
        BY <2>2, <2>5 DEF Live
      <3>2. written'[d] = [value |-> written[d].value, settling |-> FALSE]
        BY <2>1, <2>2, <2>3, <3>1 DEF Face
      <3> QED
        BY <2>1, <3>2 DEF Promise!Fading, Promise!Read
    <2> QED
      BY <2>4, <2>5
  <1> QED
    BY <1>1, <1>2

\* One cue turns when the others fade at most and owe what they did.
LEMMA TurnsOne ==
    ASSUME TypeOK, TypeOK', NEW c \in Cues, NEW face, NEW debt,
           written'[c] = face, Debt(settling'[c]) = debt,
           \A d \in Cues \ {c} : /\ settling'[d] = settling[d]
                                 /\ written'[d] \in Promise!Fading(written[d])
    PROVE  Promise!Turns(c, face, debt)
  <1>1. written' \in [Cues -> Promise!Face \cup {None}]
    BY DEF TypeOK, Face, Value, States, Promise!Face, Promise!Value, Promise!States
  <1>2. Owed' = [Owed EXCEPT ![c] = debt]
    BY DEF Owed
  <1> QED
    BY <1>1, <1>2 DEF Promise!Turns, Owed

\* A record is a debt, and nothing else is.
LEMMA DebtIs ==
    ASSUME NEW rec \in Settle
    PROVE  /\ Debt(rec) \in Promise!Debt
           /\ Debt(rec).command = rec.state
           /\ Debt(rec).back = GivenBack(rec)
           /\ rec.contradictions = 0 => Debt(rec).spent = FALSE
  <1>1. rec # None
    BY NoneAssumption
  <1>2. GivenBack(rec) \in Value
    BY <1>1, ReadTypes DEF GivenBack, Settle
  <1>3. Debt(rec) = [command |-> rec.state, back |-> GivenBack(rec),
                     spent |-> rec.contradictions = 1]
    BY <1>1 DEF Debt
  <1>4. rec.state \in Promise!Commands /\ GivenBack(rec) \in Promise!Value
    BY <1>2 DEF Settle, Commands, Value, States, Promise!Commands, Promise!Value, Promise!States
  <1>5. Debt(rec) \in Promise!Debt /\ Debt(rec).command = rec.state
        /\ Debt(rec).back = GivenBack(rec)
    BY <1>3, <1>4 DEF Promise!Debt
  <1>6. CASE rec.contradictions = 0
    <2>1. (rec.contradictions = 1) = FALSE
      BY <1>6
    <2>2. Debt(rec) = [command |-> rec.state, back |-> GivenBack(rec), spent |-> FALSE]
      BY <1>1, <2>1 DEF Debt
    <2> QED
      BY <1>5, <2>2
  <1> QED
    BY <1>5, <1>6

\* A listed cue shows its row, and settling only over a record.
LEMMA ListedShows ==
    ASSUME Good, NEW c \in Cues
    PROVE  /\ rows[c] = None => written[c] = None
           /\ rows[c] # None => /\ written[c] # None
                                /\ written[c] \in Face
                                /\ written[c].value = rows[c]
                                /\ written[c].settling => settling[c] # None
  BY DEF Good, Kept, WritesItsRow, TypeOK

-----------------------------------------------------------------------------
\* LiveShown is kept: whoever tells the listeners shows every window that lives.
LEMMA TellShows ==
    ASSUME Tell
    PROVE  LiveShown'
  BY DEF Tell, Faces, LiveShown

\* ... and whoever does not opens none.
LEMMA ApplyStateShows ==
    ASSUME Good, NEW c \in Cues, NEW read \in Value, rows[c] # None, ApplyState(c, read)
    PROVE  LiveShown'
  <1>1. CASE Publishes(rows[c], settling[c], read)
    BY <1>1, TellShows DEF ApplyState
  <1>2. CASE ~Publishes(rows[c], settling[c], read)
    <2>1. written' = written
      BY <1>2 DEF ApplyState
    <2>2. \A d \in Cues \ {c} : rows'[d] = rows[d] /\ settling'[d] = settling[d]
      BY DEF ApplyState, Good, TypeOK
    <2>3. settling'[c] = RecordAfter(settling[c], read)
      BY DEF ApplyState, Good, TypeOK
    <2>4. Live(settling'[c]) => Live(settling[c])
      BY <2>3 DEF RecordAfter, Swallows, Live
    <2> QED
      BY <2>1, <2>2, <2>4 DEF LiveShown, Good
  <1> QED
    BY <1>1, <1>2

\* Time ends windows and opens none, and changes nothing of what is owed.
LEMMA TickOwes ==
    ASSUME Good, Tick
    PROVE  LiveShown' /\ Owed' = Owed
  <1>1. UNCHANGED <<rows, written>>
    BY DEF Tick
  <1>2. ASSUME NEW d \in Cues
        PROVE  /\ Live(settling'[d]) => Live(settling[d])
               /\ Debt(settling'[d]) = Debt(settling[d])
    <2>1. settling'[d] = IF Live(settling[d])
                         THEN [settling[d] EXCEPT !.age = @ + 1] ELSE settling[d]
      BY DEF Tick, Good, TypeOK
    <2>2. CASE ~Live(settling[d])
      BY <2>1, <2>2
    <2>3. CASE Live(settling[d])
      <3>1. settling[d] \in Settle /\ settling[d].age < SettleTicks
        BY <2>3 DEF Live, Good, TypeOK
      <3>2. /\ settling'[d] = [settling[d] EXCEPT !.age = @ + 1]
            /\ settling'[d] \in Settle
        BY <2>1, <2>3, <3>1, SettleAssumption DEF Settle
      <3>3. settling'[d] # None /\ settling[d] # None
        BY <3>1, <3>2, NoneAssumption
      <3>4. /\ settling'[d].state = settling[d].state
            /\ settling'[d].held = settling[d].held
            /\ settling'[d].previous = settling[d].previous
            /\ settling'[d].contradictions = settling[d].contradictions
        BY <3>1, <3>2 DEF Settle
      <3> QED
        BY <2>3, <3>3, <3>4 DEF Debt, GivenBack
    <2> QED
      BY <2>2, <2>3
  <1>3. LiveShown'
    BY <1>1, <1>2 DEF LiveShown, Good
  <1> QED
    BY <1>2, <1>3 DEF Owed

-----------------------------------------------------------------------------
\* A read applied to a listed cue is believed or withheld.
LEMMA ApplyStatePromised ==
    ASSUME Good, TypeOK', gen' = gen, NEW c \in Cues, NEW read \in Value,
           rows[c] # None, ApplyState(c, read)
    PROVE  Promise!Believes(c, read) \/ Promise!Withholds(c, read)
  <1> DEFINE rec == settling[c]
  <1>1. /\ rows'[c] = RowAfter(rows[c], rec, read)
        /\ settling'[c] = RecordAfter(rec, read)
        /\ \A d \in Cues \ {c} : rows'[d] = rows[d] /\ settling'[d] = settling[d]
        /\ lastRead' = [lastRead EXCEPT ![c] = read]
        /\ rec \in Settle \cup {None}
        /\ read # None
    BY NoneAssumption DEF ApplyState, Good, TypeOK
  <1>2. written[c] # None /\ written[c] \in Face /\ written[c].value = rows[c]
        /\ (written[c].settling => rec # None)
    BY ListedShows
  <1>3. CASE Swallows(rec, read)
    <2>1. /\ rec \in Settle /\ read.state # rec.state /\ rec.contradictions = 0
          /\ written' = written
      BY <1>1, <1>3 DEF Swallows, Live, ApplyState, Publishes
    <2>2. /\ settling'[c] = [rec EXCEPT !.contradictions = 1, !.held = read]
          /\ settling'[c] \in Settle /\ settling'[c] # None
      <3>1. settling'[c] = [rec EXCEPT !.contradictions = 1, !.held = read]
        BY <1>1, <1>3 DEF RecordAfter
      <3>2. [rec EXCEPT !.contradictions = 1, !.held = read] \in Settle
        BY <2>1, 1 \in 0..1 DEF Settle
      <3> QED
        BY <3>1, <3>2, NoneAssumption
    <2>3. /\ settling'[c].state = rec.state
          /\ settling'[c].contradictions = 1
          /\ settling'[c].held = read
      BY <2>1, <2>2 DEF Settle
    <2>4. Debt(settling'[c]) = [command |-> rec.state, back |-> read, spent |-> TRUE]
      BY <1>1, <2>2, <2>3 DEF Debt, GivenBack
    <2>5. Owed[c] \in Promise!Debt /\ Owed[c].command = rec.state /\ ~Owed[c].spent
      <3>1. Owed[c] = Debt(rec)
        BY DEF Owed
      <3>2. Debt(rec) \in Promise!Debt /\ Debt(rec).command = rec.state
        BY <2>1, DebtIs
      <3>3. Debt(rec).spent = FALSE
        BY <2>1, DebtIs
      <3> QED
        BY <3>1, <3>2, <3>3
    <2>6. Owed' = [Owed EXCEPT ![c] = [command |-> Owed[c].command, back |-> read, spent |-> TRUE]]
      BY <1>1, <2>4, <2>5 DEF Owed
    <2> QED
      BY <1>1, <1>2, <2>1, <2>5, <2>6 DEF Promise!Withholds, Owed
  <1>4. CASE ~Swallows(rec, read)
    <2>1. rows'[c] = read /\ settling'[c] = None
      BY <1>1, <1>4 DEF RowAfter, RecordAfter
    <2>2. written'[c] = Promise!Read(read)
          /\ \A d \in Cues \ {c} : written'[d] \in Promise!Fading(written[d])
      <3>1. CASE Publishes(rows[c], rec, read)
        <4>1. Tell
          BY <3>1 DEF ApplyState
        <4>2. /\ written'[c] \in Face /\ written'[c].value = read
              /\ written'[c].settling = Live(None)
          BY <1>1, <2>1, <4>1, ToldFaces DEF Good, TypeOK
        <4>3. written'[c] = [value |-> read, settling |-> FALSE]
          BY <4>2 DEF Live, Face
        <4> QED
          BY <1>1, <4>1, <4>3, ToldFades DEF Promise!Read
      <3>2. CASE ~Publishes(rows[c], rec, read)
        <4>1. rec = None /\ rows[c] = read /\ written' = written
          BY <1>4, <3>2 DEF Publishes, ApplyState
        <4>2. written[c].settling = FALSE
          BY <1>2, <4>1 DEF Face
        <4>3. written[c] = [value |-> read, settling |-> FALSE]
          BY <1>2, <4>1, <4>2 DEF Face
        <4> QED
          BY <4>1, <4>3 DEF Promise!Read, Promise!Fading
      <3> QED
        BY <3>1, <3>2
    <2>3. Debt(settling'[c]) = None
      BY <2>1 DEF Debt
    <2>4. Promise!Turns(c, Promise!Read(read), None)
      BY <1>1, <2>2, <2>3, TurnsOne DEF Good
    <2> QED
      BY <1>1, <1>2, <2>4 DEF Promise!Believes
  <1> QED
    BY <1>3, <1>4

\* A call that landed shows its command over what was shown or reported.
LEMMA CallOpensPromised ==
    ASSUME Good, TypeOK', NEW c \in Cues, NEW i \in 1..Len(calls[c]),
           NEW report \in States \cup {None}, CallOpens(c, i, report), rows[c] # None
    PROVE  Promise!Shows(c, calls[c][i].wanted)
  <1> DEFINE wanted == calls[c][i].wanted
             by     == calls[c][i].by
             read  == [state |-> report, reason |-> NoReason]
             row   == IF report # None THEN RowAfter(rows[c], settling[c], read) ELSE rows[c]
  <1>1. wanted \in Commands /\ by \in Gens
    <2>1. calls[c] \in Seq(Call)
      BY DEF Good, TypeOK
    <2>2. calls[c][i] \in Call
      BY <2>1
    <2> QED
      BY <2>2 DEF Call
  <1>2. /\ rows' = [rows EXCEPT ![c] = [row EXCEPT !.state = wanted]]
        /\ settling' = [settling EXCEPT ![c] = Opened(wanted, row, by)]
        /\ Tell
        /\ lastRead' = IF report # None THEN [lastRead EXCEPT ![c] = read] ELSE lastRead
        /\ report \in {None, wanted}
        /\ gen' = gen
    BY DEF CallOpens
  <1>3. /\ rows'[c] = [row EXCEPT !.state = wanted]
        /\ settling'[c] = Opened(wanted, row, by)
        /\ \A d \in Cues \ {c} : rows'[d] = rows[d] /\ settling'[d] = settling[d]
    BY <1>2 DEF Good, TypeOK
  <1>4. written[c] # None /\ written[c].value = rows[c] /\ rows[c] \in Value
    BY ListedShows DEF Good, TypeOK
  <1>5. report # None => read \in Value /\ report = wanted
    BY <1>2, SettleAssumption DEF Value
  <1>6. row \in {rows[c], read} /\ (row # rows[c] => report # None) /\ row \in Value
    BY <1>4, <1>5 DEF RowAfter
  <1> HIDE DEF row
  <1>7. /\ Opened(wanted, row, by) \in Settle
        /\ Live(Opened(wanted, row, by))
    <2>1. Opened(wanted, row, by) \in Settle
      BY <1>1, <1>6, OpenedType
    <2>2. Opened(wanted, row, by).age = 0
      BY DEF Opened
    <2> QED
      BY <2>1, <2>2, NoneAssumption, SettleAssumption DEF Live
  <1>8. Debt(settling'[c]) = [command |-> wanted, back |-> row, spent |-> FALSE]
    <2>1. /\ Opened(wanted, row, by) # None
          /\ Opened(wanted, row, by).state = wanted
          /\ Opened(wanted, row, by).held = None
          /\ Opened(wanted, row, by).previous = row
          /\ Opened(wanted, row, by).contradictions = 0
      BY <1>7, NoneAssumption DEF Opened
    <2>2. (Opened(wanted, row, by).contradictions = 1) = FALSE
      BY <2>1
    <2> QED
      BY <1>3, <2>1, <2>2 DEF Debt, GivenBack
  <1>9. written'[c] = [value |-> [row EXCEPT !.state = wanted], settling |-> TRUE]
    <2>1. rows'[c] \in Value /\ rows'[c] # None
      BY <1>1, <1>3, <1>6, NoneAssumption DEF Value, Commands, States
    <2>2. /\ written'[c] \in Face /\ written'[c].value = rows'[c]
          /\ written'[c].settling = Live(settling'[c])
      BY <1>2, <2>1, ToldFaces DEF Good, TypeOK
    <2>3. written'[c].settling = TRUE
      BY <1>3, <1>7, <2>2 DEF Face
    <2> QED
      BY <1>3, <2>2, <2>3 DEF Face
  <1>10. \A d \in Cues \ {c} : written'[d] \in Promise!Fading(written[d])
    BY <1>2, <1>3, ToldFades
  <1>11. Promise!Commanded(c, wanted, row)
    BY <1>3, <1>8, <1>9, <1>10, TurnsOne DEF Promise!Commanded, Good
  <1>12. CASE row = rows[c]
    <2>1. lastRead' \in {lastRead, [lastRead EXCEPT ![c] = [state |-> wanted, reason |-> NoReason]]}
      BY <1>2, <1>5
    <2> QED
      BY <1>4, <1>11, <1>12, <2>1 DEF Promise!Shows
  <1>13. CASE row # rows[c]
    <2>1. /\ row = [state |-> wanted, reason |-> NoReason]
          /\ lastRead' = [lastRead EXCEPT ![c] = [state |-> wanted, reason |-> NoReason]]
      BY <1>2, <1>5, <1>6, <1>13
    <2> QED
      BY <1>4, <1>11, <2>1 DEF Promise!Shows
  <1> QED
    BY <1>12, <1>13

\* The end of a window gives a command up, or forgets that of a cue not listed.
LEMMA TimerFiresPromised ==
    ASSUME Good, TypeOK', NEW c \in Cues, NEW g \in Gens, TimerFires(c, g)
    PROVE  Promise!GivesUp(c) \/ Promise!Forgets(c) \/ UNCHANGED <<lastRead, written, Owed>>
  <1>1. /\ settling'[c] = None
        /\ \A d \in Cues \ {c} : settling'[d] = settling[d]
        /\ UNCHANGED <<gen, lastRead>>
    BY DEF TimerFires, history, Good, TypeOK
  <1>2. Owed' = [Owed EXCEPT ![c] = None]
    BY <1>1 DEF Owed, Debt
  <1>3. CASE rows[c] = None
    <2>1. written[c] = None /\ written' = written
      BY <1>3, ListedShows DEF TimerFires
    <2> QED
      BY <1>1, <1>2, <2>1 DEF Promise!Forgets, Owed
  <1>4. CASE rows[c] # None /\ settling[c] = None
    <2>1. written' = written /\ Owed[c] = None
      BY <1>4 DEF TimerFires, Owed, Debt
    <2>2. Owed' = Owed
      BY <1>2, <2>1 DEF Owed
    <2> QED
      BY <1>1, <2>1, <2>2
  <1>5. CASE rows[c] # None /\ settling[c] # None
    <2>1. settling[c] \in Settle
      BY <1>5 DEF Good, TypeOK
    <2>2. Tell /\ rows' = [rows EXCEPT ![c] = GivenBack(settling[c])]
      BY <1>5 DEF TimerFires
    <2>3. /\ rows'[c] = GivenBack(settling[c]) /\ rows'[c] \in Value /\ rows'[c] # None
          /\ \A d \in Cues \ {c} : rows'[d] = rows[d]
      BY <1>5, <2>1, <2>2, NoneAssumption DEF Good, TypeOK, GivenBack, Settle
    <2>4. /\ written'[c] \in Face /\ written'[c].value = rows'[c]
          /\ written'[c].settling = Live(None)
      BY <1>1, <2>2, <2>3, ToldFaces DEF Good, TypeOK
    <2>5. written'[c] = [value |-> rows'[c], settling |-> FALSE]
      BY <2>4 DEF Live, Face
    <2>6. Owed[c] \in Promise!Debt /\ Owed[c].back = rows'[c]
      BY <2>1, <2>3, DebtIs DEF Owed
    <2>7. written'[c] = Promise!Read(Owed[c].back)
      BY <2>5, <2>6 DEF Promise!Read
    <2>8. \A d \in Cues \ {c} : written'[d] \in Promise!Fading(written[d])
      BY <1>1, <2>2, <2>3, ToldFades
    <2>9. Debt(settling'[c]) = None
      BY <1>1 DEF Debt
    <2>10. Promise!Turns(c, Promise!Read(Owed[c].back), None)
      BY <1>1, <2>7, <2>8, <2>9, TurnsOne DEF Good
    <2>11. written[c] # None
      BY <1>5, ListedShows
    <2> QED
      BY <1>1, <2>6, <2>10, <2>11 DEF Promise!GivesUp, Owed
  <1> QED
    BY <1>3, <1>4, <1>5

\* A manifest is shown as it is.
LEMMA RefetchPromised ==
    ASSUME Good, TypeOK', NEW manifest \in Manifests, Refetch(manifest)
    PROVE  Promise!Relists
  <1>1. /\ lastRead' = manifest /\ settling' = settling
        /\ written' = Faces(manifest, settling)
    BY DEF Refetch
  <1>2. /\ lastRead' \in [Cues -> Promise!Value \cup {None}]
        /\ written' \in [Cues -> Promise!Face \cup {None}]
    BY DEF TypeOK, Face, Value, States, Promise!Face, Promise!Value, Promise!States
  <1>3. ASSUME NEW d \in Cues
        PROVE  IF lastRead'[d] = None THEN written'[d] = None
               ELSE /\ written'[d] # None
                    /\ written'[d].value = lastRead'[d]
                    /\ written'[d].settling => Owed[d] \in Promise!Debt
    <2>1. written'[d] = IF manifest[d] = None THEN None
                        ELSE [value |-> manifest[d], settling |-> Live(settling[d])]
      BY <1>1 DEF Faces
    <2>2. manifest[d] # None => [value |-> manifest[d], settling |-> Live(settling[d])] # None
      <3>1. manifest[d] # None => [value |-> manifest[d], settling |-> Live(settling[d])] \in Face
        BY DEF Manifests, Face, Live
      <3> QED
        BY <3>1, NoneAssumption
    <2>3. Live(settling[d]) => Owed[d] \in Promise!Debt
      BY DebtIs DEF Live, Owed, Good, TypeOK
    <2> QED
      BY <1>1, <2>1, <2>2, <2>3
  <1>4. Owed' = Owed
    BY <1>1 DEF Owed
  <1> QED
    BY <1>2, <1>3, <1>4 DEF Promise!Relists, Owed

-----------------------------------------------------------------------------
\* Steps that read, command and give up nothing show nothing anew.
LEMMA FadesWhenTold ==
    ASSUME Good, TypeOK', UNCHANGED <<rows, settling, lastRead>>,
           \A d \in Cues : written'[d] \in Promise!Fading(written[d])
    PROVE  Promise!Fades
  <1>1. written' \in [Cues -> Promise!Face \cup {None}]
    BY DEF TypeOK, Face, Value, States, Promise!Face, Promise!Value, Promise!States
  <1>2. Owed' = Owed
    BY DEF Owed
  <1> QED
    BY <1>1, <1>2 DEF Promise!Fades, Owed

\* A call that did nothing may write its own entity on the way.
LEMMA CallDoesNothingPromised ==
    ASSUME Good, TypeOK', NEW c \in Cues, NEW i \in 1..Len(calls[c]), CallDoesNothing(c, i)
    PROVE  LiveShown' /\ (Promise!Fades \/ UNCHANGED <<lastRead, written, Owed>>)
  <1>1. UNCHANGED <<rows, settling, gen, lastRead>>
    BY DEF CallDoesNothing, history
  <1>2. CASE written' = written
    BY <1>1, <1>2 DEF Owed, Good, LiveShown
  <1>3. CASE rows[c] # None /\ written' = [written EXCEPT ![c] = Faces(rows, settling)[c]]
    <2>1. written' = [written EXCEPT ![c] = [value |-> rows[c], settling |-> Live(settling[c])]]
      BY <1>3 DEF Faces
    <2>2. \A d \in Cues \ {c} : written'[d] = written[d]
      BY <2>1 DEF Good, TypeOK
    <2>3. written'[c] = [value |-> rows[c], settling |-> Live(settling[c])]
      BY <2>1 DEF Good, TypeOK
    <2>4. LiveShown'
      BY <1>1, <2>2, <2>3 DEF LiveShown, Good
    <2>5. written'[c] \in Promise!Fading(written[c])
      <3>1. /\ written[c] # None /\ written[c] \in Face /\ written[c].value = rows[c]
            /\ Live(settling[c]) => written[c].settling
        BY <1>3, ListedShows DEF Good, LiveShown
      <3>2. CASE Live(settling[c])
        <4>1. written'[c] = written[c]
          BY <2>3, <3>1, <3>2 DEF Face, Live
        <4> QED
          BY <3>1, <4>1 DEF Promise!Fading
      <3>3. CASE ~Live(settling[c])
        <4>1. written'[c] = [value |-> written[c].value, settling |-> FALSE]
          BY <2>3, <3>1, <3>3 DEF Live
        <4> QED
          BY <3>1, <4>1 DEF Promise!Fading, Promise!Read
      <3> QED
        BY <3>2, <3>3
    <2>6. \A d \in Cues : written'[d] \in Promise!Fading(written[d])
      BY <2>2, <2>5 DEF Promise!Fading
    <2> QED
      BY <1>1, <2>4, <2>6, FadesWhenTold
  <1> QED
    BY <1>2, <1>3 DEF CallDoesNothing, Mine

\* Every step is a step of the promise, or shows nothing of it; and LiveShown goes on.
LEMMA PromiseStep ==
    ASSUME Good, TypeOK', [Next]_vars
    PROVE  LiveShown' /\ (Promise!Next \/ UNCHANGED <<lastRead, written, Owed>>)
  <1> DEFINE Goal == LiveShown' /\ (Promise!Next \/ UNCHANGED <<lastRead, written, Owed>>)
  <1>0. Value = Promise!Value /\ Commands = Promise!Commands
    BY DEF Value, States, Commands, Promise!Value, Promise!States, Promise!Commands
  <1>1. ASSUME NEW c \in Cues, NEW read \in Value, Observe(c, read)
        PROVE  Goal
    <2>1. rows[c] # None /\ ApplyState(c, read) /\ gen' = gen
      BY <1>1 DEF Observe
    <2>2. LiveShown' /\ (Promise!Believes(c, read) \/ Promise!Withholds(c, read))
      BY <2>1, ApplyStateShows, ApplyStatePromised
    <2> QED
      BY <1>0, <2>2 DEF Promise!Next
  <1>2. ASSUME NEW c \in Cues, NEW wanted \in Commands, Press(c, wanted)
        PROVE  Goal
    BY <1>2 DEF Press, history, LiveShown, Good, Owed
  <1>3. ASSUME NEW c \in Cues, NEW i \in 1..Len(calls[c]), CallAnswered(c, i)
        PROVE  Goal
    <2>1. CASE CallDoesNothing(c, i)
      BY <2>1, CallDoesNothingPromised DEF Promise!Next
    <2>2. ASSUME NEW report \in States \cup {None}, CallOpens(c, i, report)
          PROVE  Goal
      <3>1. CASE rows[c] = None
        <4>1. UNCHANGED <<rows, settling, written, lastRead>>
          BY <2>2, <3>1 DEF CallOpens
        <4> QED
          BY <4>1 DEF LiveShown, Good, Owed
      <3>2. CASE rows[c] # None
        <4>1. Tell
          BY <2>2, <3>2 DEF CallOpens
        <4>2. Promise!Shows(c, calls[c][i].wanted)
          BY <2>2, <3>2, CallOpensPromised
        <4>3. calls[c][i].wanted \in Commands
          <5>1. calls[c] \in Seq(Call)
            BY DEF Good, TypeOK
          <5>2. calls[c][i] \in Call
            BY <5>1
          <5> QED
            BY <5>2 DEF Call
        <4> QED
          BY <1>0, <4>1, <4>2, <4>3, TellShows DEF Promise!Next
      <3> QED
        BY <3>1, <3>2
    <2>3. ASSUME NEW report \in States \cup {None}, CallContradicts(c, i, report)
          PROVE  Goal
      <3> DEFINE read == [state |-> report, reason |-> NoReason]
      <3>1. CASE rows[c] = None
        <4>1. UNCHANGED <<rows, settling, written, lastRead>>
          BY <2>3, <3>1 DEF CallContradicts
        <4> QED
          BY <4>1 DEF LiveShown, Good, Owed
      <3>2. CASE rows[c] # None
        <4>1. ApplyState(c, read) /\ gen' = gen /\ report # None
          BY <2>3, <3>2 DEF CallContradicts
        <4>2. read \in Value
          BY <4>1, SettleAssumption DEF Value
        <4>3. LiveShown' /\ (Promise!Believes(c, read) \/ Promise!Withholds(c, read))
          BY <3>2, <4>1, <4>2, ApplyStateShows, ApplyStatePromised
        <4> QED
          BY <1>0, <4>2, <4>3 DEF Promise!Next
      <3> QED
        BY <3>1, <3>2
    <2> QED
      BY <1>3, <2>1, <2>2, <2>3 DEF CallAnswered
  <1>4. ASSUME NEW manifest \in Manifests, Refetch(manifest)
        PROVE  Goal
    <2>1. Tell
      BY <1>4 DEF Refetch, Tell
    <2> QED
      BY <1>4, <2>1, RefetchPromised, TellShows DEF Promise!Next
  <1>5. ASSUME Retell
        PROVE  Goal
    <2>1. Tell /\ UNCHANGED <<rows, settling, gen, lastRead>>
      BY <1>5 DEF Retell, history
    <2>2. \A d \in Cues : written'[d] \in Promise!Fading(written[d])
      BY <2>1, ToldFades
    <2> QED
      BY <2>1, <2>2, FadesWhenTold, TellShows DEF Promise!Next
  <1>6. ASSUME NEW c \in Cues, NEW g \in Gens, TimerFires(c, g)
        PROVE  Goal
    <2>1. LiveShown'
      <3>1. CASE settling[c] = None \/ rows[c] = None
        <4>1. /\ UNCHANGED <<rows, written>>
              /\ settling'[c] = None
              /\ \A d \in Cues \ {c} : settling'[d] = settling[d]
          BY <1>6, <3>1 DEF TimerFires, Good, TypeOK
        <4> QED
          BY <4>1 DEF LiveShown, Live, Good
      <3>2. CASE ~(settling[c] = None \/ rows[c] = None)
        BY <1>6, <3>2, TellShows DEF TimerFires
      <3> QED
        BY <3>1, <3>2
    <2> QED
      BY <1>6, <2>1, TimerFiresPromised DEF Promise!Next
  <1>7. ASSUME Tick
        PROVE  Goal
    <2>1. UNCHANGED <<lastRead, written>>
      BY <1>7 DEF Tick, history
    <2> QED
      BY <1>7, <2>1, TickOwes
  <1>8. ASSUME UNCHANGED vars
        PROVE  Goal
    BY <1>8 DEF vars, history, LiveShown, Good, Owed
  <1> QED
    BY <1>1, <1>2, <1>3, <1>4, <1>5, <1>6, <1>7, <1>8 DEF Next

\* The initial states are initial there, where nothing is settling.
LEMMA PromiseInit == Init => LiveShown /\ Promise!Init
  <1> SUFFICES ASSUME Init PROVE LiveShown /\ Promise!Init
    OBVIOUS
  <1>1. /\ lastRead = rows /\ rows \in [Cues -> Value \cup {None}]
        /\ settling = [c \in Cues |-> None]
        /\ written = Faces(rows, settling)
    BY DEF Init
  <1>2. lastRead \in [Cues -> Promise!Value \cup {None}]
    BY <1>1 DEF Value, States, Promise!Value, Promise!States
  <1>3. written = [c \in Cues |-> IF lastRead[c] = None THEN None ELSE Promise!Read(lastRead[c])]
    BY <1>1 DEF Faces, Live, Promise!Read
  <1>4. Owed = [c \in Cues |-> None]
    BY <1>1 DEF Owed, Debt
  <1>5. LiveShown
    BY <1>1 DEF LiveShown, Live
  <1> QED
    BY <1>2, <1>3, <1>4, <1>5 DEF Promise!Init, Owed

\* KeepsPromise: whatever happens to the windows, the timers, the calls in flight and
\* the entities, what is shown is what SwitchPromise allows.
THEOREM PromiseKept == Spec => KeepsPromise
  <1>1. Init => LiveShown /\ Promise!Init
    BY PromiseInit
  <1>2. IInv /\ IInv' /\ LiveShown /\ [Next]_vars
          => LiveShown' /\ [Promise!Next]_<<lastRead, written, Owed>>
    BY PromiseStep DEF IInv, Kept, Good
  <1>3. IInv /\ IInv' /\ LiveShown /\ [Next]_vars
          => LiveShown' /\ [Promise!Next]_<<lastRead, written, [c \in Cues |-> Debt(settling[c])]>>
    BY <1>2 DEF Owed
  <1> QED
    BY <1>1, <1>3, Inductive, PTL DEF Spec, KeepsPromise, Promise!Spec
=============================================================================
