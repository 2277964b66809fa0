-------------------------- MODULE EntityNameProofs --------------------------
(***************************************************************************)
(* What EntityName keeps for any set of names.                             *)
(***************************************************************************)
EXTENDS EntityName, TLAPS

\* An entry is what it is made of.
LEMMA EntryRead ==
    ASSUME NEW n \in Maybe, NEW f \in Maybe, NEW p \in Maybe, NEW t \in Maybe, NEW x \in BOOLEAN
    PROVE  /\ Entry(n, f, p, t, x) \in Entries
           /\ Entry(n, f, p, t, x).name = n
           /\ Entry(n, f, p, t, x).named_from = f
           /\ Entry(n, f, p, t, x).put = p
           /\ Entry(n, f, p, t, x).typed = t
           /\ Entry(n, f, p, t, x).foreign = x
           /\ Entry(n, f, p, t, x) # None
  BY NameAssumption DEF Entry, Entries

\* Shortening leaves what is the operator's and gives the rest the cue's name.
LEMMA ShortenedOK ==
    ASSUME NEW entry \in Entries, EntryOK(entry), NEW wanted \in Names
    PROVE  /\ Shortened(entry, wanted) \in Entries
           /\ Shortened(entry, wanted) # None
           /\ EntryOK(Shortened(entry, wanted))
           /\ Follows(Shortened(entry, wanted), wanted)
  <1>1. /\ entry.name \in Maybe /\ entry.typed \in Maybe /\ entry.foreign \in BOOLEAN
        /\ entry # None /\ wanted \in Maybe /\ wanted # None
    BY NameAssumption DEF Entries, Maybe
  <1>2. CASE Shortened(entry, wanted) = entry
    <2>1. (entry.name = wanted /\ entry.named_from = wanted) \/ Theirs(entry)
          \/ Named(entry, wanted) = entry
      BY <1>2 DEF Shortened
    <2>2. Named(entry, wanted) = entry => entry.name = wanted
      BY <1>1, EntryRead DEF Named
    <2>3. Theirs(entry) => entry.typed # None /\ entry.foreign
      BY DEF Theirs, EntryOK
    <2> QED
      BY <1>1, <1>2, <2>1, <2>2, <2>3 DEF Follows
  <1>3. CASE Shortened(entry, wanted) = Named(entry, wanted) /\ ~Theirs(entry)
    <2>1. /\ Named(entry, wanted) \in Entries
          /\ Named(entry, wanted).name = wanted
          /\ Named(entry, wanted).named_from = wanted
          /\ Named(entry, wanted).put = wanted
          /\ Named(entry, wanted).typed = entry.typed
          /\ Named(entry, wanted).foreign = entry.foreign
          /\ Named(entry, wanted) # None
      BY <1>1, EntryRead DEF Named
    <2>2. ~(entry.typed # None /\ entry.foreign)
      BY <1>1, <1>3 DEF EntryOK, KeepsTheirs, Theirs
    <2> QED
      BY <1>1, <1>3, <2>1, <2>2 DEF EntryOK, KeepsTheirs, Follows
  <1> QED
    BY <1>2, <1>3 DEF Shortened

\* Every entry an added entity may get is one.
LEMMA RegisteredOK ==
    ASSUME IInv, NEW entry \in Registered
    PROVE  entry \in Entries /\ EntryOK(entry)
  <1>1. CASE entry \in {registry, removed} /\ entry # None
    BY <1>1 DEF IInv, TypeOK, EntriesOK
  <1>2. CASE entry = Entry(None, None, None, None, FALSE)
    <2>1. None \in Maybe /\ FALSE \in BOOLEAN
      BY DEF Maybe
    <2> QED
      <3>1. /\ entry \in Entries /\ entry.name = None /\ entry.named_from = None
            /\ entry.put = None /\ entry.typed = None
        BY <1>2 DEF Entry, Entries, Maybe
      <3> QED
        BY <3>1 DEF EntryOK, KeepsTheirs
  <1> QED
    BY <1>1, <1>2 DEF Registered

\* An entity that joins, or looks at its name, leaves a good entry with the right name.
LEMMA JoinsOK ==
    ASSUME NEW entries, \A entry \in entries : entry \in Entries /\ EntryOK(entry),
           NEW wanted \in Names, Joins(entries, wanted)
    PROVE  /\ registry' \in Entries /\ registry' # None
           /\ EntryOK(registry')
           /\ Follows(registry', wanted)
  BY ShortenedOK DEF Joins

LEMMA NameInit == Init => IInv
  <1> SUFFICES ASSUME Init PROVE IInv
    OBVIOUS
  <1>1. /\ registry = None /\ removed = None /\ row = None
        /\ disk.registry = None /\ disk.removed = None
    BY DEF Init
  <1>2. TypeOK
    BY DEF Init, TypeOK, Maybe
  <1> QED
    BY <1>1, <1>2 DEF IInv, EntriesOK, RowIsRegistered, FollowsServer

-----------------------------------------------------------------------------
LEMMA ReadsStep == ASSUME IInv, Reads PROVE IInv'
  <1>1. CASE server # None
    <2>1. server \in Names /\ row' = server /\ touched' = FALSE /\ loaded' = TRUE
          /\ removed' = None /\ disk' = disk /\ server' = server
      BY <1>1 DEF Reads, IInv, TypeOK, Maybe
    <2>2. /\ registry' \in Entries /\ registry' # None
          /\ EntryOK(registry')
          /\ Follows(registry', server)
      BY <1>1, <2>1, RegisteredOK, JoinsOK DEF Reads
    <2> QED
      BY <2>1, <2>2 DEF IInv, TypeOK, EntriesOK, RowIsRegistered, FollowsServer
  <1>2. CASE server = None
    BY <1>2 DEF Reads, IInv, TypeOK, EntriesOK, RowIsRegistered, FollowsServer
  <1> QED
    BY <1>1, <1>2

LEMMA UpdatesStep == ASSUME IInv, Updates PROVE IInv'
  <1>1. /\ row \in Names /\ row' = row /\ touched' = FALSE /\ loaded' = TRUE
        /\ removed' = removed /\ disk' = disk /\ server' = server
    BY DEF Updates, IInv, TypeOK, Maybe
  <1>2. registry \in Entries /\ EntryOK(registry)
    BY DEF Updates, IInv, RowIsRegistered, TypeOK, EntriesOK
  <1>3. /\ registry' \in Entries /\ registry' # None
        /\ EntryOK(registry')
        /\ Follows(registry', row)
    BY <1>1, <1>2, JoinsOK DEF Updates
  <1> QED
    BY <1>1, <1>3 DEF IInv, TypeOK, EntriesOK, RowIsRegistered, FollowsServer

LEMMA LoadsStep == ASSUME IInv, Loads PROVE IInv'
  <1>1. CASE server # None
    <2>1. server \in Names /\ row' = server /\ touched' = FALSE /\ loaded' = TRUE
          /\ removed' = None /\ disk' = disk /\ server' = server
      BY <1>1 DEF Loads, IInv, TypeOK, Maybe
    <2>2. /\ registry' \in Entries /\ registry' # None
          /\ EntryOK(registry')
          /\ Follows(registry', server)
      BY <1>1, <2>1, RegisteredOK, JoinsOK DEF Loads
    <2> QED
      BY <2>1, <2>2 DEF IInv, TypeOK, EntriesOK, RowIsRegistered, FollowsServer
  <1>2. CASE server = None
    BY <1>2 DEF Loads, IInv, TypeOK, EntriesOK, RowIsRegistered, FollowsServer
  <1> QED
    BY <1>1, <1>2

LEMMA TypesStep ==
    ASSUME IInv, NEW name \in Maybe, OperatorTypes(name)
    PROVE  IInv'
  <1>1. registry \in Entries /\ registry # None /\ EntryOK(registry)
    BY DEF OperatorTypes, IInv, TypeOK, EntriesOK
  <1>2. registry.named_from \in Maybe /\ registry.put \in Maybe
    BY <1>1 DEF Entries
  <1>3. /\ registry' \in Entries /\ registry' # None
        /\ registry'.name = name /\ registry'.named_from = registry.named_from
        /\ registry'.put = registry.put /\ registry'.typed = name
        /\ registry'.foreign = (name # registry.put)
    <2>1. registry' = Entry(name, registry.named_from, registry.put, name, name # registry.put)
      BY DEF OperatorTypes
    <2>2. (name # registry.put) \in BOOLEAN
      OBVIOUS
    <2>3. registry' \in Entries
      BY <1>2, <2>1, <2>2 DEF Entry, Entries
    <2> QED
      BY <2>1, <2>3, NameAssumption DEF Entry
  <1>4. EntryOK(registry')
    BY <1>1, <1>3 DEF EntryOK, KeepsTheirs
  <1>5. /\ touched' = TRUE /\ server' = server /\ loaded' = loaded /\ row' = row
        /\ removed' = removed /\ disk' = disk
    BY DEF OperatorTypes
  <1> QED
    BY <1>3, <1>4, <1>5 DEF IInv, TypeOK, EntriesOK, RowIsRegistered, FollowsServer

LEMMA OtherSteps ==
    ASSUME IInv, Unloads \/ Saves \/ Crashes \/ (\E name \in Maybe : ServerTurns(name))
    PROVE  IInv'
  <1>1. CASE Unloads
    BY <1>1 DEF Unloads, IInv, TypeOK, EntriesOK, RowIsRegistered, FollowsServer, Maybe
  <1>2. CASE Saves
    BY <1>2 DEF Saves, IInv, TypeOK, EntriesOK, RowIsRegistered, FollowsServer
  <1>3. CASE Crashes
    BY <1>3 DEF Crashes, IInv, TypeOK, EntriesOK, RowIsRegistered, FollowsServer, Maybe
  <1>4. CASE \E name \in Maybe : ServerTurns(name)
    BY <1>4 DEF ServerTurns, IInv, TypeOK, EntriesOK, RowIsRegistered, FollowsServer
  <1> QED
    BY <1>1, <1>2, <1>3, <1>4

LEMMA NameNext == IInv /\ [Next]_vars => IInv'
  <1> SUFFICES ASSUME IInv, [Next]_vars PROVE IInv'
    OBVIOUS
  <1>1. CASE UNCHANGED vars
    BY <1>1 DEF vars, IInv, TypeOK, EntriesOK, RowIsRegistered, FollowsServer
  <1>2. CASE Next
    BY <1>2, ReadsStep, UpdatesStep, LoadsStep, TypesStep, OtherSteps DEF Next
  <1> QED
    BY <1>1, <1>2

\* The invariant is inductive, for any names.
THEOREM NameInductive == Spec => []IInv
  BY NameInit, NameNext, PTL DEF Spec

\* Every variable keeps its shape, through crashes and versions of the registry.
THEOREM NameTypeCorrect == Spec => []TypeOK
  BY NameInductive, PTL DEF IInv

\* _async_shorten_name never takes a name from the operator, for any names typed and
\* any the server gives.
THEOREM HandKeptCorrect == Spec => []HandKept
  <1>1. IInv => HandKept
    BY DEF IInv, EntriesOK, EntryOK, HandKept
  <1> QED
    BY <1>1, NameInductive, PTL

\* A name that is nobody's is the cue's as soon as we have looked.
THEOREM FollowsCorrect == Spec => []FollowsServer
  BY NameInductive, PTL DEF IInv
=============================================================================
