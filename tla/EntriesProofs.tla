---------------------------- MODULE EntriesProofs ----------------------------
(***************************************************************************)
(* What Entries keeps for every set of entries, hosts and appliances.      *)
(***************************************************************************)
EXTENDS Entries, TLAPS

\* One step of one entry, or a restart: the disjuncts of Next, by what they touch.
FlowStep(e) ==
    \/ \E url \in Urls : Creates(e, url) \/ Rewrites(e, url)
    \/ SavesOption(e)

PlainStep(e) ==
    \/ SetupBegins(e) \/ SetupNotReady(e) \/ PlatformsUp(e) \/ PlatformsBreak(e)
    \/ UnloadBegins(e) \/ PlatformsStay(e) \/ RemovedIdle(e)

PanelStep(e) == ManifestArrives(e) \/ PlatformsUnload(e)

LEMMA Steps ==
    ASSUME Next
    PROVE  HttpsTurns \/ Restarts \/ \E e \in Ids : FlowStep(e) \/ PlainStep(e) \/ PanelStep(e)
  BY DEF Next, FlowStep, PlainStep, PanelStep

-----------------------------------------------------------------------------
\* The data an entry is made of.

\* An entry as it is made.
LEMMA Made ==
    ASSUME NEW url \in Urls
    PROVE  LET entry == [url |-> url, key |-> KeyOf(url), token |-> Reached[url], sidebar |-> TRUE]
           IN  /\ entry \in Entry /\ entry # None
               /\ entry.url = url /\ entry.key = KeyOf(url)
               /\ Lan[entry.token] # None => entry.key = Lan[entry.token]
  <1>1. Reached[url] \in Servers
    BY EntryAssumption
  <1>2. KeyOf(url) \in Keys
    BY <1>1 DEF KeyOf, Keys
  <1>3. Lan[Reached[url]] # None => KeyOf(url) = Lan[Reached[url]]
    BY DEF KeyOf
  <1> DEFINE entry == [url |-> url, key |-> KeyOf(url), token |-> Reached[url], sidebar |-> TRUE]
  <1>4. entry \in Entry
    BY <1>1, <1>2 DEF Entry
  <1>5. entry # None
    BY <1>4, EntryAssumption
  <1>6. entry.url = url /\ entry.key = KeyOf(url) /\ entry.token = Reached[url]
    OBVIOUS
  <1> QED
    BY <1>3, <1>4, <1>5, <1>6

\* An entry that was written is the entry it was, but for what was written.
LEMMA Written ==
    ASSUME TypeOK, NEW e \in Ids, Exists(e),
           \/ \E url \in Urls : entries' = [entries EXCEPT ![e].url = url]
           \/ entries' = [entries EXCEPT ![e].sidebar = ~@]
    PROVE  /\ entries' \in [Ids -> Entry \cup {None}]
           /\ entries'[e] # None
           /\ entries'[e].key = entries[e].key /\ entries'[e].token = entries[e].token
           /\ \A d \in Ids \ {e} : entries'[d] = entries[d]
  <1>1. entries \in [Ids -> Entry \cup {None}] /\ entries[e] \in Entry
    BY DEF TypeOK, Exists
  <1>2. CASE \E url \in Urls : entries' = [entries EXCEPT ![e].url = url]
    <2>1. PICK url \in Urls : entries' = [entries EXCEPT ![e].url = url]
      BY <1>2
    <2>2. entries'[e] = [entries[e] EXCEPT !.url = url]
      BY <1>1, <2>1
    <2>3. entries'[e] \in Entry /\ entries'[e].key = entries[e].key
          /\ entries'[e].token = entries[e].token
      BY <1>1, <2>2 DEF Entry
    <2> QED
      BY <1>1, <2>1, <2>3, EntryAssumption
  <1>3. CASE entries' = [entries EXCEPT ![e].sidebar = ~@]
    <2>2. entries'[e] = [entries[e] EXCEPT !.sidebar = ~@]
      BY <1>1, <1>3
    <2>3. entries'[e] \in Entry /\ entries'[e].key = entries[e].key
          /\ entries'[e].token = entries[e].token
      BY <1>1, <2>2 DEF Entry
    <2> QED
      BY <1>1, <1>3, <2>3, EntryAssumption
  <1> QED
    BY <1>2, <1>3

\* What holds of the keys survives every step that makes no entry.
LEMMA KeysKept ==
    ASSUME KeysApart, KeyedByLan,
           \A e \in Ids : Exists(e)' =>
               /\ Exists(e)
               /\ entries'[e].key = entries[e].key /\ entries'[e].token = entries[e].token
    PROVE  KeysApart' /\ KeyedByLan'
  BY DEF KeysApart, KeyedByLan, Exists

-----------------------------------------------------------------------------
LEMMA InvInit == Init => IInv
  <1> SUFFICES ASSUME Init PROVE IInv
    OBVIOUS
  <1>1. \A path \in Paths : panels[path] \in {None, Foreign}
    BY DEF Init, EmptySidebars
  <1>2. panels \in [Paths -> Panel \cup {None}]
    <2>1. Foreign \in Panel
      BY DEF Foreign, Panel
    <2> QED
      BY <2>1 DEF Init, EmptySidebars
  <1>3. TypeOK
    BY <1>2 DEF Init, TypeOK, Phases
  <1>4. KeysApart /\ KeyedByLan /\ ClientFollows /\ Subscribed /\ SidebarDecided
    BY DEF Init, KeysApart, KeyedByLan, ClientFollows, Subscribed, SidebarDecided, Exists
  <1>5. PathsOwn
    BY DEF Init, PathsOwn
  <1>6. PanelsOwn
    <2>1. \A path \in Prefixes : panels[path] = None
      BY EntryAssumption DEF Init, EmptySidebars, Paths
    <2>2. None # Plain
      BY EntryAssumption DEF Paths
    <2> QED
      BY <2>1, <2>2 DEF Init, PanelsOwn
  <1>7. NoOrphans
    BY <1>1 DEF NoOrphans, Foreign
  <1> QED
    BY <1>3, <1>4, <1>5, <1>6, <1>7 DEF IInv

-----------------------------------------------------------------------------
\* What concerns an entry alone: its type, its key, its client, its subscriptions.
LoneInv == TypeOK /\ KeysApart /\ KeyedByLan /\ ClientFollows /\ Subscribed

LEMMA FlowLone ==
    ASSUME LoneInv, NEW e \in Ids, FlowStep(e)
    PROVE  LoneInv'
  <1> USE DEF lifecycle, sidebar, running, decided, LoneInv
  <1>1. CASE \E url \in Urls : Creates(e, url)
    <2>1. PICK url \in Urls : Creates(e, url)
      BY <1>1
    <2> DEFINE entry == [url |-> url, key |-> KeyOf(url), token |-> Reached[url], sidebar |-> TRUE]
    <2>2. /\ entry \in Entry /\ entry # None
          /\ entry.key = KeyOf(url)
          /\ Lan[entry.token] # None => entry.key = Lan[entry.token]
      BY Made
    <2>3. /\ entries' = [entries EXCEPT ![e] = entry]
          /\ Known(KeyOf(url)) = {} /\ ~Exists(e) /\ phase[e] = "unloaded"
          /\ UNCHANGED <<prefix, phase, pending, botched, paths, panels, streams, client, overtaken, https, seen>>
      BY <2>1 DEF Creates
    <2> HIDE DEF entry
    <2>4. /\ entries' \in [Ids -> Entry \cup {None}] /\ entries'[e] = entry
          /\ \A d \in Ids \ {e} : entries'[d] = entries[d]
      BY <2>2, <2>3 DEF TypeOK
    <2>5. TypeOK'
      BY <2>3, <2>4 DEF TypeOK
    <2>6. \A d \in Ids : Exists(d) => entries[d].key # KeyOf(url)
      BY <2>3 DEF Known
    <2>7. KeysApart' /\ KeyedByLan'
      BY <2>2, <2>4, <2>6 DEF KeysApart, KeyedByLan, Exists
    <2>8. ClientFollows'
      BY <2>3, <2>4 DEF ClientFollows, Exists
    <2>9. Subscribed'
      BY <2>3 DEF Subscribed
    <2> QED
      BY <2>5, <2>7, <2>8, <2>9
  <1>2. CASE (\E url \in Urls : Rewrites(e, url)) \/ SavesOption(e)
    <2>1. /\ Exists(e)
          /\ \/ \E url \in Urls : entries' = [entries EXCEPT ![e].url = url]
             \/ entries' = [entries EXCEPT ![e].sidebar = ~@]
      BY <1>2 DEF Rewrites, SavesOption, Known
    <2>2. /\ entries' \in [Ids -> Entry \cup {None}]
          /\ entries'[e] # None
          /\ entries'[e].key = entries[e].key /\ entries'[e].token = entries[e].token
          /\ \A d \in Ids \ {e} : entries'[d] = entries[d]
      BY <2>1, Written
    <2>3. UNCHANGED <<prefix, phase, botched, paths, panels, streams, client, https, seen>>
      BY <1>2 DEF Rewrites, SavesOption
    <2>4. /\ pending' \in [Ids -> BOOLEAN] /\ overtaken' \in [Ids -> BOOLEAN]
          /\ \A d \in Ids \ {e} : pending'[d] = pending[d] /\ overtaken'[d] = overtaken[d]
      BY <1>2 DEF Rewrites, SavesOption, TypeOK
    <2>5. TypeOK'
      BY <2>2, <2>3, <2>4 DEF TypeOK
    <2>6. KeysApart' /\ KeyedByLan'
      BY <2>1, <2>2, KeysKept DEF Exists
    <2>7. phase[e] \in {"setup", "forwarding", "loaded"} =>
             pending'[e] \/ overtaken'[e] \/ entries'[e].url = entries[e].url
      <3>1. CASE \E url \in Urls : Rewrites(e, url)
        BY <3>1 DEF Rewrites, ReloadedWhenRewritten, Listening, TypeOK
      <3>2. CASE SavesOption(e)
        <4>1. entries' = [entries EXCEPT ![e].sidebar = ~@] /\ entries[e] \in Entry
          BY <3>2, <2>1 DEF SavesOption, TypeOK, Exists
        <4>2. entries'[e] = [entries[e] EXCEPT !.sidebar = ~@]
          BY <4>1 DEF TypeOK
        <4> QED
          BY <4>1, <4>2 DEF Entry
      <3> QED
        BY <1>2, <3>1, <3>2
    <2>8. pending'[e] = FALSE /\ overtaken'[e] = FALSE => pending[e] = FALSE /\ overtaken[e] = FALSE
      BY <1>2 DEF Rewrites, SavesOption, TypeOK
    <2>9. ClientFollows'
      BY <2>2, <2>3, <2>4, <2>7, <2>8 DEF ClientFollows, Exists, TypeOK
    <2>10. Subscribed'
      BY <2>3 DEF Subscribed
    <2> QED
      BY <2>5, <2>6, <2>9, <2>10
  <1> QED
    BY <1>1, <1>2 DEF FlowStep

LEMMA PlainLone ==
    ASSUME LoneInv, NEW e \in Ids, PlainStep(e)
    PROVE  LoneInv'
  <1> USE DEF lifecycle, sidebar, running, decided, LoneInv
  <1>1. /\ UNCHANGED <<prefix, paths, panels>>
        /\ \A d \in Ids \ {e} :
             /\ phase'[d] = phase[d] /\ entries'[d] = entries[d] /\ pending'[d] = pending[d]
             /\ streams'[d] = streams[d] /\ client'[d] = client[d]
             /\ botched'[d] = botched[d] /\ overtaken'[d] = overtaken[d]
    BY DEF PlainStep, SetupBegins, SetupNotReady, PlatformsUp, PlatformsBreak, UnloadBegins, Closes,
       PlatformsStay, RemovedIdle, Leaves, TypeOK
  <1>2. TypeOK'
    <2>1. phase' \in [Ids -> Phases]
      BY DEF PlainStep, SetupBegins, SetupNotReady, PlatformsUp, PlatformsBreak, UnloadBegins, Closes,
         PlatformsStay, RemovedIdle, Leaves, TypeOK, Phases
    <2>2. entries' \in [Ids -> Entry \cup {None}]
      BY DEF PlainStep, SetupBegins, SetupNotReady, PlatformsUp, PlatformsBreak, UnloadBegins, Closes,
         PlatformsStay, RemovedIdle, Leaves, TypeOK
    <2>3. streams' \in [Ids -> Nat]
      BY DEF PlainStep, SetupBegins, SetupNotReady, PlatformsUp, PlatformsBreak, UnloadBegins, Closes,
         PlatformsStay, RemovedIdle, TypeOK
    <2>4. client' \in [Ids -> Urls \cup {None}]
      <3>1. CASE SetupBegins(e)
        <4>1. entries[e].url \in Urls
          BY <3>1 DEF SetupBegins, Exists, TypeOK, Entry
        <4> QED
          BY <3>1, <4>1 DEF SetupBegins, TypeOK
      <3>2. CASE ~SetupBegins(e)
        BY <3>2 DEF PlainStep, SetupNotReady, PlatformsUp, PlatformsBreak, UnloadBegins, Closes,
           PlatformsStay, RemovedIdle, TypeOK
      <3> QED
        BY <3>1, <3>2
    <2>5. /\ pending' \in [Ids -> BOOLEAN] /\ botched' \in [Ids -> BOOLEAN]
          /\ overtaken' \in [Ids -> BOOLEAN] /\ https' = https /\ seen' \in [Ids -> BOOLEAN]
      BY DEF PlainStep, SetupBegins, SetupNotReady, PlatformsUp, PlatformsBreak, UnloadBegins, Closes,
         PlatformsStay, RemovedIdle, TypeOK
    <2> QED
      BY <1>1, <2>1, <2>2, <2>3, <2>4, <2>5 DEF TypeOK
  <1>3. entries'[e] = entries[e] \/ (entries'[e] = None /\ phase'[e] = "gone")
    BY DEF PlainStep, SetupBegins, SetupNotReady, PlatformsUp, PlatformsBreak, UnloadBegins, Closes,
       PlatformsStay, RemovedIdle, Leaves, TypeOK
  <1>4. KeysApart' /\ KeyedByLan'
    BY <1>1, <1>3, KeysKept DEF Exists
  <1>5. phase'[e] \in {"setup", "forwarding", "loaded"} =>
          /\ entries'[e] # None
          /\ ~pending'[e] /\ ~overtaken'[e] => client'[e] = entries'[e].url
    BY DEF PlainStep, SetupBegins, SetupNotReady, PlatformsUp, PlatformsBreak, UnloadBegins, Closes,
       PlatformsStay, RemovedIdle, Leaves, TypeOK, ClientFollows, Exists
  <1>6. ClientFollows'
    BY <1>1, <1>5 DEF ClientFollows, Exists
  <1>7. IF phase'[e] \in {"loaded", "unloading"} THEN streams'[e] = 1
        ELSE streams'[e] = 0 \/ (phase'[e] \in {"failed", "gone"} /\ botched'[e] /\ streams'[e] = 1)
    BY DEF PlainStep, SetupBegins, SetupNotReady, PlatformsUp, PlatformsBreak, UnloadBegins, Closes,
       PlatformsStay, RemovedIdle, Leaves, TypeOK, Subscribed
  <1>8. Subscribed'
    BY <1>1, <1>7 DEF Subscribed
  <1> QED
    BY <1>2, <1>4, <1>6, <1>8

LEMMA PathTyped ==
    ASSUME TypeOK, NEW e \in Ids
    PROVE  PathFor(e) \in Paths /\ PathFor(e) # None /\ Plain \in Paths
  BY EntryAssumption DEF PathFor, Paths, TypeOK

LEMMA PanelLone ==
    ASSUME LoneInv, NEW e \in Ids, PanelStep(e)
    PROVE  LoneInv'
  <1> USE DEF LoneInv
  <1>1. CASE ManifestArrives(e)
    <2>2. /\ phase[e] = "setup" /\ phase' = [phase EXCEPT ![e] = "forwarding"]
          /\ UNCHANGED <<prefix, entries, pending, botched, streams, client, overtaken>>
          /\ https' = https /\ seen' \in [Ids -> BOOLEAN] /\ Registers(e)
      BY <1>1 DEF ManifestArrives, running, TypeOK
    <2>3. paths' \in [Ids -> Paths \cup {None}] /\ panels' \in [Paths -> Panel \cup {None}]
      <3>1. [owner |-> e, url |-> entries[e].url] \in Panel
        BY <2>2 DEF ClientFollows, Exists, TypeOK, Entry, Panel
      <3> QED
        BY <2>2, <3>1, PathTyped DEF Registers, sidebar, TypeOK
    <2>4. TypeOK'
      BY <2>2, <2>3 DEF TypeOK, Phases
    <2>5. KeysApart' /\ KeyedByLan'
      BY <2>2, KeysKept DEF Exists
    <2>6. ClientFollows' /\ Subscribed'
      BY <2>2 DEF ClientFollows, Subscribed, Exists, TypeOK
    <2> QED
      BY <2>4, <2>5, <2>6
  <1>2. CASE PlatformsUnload(e)
    <2>1. /\ phase[e] = "unloading" /\ RemovesPanel(e)
          /\ streams' = [streams EXCEPT ![e] = 0] /\ Leaves(e, "unloaded")
          /\ UNCHANGED <<prefix, pending, botched, client, overtaken, https, seen>>
      BY <1>2 DEF PlatformsUnload, Shut, decided
    <2>2. paths' \in [Ids -> Paths \cup {None}] /\ panels' \in [Paths -> Panel \cup {None}]
      BY <2>1 DEF RemovesPanel, TypeOK
    <2>3. /\ phase' \in [Ids -> Phases] /\ phase'[e] \in {"unloaded", "gone"}
          /\ \A d \in Ids \ {e} : phase'[d] = phase[d] /\ entries'[d] = entries[d]
          /\ entries' \in [Ids -> Entry \cup {None}] /\ entries'[e] \in {entries[e], None}
      BY <2>1 DEF Leaves, TypeOK, Phases
    <2>4. TypeOK'
      BY <2>1, <2>2, <2>3 DEF TypeOK
    <2>5. KeysApart' /\ KeyedByLan'
      BY <2>3, KeysKept DEF Exists
    <2>6. ClientFollows' /\ Subscribed'
      BY <2>1, <2>3 DEF ClientFollows, Subscribed, Exists, TypeOK
    <2> QED
      BY <2>4, <2>5, <2>6
  <1> QED
    BY <1>1, <1>2 DEF PanelStep

LEMMA RestartAll ==
    ASSUME IInv, Restarts
    PROVE  IInv'
  <1>1. /\ UNCHANGED <<prefix, entries>>
        /\ \A e \in Ids : phase'[e] \in {"unloaded", "gone"} /\ paths'[e] = None /\ streams'[e] = 0
        /\ \A path \in Paths : panels'[path] \in {None, Foreign}
        /\ \A path \in Prefixes : panels'[path] = None
    BY EntryAssumption DEF Restarts, EmptySidebars, Paths
  <1>2. panels' \in [Paths -> Panel \cup {None}]
    <2>1. Foreign \in Panel
      BY DEF Foreign, Panel
    <2> QED
      BY <2>1 DEF Restarts, EmptySidebars
  <1>3. TypeOK'
    BY <1>2 DEF IInv, TypeOK, Restarts, Phases
  <1>4. KeysApart' /\ KeyedByLan'
    BY <1>1, KeysKept DEF IInv, Exists
  <1>5. ClientFollows' /\ Subscribed' /\ SidebarDecided'
    BY <1>1 DEF ClientFollows, Subscribed, SidebarDecided
  <1>6. PathsOwn' /\ PanelsOwn'
    <2>1. None # Plain
      BY EntryAssumption DEF Paths
    <2> QED
      BY <1>1, <2>1 DEF PathsOwn, PanelsOwn
  <1>7. NoOrphans'
    BY <1>1 DEF NoOrphans, Foreign
  <1> QED
    BY <1>3, <1>4, <1>5, <1>6, <1>7 DEF IInv

-----------------------------------------------------------------------------
\* The sidebar.
SidebarInv == PathsOwn /\ PanelsOwn /\ NoOrphans /\ SidebarDecided

LEMMA AlikeStays == ASSUME prefix' = prefix, NEW e PROVE Alike(e)' <=> Alike(e)
  BY DEF Alike

\* What is said of an entry that is up.
Placed(e) ==
    /\ Due(e, seen[e]) =>
         /\ paths[e] # None
         /\ panels[paths[e]] = [owner |-> e, url |-> entries[e].url] \/ Alike(e)
    /\ paths[e] # None => Due(e, seen[e]) \/ botched[e]

LEMMA PlacedEach ==
    SidebarDecided <=> \A e \in Ids : phase[e] \in {"forwarding", "loaded"} /\ ~pending[e] => Placed(e)
  BY DEF SidebarDecided, Placed

\* A step of an entry that touches no panel: what is said of the others is as it was.
LEMMA StepsAside ==
    ASSUME TypeOK, SidebarInv, NEW e \in Ids, UNCHANGED <<prefix, paths, panels>>,
           \A d \in Ids \ {e} :
             /\ phase'[d] = phase[d] /\ entries'[d] = entries[d] /\ pending'[d] = pending[d]
             /\ botched'[d] = botched[d] /\ seen'[d] = seen[d],
           botched[e] => botched'[e],
           phase'[e] \in {"unloaded", "setup", "retry"} /\ ~botched'[e] => paths[e] = None,
           \/ botched'[e]
           \/ phase'[e] \in {"forwarding", "loaded", "unloading"}
           \/ phase[e] \notin {"forwarding", "loaded", "unloading"},
           \/ phase'[e] \notin {"forwarding", "loaded"} \/ pending'[e]
           \/ /\ phase[e] \in {"forwarding", "loaded"} /\ ~pending[e]
              /\ entries'[e] = entries[e] /\ seen'[e] = seen[e]
    PROVE  SidebarInv'
  <1>1. PathsOwn'
    BY DEF SidebarInv, PathsOwn
  <1>2. PanelsOwn'
    BY DEF SidebarInv, PanelsOwn
  <1>3. NoOrphans'
    <2> SUFFICES ASSUME NEW path \in Paths, panels[path] # None, panels[path].owner # None
                 PROVE  LET d == panels[path].owner IN
                        botched'[d] \/ (paths[d] = path /\ phase'[d] \in {"forwarding", "loaded", "unloading"})
      BY DEF NoOrphans
    <2> DEFINE d == panels[path].owner
    <2>1. botched[d] \/ (paths[d] = path /\ phase[d] \in {"forwarding", "loaded", "unloading"})
      BY DEF SidebarInv, NoOrphans
    <2>2. d \in Ids
      BY DEF TypeOK, Panel
    <2> QED
      BY <2>1, <2>2
  <1>4. ASSUME NEW d \in Ids, phase'[d] \in {"forwarding", "loaded"}, ~pending'[d]
        PROVE  Placed(d)'
    <2>1. /\ phase[d] \in {"forwarding", "loaded"} /\ ~pending[d]
          /\ entries'[d] = entries[d] /\ seen'[d] = seen[d] /\ (botched[d] => botched'[d])
      BY <1>4
    <2>2. Placed(d)
      BY <2>1, PlacedEach DEF SidebarInv
    <2> QED
      BY <2>1, <2>2, AlikeStays DEF Placed, Due
  <1>5. SidebarDecided'
    BY <1>4 DEF SidebarDecided, Placed
  <1> QED
    BY <1>1, <1>2, <1>3, <1>5 DEF SidebarInv

LEMMA FlowSidebar ==
    ASSUME LoneInv, SidebarInv, NEW e \in Ids, FlowStep(e)
    PROVE  SidebarInv'
  <1> USE DEF lifecycle, sidebar, running, decided
  <1>1. /\ TypeOK /\ UNCHANGED <<prefix, phase, botched, paths, panels>>
        /\ seen' = seen
        /\ \A d \in Ids \ {e} : entries'[d] = entries[d] /\ pending'[d] = pending[d]
    BY DEF LoneInv, FlowStep, Creates, Rewrites, SavesOption, TypeOK
  <1>2. phase'[e] \notin {"forwarding", "loaded"} \/ pending'[e]
    BY DEF LoneInv, FlowStep, Creates, Rewrites, SavesOption, ReloadedWhenRewritten, Listening, TypeOK
  <1>3. phase'[e] \in {"unloaded", "setup", "retry"} /\ ~botched'[e] => paths[e] = None
    BY <1>1 DEF SidebarInv, PathsOwn
  <1> QED
    BY <1>1, <1>2, <1>3, StepsAside

LEMMA PlainSidebar ==
    ASSUME LoneInv, SidebarInv, NEW e \in Ids, PlainStep(e)
    PROVE  SidebarInv'
  <1> USE DEF lifecycle, sidebar, running, decided
  <1>1. /\ TypeOK /\ UNCHANGED <<prefix, paths, panels>>
        /\ \A d \in Ids \ {e} :
             /\ phase'[d] = phase[d] /\ entries'[d] = entries[d] /\ pending'[d] = pending[d]
             /\ botched'[d] = botched[d] /\ seen'[d] = seen[d]
        /\ botched[e] => botched'[e]
    BY DEF LoneInv, PlainStep, SetupBegins, SetupNotReady, PlatformsUp, PlatformsBreak,
       UnloadBegins, Closes, PlatformsStay, RemovedIdle, Leaves, TypeOK
  <1>2. phase'[e] \in {"unloaded", "setup", "retry"} /\ ~botched'[e] => paths[e] = None
    BY DEF SidebarInv, PathsOwn, LoneInv, PlainStep, SetupBegins, SetupNotReady, PlatformsUp,
       PlatformsBreak, UnloadBegins, Closes, PlatformsStay, RemovedIdle, Leaves, TypeOK
  <1>3. \/ botched'[e]
        \/ phase'[e] \in {"forwarding", "loaded", "unloading"}
        \/ phase[e] \notin {"forwarding", "loaded", "unloading"}
    BY DEF LoneInv, PlainStep, SetupBegins, SetupNotReady, PlatformsUp, PlatformsBreak,
       UnloadBegins, Closes, PlatformsStay, RemovedIdle, Leaves, TypeOK
  <1>4. \/ phase'[e] \notin {"forwarding", "loaded"} \/ pending'[e]
        \/ /\ phase[e] \in {"forwarding", "loaded"} /\ ~pending[e]
           /\ entries'[e] = entries[e] /\ seen'[e] = seen[e]
    BY DEF LoneInv, PlainStep, SetupBegins, SetupNotReady, PlatformsUp, PlatformsBreak,
       UnloadBegins, Closes, PlatformsStay, RemovedIdle, Leaves, TypeOK
  <1> QED
    BY <1>1, <1>2, <1>3, <1>4, StepsAside

\* A panel is placed at the plain path if that is free, and else under the entry's
\* own prefix: it covers none that another entry took, unless their ids begin alike.
LEMMA ArrivesSidebar ==
    ASSUME LoneInv, SidebarInv, NEW e \in Ids, ManifestArrives(e)
    PROVE  SidebarInv'
  <1>1. /\ TypeOK /\ phase[e] = "setup" /\ phase'[e] = "forwarding"
        /\ \A d \in Ids \ {e} : phase'[d] = phase[d]
        /\ UNCHANGED <<prefix, entries, pending, botched>>
        /\ Registers(e) /\ entries[e] \in Entry
        /\ seen'[e] = https /\ \A d \in Ids \ {e} : seen'[d] = seen[d]
    BY DEF ManifestArrives, LoneInv, ClientFollows, Exists, TypeOK
  <1>2. Plain \notin Prefixes /\ None \notin Paths /\ \A d \in Ids : prefix[d] \in Prefixes
    BY <1>1, EntryAssumption DEF TypeOK
  <1>3. CASE Places(e)
    <2> DEFINE p == PathFor(e)
               panel == [owner |-> e, url |-> entries[e].url]
    <2>1. /\ p \in Paths /\ p # None
          /\ (p = Plain /\ panels[Plain] = None) \/ (p = prefix[e] /\ panels[Plain] # None)
      BY <1>1, <1>2, PathTyped DEF PathFor
    <2>2. /\ paths'[e] = p /\ panels'[p] = panel
          /\ \A d \in Ids \ {e} : paths'[d] = paths[d]
          /\ \A path \in Paths \ {p} : panels'[path] = panels[path]
      BY <1>1, <1>3, <2>1 DEF Registers, TypeOK
    <2>3. panel # None /\ panel.owner = e
      <3>1. panel \in Panel
        BY <1>1 DEF Entry, Panel
      <3> QED
        BY <3>1, EntryAssumption
    <2>4. Prefixes \subseteq Paths /\ Plain \in Paths
      BY DEF Paths
    <2> HIDE DEF p
    <2>5. PathsOwn'
      BY <1>1, <2>1, <2>2 DEF SidebarInv, PathsOwn
    <2>6. ASSUME NEW d \in Ids, paths'[d] = Plain
          PROVE  panels'[Plain] # None /\ panels'[Plain].owner = d
      <3>1. CASE d = e
        BY <2>2, <2>3, <2>6, <3>1
      <3>2. CASE d # e
        <4>1. paths[d] = Plain
          BY <2>2, <2>6, <3>2
        <4>2. panels[Plain] # None /\ panels[Plain].owner = d
          BY <4>1 DEF SidebarInv, PanelsOwn
        <4>3. p # Plain
          BY <4>2, <2>1, <1>2
        <4> QED
          BY <4>2, <4>3, <2>2, <2>4
      <3> QED
        BY <3>1, <3>2
    <2>7. ASSUME NEW path \in Prefixes, panels'[path] # None
          PROVE  panels'[path].owner \in Ids /\ prefix[panels'[path].owner] = path
      <3>1. CASE path = p
        BY <1>2, <2>1, <2>2, <2>3, <3>1
      <3>2. CASE path # p
        BY <2>2, <2>4, <2>7, <3>2 DEF SidebarInv, PanelsOwn
      <3> QED
        BY <3>1, <3>2
    <2>8. PanelsOwn'
      BY <1>1, <2>6, <2>7 DEF PanelsOwn
    <2>9. ASSUME NEW path \in Paths, panels'[path] # None, panels'[path].owner # None
          PROVE  LET d == panels'[path].owner IN
                 botched'[d] \/ (paths'[d] = path /\ phase'[d] \in {"forwarding", "loaded", "unloading"})
      <3>1. CASE path = p
        BY <1>1, <2>2, <2>3, <3>1
      <3>2. CASE path # p
        <4> DEFINE d == panels[path].owner
        <4>1. panels'[path] = panels[path]
          BY <2>2, <3>2
        <4>2. d \in Ids /\ (botched[d] \/ (paths[d] = path /\ phase[d] \in {"forwarding", "loaded", "unloading"}))
          BY <1>1, <2>9, <4>1 DEF SidebarInv, NoOrphans, TypeOK, Panel
        <4> QED
          BY <4>1, <4>2, <1>1, <2>2
      <3> QED
        BY <3>1, <3>2
    <2>10. NoOrphans'
      BY <2>9 DEF NoOrphans
    <2>11. ASSUME NEW d \in Ids, d # e, paths[d] # None, panels[paths[d]] = [owner |-> d, url |-> entries[d].url]
           PROVE  panels'[paths[d]] = panels[paths[d]] \/ Alike(d)
      <3>1. CASE paths[d] # p
        <4>1. paths[d] \in Paths
          BY <1>1, <2>11 DEF TypeOK
        <4> QED
          BY <2>2, <3>1, <4>1
      <3>2. CASE paths[d] = p
        <4>1. p # Plain
          BY <2>1, <1>2, <3>2 DEF SidebarInv, PanelsOwn
        <4>2. prefix[d] = prefix[e]
          BY <4>1, <2>1, <2>11, <3>2 DEF SidebarInv, PathsOwn
        <4> QED
          BY <4>2, <2>11 DEF Alike
      <3> QED
        BY <3>1, <3>2
    <2>12. ASSUME NEW d \in Ids, phase'[d] \in {"forwarding", "loaded"}, ~pending'[d]
           PROVE  Placed(d)'
      <3>1. CASE d = e
        <4>1. entries'[e] = entries[e] /\ seen'[e] = https
          BY <1>1
        <4>2. entries[e].sidebar /\ (https => entries[e].url.scheme = "https")
          BY <1>3 DEF Places
        <4>3. Due(e, seen[e])'
          BY <4>1, <4>2 DEF Due
        <4>4. paths'[e] # None /\ panels'[paths'[e]] = [owner |-> e, url |-> entries'[e].url]
          BY <2>1, <2>2, <4>1
        <4> QED
          BY <3>1, <4>3, <4>4 DEF Placed
      <3>2. CASE d # e
        <4>1. phase[d] \in {"forwarding", "loaded"} /\ ~pending[d]
          BY <1>1, <2>12, <3>2
        <4>2. Placed(d)
          BY <4>1, PlacedEach DEF SidebarInv
        <4>3. /\ entries' = entries /\ paths'[d] = paths[d] /\ seen'[d] = seen[d] /\ botched' = botched
          BY <1>1, <2>2, <3>2
        <4>4. Due(d, seen[d])' <=> Due(d, seen[d])
          BY <4>3 DEF Due
        <4> QED
          BY <1>1, <2>11, <3>2, <4>2, <4>3, <4>4, AlikeStays DEF Placed
      <3> QED
        BY <3>1, <3>2
    <2>13. SidebarDecided'
      BY <2>12 DEF SidebarDecided, Placed
    <2> QED
      BY <2>5, <2>8, <2>10, <2>13 DEF SidebarInv
  <1>4. CASE ~Places(e)
    <2>1. paths' = paths /\ panels' = panels
      BY <1>1, <1>4 DEF Registers, sidebar
    <2>2. ~botched[e] => paths[e] = None
      BY <1>1 DEF SidebarInv, PathsOwn
    <2>3. ~Due(e, seen[e])'
      BY <1>1, <1>4 DEF Places, Due
    <2>4. PathsOwn' /\ PanelsOwn'
      BY <1>1, <2>1 DEF SidebarInv, PathsOwn, PanelsOwn
    <2>5. NoOrphans'
      <3> SUFFICES ASSUME NEW path \in Paths, panels[path] # None, panels[path].owner # None
                   PROVE  LET d == panels[path].owner IN
                          botched'[d] \/ (paths[d] = path /\ phase'[d] \in {"forwarding", "loaded", "unloading"})
        BY <2>1 DEF NoOrphans
      <3> DEFINE d == panels[path].owner
      <3>1. d \in Ids /\ (botched[d] \/ (paths[d] = path /\ phase[d] \in {"forwarding", "loaded", "unloading"}))
        BY <1>1 DEF SidebarInv, NoOrphans, TypeOK, Panel
      <3> QED
        BY <1>1, <3>1
    <2>6. ASSUME NEW d \in Ids, phase'[d] \in {"forwarding", "loaded"}, ~pending'[d]
          PROVE  Placed(d)'
      <3>1. CASE d = e
        BY <1>1, <2>1, <2>2, <2>3, <3>1 DEF Placed
      <3>2. CASE d # e
        <4>1. phase[d] \in {"forwarding", "loaded"} /\ ~pending[d]
          BY <1>1, <2>6, <3>2
        <4>2. Placed(d)
          BY <4>1, PlacedEach DEF SidebarInv
        <4>3. entries' = entries /\ seen'[d] = seen[d] /\ botched' = botched
          BY <1>1, <3>2
        <4> QED
          BY <1>1, <2>1, <4>2, <4>3, AlikeStays DEF Placed, Due
      <3> QED
        BY <3>1, <3>2
    <2>7. SidebarDecided'
      BY <2>6 DEF SidebarDecided, Placed
    <2> QED
      BY <2>4, <2>5, <2>7 DEF SidebarInv
  <1> QED
    BY <1>3, <1>4

\* The path an entry took holds nothing of another's, unless their ids begin alike.
LEMMA PathTaken ==
    ASSUME TypeOK, SidebarInv, NEW d \in Ids, NEW e \in Ids, d # e,
           paths[e] # None, paths[d] = paths[e]
    PROVE  Alike(d)
  <1>1. CASE paths[e] = Plain
    BY <1>1 DEF SidebarInv, PanelsOwn
  <1>2. CASE paths[e] # Plain
    <2>1. prefix[d] = prefix[e]
      BY <1>2 DEF SidebarInv, PathsOwn
    <2> QED
      BY <2>1 DEF Alike
  <1> QED
    BY <1>1, <1>2

LEMMA UnloadSidebar ==
    ASSUME LoneInv, SidebarInv, NEW e \in Ids, PlatformsUnload(e)
    PROVE  SidebarInv'
  <1>1. /\ TypeOK /\ phase[e] = "unloading" /\ phase'[e] \in {"unloaded", "gone"}
        /\ \A d \in Ids \ {e} : phase'[d] = phase[d] /\ entries'[d] = entries[d]
        /\ UNCHANGED <<prefix, pending, botched, seen>>
    BY DEF PlatformsUnload, Leaves, LoneInv, TypeOK, decided
  <1>2. /\ paths'[e] = None /\ \A d \in Ids \ {e} : paths'[d] = paths[d]
        /\ \A path \in Paths : panels'[path] = IF path = paths[e] THEN None ELSE panels[path]
    BY <1>1, EntryAssumption DEF PlatformsUnload, RemovesPanel, TypeOK
  <1>3. Prefixes \subseteq Paths /\ Plain \in Paths /\ None \notin Paths
    BY EntryAssumption DEF Paths
  <1>4. PathsOwn'
    BY <1>1, <1>2 DEF SidebarInv, PathsOwn
  <1>5. PanelsOwn'
    <2>1. ASSUME NEW d \in Ids, paths'[d] = Plain
          PROVE  panels'[Plain] # None /\ panels'[Plain].owner = d
      <3>1. d # e /\ paths[d] = Plain
        BY <1>2, <1>3, <2>1
      <3>2. panels[Plain] # None /\ panels[Plain].owner = d
        BY <3>1 DEF SidebarInv, PanelsOwn
      <3>3. paths[e] # Plain
        BY <3>1, <3>2 DEF SidebarInv, PanelsOwn
      <3> QED
        BY <1>2, <1>3, <3>2, <3>3
    <2>2. ASSUME NEW path \in Prefixes, panels'[path] # None
          PROVE  panels'[path].owner \in Ids /\ prefix[panels'[path].owner] = path
      BY <1>2, <1>3, <2>2 DEF SidebarInv, PanelsOwn
    <2> QED
      BY <1>1, <2>1, <2>2 DEF PanelsOwn
  <1>6. NoOrphans'
    <2> SUFFICES ASSUME NEW path \in Paths, panels'[path] # None, panels'[path].owner # None
                 PROVE  LET d == panels'[path].owner IN
                        botched'[d] \/ (paths'[d] = path /\ phase'[d] \in {"forwarding", "loaded", "unloading"})
      BY DEF NoOrphans
    <2> DEFINE d == panels[path].owner
    <2>1. panels'[path] = panels[path] /\ path # paths[e]
      BY <1>2
    <2>2. d \in Ids /\ (botched[d] \/ (paths[d] = path /\ phase[d] \in {"forwarding", "loaded", "unloading"}))
      BY <1>1, <2>1 DEF SidebarInv, NoOrphans, TypeOK, Panel
    <2> QED
      BY <1>1, <1>2, <2>1, <2>2
  <1>7. ASSUME NEW d \in Ids, phase'[d] \in {"forwarding", "loaded"}, ~pending'[d]
        PROVE  Placed(d)'
    <2>1. d # e /\ phase[d] \in {"forwarding", "loaded"} /\ ~pending[d]
      BY <1>1, <1>7
    <2>2. Placed(d)
      BY <2>1, PlacedEach DEF SidebarInv
    <2>3. paths[d] # None => paths[d] \in Paths
      BY <1>1 DEF TypeOK
    <2>4. paths[d] # None /\ ~Alike(d) => panels'[paths[d]] = panels[paths[d]]
      BY <1>1, <1>2, <2>1, <2>3, PathTaken
    <2>5. entries'[d] = entries[d] /\ paths'[d] = paths[d] /\ seen' = seen /\ botched' = botched
      BY <1>1, <1>2, <2>1
    <2> QED
      BY <1>1, <2>2, <2>4, <2>5, AlikeStays DEF Placed, Due
  <1>8. SidebarDecided'
    BY <1>7 DEF SidebarDecided, Placed
  <1> QED
    BY <1>4, <1>5, <1>6, <1>8 DEF SidebarInv

-----------------------------------------------------------------------------
LEMMA InvNext == IInv /\ [Next]_vars => IInv'
  <1> SUFFICES ASSUME IInv, [Next]_vars PROVE IInv'
    OBVIOUS
  <1>1. LoneInv /\ SidebarInv
    BY DEF IInv, LoneInv, SidebarInv
  <1>2. CASE UNCHANGED vars
    BY <1>2 DEF vars, lifecycle, sidebar, running, decided, IInv, TypeOK, KeysApart, KeyedByLan, ClientFollows,
       Subscribed, PathsOwn, PanelsOwn, NoOrphans, SidebarDecided, Due, Exists, Alike
  <1>3. CASE Restarts
    BY <1>3, RestartAll
  <1>4. ASSUME NEW e \in Ids, FlowStep(e) \/ PlainStep(e) \/ PanelStep(e)
        PROVE  LoneInv' /\ SidebarInv'
    BY <1>1, <1>4, FlowLone, FlowSidebar, PlainLone, PlainSidebar, PanelLone, ArrivesSidebar,
       UnloadSidebar DEF PanelStep
  <1>5. LoneInv' /\ SidebarInv' => IInv'
    BY DEF IInv, LoneInv, SidebarInv
  <1>6. CASE HttpsTurns
    <2>1. UNCHANGED <<prefix, entries, lifecycle, sidebar, running, overtaken, seen>> /\ https' \in BOOLEAN
      BY <1>6 DEF HttpsTurns, IInv, TypeOK
    <2> QED
      BY <2>1 DEF lifecycle, sidebar, running, IInv, TypeOK, KeysApart, KeyedByLan, ClientFollows,
         Subscribed, PathsOwn, PanelsOwn, NoOrphans, SidebarDecided, Due, Exists, Alike
  <1> QED
    BY <1>2, <1>3, <1>4, <1>5, <1>6, Steps

\* The invariant the others are parts of: who took which path, how entries are keyed,
\* what is still subscribed.
THEOREM EntriesInductive == Spec => []IInv
  BY InvInit, InvNext, PTL DEF Spec

\* Every variable keeps its shape.
THEOREM EntryTypeCorrect == Spec => []TypeOK
  <1>1. IInv => TypeOK
    BY DEF IInv
  <1> QED
    BY <1>1, EntriesInductive, PTL

\* No panel outlives its entry but where a setup broke or an unload failed
\* (async_remove_panel).
THEOREM OrphanCorrect == Spec => []NoOrphans
  <1>1. IInv => NoOrphans
    BY DEF IInv
  <1> QED
    BY <1>1, EntriesInductive, PTL

\* An entry that is up is in the sidebar if its option says so and a browser would
\* frame it in the Home Assistant it was set up in, whatever failed before, and only
\* then if nothing did (async_register_panel, _hass_uses_https).
THEOREM SidebarCorrect == Spec => []SidebarFollows
  <1>1. IInv => SidebarFollows
    BY DEF IInv, SidebarDecided, SidebarFollows
  <1> QED
    BY <1>1, EntriesInductive, PTL

\* A loaded entry is subscribed once, an unloaded one not at all (async_shutdown).
THEOREM SubscriptionCorrect == Spec => []OneSubscription
  <1>1. IInv => OneSubscription
    BY DEF IInv, Subscribed, OneSubscription
  <1> QED
    BY <1>1, EntriesInductive, PTL

\* A loaded entry talks to its host, but where the host came during its setup.
THEOREM ClientCorrect == Spec => []ClientIsCurrent
  <1>1. IInv => ClientIsCurrent
    BY DEF IInv, ClientFollows, ClientIsCurrent
  <1> QED
    BY <1>1, EntriesInductive, PTL

\* One appliance that says its address has one entry, whatever it was typed as
\* (async_step_user).
THEOREM OneEntryCorrect == Spec => []OneEntryPerServer
  <1>1. IInv => OneEntryPerServer
    BY DEF IInv, KeysApart, KeyedByLan, OneEntryPerServer
  <1> QED
    BY <1>1, EntriesInductive, PTL

\* No entry takes away or covers a panel but its own, or one whose id begins alike.
THEOREM StandCorrect == Spec => OthersPanelsStand
  <1>1. IInv /\ [Next]_vars =>
          [\A path \in Paths :
             panels[path] # None /\ panels'[path] # panels[path] =>
                \/ Restarts
                \/ panels[path].owner # None
                   /\ LET e == panels[path].owner IN phase[e] # phase'[e] \/ Alike(e)]_vars
    <2> SUFFICES ASSUME IInv, Next, ~Restarts, NEW path \in Paths,
                        panels[path] # None, panels'[path] # panels[path]
                 PROVE  /\ panels[path].owner # None
                        /\ LET e == panels[path].owner IN phase[e] # phase'[e] \/ Alike(e)
      OBVIOUS
    <2>1. PICK e \in Ids : FlowStep(e) \/ PlainStep(e) \/ PanelStep(e)
      BY Steps DEF HttpsTurns, sidebar
    <2>2. PanelStep(e)
      BY <2>1 DEF FlowStep, PlainStep, Creates, Rewrites, SavesOption, SetupBegins, SetupNotReady,
         PlatformsUp, PlatformsBreak, UnloadBegins, Closes, PlatformsStay, RemovedIdle, sidebar
    <2>3. TypeOK /\ phase'[e] # phase[e]
      BY <2>2 DEF IInv, PanelStep, ManifestArrives, PlatformsUnload, Leaves, TypeOK
    <2>4. path = Plain => paths[e] = Plain /\ panels[Plain].owner = e
      <3>1. ASSUME path = Plain PROVE paths[e] = Plain
        BY <2>2, <2>3, <3>1, EntryAssumption DEF PanelStep, ManifestArrives, Registers, PathFor,
           PlatformsUnload, RemovesPanel, TypeOK, sidebar
      <3> QED
        BY <3>1 DEF IInv, PanelsOwn
    <2>5. path # Plain => path = prefix[e]
      BY <2>2, <2>3 DEF PanelStep, ManifestArrives, Registers, PathFor,
         PlatformsUnload, RemovesPanel, TypeOK, sidebar, IInv, PathsOwn
    <2>6. CASE path = Plain
      BY <2>3, <2>4, <2>6, EntryAssumption
    <2>7. CASE path # Plain
      <3>1. panels[path].owner \in Ids /\ prefix[panels[path].owner] = prefix[e]
        BY <2>5, <2>7 DEF IInv, PanelsOwn, Paths
      <3> QED
        BY <2>3, <3>1, EntryAssumption DEF Alike
    <2> QED
      BY <2>6, <2>7
  <1> QED
    BY <1>1, EntriesInductive, PTL DEF Spec, OthersPanelsStand
=============================================================================
