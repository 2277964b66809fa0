-------------------------- MODULE EntitySyncProofs --------------------------
(***************************************************************************)
(* That the entities follow the manifest and the bridges follow the        *)
(* entities, for any cues, bridges, filters and delay.                     *)
(***************************************************************************)
EXTENDS EntitySync, TLAPS

\* What holds beside the types; IInv is TypeOK and this.
Kept ==
    /\ UnloadedIsBare
    /\ BuiltWhileRunning
    /\ ExtrasRemembered
    /\ DelayCoversQuiet
    /\ BridgesFollow
    /\ OnlyStrandedLinger

\* A sync keeps the types of what it writes.
LEMMA SyncType ==
    ASSUME TypeOK, NEW rows \in SUBSET Cues, Sync(rows)
    PROVE  /\ known' \subseteq Cues /\ registry' \subseteq Cues /\ removed' \subseteq Cues
           /\ delay' \in 0..DelayTicks \cup {None}
           /\ quiet' \in 0..DelayTicks
           /\ optedOut' \subseteq Homes
  <1>1. known' \subseteq Cues /\ registry' \subseteq Cues
    BY DEF TypeOK, Sync, Gone
  <1>2. /\ removed' \subseteq Cues
        /\ delay' \in 0..DelayTicks \cup {None}
        /\ quiet' \in 0..DelayTicks
    BY EntitySyncAssumption DEF TypeOK, Sync, NoteChanges, Gone
  <1>3. optedOut' \subseteq Homes
    BY DEF TypeOK, Sync, Built
  <1> QED
    BY <1>1, <1>2, <1>3

\* Type correctness at the start ...
LEMMA TypeInit == Init => TypeOK
  <1> SUFFICES ASSUME Init PROVE TypeOK
    OBVIOUS
  <1>1. /\ todo \in [Loops -> SUBSET Homes]
        /\ published \in [Homes -> {None} \cup SUBSET Cues]
    BY DEF Init
  <1>2. delay \in 0..DelayTicks \cup {None} /\ quiet \in 0..DelayTicks
    BY EntitySyncAssumption DEF Init
  <1> QED
    BY <1>1, <1>2 DEF Init, TypeOK

\* ... and by every step.
LEMMA TypeStep == TypeOK /\ [Next]_vars => TypeOK'
  <1> SUFFICES ASSUME TypeOK, [Next]_vars PROVE TypeOK'
    OBVIOUS
  <1>1. CASE Load
    <2>1. listed \in SUBSET Cues /\ Sync(listed)
      BY <1>1 DEF Load, TypeOK
    <2> QED
      BY <1>1, <2>1, SyncType DEF Load, TypeOK, bridges
  <1>2. CASE Refetch
    <2>1. listed \in SUBSET Cues /\ Sync(listed)
      BY <1>2 DEF Refetch, TypeOK
    <2> QED
      BY <1>2, <2>1, SyncType DEF Refetch, TypeOK, bridges
  <1>3. CASE Unload
    BY <1>3 DEF Unload, Shutdown, TypeOK, bridges, Built
  <1>4. CASE OptionToggles
    BY <1>4 DEF OptionToggles, Shutdown, TypeOK, bridges, Built
  <1>5. ASSUME NEW l \in Loops, ReloadBegins(l) PROVE TypeOK'
    BY <1>5 DEF ReloadBegins, TypeOK, excuses, Built
  <1>6. ASSUME NEW l \in Loops, NEW h \in Homes, ReloadsBridge(l, h) PROVE TypeOK'
    BY <1>6 DEF ReloadsBridge, TypeOK, ours, excuses
  <1>7. CASE Tick
    BY <1>7, EntitySyncAssumption DEF Tick, TypeOK, bridges, excuses
  <1>8. ASSUME NEW h \in Homes, BridgeBuilds(h) PROVE TypeOK'
    BY <1>8 DEF BridgeBuilds, TypeOK, ours
  <1>9. ASSUME NEW h \in Homes, BridgeReloads(h) PROVE TypeOK'
    BY <1>9 DEF BridgeReloads, TypeOK, ours, excuses
  <1>10. CASE HassStarted
    BY <1>10 DEF HassStarted, TypeOK, ours, bridges, excuses
  <1>11. CASE HassRestarts
    BY <1>11 DEF HassRestarts, Shutdown, TypeOK, excuses
  <1>12. ASSUME NEW rows \in SUBSET Cues, ListChanges(rows) PROVE TypeOK'
    BY <1>12 DEF ListChanges, TypeOK, ours, bridges, excuses
  <1>13. CASE UNCHANGED vars
    BY <1>13 DEF vars, ours, bridges, excuses, TypeOK
  <1> QED
    BY <1>1, <1>2, <1>3, <1>4, <1>5, <1>6, <1>7, <1>8, <1>9, <1>10, <1>11, <1>12, <1>13 DEF Next

\* TypeOK: every variable keeps the shape the code gives it.
THEOREM SyncTypeCorrect == Spec => []TypeOK
  <1> QED
    BY TypeInit, TypeStep, PTL DEF Spec

-----------------------------------------------------------------------------
\* What a sync does to the registry is put down for the reload, or is excused:
\* nothing changed there, or the timer is started anew and remembers what went,
\* or the option is off, or there is no bridge that has its list yet.
LEMMA SyncNotes ==
    ASSUME TypeOK, BuiltWhileRunning, NEW rows \in SUBSET Cues, Sync(rows)
    PROVE  \/ registry' = registry /\ UNCHANGED <<removed, delay, quiet, optedOut>>
           \/ /\ delay' = DelayTicks /\ quiet' = 0
              /\ removed \subseteq removed' /\ registry \ registry' \subseteq removed'
              /\ optedOut' = optedOut
           \/ Built \subseteq optedOut'  /\ UNCHANGED <<delay, quiet>>
  <1> DEFINE new == rows \ known
             out == Gone(rows)
  <1>1. CASE Added(new) = {} /\ out \cap registry = {}
    BY <1>1 DEF Sync, NoteChanges, Added, TypeOK
  <1>2. CASE ~(Added(new) = {} /\ out \cap registry = {}) /\ option /\ running
    BY <1>2 DEF Sync, NoteChanges, TypeOK
  <1>3. CASE ~(Added(new) = {} /\ out \cap registry = {}) /\ ~option
    BY <1>3 DEF Sync, NoteChanges
  <1>4. CASE ~(Added(new) = {} /\ out \cap registry = {}) /\ ~running
    BY <1>4 DEF Sync, NoteChanges, BuiltWhileRunning
  <1> QED
    BY <1>1, <1>2, <1>3, <1>4

\* A sync keeps each bridge that was following in the way of following.
LEMMA SyncKeeps ==
    ASSUME TypeOK, Kept, NEW rows \in SUBSET Cues, Sync(rows),
           UNCHANGED <<running, bridges, dropped>>
    PROVE  /\ BuiltWhileRunning' /\ ExtrasRemembered' /\ DelayCoversQuiet' /\ BridgesFollow'
  <1>1. Built' = Built
    BY DEF bridges, Built
  <1>2. optedOut \subseteq optedOut'
    BY DEF Sync
  <1>3. CASE registry' = registry /\ UNCHANGED <<removed, delay, quiet, optedOut>>
    BY <1>1, <1>3
    DEF Kept, bridges, BuiltWhileRunning, ExtrasRemembered, DelayCoversQuiet, BridgesFollow, Follows
  <1>4. CASE /\ delay' = DelayTicks /\ quiet' = 0
             /\ removed \subseteq removed' /\ registry \ registry' \subseteq removed'
             /\ optedOut' = optedOut
    <2>1. delay' # None
      BY <1>4, EntitySyncAssumption
    <2>2. ExtrasRemembered'
      BY <1>4 DEF Kept, bridges, ExtrasRemembered
    <2>3. DelayCoversQuiet'
      BY <1>4, EntitySyncAssumption DEF DelayCoversQuiet
    <2> QED
      BY <1>1, <2>1, <2>2, <2>3 DEF Kept, bridges, BuiltWhileRunning, BridgesFollow, Follows
  <1>5. CASE Built \subseteq optedOut' /\ UNCHANGED <<delay, quiet>>
    <2>1. \A h \in Homes : published[h] # None => h \in optedOut'
      BY <1>5 DEF Built
    <2> QED
      BY <1>1, <1>5, <2>1
      DEF Kept, bridges, BuiltWhileRunning, ExtrasRemembered, DelayCoversQuiet, BridgesFollow, Follows
  <1> QED
    BY <1>3, <1>4, <1>5, SyncNotes DEF Kept

\* While a reload is scheduled the reloader holds what is needed to find each
\* bridge it must reload: one it passes over publishes nothing of ours and has
\* nothing to publish.
LEMMA PassedOverFollows ==
    ASSUME TypeOK, Kept, NEW h \in Homes \ Accessories, published[h] # None,
           h \notin optedOut \cup dropped, \A l \in Loops : h \notin todo[l],
           ~Reloadable(h, removed)
    PROVE  published[h] = {} /\ Admits[h] \cap registry = {}
  <1>1. published[h] \subseteq Admits[h] /\ published[h] \subseteq registry \cup removed
    BY DEF Kept, ExtrasRemembered
  <1>2. Admits[h] \cap (registry \cup removed) = {}
    BY DEF Reloadable
  <1> QED
    BY <1>1, <1>2

-----------------------------------------------------------------------------
\* The parts hold at the start, where nothing is loaded and no bridge is up ...
LEMMA KeptInit == Init => Kept
  BY EntitySyncAssumption
  DEF Init, Kept, UnloadedIsBare, BuiltWhileRunning, Built, ExtrasRemembered, DelayCoversQuiet,
      BridgesFollow, Follows, OnlyStrandedLinger

\* ... and every step of the entry, the reloader and the bridges keeps them.
LEMMA KeptStep == TypeOK /\ Kept /\ [Next]_vars => Kept'
  <1> SUFFICES ASSUME TypeOK, Kept, [Next]_vars PROVE Kept'
    OBVIOUS
  <1>1. CASE Load
    <2>1. /\ listed \in SUBSET Cues /\ Sync(listed)
          /\ UNCHANGED <<running, bridges, dropped>>
      BY <1>1 DEF Load, TypeOK
    <2>2. known = {}
      BY <1>1 DEF Load, Kept, UnloadedIsBare
    <2>3. known' = listed /\ registry' = registry \cup listed
      BY <2>1, <2>2 DEF Sync, Gone
    <2>4. OnlyStrandedLinger'
      BY <1>1, <2>3 DEF Load, OnlyStrandedLinger
    <2>5. UnloadedIsBare'
      BY <1>1 DEF Load, UnloadedIsBare
    <2> QED
      BY <2>1, <2>4, <2>5, SyncKeeps DEF Kept
  <1>2. CASE Refetch
    <2>1. /\ listed \in SUBSET Cues /\ Sync(listed)
          /\ UNCHANGED <<running, bridges, dropped>>
      BY <1>2 DEF Refetch, TypeOK
    <2>2. known' = listed /\ registry' = (registry \cup (listed \ known)) \ (known \ listed)
      BY <2>1 DEF Sync, Gone
    <2>3. OnlyStrandedLinger'
      BY <1>2, <2>2 DEF Refetch, Kept, OnlyStrandedLinger
    <2>4. UnloadedIsBare'
      BY <1>2 DEF Refetch, UnloadedIsBare
    <2> QED
      BY <2>1, <2>3, <2>4, SyncKeeps DEF Kept
  <1>3. CASE Unload
    <2>1. UnloadedIsBare' /\ OnlyStrandedLinger' /\ DelayCoversQuiet'
      BY <1>3 DEF Unload, Shutdown, UnloadedIsBare, OnlyStrandedLinger, DelayCoversQuiet
    <2>2. BuiltWhileRunning'
      BY <1>3 DEF Unload, Kept, BuiltWhileRunning, Built, bridges
    <2>3. CASE delay = None
      BY <1>3, <2>1, <2>2, <2>3
      DEF Unload, Shutdown, Kept, ExtrasRemembered, BridgesFollow, Follows, bridges
    <2>4. CASE delay # None
      BY <1>3, <2>1, <2>2, <2>4
      DEF Unload, Shutdown, Kept, ExtrasRemembered, BridgesFollow, Follows, bridges, Built
    <2> QED
      BY <2>3, <2>4
  <1>4. CASE OptionToggles
    <2>1. UnloadedIsBare' /\ OnlyStrandedLinger' /\ DelayCoversQuiet'
      BY <1>4 DEF OptionToggles, Shutdown, UnloadedIsBare, OnlyStrandedLinger, DelayCoversQuiet
    <2>2. BuiltWhileRunning'
      BY <1>4 DEF OptionToggles, Kept, BuiltWhileRunning, Built, bridges
    <2>3. CASE delay = None
      BY <1>4, <2>1, <2>2, <2>3
      DEF OptionToggles, Shutdown, Kept, ExtrasRemembered, BridgesFollow, Follows, bridges
    <2>4. CASE delay # None
      BY <1>4, <2>1, <2>2, <2>4
      DEF OptionToggles, Shutdown, Kept, ExtrasRemembered, BridgesFollow, Follows, bridges, Built
    <2> QED
      BY <2>3, <2>4
  <1>5. ASSUME NEW l \in Loops, ReloadBegins(l) PROVE Kept'
    <2>1. UnloadedIsBare' /\ OnlyStrandedLinger' /\ DelayCoversQuiet'
      BY <1>5 DEF ReloadBegins, Kept, UnloadedIsBare, OnlyStrandedLinger, DelayCoversQuiet, excuses
    <2>up. BuiltWhileRunning'
      BY <1>5 DEF ReloadBegins, Kept, BuiltWhileRunning, Built
    <2>2. /\ todo' = [todo EXCEPT ![l] = {h \in Built : Reloadable(h, removed)}]
          /\ todo[l] = {} /\ todo \in [Loops -> SUBSET Homes]
      BY <1>5 DEF ReloadBegins, TypeOK
    <2>3. \A h \in Homes, k \in Loops : h \in todo[k] => h \in todo'[k]
      BY <2>2
    <2>4. \A h \in Homes : published[h] # None /\ Reloadable(h, removed) => h \in todo'[l]
      BY <2>2 DEF Built
    <2>5. /\ UNCHANGED <<registry, published, optedOut, dropped>>
          /\ removed' = {}
      BY <1>5 DEF ReloadBegins, excuses
    <2>6. ASSUME NEW h \in Homes \ Accessories
          PROVE  /\ published[h] # None => published[h] \subseteq Admits[h]
                 /\ \/ published[h] \in {None, Admits[h] \cap registry}
                    \/ \E k \in Loops : h \in todo'[k]
                    \/ h \in optedOut \cup dropped
      <3>1. published[h] # None => published[h] \subseteq Admits[h]
        BY DEF Kept, ExtrasRemembered
      <3> QED
        BY <2>3, <2>4, <3>1, PassedOverFollows
    <2>7. ExtrasRemembered'
      BY <2>5, <2>6 DEF ExtrasRemembered
    <2>8. BridgesFollow'
      BY <2>5, <2>6 DEF BridgesFollow, Follows
    <2> QED
      BY <2>1, <2>up, <2>7, <2>8 DEF Kept
  <1>6. ASSUME NEW l \in Loops, NEW h \in Homes, ReloadsBridge(l, h) PROVE Kept'
    <2>1. UnloadedIsBare' /\ OnlyStrandedLinger' /\ DelayCoversQuiet'
      BY <1>6 DEF ReloadsBridge, Kept, UnloadedIsBare, OnlyStrandedLinger, DelayCoversQuiet, ours, excuses
    <2>up. BuiltWhileRunning'
      BY <1>6 DEF ReloadsBridge, Kept, BuiltWhileRunning, Built, TypeOK
    <2>2. /\ published'[h] = None
          /\ \A g \in Homes : g # h => /\ published'[g] = published[g]
                                       /\ \A k \in Loops : g \in todo[k] <=> g \in todo'[k]
          /\ UNCHANGED <<registry, removed, delay, optedOut, dropped>>
      BY <1>6 DEF ReloadsBridge, TypeOK, ours, excuses
    <2>3. ExtrasRemembered'
      BY <2>2 DEF Kept, ExtrasRemembered
    <2>4. BridgesFollow'
      BY <2>2 DEF Kept, BridgesFollow, Follows
    <2> QED
      BY <2>1, <2>up, <2>3, <2>4 DEF Kept
  <1>7. CASE Tick
    <2>1. DelayCoversQuiet'
      BY <1>7, EntitySyncAssumption DEF Tick, Kept, DelayCoversQuiet, TypeOK
    <2>2. delay' # None /\ delay # None
      BY <1>7, EntitySyncAssumption DEF Tick, TypeOK
    <2> QED
      BY <1>7, <2>1, <2>2
      DEF Tick, Kept, UnloadedIsBare, BuiltWhileRunning, Built, ExtrasRemembered, BridgesFollow,
          Follows, OnlyStrandedLinger, bridges, excuses
  <1>8. ASSUME NEW h \in Homes, BridgeBuilds(h) PROVE Kept'
    <2>1. UnloadedIsBare' /\ OnlyStrandedLinger' /\ DelayCoversQuiet' /\ BuiltWhileRunning'
      BY <1>8
      DEF BridgeBuilds, Kept, UnloadedIsBare, OnlyStrandedLinger, DelayCoversQuiet,
          BuiltWhileRunning, ours
    <2>2. /\ published'[h] = Admits[h] \cap registry
          /\ \A g \in Homes : g # h => /\ published'[g] = published[g]
                                       /\ g \in optedOut \cup dropped <=> g \in (optedOut \cup dropped)'
          /\ UNCHANGED <<registry, removed, delay, todo>>
      BY <1>8 DEF BridgeBuilds, TypeOK, ours
    <2>3. ExtrasRemembered'
      BY <2>2 DEF Kept, ExtrasRemembered
    <2>4. BridgesFollow'
      BY <2>2 DEF Kept, BridgesFollow, Follows
    <2> QED
      BY <2>1, <2>3, <2>4 DEF Kept
  <1>9. ASSUME NEW h \in Homes, BridgeReloads(h) PROVE Kept'
    <2>1. UnloadedIsBare' /\ OnlyStrandedLinger' /\ DelayCoversQuiet'
      BY <1>9 DEF BridgeReloads, Kept, UnloadedIsBare, OnlyStrandedLinger, DelayCoversQuiet, ours, excuses
    <2>up. BuiltWhileRunning'
      BY <1>9 DEF BridgeReloads, Kept, BuiltWhileRunning, Built, TypeOK
    <2>2. /\ published'[h] = None
          /\ \A g \in Homes : g # h => published'[g] = published[g]
          /\ UNCHANGED <<registry, removed, delay, todo, optedOut, dropped>>
      BY <1>9 DEF BridgeReloads, TypeOK, ours, excuses
    <2>3. ExtrasRemembered'
      BY <2>2 DEF Kept, ExtrasRemembered
    <2>4. BridgesFollow'
      BY <2>2 DEF Kept, BridgesFollow, Follows
    <2> QED
      BY <2>1, <2>up, <2>3, <2>4 DEF Kept
  <1>10. CASE HassStarted
    BY <1>10
    DEF HassStarted, Kept, UnloadedIsBare, BuiltWhileRunning, ExtrasRemembered, DelayCoversQuiet,
        BridgesFollow, Follows, OnlyStrandedLinger, ours, bridges, excuses
  <1>11. CASE HassRestarts
    BY <1>11
    DEF HassRestarts, Shutdown, Kept, UnloadedIsBare, BuiltWhileRunning, Built, ExtrasRemembered,
        DelayCoversQuiet, BridgesFollow, Follows, OnlyStrandedLinger, excuses
  <1>12. ASSUME NEW rows \in SUBSET Cues, ListChanges(rows) PROVE Kept'
    BY <1>12
    DEF ListChanges, Kept, UnloadedIsBare, BuiltWhileRunning, Built, ExtrasRemembered,
        DelayCoversQuiet, BridgesFollow, Follows, OnlyStrandedLinger, ours, bridges, excuses
  <1>13. CASE UNCHANGED vars
    BY <1>13
    DEF vars, Kept, UnloadedIsBare, BuiltWhileRunning, Built, ExtrasRemembered,
        DelayCoversQuiet, BridgesFollow, Follows, OnlyStrandedLinger, ours, bridges, excuses
  <1> QED
    BY <1>1, <1>2, <1>3, <1>4, <1>5, <1>6, <1>7, <1>8, <1>9, <1>10, <1>11, <1>12, <1>13 DEF Next

\* IInv, the inductive invariant, holds of every behaviour.
THEOREM SyncInductive == Spec => []IInv
  <1>1. Init => IInv
    BY TypeInit, KeptInit DEF IInv, Kept
  <1>2. IInv /\ [Next]_vars => IInv'
    BY TypeStep, KeptStep DEF IInv, Kept
  <1> QED
    BY <1>1, <1>2, PTL DEF Spec

\* BridgesFollow: a bridge left behind has a reload to come, or an excuse.
THEOREM FollowCorrect == Spec => []BridgesFollow
  <1>1. IInv => BridgesFollow
    BY DEF IInv
  <1> QED
    BY <1>1, SyncInductive, PTL

\* OnlyStrandedLinger: the registry is the manifest and what was stranded.
THEOREM LingerCorrect == Spec => []OnlyStrandedLinger
  <1>1. IInv => OnlyStrandedLinger
    BY DEF IInv
  <1> QED
    BY <1>1, SyncInductive, PTL

\* ReloadWaitsForQuiet: no reload begins within the delay of the last change.
THEOREM QuietCorrect == Spec => ReloadWaitsForQuiet
  <1> DEFINE Waits == \A l \in Loops : todo[l] = {} /\ todo'[l] # {} => quiet >= DelayTicks
  <1>1. IInv /\ [Next]_vars => [Waits]_vars
    <2> SUFFICES ASSUME IInv, Next PROVE Waits
      BY DEF Waits
    <2>1. ASSUME NEW l \in Loops, ReloadBegins(l) PROVE Waits
      <3>1. delay = 0 /\ delay # None
        BY <2>1, EntitySyncAssumption DEF ReloadBegins
      <3> QED
        BY <3>1, EntitySyncAssumption DEF IInv, TypeOK, DelayCoversQuiet
    <2>2. ASSUME NEW l \in Loops, NEW h \in Homes, ReloadsBridge(l, h) PROVE Waits
      BY <2>2 DEF ReloadsBridge, IInv, TypeOK
    <2>3. CASE HassRestarts
      BY <2>3 DEF HassRestarts
    <2>4. CASE UNCHANGED todo
      BY <2>4
    <2>5. \/ UNCHANGED todo \/ HassRestarts
          \/ \E l \in Loops : ReloadBegins(l)
          \/ \E l \in Loops, h \in Homes : ReloadsBridge(l, h)
      BY DEF Next, Load, Refetch, Unload, OptionToggles, Tick, BridgeBuilds, BridgeReloads,
             HassStarted, ListChanges, bridges
    <2> QED
      BY <2>1, <2>2, <2>3, <2>4, <2>5
  <1> QED
    BY <1>1, SyncInductive, PTL DEF Spec, ReloadWaitsForQuiet

\* ReloadingOursReloadsNothing: loading with the entities it had schedules none.
THEOREM ReloadingOursCorrect == Spec => ReloadingOursReloadsNothing
  <1> DEFINE Nothing == ~loaded /\ loaded' /\ registry' = registry => delay' = None
  <1>1. IInv /\ [Next]_vars => [Nothing]_vars
    <2> SUFFICES ASSUME IInv, Next, ~loaded, loaded', registry' = registry
                 PROVE  delay' = None
      BY DEF Nothing
    <2>1. Load
      BY DEF Next, Refetch, Unload, OptionToggles, Shutdown, ReloadBegins, ReloadsBridge, Tick,
             BridgeBuilds, BridgeReloads, HassStarted, HassRestarts, ListChanges
    <2>2. known = {} /\ delay = None
      BY DEF IInv, UnloadedIsBare
    <2>3. Added(listed \ known) = {} /\ Gone(listed) = {}
      BY <2>1, <2>2 DEF Load, Sync, Added, Gone
    <2> QED
      BY <2>1, <2>2, <2>3 DEF Load, Sync, NoteChanges
  <1> QED
    BY <1>1, SyncInductive, PTL DEF Spec, ReloadingOursReloadsNothing
=============================================================================
