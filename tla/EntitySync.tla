----------------------------- MODULE EntitySync -----------------------------
(***************************************************************************)
(* How the cue list becomes entities (entity.py, async_sync_entities) and  *)
(* how the HomeKit bridges are made to follow (homekit.py): each sync adds *)
(* and removes registry entries and puts one debounced bridge reload out   *)
(* to HOMEKIT_RELOAD_DELAY_SECONDS from the last change.                   *)
(*                                                                         *)
(* One platform stands for both: the switches and the buttons are synced   *)
(* the same way from one manifest and share a reloader.  A manifest is     *)
(* read and synced in one step, and an added entity is registered in it.   *)
(* A bridge publishes the entities its filter admits among those Home      *)
(* Assistant has a state for, which are the registered ones, loaded or     *)
(* not; it works that out when it starts and never again.                  *)
(***************************************************************************)
EXTENDS Integers, FiniteSets

CONSTANTS
    Cues,        \* cue ids, and the entities made of them
    Homes,       \* the entries of the homekit integration
    Accessories, \* those in accessory mode
    Admits,      \* Admits[h]: the entities h's filter admits
    Wholesale,   \* those whose filter admits a platform of ours, or is unreadable
    None,        \* Python's None
    DelayTicks,  \* HOMEKIT_RELOAD_DELAY_SECONDS, in ticks
    Loops        \* bound: runs of _async_reload under way at a time

ASSUME EntitySyncAssumption ==
    /\ Accessories \subseteq Homes /\ Wholesale \subseteq Homes
    /\ Admits \in [Homes -> SUBSET Cues]
    /\ DelayTicks \in Nat \ {0}
    /\ None \notin Nat /\ \A entities \in SUBSET Cues : entities # None

VARIABLES
    running,    \* hass.state is CoreState.running
    option,     \* OPT_RELOAD_HOMEKIT
    listed,     \* the cues the server's manifest lists
    loaded,     \* our config entry is loaded, and so has a reloader
    known,      \* _sync's known
    registry,   \* our entities in the registry, which outlives everything
    delay,      \* ticks until _async_reload, or None when none is scheduled
    removed,    \* the reloader's _removed
    todo,       \* todo[l]: the bridges the run l of _async_reload has before it
    published,  \* published[h]: what h publishes; None before it has worked it out
    \* History, read by no action.
    stranded,   \* registered cues that were already unlisted when we loaded
    optedOut,   \* bridges the option kept from being reloaded
    dropped,    \* bridges whose reload was scheduled and unloading dropped
    quiet       \* ticks since the last change noted

ours     == <<known, registry, delay, removed>>
bridges  == <<todo, published>>
excuses  == <<stranded, optedOut, dropped>>
vars     == <<running, option, listed, loaded, ours, bridges, excuses, quiet>>

Built == {h \in Homes : published[h] # None}
-----------------------------------------------------------------------------
Init ==
    /\ running = FALSE
    /\ option \in BOOLEAN
    /\ listed \in SUBSET Cues
    /\ loaded = FALSE
    /\ known = {}
    /\ registry = {}
    /\ delay = None
    /\ removed = {}
    /\ todo = [l \in Loops |-> {}]
    /\ published = [h \in Homes |-> None]
    /\ stranded = {}
    /\ optedOut = {}
    /\ dropped = {}
    /\ quiet = 0

-----------------------------------------------------------------------------
\* The sync, and the note the reloader takes of it.

\* Mutant: a change noted while a reload is scheduled does not put it off.
NoteChangesThrottled(added, gone) ==
    IF (added # {} \/ gone # {}) /\ option /\ running
    THEN /\ removed' = removed \cup gone
         /\ delay' = IF delay = None THEN DelayTicks ELSE delay
         /\ quiet' = 0
    ELSE UNCHANGED <<removed, delay, quiet>>

\* Mutant: a reload put off forgets what the changes before it removed.
NoteChangesForgetful(added, gone) ==
    IF (added # {} \/ gone # {}) /\ option /\ running
    THEN /\ removed' = gone
         /\ delay' = DelayTicks
         /\ quiet' = 0
    ELSE UNCHANGED <<removed, delay, quiet>>

\* async_note_changes.
NoteChanges(added, gone) ==
    IF (added # {} \/ gone # {}) /\ option /\ running
    THEN /\ removed' = removed \cup gone
         /\ delay' = DelayTicks
         /\ quiet' = 0
    ELSE UNCHANGED <<removed, delay, quiet>>

\* Mutant: every entity made counts as added, registered before or not.
AddedAll(new) == new

\* _async_unregistered: only an entity Home Assistant has never had is an add.
Added(new) == new \ registry

\* What a sync finds departed.
Gone(rows) == known \ rows

\* Mutant: a departed entity is removed and its registry entry is left.
SyncLeavesEntries(rows) ==
    LET new == rows \ known
        out == Gone(rows) IN
    /\ known' = (known \cup new) \ out
    /\ registry' = registry \cup new
    /\ NoteChanges(Added(new), out \cap registry)
    /\ optedOut' = IF option \/ (Added(new) = {} /\ out \cap registry = {})
                   THEN optedOut ELSE optedOut \cup Built

\* _sync, over the rows the coordinator now has.
Sync(rows) ==
    LET new == rows \ known
        out == Gone(rows) IN
    /\ known' = (known \cup new) \ out
    /\ registry' = (registry \cup new) \ out
    /\ NoteChanges(Added(new), out \cap registry)
    /\ optedOut' = IF option \/ (Added(new) = {} /\ out \cap registry = {})
                   THEN optedOut ELSE optedOut \cup Built

-----------------------------------------------------------------------------
\* Our config entry.

\* async_setup_entry: a first refresh, a new reloader, then the platforms' sync.
Load ==
    /\ ~loaded
    /\ loaded' = TRUE
    /\ Sync(listed)
    /\ stranded' = registry \ listed
    /\ UNCHANGED <<running, option, listed, bridges, dropped>>

\* A manifest event, or the refetch after a reconnect: the listener syncs.
Refetch ==
    /\ loaded
    /\ known # listed
    /\ Sync(listed)
    /\ stranded' = stranded \ listed
    /\ UNCHANGED <<running, option, listed, loaded, bridges, dropped>>

\* The reloader's async_shutdown, and the sync's known with it.
Shutdown ==
    /\ loaded' = FALSE
    /\ known' = {}
    /\ delay' = None
    /\ removed' = {}

\* The entry unloads: by hand, or because another of its options changed.
Unload ==
    /\ loaded
    /\ Shutdown
    /\ dropped' = IF delay = None THEN dropped ELSE dropped \cup Built
    /\ UNCHANGED <<running, option, listed, registry, bridges, stranded, optedOut, quiet>>

\* _async_options_updated: the entry reloads, so a loaded one unloads first.
OptionToggles ==
    /\ option' = ~option
    /\ Shutdown
    /\ optedOut' = IF delay = None THEN optedOut ELSE optedOut \cup Built
    /\ UNCHANGED <<running, listed, registry, bridges, stranded, dropped, quiet>>

-----------------------------------------------------------------------------
\* The reload.

\* Mutant: only what is still registered is looked for in a filter.
ReloadableNow(h, gone) ==
    h \notin Accessories /\ (Admits[h] \cap registry # {} \/ h \in Wholesale)

\* Not in accessory mode, and _admits_any of what we have and had.
Reloadable(h, gone) ==
    h \notin Accessories /\ (Admits[h] \cap (registry \cup gone) # {} \/ h \in Wholesale)

\* _async_reload up to its first await: every loaded bridge that could be ours.
ReloadBegins(l) ==
    /\ delay = 0
    /\ todo[l] = {}
    /\ todo' = [todo EXCEPT ![l] = {h \in Built : Reloadable(h, removed)}]
    /\ delay' = None
    /\ removed' = {}
    /\ UNCHANGED <<running, option, listed, loaded, known, registry, published, excuses, quiet>>

\* It comes to bridge h, which reloads, or which is starting and refuses.  Bridges'
\* entries stay while a run is under way: one taken away in it would end the run.
ReloadsBridge(l, h) ==
    /\ h \in todo[l]
    /\ todo' = [todo EXCEPT ![l] = @ \ {h}]
    /\ published' = [published EXCEPT ![h] = None]
    /\ UNCHANGED <<running, option, listed, loaded, ours, excuses, quiet>>

\* Mutant: a tick is counted whether or not there is one left.
TickOn ==
    /\ delay # None
    /\ delay' = delay - 1
    /\ quiet' = IF quiet < DelayTicks THEN quiet + 1 ELSE quiet
    /\ UNCHANGED <<running, option, listed, loaded, known, registry, removed, bridges, excuses>>

\* Time passes, never past the moment the event loop is due to run the timer.
Tick ==
    /\ delay # None
    /\ delay > 0
    /\ delay' = delay - 1
    /\ quiet' = IF quiet < DelayTicks THEN quiet + 1 ELSE quiet
    /\ UNCHANGED <<running, option, listed, loaded, known, registry, removed, bridges, excuses>>

-----------------------------------------------------------------------------
\* Home Assistant, the bridges and the server.

\* A bridge starts: not before Home Assistant has.
BridgeBuilds(h) ==
    /\ running
    /\ published[h] = None
    /\ published' = [published EXCEPT ![h] = Admits[h] \cap registry]
    /\ optedOut' = optedOut \ {h}
    /\ dropped' = dropped \ {h}
    /\ UNCHANGED <<running, option, listed, loaded, ours, todo, stranded, quiet>>

\* Somebody else reloads a bridge.
BridgeReloads(h) ==
    /\ published[h] # None
    /\ published' = [published EXCEPT ![h] = None]
    /\ UNCHANGED <<running, option, listed, loaded, ours, todo, excuses, quiet>>

HassStarted ==
    /\ ~running
    /\ running' = TRUE
    /\ UNCHANGED <<option, listed, loaded, ours, bridges, excuses, quiet>>

\* Everything but the registry and the options is lost.
HassRestarts ==
    /\ running' = FALSE
    /\ Shutdown
    /\ todo' = [l \in Loops |-> {}]
    /\ published' = [h \in Homes |-> None]
    /\ UNCHANGED <<option, listed, registry, excuses, quiet>>

ListChanges(rows) ==
    /\ listed # rows
    /\ listed' = rows
    /\ UNCHANGED <<running, option, loaded, ours, bridges, excuses, quiet>>

Next ==
    \/ Load \/ Refetch \/ Unload \/ OptionToggles
    \/ \E l \in Loops : ReloadBegins(l)
    \/ \E l \in Loops, h \in Homes : ReloadsBridge(l, h)
    \/ Tick
    \/ \E h \in Homes : BridgeBuilds(h) \/ BridgeReloads(h)
    \/ HassStarted \/ HassRestarts
    \/ \E rows \in SUBSET Cues : ListChanges(rows)

Spec == Init /\ [][Next]_vars

\* The event loop runs the timer and the tasks it has; a bridge's start ends.
Fairness ==
    /\ WF_vars(Tick)
    /\ WF_vars(\E l \in Loops : ReloadBegins(l))
    /\ \A l \in Loops, h \in Homes : WF_vars(ReloadsBridge(l, h))
    /\ \A h \in Homes : WF_vars(BridgeBuilds(h))

FairSpec == Spec /\ Fairness
-----------------------------------------------------------------------------
\* Every variable has the shape the code gives it.
TypeOK ==
    /\ running \in BOOLEAN /\ option \in BOOLEAN /\ loaded \in BOOLEAN
    /\ listed \subseteq Cues /\ known \subseteq Cues /\ registry \subseteq Cues
    /\ removed \subseteq Cues /\ stranded \subseteq Cues
    /\ delay \in 0..DelayTicks \cup {None}
    /\ todo \in [Loops -> SUBSET Homes]
    /\ published \in [Homes -> {None} \cup SUBSET Cues]
    /\ optedOut \subseteq Homes /\ dropped \subseteq Homes
    /\ quiet \in 0..DelayTicks

\* A bridge that will rebuild its list, or has it right.
Follows(h) ==
    \/ published[h] \in {None, Admits[h] \cap registry}
    \/ delay # None
    \/ \E l \in Loops : h \in todo[l]

\* No bridge is left publishing a departed cue, or without a new one, unless a
\* reload that will see to it is still to come - or the option was off when the
\* list changed, or unloading our entry dropped the reload.
BridgesFollow ==
    \A h \in Homes \ Accessories : Follows(h) \/ h \in optedOut \cup dropped

\* While we are loaded each cue of the last manifest is registered, and only a cue
\* that was already gone when we loaded is registered beside them.
OnlyStrandedLinger ==
    loaded => known \subseteq registry /\ registry \ known \subseteq stranded

\* "Measured from the last change": no reload begins within the delay of one,
\* whatever changes, unloads and reloads came before (README.md).
ReloadWaitsForQuiet ==
    [][\A l \in Loops : todo[l] = {} /\ todo'[l] # {} => quiet >= DelayTicks]_vars

\* Loading our entry again, with the entities it had, schedules no reload
\* (async_sync_entities: "a bridge already publishing them needs nothing").
ReloadingOursReloadsNothing ==
    [][~loaded /\ loaded' /\ registry' = registry => delay' = None]_vars

\* Once the cue list and our entry hold still, each bridge that is up publishes
\* what it should, but for the excuses of BridgesFollow.
BridgesCatchUp ==
    <>[](loaded /\ running /\ known = listed) =>
    <>[](\A h \in Homes \ Accessories :
            published[h] \in {None, Admits[h] \cap registry} \/ h \in optedOut \cup dropped)
-----------------------------------------------------------------------------
\* The parts of the inductive invariant behind the safety properties above.

\* An entry that is not loaded knows of nothing and has scheduled nothing.
UnloadedIsBare == ~loaded => known = {} /\ delay = None

\* No bridge has its list before Home Assistant has started.
BuiltWhileRunning == ~running => Built = {}

\* A bridge publishes what its filter admits, and what it publishes beyond the
\* registry is remembered for the reload to find it by.
ExtrasRemembered ==
    \A h \in Homes \ Accessories :
        /\ published[h] # None => published[h] \subseteq Admits[h]
        /\ published[h] = None \/ h \in optedOut \cup dropped \/ (\E l \in Loops : h \in todo[l])
           \/ published[h] \subseteq registry \cup removed

\* The timer is never nearer than the last change allows.
DelayCoversQuiet == delay # None => quiet + delay >= DelayTicks

IInv ==
    /\ TypeOK
    /\ UnloadedIsBare
    /\ BuiltWhileRunning
    /\ ExtrasRemembered
    /\ DelayCoversQuiet
    /\ BridgesFollow
    /\ OnlyStrandedLinger
=============================================================================
