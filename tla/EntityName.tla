----------------------------- MODULE EntityName -----------------------------
(***************************************************************************)
(* Whose name a switch has (entity.py, _async_shorten_name): the cue's own  *)
(* words are written into the registry's name, the field the operator       *)
(* edits, and what was written is noted beside it in the entry's options;   *)
(* a name that is not what was noted is the operator's.                     *)
(*                                                                         *)
(* One entity, as names of two never meet.  The registry is external: it is *)
(* saved a while after it changed, so a crash takes it back to what was     *)
(* saved; what it remembers of a removed entry may or may not come back     *)
(* with the entity, by its version.                                         *)
(***************************************************************************)
CONSTANTS
    Names,  \* what the server or the operator may call the cue
    None    \* Python's None, for whatever may be absent

VARIABLES
    server,   \* what Stage Utility calls the cue; None: there is no such cue
    loaded,   \* our config entry is loaded
    row,      \* the name in coordinator.data; None: no row, and no entity of ours
    registry, \* the entity's registry entry
    removed,  \* what the registry remembers of an entry it removed
    disk,     \* the two as they were saved last
    touched   \* history: the operator edited the name since we last looked at it

vars == <<server, loaded, row, registry, removed, disk, touched>>

Maybe == Names \cup {None}

\* A registry entry: its name and our option named_from.  The rest is history, read
\* by no action: what we last put into the name, what the operator last typed there,
\* and whether that was anything else than what we had put there.
Entry(name, namedFrom, put, typed, foreign) ==
    [name |-> name, named_from |-> namedFrom, put |-> put, typed |-> typed, foreign |-> foreign]

Entries == [name : Maybe, named_from : Maybe, put : Maybe, typed : Maybe, foreign : BOOLEAN]

ASSUME NameAssumption == None \notin Names \cup Entries
-----------------------------------------------------------------------------
Init ==
    /\ server \in Maybe
    /\ loaded = FALSE
    /\ row = None
    /\ registry = None
    /\ removed = None
    /\ disk = [registry |-> None, removed |-> None]
    /\ touched = FALSE

-----------------------------------------------------------------------------
\* Mutant: only a name that differs from the cue's is taken for the operator's.
TheirsOnceNamed(entry) == entry.name # None /\ entry.named_from = None

\* The operator renamed it: there is a name, and it is not what we noted.
Theirs(entry) == entry.name # None /\ entry.name # entry.named_from

\* Mutant: the name is written and not noted once one has been.
NotedOnce(entry, wanted) ==
    Entry(wanted, IF entry.named_from = None THEN wanted ELSE entry.named_from,
          wanted, entry.typed, entry.foreign)

\* Mutant: that it was named is noted, and not what.
NotedAsFlag(entry, wanted) == Entry(wanted, TRUE, wanted, entry.typed, entry.foreign)

\* Both writes: the name and the note of it.
Named(entry, wanted) == Entry(wanted, wanted, wanted, entry.typed, entry.foreign)

\* _async_shorten_name, for an entity whose row says wanted.
Shortened(entry, wanted) ==
    IF (entry.name = wanted /\ entry.named_from = wanted) \/ Theirs(entry)
    THEN entry ELSE Named(entry, wanted)

\* Mutant: the entity joins the coordinator and looks at its name at the next update.
JoinsUnnamed(entries, wanted) == registry' \in entries

\* async_added_to_hass, and each _handle_coordinator_update.
Joins(entries, wanted) == \E entry \in entries : registry' = Shortened(entry, wanted)

\* The entry the registry has for an entity that is added: the one it has, or the
\* one it remembers, or a new one.
Registered ==
    IF registry # None THEN {registry}
    ELSE {Entry(None, None, None, None, FALSE)} \cup ({removed} \ {None})

-----------------------------------------------------------------------------
\* A manifest is read.  The sync adds the entity, or removes it outright;
\* an entity that stays looks at its name.
Reads ==
    /\ loaded
    /\ row' = server
    /\ touched' = FALSE
    /\ IF server # None
       THEN Joins(Registered, server) /\ removed' = None
       ELSE IF row # None
       THEN registry' = None /\ removed' = registry
       ELSE UNCHANGED <<registry, removed>>
    /\ UNCHANGED <<server, loaded, disk>>

\* Any other coordinator update: a state event, a settle window, a poll.
Updates ==
    /\ loaded /\ row # None
    /\ touched' = FALSE
    /\ Joins({registry}, row)
    /\ UNCHANGED <<server, loaded, row, removed, disk>>

\* The entry is set up: its first manifest, and its first sync, which knows of no
\* entity yet and so removes none.
Loads ==
    /\ ~loaded
    /\ loaded' = TRUE
    /\ row' = server
    /\ touched' = FALSE
    /\ IF server # None
       THEN Joins(Registered, server) /\ removed' = None
       ELSE UNCHANGED <<registry, removed>>
    /\ UNCHANGED <<server, disk>>

Unloads ==
    /\ loaded
    /\ loaded' = FALSE
    /\ row' = None
    /\ UNCHANGED <<server, registry, removed, disk, touched>>

-----------------------------------------------------------------------------
\* The cue is renamed, deleted or made again in Stage Utility.
ServerTurns(name) ==
    /\ server' = name
    /\ UNCHANGED <<loaded, row, registry, removed, disk, touched>>

\* The operator edits the name in the entity's settings, or clears it.
OperatorTypes(name) ==
    /\ registry # None
    /\ registry.name # name
    /\ registry' = Entry(name, registry.named_from, registry.put, name, name # registry.put)
    /\ touched' = TRUE
    /\ UNCHANGED <<server, loaded, row, removed, disk>>

\* The registry is saved.
Saves ==
    /\ disk' = [registry |-> registry, removed |-> removed]
    /\ UNCHANGED <<server, loaded, row, registry, removed, touched>>

\* Home Assistant is killed and starts again from what was saved.
Crashes ==
    /\ loaded' = FALSE
    /\ row' = None
    /\ registry' = disk.registry
    /\ removed' = disk.removed
    /\ UNCHANGED <<server, disk, touched>>

Next ==
    \/ Reads \/ Updates \/ Loads \/ Unloads \/ Saves \/ Crashes
    \/ \E name \in Maybe : ServerTurns(name) \/ OperatorTypes(name)

Spec == Init /\ [][Next]_vars
-----------------------------------------------------------------------------
\* Every variable has the shape the code, or the registry, gives it.
TypeOK ==
    /\ server \in Maybe
    /\ loaded \in BOOLEAN
    /\ row \in Maybe
    /\ registry \in Entries \cup {None}
    /\ removed \in Entries \cup {None}
    /\ disk \in [registry : Entries \cup {None}, removed : Entries \cup {None}]
    /\ touched \in BOOLEAN

\* "An operator who renames the switch keeps their rename" (_async_shorten_name):
\* through reloads, crashes, cues renamed, deleted and made again, what they typed
\* over something else than we had put there is its name until they edit it again.
KeepsTheirs(entry) == entry.typed # None /\ entry.foreign => entry.name = entry.typed
HandKept == registry # None => KeepsTheirs(registry)

\* "a cue renamed in Stage Utility follows only until somebody does": once we have
\* looked, a name that is nobody's is the cue's, and one cleared has come back.
Follows(entry, name) == entry.typed = None \/ ~entry.foreign => entry.name = name
FollowsServer ==
    loaded /\ row # None /\ ~touched => registry # None /\ Follows(registry, row)
-----------------------------------------------------------------------------
\* What every entry keeps, in use, removed or saved: the note is what we put there,
\* and a name that is neither that nor absent was typed over something else.
EntryOK(entry) ==
    /\ entry.named_from = entry.put
    /\ KeepsTheirs(entry)
    /\ entry.name # None => \/ entry.name = entry.put
                            \/ entry.name = entry.typed /\ entry.foreign
    /\ entry.typed # None /\ entry.foreign => entry.typed # entry.put

EntriesOK ==
    \A entry \in {registry, removed, disk.registry, disk.removed} :
        entry # None => EntryOK(entry)

\* A row we have is the row of a registered entity, while the entry is loaded.
RowIsRegistered == row # None => loaded /\ registry # None

IInv == TypeOK /\ EntriesOK /\ RowIsRegistered /\ FollowsServer
=============================================================================
