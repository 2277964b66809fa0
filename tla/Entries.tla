------------------------------- MODULE Entries -------------------------------
(***************************************************************************)
(* Config entries from the form to the sidebar: the flow that makes one     *)
(* (config_flow.py), its setup, reload and unload (__init__.py), and its    *)
(* panel among those of other entries (panel.py).                          *)
(*                                                                         *)
(* Home Assistant is external: it runs one of setup and unload of an entry  *)
(* at a time, lets a flow finish undisturbed, shows one panel to a path,    *)
(* calls an entry's update listener when its data or options change,        *)
(* reloads an entry whose host a flow has rewritten if it is waiting to be  *)
(* retried, and may come to be served over HTTPS or not at any time.  Every *)
(* await is a step's end.                                                  *)
(***************************************************************************)
EXTENDS Naturals

CONSTANTS
    Ids,       \* the ids entries will have
    Prefixes,  \* what an id may begin with
    Typed,     \* what may be typed as a host, as urlsplit reads it
    Servers,   \* the appliances
    Reached,   \* Reached[url]: the appliance that answers there
    Lan,       \* Lan[s]: the host in an appliance's lanUrl, or None
    None       \* Python's None, for whatever may be absent

Plain == "plain"  \* PANEL_URL_PATH

VARIABLES
    prefix,   \* prefix[e]: the first eight characters of e, of the time it was made
    entries,  \* entries[e]: the data and options of entry e
    phase,    \* where Home Assistant and we are with e
    pending,  \* a reload of e has been asked for
    paths,    \* PANEL_PATHS
    panels,   \* the sidebar: whose panel is at a path, and what it frames
    streams,  \* streams[e]: subscriptions held for e
    client,   \* client[e]: the address the coordinator of e talks to
    https,    \* browsers reach Home Assistant over HTTPS, by its configuration
    \* History, read by no action.
    botched,  \* a setup of e broke after its panel was placed, or an unload failed
    overtaken, \* the host of e was rewritten while it was being set up
    seen      \* seen[e]: https when an entry e that is up was last set up

lifecycle == <<phase, pending, botched>>
sidebar   == <<paths, panels>>
running   == <<streams, client>>
decided   == <<https, seen>>
vars      == <<prefix, entries, lifecycle, sidebar, running, overtaken, decided>>

Exists(e)    == entries[e] # None
Listening(e) == phase[e] \in {"forwarding", "loaded", "unloading"}

\* normalise_host: a bare host gets plain HTTP, and a scheme's port is ours or 443.
Normalised(typed) ==
    LET scheme == IF typed.scheme = None THEN "http" ELSE typed.scheme IN
    [scheme |-> scheme, host |-> typed.host,
     port |-> IF typed.port # None THEN typed.port ELSE IF scheme = "http" THEN 8788 ELSE 443]

Urls  == {Normalised(typed) : typed \in Typed}
Keys  == {url.host : url \in Urls} \cup ({Lan[s] : s \in Servers} \ {None})
Paths == {Plain} \cup Prefixes

\* Mutant: a lanUrl is counted on.
KeyLan(url) == Lan[Reached[url]]

\* Mutant: the entry is keyed by what was typed.
KeyTyped(url) == url.host

\* The unique id: the host of the server's own lanUrl, or of what was typed.
KeyOf(url) == LET lan == Lan[Reached[url]] IN IF lan # None THEN lan ELSE url.host

Entry == [url : Urls, key : Keys, token : Servers, sidebar : BOOLEAN]
Panel == [owner : Ids \cup {None}, url : Urls \cup {None}]
Foreign == [owner |-> None, url |-> None]

ASSUME EntryAssumption ==
    /\ Reached \in [Urls -> Servers]
    /\ \A typed \in Typed : typed.scheme \in {None, "http", "https"}
    /\ Plain \notin Prefixes
    /\ None \notin Entry \cup Panel \cup Paths \cup Ids
-----------------------------------------------------------------------------
\* Somebody else may have a panel at the plain path.
EmptySidebars ==
    {[path \in Paths |-> IF path = Plain THEN plain ELSE None] : plain \in {None, Foreign}}

Init ==
    /\ prefix \in [Ids -> Prefixes]
    /\ entries = [e \in Ids |-> None]
    /\ phase = [e \in Ids |-> "unloaded"]
    /\ pending = [e \in Ids |-> FALSE]
    /\ paths = [e \in Ids |-> None]
    /\ panels \in EmptySidebars
    /\ streams = [e \in Ids |-> 0]
    /\ client = [e \in Ids |-> None]
    /\ botched = [e \in Ids |-> FALSE]
    /\ overtaken = [e \in Ids |-> FALSE]
    /\ https \in BOOLEAN
    /\ seen = [e \in Ids |-> FALSE]

-----------------------------------------------------------------------------
\* The config flow, async_step_user.  A form under way holds only what was typed, and
\* changes nothing until the manifest and the probe have been answered.

Known(key) == {e \in Ids : Exists(e) /\ entries[e].key = key}

\* The token was accepted by a server with a new key: an entry, to be set up.
Creates(e, url) ==
    /\ Known(KeyOf(url)) = {}
    /\ ~Exists(e) /\ phase[e] = "unloaded"
    /\ entries' = [entries EXCEPT ![e] = [url |-> url, key |-> KeyOf(url),
                                          token |-> Reached[url], sidebar |-> TRUE]]
    /\ UNCHANGED <<prefix, lifecycle, sidebar, running, overtaken, decided>>

\* Mutant: the entry is rewritten, and not reloaded for it.
ReloadedByNothing(e) == FALSE

\* Its update listener reloads an entry, or the flow does.
ReloadedWhenRewritten(e) == Listening(e) \/ phase[e] = "retry"

\* ... or with the key of an entry, whose host it becomes; its token stays.
Rewrites(e, url) ==
    /\ e \in Known(KeyOf(url))
    /\ entries[e].url # url
    /\ entries' = [entries EXCEPT ![e].url = url]
    /\ pending' = [pending EXCEPT ![e] = @ \/ ReloadedWhenRewritten(e)]
    /\ overtaken' = [overtaken EXCEPT ![e] = @ \/ phase[e] = "setup"]
    /\ UNCHANGED <<prefix, phase, botched, sidebar, running, decided>>

\* The options flow; the listener is what reloads the entry.
SavesOption(e) ==
    /\ Exists(e)
    /\ entries' = [entries EXCEPT ![e].sidebar = ~@]
    /\ pending' = [pending EXCEPT ![e] = @ \/ Listening(e)]
    /\ UNCHANGED <<prefix, phase, botched, sidebar, running, overtaken, decided>>

-----------------------------------------------------------------------------
\* Setup: async_setup_entry.

\* ... up to its first await: the client is made from the data.
SetupBegins(e) ==
    /\ Exists(e)
    /\ phase[e] \in {"unloaded", "retry"}
    /\ phase' = [phase EXCEPT ![e] = "setup"]
    /\ pending' = [pending EXCEPT ![e] = FALSE]
    /\ client' = [client EXCEPT ![e] = entries[e].url]
    /\ overtaken' = [overtaken EXCEPT ![e] = FALSE]
    /\ UNCHANGED <<prefix, entries, botched, sidebar, streams, decided>>

\* The first refresh fails: ConfigEntryNotReady, and another try later.
SetupNotReady(e) ==
    /\ phase[e] = "setup"
    /\ phase' = [phase EXCEPT ![e] = "retry"]
    /\ UNCHANGED <<prefix, entries, pending, botched, sidebar, running, overtaken, decided>>

\* Mutant: every entry registers at the plain path.
AlwaysPlain(e) == Plain

\* First come, plain path; what is at the suffixed one is not looked at.
PathFor(e) == IF panels[Plain] # None THEN prefix[e] ELSE Plain

\* Mutant: whether a browser would frame it is not looked at.
PlacesUnframed(e) == entries[e].sidebar

\* The option is on, and a browser will frame it: no plain HTTP in HTTPS.
Places(e) ==
    /\ entries[e].sidebar
    /\ https => entries[e].url.scheme = "https"

\* async_register_panel
Registers(e) ==
    IF Places(e)
    THEN /\ paths' = [paths EXCEPT ![e] = PathFor(e)]
         /\ panels' = [panels EXCEPT ![PathFor(e)] = [owner |-> e, url |-> entries[e].url]]
    ELSE UNCHANGED sidebar

\* The first refresh answers: panel, update listener, and on to the platforms.
ManifestArrives(e) ==
    /\ phase[e] = "setup"
    /\ Registers(e)
    /\ seen' = [seen EXCEPT ![e] = https]
    /\ phase' = [phase EXCEPT ![e] = "forwarding"]
    /\ UNCHANGED <<prefix, entries, pending, botched, running, overtaken, https>>

\* Mutant: the stream is left open.
ShutNothing(e) == streams

\* async_shutdown
Shut(e) == [streams EXCEPT ![e] = 0]

PlatformsUp(e) ==
    /\ phase[e] = "forwarding"
    /\ phase' = [phase EXCEPT ![e] = "loaded"]
    /\ streams' = [streams EXCEPT ![e] = @ + 1]
    /\ UNCHANGED <<prefix, entries, pending, botched, sidebar, client, overtaken, decided>>

\* The history of a setup ends with the entry being up.
Closes(e) ==
    /\ overtaken' = [overtaken EXCEPT ![e] = FALSE]
    /\ seen' = [seen EXCEPT ![e] = FALSE]

\* Forwarding raises; nothing takes the panel away.
PlatformsBreak(e) ==
    /\ phase[e] = "forwarding"
    /\ phase' = [phase EXCEPT ![e] = "unloaded"]
    /\ botched' = [botched EXCEPT ![e] = TRUE]
    /\ Closes(e)
    /\ UNCHANGED <<prefix, entries, pending, sidebar, running, https>>

-----------------------------------------------------------------------------
\* Unload: async_unload_entry, for a reload, for good, or as the entry is removed.
UnloadBegins(e) ==
    /\ phase[e] = "loaded"
    /\ phase' = [phase EXCEPT ![e] = "unloading"]
    /\ Closes(e)
    /\ UNCHANGED <<prefix, entries, pending, botched, sidebar, running, https>>

\* What an unload that ended so leaves of an entry.
Leaves(e, outcome) ==
    \/ phase' = [phase EXCEPT ![e] = outcome] /\ UNCHANGED entries
    \/ phase' = [phase EXCEPT ![e] = "gone"] /\ entries' = [entries EXCEPT ![e] = None]

\* Mutant: the path is worked out again.
RemovesPathFor(e) ==
    /\ panels' = [panels EXCEPT ![PathFor(e)] = None]
    /\ paths' = [paths EXCEPT ![e] = None]

\* async_remove_panel: the path it took, whatever is there now.
RemovesPanel(e) ==
    /\ panels' = IF paths[e] # None THEN [panels EXCEPT ![paths[e]] = None] ELSE panels
    /\ paths' = [paths EXCEPT ![e] = None]

PlatformsUnload(e) ==
    /\ phase[e] = "unloading"
    /\ RemovesPanel(e)
    /\ streams' = Shut(e)
    /\ Leaves(e, "unloaded")
    /\ UNCHANGED <<prefix, pending, botched, client, overtaken, decided>>

\* A platform does not unload: nothing else is undone.
PlatformsStay(e) ==
    /\ phase[e] = "unloading"
    /\ botched' = [botched EXCEPT ![e] = TRUE]
    /\ Leaves(e, "failed")
    /\ UNCHANGED <<prefix, pending, sidebar, running, overtaken, decided>>

\* An entry that is not loaded is removed.
RemovedIdle(e) ==
    /\ Exists(e)
    /\ phase[e] \in {"unloaded", "retry", "failed"}
    /\ phase' = [phase EXCEPT ![e] = "gone"]
    /\ entries' = [entries EXCEPT ![e] = None]
    /\ UNCHANGED <<prefix, pending, botched, sidebar, running, overtaken, decided>>

\* Home Assistant gets a certificate or a proxy, or loses it: nobody here is told.
HttpsTurns ==
    /\ https' = ~https
    /\ UNCHANGED <<prefix, entries, lifecycle, sidebar, running, overtaken, seen>>

\* Home Assistant restarts: the entries are what it keeps.
Restarts ==
    /\ phase' = [e \in Ids |-> IF phase[e] = "gone" THEN "gone" ELSE "unloaded"]
    /\ pending' = [e \in Ids |-> FALSE]
    /\ paths' = [e \in Ids |-> None]
    /\ panels' \in EmptySidebars
    /\ streams' = [e \in Ids |-> 0]
    /\ client' = [e \in Ids |-> None]
    /\ botched' = [e \in Ids |-> FALSE]
    /\ overtaken' = [e \in Ids |-> FALSE]
    /\ seen' = [e \in Ids |-> FALSE]
    /\ UNCHANGED <<prefix, entries, https>>

Next ==
    \/ \E e \in Ids :
         \/ \E url \in Urls : Creates(e, url) \/ Rewrites(e, url)
         \/ SavesOption(e) \/ SetupBegins(e) \/ SetupNotReady(e)
         \/ ManifestArrives(e) \/ PlatformsUp(e) \/ PlatformsBreak(e)
         \/ UnloadBegins(e) \/ PlatformsUnload(e) \/ PlatformsStay(e) \/ RemovedIdle(e)
    \/ HttpsTurns \/ Restarts

Spec == Init /\ [][Next]_vars
-----------------------------------------------------------------------------
Phases == {"unloaded", "setup", "retry", "forwarding", "loaded", "unloading",
           "failed", "gone"}

\* Every variable has the shape the code, or Home Assistant, gives it.
TypeOK ==
    /\ prefix \in [Ids -> Prefixes]
    /\ entries \in [Ids -> Entry \cup {None}]
    /\ phase \in [Ids -> Phases]
    /\ pending \in [Ids -> BOOLEAN]
    /\ paths \in [Ids -> Paths \cup {None}]
    /\ panels \in [Paths -> Panel \cup {None}]
    /\ streams \in [Ids -> Nat]
    /\ client \in [Ids -> Urls \cup {None}]
    /\ botched \in [Ids -> BOOLEAN]
    /\ overtaken \in [Ids -> BOOLEAN]
    /\ https \in BOOLEAN
    /\ seen \in [Ids -> BOOLEAN]

\* Two ids may begin alike: they are made of the time to the second.
Alike(e) == \E d \in Ids \ {e} : prefix[d] = prefix[e]

\* A panel of ours in the sidebar is the one its entry recorded, and that entry is
\* up, in whatever order entries come and go (PANEL_PATHS); excepted are those of a
\* setup that broke or an unload that failed.
NoOrphans ==
    \A path \in Paths : panels[path] # None /\ panels[path].owner # None =>
        LET e == panels[path].owner IN
        botched[e] \/ (paths[e] = path /\ phase[e] \in {"forwarding", "loaded", "unloading"})

\* The option of an entry says so, and a browser would frame its server in a Home
\* Assistant that is secure or not.
Due(e, secure) == entries[e].sidebar /\ (secure => entries[e].url.scheme = "https")

\* An entry that is up is in the sidebar, framing its address, if its option says so
\* and a browser would frame it (_hass_uses_https), and only then unless a setup or an
\* unload of it had failed.  Excepted are an entry to be reloaded, and a Home Assistant
\* whose HTTPS has changed since the entry was set up.
SidebarFollows ==
    \A e \in Ids : phase[e] \in {"forwarding", "loaded"} /\ ~pending[e] /\ seen[e] = https =>
        /\ Due(e, https) =>
             /\ paths[e] # None
             /\ panels[paths[e]] = [owner |-> e, url |-> entries[e].url] \/ Alike(e)
        /\ paths[e] # None => Due(e, https) \/ botched[e]

\* No step of one entry takes away or covers another's panel, or somebody else's,
\* unless their ids begin alike.
OthersPanelsStand ==
    [][\A path \in Paths :
         panels[path] # None /\ panels'[path] # panels[path] =>
            \/ Restarts
            \/ panels[path].owner # None
               /\ LET e == panels[path].owner IN phase[e] # phase'[e] \/ Alike(e)]_vars

\* One subscription for an entry that is up, and none for one that is not.
OneSubscription ==
    \A e \in Ids :
        IF phase[e] \in {"loaded", "unloading"} THEN streams[e] = 1
        ELSE streams[e] = 0 \/ (botched[e] /\ streams[e] = 1)

\* An entry that is loaded talks to the host it has, unless a reload has been asked
\* for, or the host came while its setup was under way with the one before.
ClientIsCurrent ==
    \A e \in Ids : phase[e] = "loaded" /\ ~pending[e] /\ ~overtaken[e] =>
        client[e] = entries[e].url

\* "adding the same appliance by IP and by name must not end up with two copies of
\* every switch", with forms racing each other; an appliance that gives no lanUrl
\* is not recognised.
OneEntryPerServer ==
    \A d, e \in Ids : d # e /\ Exists(d) /\ Exists(e) /\ entries[d].token = entries[e].token =>
        Lan[entries[e].token] = None
-----------------------------------------------------------------------------
\* The parts of the inductive invariant behind the properties above.

\* Two entries are never keyed alike, and what gives a lanUrl is keyed by it.
KeysApart == \A d, e \in Ids : d # e /\ Exists(d) /\ Exists(e) => entries[d].key # entries[e].key
KeyedByLan ==
    \A e \in Ids : Exists(e) /\ Lan[entries[e].token] # None =>
        entries[e].key = Lan[entries[e].token]

\* From the start of a setup on the client has the host, but for those named above.
ClientFollows ==
    \A e \in Ids : phase[e] \in {"setup", "forwarding", "loaded"} =>
        /\ Exists(e)
        /\ ~pending[e] /\ ~overtaken[e] => client[e] = entries[e].url

\* Subscriptions are left over only where no setup comes any more.
Subscribed ==
    \A e \in Ids :
        IF phase[e] \in {"loaded", "unloading"} THEN streams[e] = 1
        ELSE streams[e] = 0 \/ (phase[e] \in {"failed", "gone"} /\ botched[e] /\ streams[e] = 1)

\* An entry took the plain path or its own, and has none before it is set up.
PathsOwn ==
    \A e \in Ids :
        /\ paths[e] \in {None, Plain, prefix[e]}
        /\ phase[e] \in {"unloaded", "setup", "retry"} /\ ~botched[e] => paths[e] = None

\* Whoever took the plain path has the panel there; a suffixed one is of its suffix.
PanelsOwn ==
    /\ \A e \in Ids : paths[e] = Plain => panels[Plain] # None /\ panels[Plain].owner = e
    /\ \A path \in Prefixes : panels[path] # None =>
          panels[path].owner \in Ids /\ prefix[panels[path].owner] = path

\* What SidebarFollows says, of the HTTPS its setup saw.
SidebarDecided ==
    \A e \in Ids : phase[e] \in {"forwarding", "loaded"} /\ ~pending[e] =>
        /\ Due(e, seen[e]) =>
             /\ paths[e] # None
             /\ panels[paths[e]] = [owner |-> e, url |-> entries[e].url] \/ Alike(e)
        /\ paths[e] # None => Due(e, seen[e]) \/ botched[e]

IInv ==
    /\ TypeOK
    /\ KeysApart /\ KeyedByLan
    /\ ClientFollows
    /\ Subscribed
    /\ PathsOwn /\ PanelsOwn
    /\ NoOrphans
    /\ SidebarDecided
=============================================================================
