# A specification of ha-stage-utility

TLA+ modules for the Home Assistant integration in `custom_components/stage_utility`:
what a cue switch shows while a press comes true, how the cue states are kept current
through drops and outages, what becomes of a cue call, how the cue list becomes
entities, names and HomeKit accessories, and how config entries come and go. TLC checks
the modules on small instances; TLAPS proves every safety property they check for all
instances.

Paths in this file are the repository's; `coordinator.py` and its like are under
`custom_components/stage_utility/`. `PROJECT.json` maps each definition to the lines it
stands for.

## The system

| Component | State it keeps | Operations | Works with |
|---|---|---|---|
| Coordinator, settle windows (`coordinator.py`) | the rows of the last manifest; `_settling`, one record per commanded cue | `async_apply_state`, `async_begin_settle`, `async_end_settle`, `settle_of`, the manifest read again | called by the switch, the stream and the poll; tells every entity by a callback |
| Cue switch (`switch.py`) | its end-of-window timer, `last_commanded` | turn on/off, coordinator update, the timer, removal | calls the server through `api.py`, opens and ends windows |
| SSE framing (`coordinator.py`) | the buffer, and the fields of the event being read | `_read_events` | the stream's bytes; hands events to the coordinator |
| Stream and poll (`coordinator.py`) | the stream task, `stream_connected`, the poll task, `_unreachable_since`, `_unreachable_warned`, `last_update_success` | connect, subscribe, read events, refetch; poll with backoff; note (un)reachable | HTTP and SSE to the server; cancel and start each other; both apply reads |
| Entity sync (`entity.py`) | `known`, and Home Assistant's entity registry | a sync at setup and after each coordinator update | adds and removes entities, tells the reloader |
| HomeKit reloader (`homekit.py`) | the scheduled reload, `_removed` | note changes, shut down, reload each bridge | reloads config entries of `homekit`, which read the registry once as they start |
| Cue calls (`api.py`, `entity.py`) | `last_result`, warned-once | call a cue, confirm it, map the answer | the server; raises to Home Assistant |
| Entity naming (`entity.py`) | the registry's `name` and the entry option beside it | shorten on each update | the operator edits the same field |
| Sidebar panel (`panel.py`) | the path each entry took | register, remove | the frontend's panels, other entries |
| Config and options flow (`config_flow.py`) | none of its own | user step with probe; options | `api.py`; saving options reloads the entry |
| Entry (`__init__.py`) | none of its own | setup, unload, options updated | all of the above, in order |
| Buttons, diagnostics, constants, release scripts | - | - | - |

Everything in Home Assistant runs on one event loop, so a handler runs undisturbed up to
its next `await`; the modules make one step of that. What is hard is what the awaits let
in, and what timers, restarts and a server that half works do to state that is kept in
two places: the record of a window and the timer that ends it; the stream's flag and the
poll's task; the outage clock and the availability of the entities; `known` and the
registry; the scheduled reload and the bridges. `PROJECT.json` lists these hazards at
their lines.

What makes each component correct:

- *Settle windows*: a window hides one read at most and never loses it; what comes back is
  what was last read; what shows as settling stops doing so.
- *Stream and poll*: never both; data is current when the stream has been read to its end;
  an outage makes entities unavailable, warns once, and its end brings them back.
- *Sync and reload*: the registry is the manifest; a bridge publishes what its filter
  admits of the registry, after one reload per run of changes and none without.
- *Framing*: what is handed on is what the text says, however it was cut into chunks.
- *Cue calls*: a press presses once; a cue that did not run never reads as one that did;
  what an entity shows as its last result is that.
- *Naming*: an operator's rename is never overwritten; a name we wrote follows the server.
- *Entries and panels*: an appliance has one entry, an entry one subscription, to the
  host it has; the sidebar follows its option, and an entry removes its own panel and no
  other.
- *All together*: a switch comes to show what its gear does.

## The modules

| Module | Models | State |
|---|---|---|
| `SettleWindow` | settle windows and the cue switch | `rows`, `settling`, `timers`, `calls`, `commanded`, `written` |
| `SwitchPromise` | what a switch promises, without windows or timers: the abstract specification `SettleWindow` implements | `heard`, `shown`, `owed` |
| `CueStream` | stream, poll, reachability | the two tasks, the outage clock, what is queued and on its way |
| `CueLoop` | `SettleWindow` with the gear, the stream and the answers to calls | adds `gear`, `queue`, `rereading`, `reply`, `reports` |
| `SseFraming` | `_read_events` | `buffer`, `event`, `data`, and the lines and bytes as they were sent |
| `CueCall` | a cue call, and the entity's `last_result` | the POST, its answer, `lastResult`, `shown` |
| `EntityName` | `_async_shorten_name` | the registry entry, what is saved of it, what is remembered of a removed one |
| `EntitySync` | the sync and the HomeKit reloader | `known`, `registry`, `removed`, `delay`, what each bridge publishes |
| `Entries` | flow, setup, unload, sidebar | entries, their phase, `PANEL_PATHS`, the panels, subscriptions, clients |

Each states in its header how its steps cut the code. What joins them is narrow (a read, a
manifest, a write, an answer), so all but `CueLoop` stand alone; `CueLoop` extends
`SettleWindow`, whose actions are conjuncts of its own. `...Proofs` modules hold theorems,
`MC...` modules what only TLC needs, `...Claims` modules what the documentation states and
the code does not do. Definitions with "Mutant" in their comment are plausible mistakes in
the definition that follows them; each property of a passing run is broken by one.

**SettleWindow.** `rows`, `settling`, `timers`, `commanded` and `written` are
`data.switches`, `_settling`, `_settle_unsub`, `_last_commanded` and the state machine's
copy of the switch. `gen` counts the entities a cue has had: a deleted cue that comes back
has a new one, while a call asked by the old one may still be in flight, and its timer
still to come. `Observe` is a read (event or poll), `Press` is `_async_call` up to its
await, `CallDoesNothing` / `CallOpens` / `CallContradicts` are the three ways it goes on,
for any call in flight, `Refetch` is a manifest read again together with the sync it
causes, `Retell` any other notification, `TimerFires` the end of a window, `Tick` time.
History variables `lastRead` and `overlapped` say what was last read and whether a window
was opened, or the manifest read, over a window since; no action reads them.

Abstractions: names, rooms and the other columns of a row are left out; a switch that is
unavailable may be pressed (the code refuses nothing, Home Assistant does), which allows
more than happens; an answer that carries a report publishes twice, before its window opens
and with it, and `CallOpens` writes what the second leaves, with the timers as the two
sweeps leave them (`SweptTwice`); an entity is added and removed in the step of the sync that asks for
it; a reload of the entry is a behaviour of its own, for the new coordinator shares
nothing with the old. A timer is due `SettleTicks` after it is set and fires then or
later.

**SwitchPromise.** The refinement mapping takes `heard` from `lastRead`, `shown` from
`written` and `owed` from each record's command, what it would give back and whether it
has withheld a read (`Debt`). A read is believed (`Believes`) or withheld, once for a
command (`Withholds`); a command is shown (`Shows`) and given up (`GivesUp`, `Forgets`);
a manifest replaces what is shown (`Relists`); `settling` fades with time, seen at any
later write (`Fades`).

**CueStream.** `stream` and `fallback` are the places at which the two tasks wait,
`connected` is `stream_connected`, `success` is `last_update_success`, `since` and
`warned` are the outage clock and its warning. `queue` is what the server has sent and
the reader has not read; `reply` and `polled` are answers on their way, as the server had
things when it gave them, so an answer can be older than an event. `server` is up, failing
(takes connections, answers errors or nonsense) or down. `CallAnswered`, `WindowOpens` and
`WindowEnds` stand for all that settle windows do here: a call is answered by a server that
is up, its window opens when the answer is there, which may be after the server is gone,
and both ends of it publish. Backoffs and poll intervals are
any time at all.

**CueLoop.** The stream is up and cues stay listed. An event is queued as the gear turns
and is read in order, none while the manifest is read again; an answer to a call carries
what the gear did when the server gave it, if anything, and arrives whenever it does. The
read steps are `Observe` and `Refetch`, the others those of a call, a timer and the clock.
`stale` is history: the last read of a cue was an answer's report, and an event newer than
it had been read before it.

**SseFraming.** A line is its content, perhaps a carriage return, and a newline, a byte
each; a long line has two bytes more. `Chunk` takes any number of the bytes sent, up to
`MaxChunk`, and tests the cap, `ReadsLine` takes the first complete line from the buffer.
`sent` is the lines, `text` their bytes and `ends` where each of them ends; the reader sees
the bytes alone. The reference is told from the lines: a blank line ends the `Block` since
the last one, its name is the last one `Named` in it, its data are at `DataAt`, in order.
`"blank"` is the line with nothing on it, `"none"` the event field that is not set.
`MaxChunk` is what the transport can hold, not a limit of the code's own.

**CueCall.** A POST is handled by the server in a step of its own, so one given up on may
be handled later; its answer is a third step. An answer is a status, whether it is JSON, and a `Body`
that says what became of the cue, or `None` for one that is empty or no object; `Heard` is
that body as `_post_cue` and `_result` read it, by the `Defaults` where it says nothing.
The server is external: it presses nothing for an answer other than a plain 200, and a
proxy may replace its answer (`Mangled`) by an error, by no JSON, or by a 200 whose JSON is
not the server's. `mute` is history: the answer a call ended with had no body. An entity is an object: one that left Home Assistant still gets its result.
`Ends` is every way out of `async_run_cue`, `NoteResult` is `_async_note_result` with
`_publish_result` and the warning.

**EntityName.** `registry` is the entity's entry, with `name` and our option `named_from`;
`disk` is what was saved, which a crash takes things back to; `removed` is what the
registry remembers of an entry it removed, which may come back with the entity. `put`,
`typed` and `foreign` are history: what we last wrote, what the operator last typed, and
whether that was anything else.

**EntitySync.** `known`, `registry`, `removed` and `delay` are the sync's set, the entity
registry, and the reloader's `_removed` and timer. `todo[l]` is what one run of
`_async_reload` has before it; several may be under way (`Loops`), as a bridge may take
longer than the delay. A run takes its bridges in any order, which allows more than the
loop does. The bridges' own entries stay as they are while a run is under way: the run
steps over a bridge that refuses (`OperationNotAllowed`), and any other exception, such as
for an entry deleted in the meantime, would end it (homekit.py:166). `published[h]` is what a bridge publishes, `None` while it is
starting or restarting. One platform stands for switches and buttons. External code is
modelled as `homekit.py` describes it: a bridge reads the states once as it starts, not
before Home Assistant has; a registered entity has a state whether our entry is loaded or
not. A bridge that is starting and refuses a reload reads the registry after that.

**Entries.** `phase` says at which await of setup or unload an entry stands. A flow
creates an entry or rewrites the host of a known one in one step; a form under way holds
nothing but what was typed. Hosts are scheme, host and port as `urlsplit` reads them, and
`Normalised` is `normalise_host`. `https` is Home Assistant's own, which its configuration
may change at any time (`HttpsTurns`) and which is read once, as the panel is placed. An id
begins with the time it was made, so two may begin
alike. `panels` is the frontend's, one panel to a path, with somebody else's perhaps at
the plain path. `botched`, `overtaken` and `seen` are history: a setup that broke after its
panel was placed or an unload that failed, a host rewritten while a setup was under way,
and `https` as the setup of an entry that is up found it. Behind a rewritten host
`ReloadedWhenRewritten` is our update listener, for an entry that has one, and otherwise
the flow, which reloads an entry waiting for a retry.

## What is checked

| Run | Bounds | Shows |
|---|---|---|
| `settle_one` | 1 cue, 2 reasons, window of 2 ticks, 2 calls in flight, 1 return of a deleted cue | `TypeOK`, `GiveBackIsLastRead`, `ShowsLastRead`, `SettlingIsBacked`, `OwnTimerNotEarly`; `KeepsPromise`, the refinement of `SwitchPromise`; `OwnWindowEnds` under fairness |
| `loop` | 1 cue, window of 1 tick, 1 call in flight, 2 events unread | `FollowsGear`: behind its window the switch shows what the gear does once the stream is read; `ComesToRest` under fairness: when gear and people rest it comes to show it |
| `stream_pair` | 2 cues, warning after 2 ticks, 2 events unread | `TypeOK`, `NoPollBesideStream`, `QuietIsCurrent`, `WarnedOnce`; `DropIsRepaired` and `OutageIsWarned` under fairness |
| `sse` | 5 lines on a connection, cap of 5 bytes, chunks of 3 at most | `TypeOK`, `HandsOnWhatWasSaid`, `OnlyLongLinesRefused` |
| `calls_pair` | 2 calls in flight of 1 entity | `TypeOK`, `PressedOnce`, `ToldWhatHappened`, `ShownIsLatest`, `WarnedPerRun`; `CallEnds` under fairness |
| `names` | 3 names, 1 entity | `TypeOK`, `HandKept`, `FollowsServer` |
| `sync_bridges` | 2 cues, a bridge that names one and a bridge that has both, delay of 2 ticks, 2 reloads at a time | `TypeOK`, `BridgesFollow`, `OnlyStrandedLinger`, `ReloadWaitsForQuiet`, `ReloadingOursReloadsNothing` |
| `sync_live` | 2 cues, a bridge that names one and an entry in accessory mode, delay of 1 tick | `BridgesCatchUp` under fairness |
| `entries` | 2 entries, 2 appliances, 4 ways of typing a host, 2 id prefixes, Home Assistant in HTTPS or not, by turns | `TypeOK`, `NoOrphans`, `SidebarFollows`, `OneSubscription`, `ClientIsCurrent`, `OneEntryPerServer`, `OthersPanelsStand` |

Why these are enough. A window of two ticks has a moment before, in and after it, and a
timer that is due, late or early; two calls give every order of answers, one return gives
an entity and its predecessor. Several cues, which touch each other when one's publication
sweeps another's timer, are left to the proofs. In the loop one call and two events are
an answer overtaken by an event and an event overtaken by a manifest; its window opens over
another after it. In the stream, two cues tell a change of the row an event names from a
change of one it does not, and a queue of two lets an event of each kind wait behind the
manifest. Five lines are two events and a long line between them; a long line and its end
are as long as the cap, so a chunk can hold its end and what follows. Two calls of an
entity are a run of results and one answered over another. Three names are what the
server called a cue, what it calls it, and what the operator does. Two bridges are a filter
that loses its last entity and one that always admits us; two reloads overlap. Two entries
race for the plain path and for one appliance, reached by its address, by a name in
HTTPS, and one too old to give its `lanUrl`; with Home Assistant in HTTPS or not they
include a panel that is due, one that its option forbids and one that no browser would
frame. `MaxCalls`, `MaxGen`, `MaxQueue`, `MaxLines`,
`Loops`, and the sets of calls and entries are the only bounds that cut behaviours off;
ticks saturate.

Fairness. Home Assistant's loop runs every callback and task it has: time passes, a due
timer fires, each of the two tasks goes on when it can, a dead stream is noticed by its
sixty-second read timeout, a call is answered or given up on after `REQUEST_TIMEOUT`, a
bridge that starts finishes. Nothing is assumed of people, the gear or the server; where a
property needs the server it says so (`DropIsRepaired`: the server is up and stays up).
Deadlock is an error everywhere but in `calls_pair`, where an entity that was removed with
no call under way has nothing more to do.

The provisos matter. `GiveBackIsLastRead` and `ShowsLastRead` except a cue over whose
window another was opened, or the manifest read, with no read since (`overlapped`); that
is where the code goes wrong, see below. `FollowsGear` excepts those and a report that an
event had overtaken (`stale`), `ComesToRest` also a lapsed record whose timer was cancelled
(`Forgotten`); each of the three is needed, TLC finds a counterexample without it.
`QuietIsCurrent` excepts a change that no event told of and no manifest has been read
since (`missed`): the manifest read after a reconnect has failed. `BridgesFollow` excepts a
change made with the option off (`optedOut`) and a reload that unloading dropped
(`dropped`). `OutageIsWarned` excepts a poll task that has died. `ToldWhatHappened` excepts
a call that ended with an answer without a body (`mute`), and only from what a call that
ends as run must have pressed. `NoOrphans` excepts what a broken setup or a failed unload
leaves (`botched`). `SidebarFollows` says both that a panel that is due is there and that
one that is not due is not; only the second excepts `botched`, and an entry to be reloaded,
or set up before Home Assistant's HTTPS changed, is left to its next setup.
`OthersPanelsStand` excepts ids made in the same second (`Alike`), `ClientIsCurrent` a host
rewritten during the setup (`overtaken`), `OneEntryPerServer` an appliance that gives no
`lanUrl`. Where a proviso excepts what the code does wrong, the property says that nothing
else goes wrong so; the hazards in `PROJECT.json` say which those are.

### Where the documentation and the code disagree

| Run | The documentation says | The code |
|---|---|---|
| `claim_gives_back_last_read` | a window gives back whatever was last read (README.md:90) | a manifest read inside the window is the last read, and the end of the window writes the older state over it; so does a second press, which takes the first command for a read |
| `claim_outage_unavailable` | an available switch would lie about a server that is not there (coordinator.py:510) | a window that ends in the outage publishes, and publishing makes every entity available |
| `claim_change_reloaded` | the bridges are reloaded fifteen seconds after the last change (README.md:186) | a reload of the entry within them drops it, and saving any option is one |

The models have these too, which have no run of their own.

- Switch: anything published between the lapse of a window and its timer cancels the
  write that would end it (switch.py:184), and the command stays on show as if read
  (coordinator.py:439 says a write is scheduled for the lapse); two contradicting reads end
  a window though they differ (README.md:88 says they say the same thing); the report of a
  cue call may be swallowed by the window already open (switch.py:171 says it becomes the
  fallback); a report that an event has overtaken is taken for the newest read, so a switch
  may show "on" for gear that is off until the next read (README.md:75 says the switch
  reports what the gear says); a cue deleted inside its window and brought back stays
  `settling` with no timer; the timer set for an entity already gone ends its successor's
  window; `last_commanded` follows the order of answers, not of asking (README.md:103).
- Stream: a reconnect whose manifest fails has stopped the poll, and nothing asks again
  while the stream is up and silent (README.md:134 says the first reconnect that answers
  brings the entities back); an answer that is not JSON ends the poll's task
  (README.md:125, api.py:126); a poll that answers leaves entities unavailable that a
  failed manifest made so; one event after such a failure makes all of them available with
  what they last heard; `unreachable_since` outlives a manifest that an event asked for;
  `MAX_EVENT_BYTES` caps the bytes not yet read, not an event (coordinator.py:34), so many
  short lines of one event are never refused and some that are shorter than it are.
- Calls: a body that is empty or no JSON object is read as an empty object (api.py:177),
  and a 200 without `ok` as a cue that ran (api.py:203), so a call that pressed nothing may
  end as run (entity.py:130 says a cue that did not run must never read as one that did);
  `ToldWhatHappened` has a counterexample without `mute`. `last_result` keeps its former
  value after a call that was refused or not answered.
- Names: an operator who types back what the cue was called is overwritten at its next
  renaming (tests/test_entities.py:69, README.md:62).
- Sync: a cue deleted while the entry is not loaded lingers (entity.py:209, 214).
- Entries: a setup that breaks after its panel was placed, or an unload that fails, leaves
  the panel; entries made in the same second share a path; a host rewritten during a setup
  is not taken up by it; the unique id has no port, so a second server on one host is
  refused and the first entry's host rewritten, with its old token; a new token typed for a
  known appliance is dropped; an appliance that gives no `lanUrl` can be added twice
  (README.md:43).

## What is proved

Eight modules of theorems, for all values of the constants that satisfy the named
assumptions (`SettleAssumption`, `NoneAssumption`, `LoopAssumption`, `StreamAssumption`,
`FramingAssumption`, `CallAssumption`, `NameAssumption`, `EntryAssumption`,
`EntitySyncAssumption`: bounds are naturals, windows and delays are not zero, `None` is none
of the values, no payload is a newline or a name, what is typed has a scheme the form
takes):

| Module | Theorems | Properties |
|---|---|---|
| `SettleWindowProofs` | `TypeCorrect`, `Inductive`, `GiveBackCorrect`, `ShownCorrect`, `BackedCorrect`, `NotEarlyCorrect`, `PromiseKept` | `TypeOK`, `IInv`, `GiveBackIsLastRead`, `ShowsLastRead`, `SettlingIsBacked`, `OwnTimerNotEarly`, `KeepsPromise` |
| `CueLoopProofs` | `LoopInductive`, `FollowsGearCorrect`, `LoopImplementsWindows`, `LoopKeepsPromise` | `LoopInv`, `FollowsGear`, SettleWindow's `Spec`, `KeepsPromise` |
| `CueStreamProofs` | `StreamTypeCorrect`, `StreamInductive`, `NoPollCorrect`, `QuietCorrect`, `WarnedOnceCorrect` | `TypeOK`, `IInv`, `NoPollBesideStream`, `QuietIsCurrent`, `WarnedOnce` |
| `SseFramingProofs` | `FramingInductive`, `FramingTypeCorrect`, `HandsOnCorrect`, `LongLinesCorrect` | `IInv`, `TypeOK`, `HandsOnWhatWasSaid`, `OnlyLongLinesRefused` |
| `CueCallProofs` | `CallTypeCorrect`, `CallInductive`, `NeverPressedTwice`, `AlwaysToldWhatHappened`, `LatestResultShown`, `WarnedOncePerRun` | `TypeOK`, `IInv`, `PressedOnce`, `ToldWhatHappened`, `ShownIsLatest`, `WarnedPerRun` |
| `EntityNameProofs` | `NameTypeCorrect`, `NameInductive`, `HandKeptCorrect`, `FollowsCorrect` | `TypeOK`, `IInv`, `HandKept`, `FollowsServer` |
| `EntitySyncProofs` | `SyncTypeCorrect`, `SyncInductive`, `FollowCorrect`, `LingerCorrect`, `QuietCorrect`, `ReloadingOursCorrect` | `TypeOK`, `IInv`, `BridgesFollow`, `OnlyStrandedLinger`, `ReloadWaitsForQuiet`, `ReloadingOursReloadsNothing` |
| `EntriesProofs` | `EntryTypeCorrect`, `EntriesInductive`, `OrphanCorrect`, `SidebarCorrect`, `SubscriptionCorrect`, `ClientCorrect`, `OneEntryCorrect`, `StandCorrect` | `TypeOK`, `IInv`, `NoOrphans`, `SidebarFollows`, `OneSubscription`, `ClientIsCurrent`, `OneEntryPerServer`, `OthersPanelsStand` |

*Settle windows.* The four properties are about records, timers and what is written at
once, and none is inductive alone. `IInv` adds: what is written is the row, and says
settling only over a record (`WritesItsRow`); nothing was opened or asked for by an entity
to come (`OpenedByNow`), so that a new entity owns no window; a window that lives, or is
still on show, has its opener's timer (`TimerBacksWindow`); the row of a cue without a
window is its last read (`RowIsLastRead`). A read, an answer, a manifest, a timer and a
tick are a lemma each; that publishing for one cue leaves the others right is `ToldFaces`.

*The promise.* Under `IInv` an initial state maps to one of `SwitchPromise` and each step
to one of its steps or a stutter: a read to `Believes` or `Withholds`, an answer to
`Shows`, a timer to `GivesUp` or `Forgets`, a tick to a stutter. What a published write
does to the faces of other cues, whose windows may have lapsed unseen, is `Fading`.

*The loop.* Every step of `CueLoop` is one of `SettleWindow` or leaves its variables alone
(`StepOfWindows`), so the windows' invariant is its own, and the loop implements
`SettleWindow` and by that `SwitchPromise`: the reads, manifests and answers that the
windows take at any time come here from a stream and a server. Added are facts about what has
not been read: the last queued event about a cue says what its gear does (`QueueCurrent`),
a manifest on its way is current but for what is queued (`ReplyCurrent`), and so is what
was last read of a cue, if it is not stale (`ReadCurrent`). `RowIsLastRead` and
`GiveBackIsLastRead` take that to the switch.

*Stream and poll.* `QuietIsCurrent` needs the same two facts and those for the rows and a
poll's answer (`RowsCurrent`, `PolledCurrent`), as long as nothing was missed; that tasks
and answers agree (`TasksAgree`) is why no answer comes to a task that does not wait.
`WarnedByFlag` is why a second warning cannot come.

*SSE framing.* The bytes sent are the lines, one after the other (`TextIsLines`), the buffer
is what has come of them and is not read (`BufferIsText`), and what is read ends with a
line, the fields being those of the block it belongs to (`ReadsWholeLines`, `FieldsOf`). A
line's only newline is its last byte (`LineBytes`), so the first newline in the buffer ends
exactly the next line (`FirstEnd`), and a buffer without one is a proper part of a line
(`Incomplete`), which is why only a long line is refused. That the data of a block and the
events of a connection stay in order, one more at the end of each, is `PlaceOfLast`: a line
that is read is later than all before it.

*Cue calls.* That a call presses once needs that nothing was pressed while its POST or its
confirmation is open (`UnpressedYet`), that an answer is on its way only to a call that
waits (`ReplyAwaited`) and, if it has a body, says what was pressed (`ReplyTrue`): an answer
without one ends as run, as unreached or as an error, and which of these is a matter of its
status alone (`BareRead`, `MangledSilent`). `Remembered` ties the entity's record to the
history.

*Names.* What holds of the entry in use holds of the saved and the removed one (`EntryOK`):
the note is what we put there, and a name that is neither that nor absent was typed.

*Entries.* `KeysApart` and `KeyedByLan` make an appliance one entry; `PathsOwn` and
`PanelsOwn` say who can be at a path, so that a removal takes its own panel;
`ClientFollows` carries the address through the awaits of a setup, `Subscribed` the
subscription. `SidebarDecided` is `SidebarFollows` for the HTTPS each setup saw, which is
what stays true as Home Assistant's turns.

*Sync and reload.* `BridgesFollow` is not inductive because a reload could pass a bridge
over. `IInv` adds that a bridge which is not excused publishes only what its filter admits,
and nothing beyond the registry and what the reloader remembers as removed
(`ExtrasRemembered`): a bridge passed over then has nothing of ours and should have nothing
(`PassedOverFollows`). `BuiltWhileRunning` is why a sync during startup may schedule
nothing, `UnloadedIsBare` why loading the entry again schedules nothing, `DelayCoversQuiet`
why the delay is measured from the last change.

Only model-checked: the liveness properties (`OwnWindowEnds`, `ComesToRest`,
`DropIsRepaired`, `OutageIsWarned`, `CallEnds`, `BridgesCatchUp`), as fairness and ENABLED
are out of TLAPS' reach. The reference of `SseFraming` is stated on the positions of lines
instead of as a fold over them, which would need induction over data.

## Not modelled, and the plan

What would come next, in the order of importance:

1. Drops and the poll in `CueLoop`, whose stream stays up: a drop is `CueStream`'s, and
   with windows beside it the instance outgrows TLC. The invariant would be that of
   `CueStreamProofs` with `missed` as one more proviso.
2. Cues that leave and come back in `CueLoop`, with their entities; `SettleWindow` has them.
3. The sync and the entries in one module, so that a reload of the entry is the sequence of
   steps `Entries` has instead of the single steps of `EntitySync`.
4. `_parse_manifest`: which rows of a malformed manifest are kept. It is a function of its
   input and tested as one.

Left out for good: diagnostics (reads only), texts and constants (data), the release
scripts (text processing outside the running system), logging except for the two WARNINGs
that are counted, the attributes that only describe a row, and the lengths of backoffs.
