# DF-AI: a TLA+ model of the bridge between Dwarf Fortress and its agent

DF-AI lets a language model play Dwarf Fortress one turn at a time. A DFHack plugin
written in C++ (`src/dfhack-plugin`) speaks a binary protocol over TCP with a Go
process, which keeps a model of the fort. Three programs share the Go side
(`src/internal`): `df-mcp` offers the fort to the agent as MCP tools, the BDI
program (`internal/bdi`) asks a model for a plan and carries it out, and the older
`df-orchestrator` (`internal/autonomous`) runs agents in cycles. What can go wrong
lies between these processes and their threads (the plugin has three under DFHack's
core lock, the server a dozen goroutines and bounded channels that drop what does
not fit, and either side may restart or lose the connection), and in data that two
places describe separately: codecs and parsers, tools and messages, prompts and
vocabularies, overlays kept up to date and built anew.

Run a model with `tlc -config MCx.cfg MCx`, the proofs with `tlapm X_proofs.tla`
(the longest, `MCWorldModel_proofs`, takes several minutes).
`PROJECT.json` lists the components, the runs, the seeded faults, the source lines
of every definition, the hazards and the theorems.

## 1. The system and what makes each part correct

| Component | State it keeps | Operations | Hard behaviour | Correct when | Module |
|---|---|---|---|---|---|
| **Command execution** `internal/commands` | `CommandTracker`: `nextID`, commands by id with status, response, `ResultChan`; per call a timer | `SendCommand`, `MarkAcked`, `CheckTimeouts`, `cleanupOldCommands` | unlocked write of `Sent` after the frame is on the wire; late, double and lost ACKs; ids that start again with the process | at most one execution; a reply is the command's own; no call hangs | `CommandLifecycle`, `CommandContract` |
| **Plugin session** `df_ai_protocol.cpp` | `g_socket`, `g_connected`, `g_stop_message_loop`, `g_message_thread`, queues, resync flag | `ai-connect`, `ai-disconnect`, teardown by the socket thread, receive loop, drain | three threads, the core lock, join against lock, self-teardown | no joinable thread overwritten, no foreign teardown, no deadlock, nothing queued forgotten | `PluginSession` |
| **Turn control** `tools_control.go`, plugin PAUSE modes, `announcements.cpp` tripwire | pause flag, `g_step_target_frame`, tripwire record, event counter | `pause`, `unpause`, `step`, `sim_status`, turn-boundary push | a step may end in four ways, the answer may be late, the pushed state is ingested asynchronously | the report is about the step asked for; the step ends | `StepControl` |
| **Announcements** `announcements.cpp`, `alerts.go`, `populator.go` | cursor, repeat counts; ring with index | poll, cap, reset, delivery, `Add`, `Dismiss` | read-modify-write of the cursor against a reset; eviction | nothing skipped, everything delivered, dismissals stick | `AnnouncementFeed`, `AlertStore` |
| **Map deltas** `tile_updates.cpp`, `send_full_state`, `bridge.go`, `populator.go` | `g_tile_cache`, overlay pointer | delta, full state, apply | full state overtakes queued deltas, cache not touched by full states, dropped deltas | the overlay is the fort after a push | `TileSync` |
| **Server session** `dfhack/client.go`, `protocol/connection.go` | current `conn`, its state and socket, heartbeat clock | accept, handshake, message loops, heartbeats, `Stop` | connection published before its handshake, several readers at a time, one heartbeat clock for all | a dead connection is noticed; `Stop` returns | `ClientSession` |
| **Queries** `SendQuery`, `queries.cpp` | pending table with channels, `nextQueryID`; the plugin's queue | `SendQuery`, answer, timeout | late answers, ids that wrap, a table that outlives connections | an answer is the call's own; every call returns | `QueryChannel`, `QueryContract` |
| **Wire codec** `internal/protocol`, parsers and senders of the plugin | none | encode, decode, parse, validate, frame | two codecs in two languages, older peers, cut payloads | both sides read what was written; a cut is refused | `WireLayout`, `DesignationWire`, `CommandWire`, `MessageWire`, `Wire` |
| **Command tools** `tools_action.go` and others | pending digs, places | one command each | vocabularies, defaults, widths, rectangles | what the agent says is what the plugin does | `ActionTools` |
| **Plan, predictions, reconciler** `internal/plan`, `worldmodel/predicted.go`, `internal/reconcile` | DAG of nodes with counts and times, predictions per tile, event buffer | commit, `MarkActive`, `Predict`, `Confirm`, counts, stalls, retire | executor, reconciler and Populator work on copies of each other's state; overlapping predictions, stall timers | a node is done only when dug or taken over, progress is kept, nothing stalls in silence | `PlanReconcile` |
| **BDI loop** `internal/bdi` | pass, plan, turn; context | turn, requests, commit, drain, `Stop` | executor and deliberator share the DAG, cancellation anywhere | the plan is sent in order, once; turns end | `Deliberation` |
| **Topology, places** `internal/topology`, `internal/spatial`, `places.go` | three-state tiles in bits, counters, regions; names and their file | build, update, lookup, flood fill, compress, suggest; name, load, save, reconcile | packed bits, counters kept by hand; names written by tools and read by the bridge | every lookup agrees, regions are components, names last | `Topology`, `Places` |
| **Hazards, modifications** `internal/hazards`, `internal/modifications` | layers by kind; baseline and recorded changes | build, update, detect | running counts, caches of bounds, repeated updates | updated is rebuilt; what is recorded is what happened | `Hazards`, `Modifications` |
| **Older program** `internal/autonomous`, `agents`, `phases`, `spatial/planner.go`, `cmd/df-orchestrator` | loop in a global variable, survey flags, pending digs, history | loop, trigger, survey, cycle, feedback, arbiter | a new loop per full state, callbacks that take the loop found there | decisions in order, none twice, history true | `Orchestrator`, `OrchestratorTurn`, `FortAgents` |
| **Answers of the model** `internal/llm/parser.go`, `bdi/prompt.go` | none | parse | patterns, plural words, numbers out of range, tables kept apart from the protocol's | what the prompt teaches is understood | `AnswerParser` |
| **Perception tools, map views, predicates, LLM clients, HTTP status, configuration, logging, entities, plugin domain handlers, command-line programs** | none that lasts, or that of the game | I/O and formatting | – | – | not modelled, section 5 |

Interactions: a tool goroutine calls `SendCommand` or `SendQuery`, which write a
frame on the one connection. The plugin's socket thread queues the frame and tries
to take DFHack's core lock; whoever holds it (the socket thread, or
`plugin_onupdate` on the simulation thread) drains the queues and writes ACKs,
responses and pushed state back. The client's message loop hands ACKs, tile deltas,
entities and announcements to bounded channels by non-blocking sends and calls
`onFullState` inline. `handleAcks` feeds the tracker, `Populator.Run` the world
model, which the tools read by snapshots; the full-state callback builds the
overlays, runs the detectors and loads the places. The BDI loop commits plan nodes
which its executor sends through the same `SendCommand`; the older program does the
same from its cycles.

## 2. Modules, how they correspond to the code, what the runs show

Conventions: an action is a handler, or the part of one between two points where
another thread may run; the comment above it names the code. A goroutine's or
thread's position is a program counter named for the step that comes next. A
definition marked "Seeded fault" is a plausible bug: no specification uses it,
`PROJECT.json` names the definition it stands in for and the property that then
fails. `MCx.tla` extends `x`; the `.cfg` gives the constants their values. What is
pure in the code is an operator here, with the code's name where it has one.

Components that never meet are checked together. In `MCStructures` (run
`structures`, safety) and `MCPrograms` (run `programs`, safety and liveness) the
initial state chooses one part, the others stand still in an initial state; the
state space is the sum, not the product. `MCStructures` takes the parts `alerts`,
`tiles`, `places`, `hazards`, `mods` and `cycles` as steps of `MCWorldModel`, the
composition of `AlertStore`, `TileSync`, `Places`, `Hazards`, `Modifications` and
`OrchestratorTurn`; that module reaches no recursive definition, so theorems can be
stated of it (`MCWorldModel_proofs`), and they hold of the steps the run takes. The
other parts are added by `MCStructures`. The run `plan` checks the type invariant of
`PlanReconcile`, where counts could leave their range; those of the other modules
with a theorem are proved. `MCStructures` also extends `Topology`, and the store of
alerts is extended by `MCWorldModel`: their invariants are checked by the names the
theorems use.

### CommandLifecycle, CommandContract, CommandLifecycle_proofs (run `commands`)

`CommandContract` is the promise of `SendCommand`: each command is applied at most
once, a status handed to the caller is one of the command's own ACKs, and a command
reported as unsendable is never applied. A timeout promises nothing; the command may
still run later. `CommandLifecycle` is the code: `StartSend`,
`WriteFrame`/`WriteFails`, `MarkSent`, `TakeResult`/`GiveUp` are the stages of
`SendCommand`; `ReceiveAck` the message loop, `MarkAcked`, `CheckTimeouts`,
`CleanupOld` the executor's goroutines; `QueueCommand` and `ExecuteNext` the plugin.
`outcome` is the set of statuses a command was acknowledged with: a PAUSE whose push
throws sends `SUCCESS` from the handler and `FAILURE` from the catch of
`executeCommand`.

`ContractKept` is the refinement: the variables `outcome` and `reply` of the
contract are those of the code model, every step of the code is a step of
`CommandContract` or a stutter, as long as the server process lives. After a restart
it is not: ids start again while the plugin still holds old commands (see
Observations). `CallsReturn` holds with lost frames, a full ACK channel and
restarts. Fairness: goroutines that can run do, and time passes (`DeadlinePasses`);
no frame is assumed to arrive. Bounds: two callers and two calls give every
interleaving of two `SendCommand`s with ACKs in both orders and twice; one fault
(lost connection, restart, map load or unload) at every point, with either initial
map state; an ACK channel of one is full as soon as two ACKs are waiting (the code's
holds 100).

### PluginSession, PluginSession_proofs (runs `session`, `session_auto`)

`tpc`, `cpc`, `spc` are the socket thread, the console command and the simulation
thread; `core` is who holds the core lock; `handle` is `g_message_thread` not null.
Console commands run with the lock held, as DFHack runs them; the socket thread
takes it by the bounded try of `ConditionalCoreSuspender` for a drain (`DrainLock`,
or `DrainAbandon` when it sees the stop flag) and by a blocking `CoreSuspender`
under auto-update (`AutoUpdateStep`). A teardown by the socket thread itself is
three steps (`CloseSocket`, `ResetConnected`, `ResetCursors`), so that a reconnect
may come between them. `serving` and `opened` number the sessions, `aborted` notes
that the exception barrier ended the last drain: they are history, nothing in the
code reads them.

Safety: `NoThreadReplaced`, `TeardownOfOwnSession`, `ConnectedIsServed`. Liveness:
`ConsoleReturnsManual` and `RequestsAreServed` (what is queued is drained, a resync
is answered, in a paused game too), as long as auto-update is off. With it,
`session_auto` shows the deadlock of join and blocking lock (finding). Fairness:
every thread that can go on does; a thread that keeps trying for a lock others keep
releasing gets it (strong fairness of `DrainLock` and `AutoUpdateStep`: the try
sleeps a millisecond, a console command holds the lock for one command only). Nobody
is assumed to type, to send, or to unpause the game. The peer's `RESYNC_REQUEST` or
the heartbeat timeout comes in the end: every session of the server starts with that
request. Bounds: three sessions let an old thread meet a second successor; a queue
of two has a first, a last and a remaining item. Deadlock is not checked: a bounded
number of sessions ends, and the deadlock under auto-update is real.

### StepControl, StepControl_proofs (run `step`)

One agent, one tool call at a time. `target`, `tripwire`, `commands`, `queries` are
the plugin's globals, `phase` the position in `drain_pending_work_impl`, which holds
the core lock and so lets no frame of the game between its steps. The three modes of
PAUSE are `RunPause`, `RunUnpause`, `RunStep`; `Repause` and `PollAlarms` end a step
at its target or by the tripwire, and each pushes state, which may throw.
`CountEvent` and `InstallEntities` are the two halves of `OnEntityUpdate`. `running`
and `ended` are history: which call's step is in progress and how it ended.

`TruthfulReport`: the step tool reports completion only of the step it started, and
names a tripwire exactly when one ended it. `StepEnds`: a step ends or the player
has paused the game; fairness is that of the game's main loop only. Bounds: two
calls (an earlier one that leaves something behind and the one looked at), one
alarm, a step of one frame that may overshoot by one, two interventions of any kind
(key press, lost connection, exception in the push, timed-out query), an entity
channel of one. The wildlife trigger of the tripwire is an alarm like any other; the
`sim_status` the tool sends before the step only fills in the frame it reports and
is left out.

### AlertStore, AnnouncementFeed and their proofs (runs `structures`, `feed`, `feed_reset`)

`AlertStore` has the ring and its index, each method one action since each holds the
mutex; positions count from 1. `IndexConsistent` survives eviction, `DismissalKept`
says that only a new repeat undoes a dismissal. Four ids in a store of three evict
and come back.

`AnnouncementFeed` adds the poll, split at every access to the atomics that a
teardown may come between (`CollectNew`, `CollectRepeats`, `SendNews`,
`AdvanceCursor`, `RecordCounts`), the teardown (`CloseSocket`, `ResetCursor`,
`ResetCounts`), the wire, the bounded channel and the Populator's loop of `Add`.
`NothingSkipped`: what is below the cursor was sent to this session. `Delivered`:
every report and repeat reaches the store, unless the session is lost, its update
was dropped on a full channel or a repeat has left the tail window. Fairness: the
poll, the message loop and the Populator go on while the session lasts. `feed` has
`UnlockedTeardown = FALSE`: the console's teardown excludes the poll by the core
lock. `feed_reset` lets the socket thread tear down and finds the lost reset
(finding). Bounds: three reports against two per message and two in the window (the
code: 64 per message and 200 in the window); a store of three, since `Delivered` is
about delivery and not about eviction, which `structures` has.

### TileSync, in MCWorldModel (run `structures`, part `tiles`)

`Push` compares the map with `g_tile_cache` and updates it whatever becomes of the
message; `SendFullState` does not touch the cache; `ReceiveFull` installs an overlay
at once, `ReceiveDelta` queues; `TakeDelta` picks the overlay pointer and
`ApplyDelta` writes through it, to an overlay that may have been replaced. A lost
connection delivers any beginning of what was on it (`late`), read by its own message
loop while the next session runs (`ReceiveLate`). `suspect` is history: tiles whose
delta was dropped, overtaken by a full state, or suppressed by the cache, and those
which a late frame named with an outdated value when the full state of the next
session was no longer ahead (`FullAhead`). `GroundedElsewhere`: after a push has been
taken in, the overlay is right on every other tile; so these four are the only ways
to go wrong, and a later delta of the tile repairs it. Bounds: two tiles and values,
three changes and pushes, one lost connection, a channel of two. A failing
`send_full_state` is not modelled.

### PlanReconcile, PlanReconcile_proofs (runs `plan`, `plan_descending`)

The executor (`epc`), the reconciler (`rpc`) and the Populator share the DAG and
`PredictedState`, each of which has a mutex, so a step is one call of theirs. Both
goroutines work on copies: `BeginScan` copies the outstanding predictions that
`Check` then confirms one by one, `CopyActive` and `CopyOutstanding` the nodes and
predictions `CountNode` derives counts from, `BeginStalls` the nodes `Stall`
reports. `Dispatch`, `AcceptedDig`, `PredictTile`, `SetCount` are `executeDig`: the
node is active long before its prediction count is set. Time is two flags per node:
`idle` (`StallThreshold` has passed) and `noted` (reported, not yet due again).
`opened` and `taken` are history: tiles ever seen open, and tiles whose outstanding
prediction another node replaced.

Safety: `OverlayExact` (counters and index against the predictions),
`DoneIsDugElsewhere` (a dig that is done was seen open, except where another dig
took over its tile), `ProgressKept` (retiring and tiles that close again take
nothing back). Liveness: `StallReported`. Fairness: both goroutines are tickers that
never stop, a sent command is answered or times out, and time passes; nobody is
assumed to dig. `plan_descending` gives the digs Z1 > Z2 and finds a node that stays
active for ever without an event (finding). Bounds: two digs sharing one of two
tiles give every overlap; a third node stands for the actions without predictions;
one tile closes again once. The deliberator's turns are only what they commit; they,
and dependencies between nodes, are in `Deliberation`.

### ClientSession (run `server`)

The server's side of the connection. `Accept`, `Publish`, `Greet`, `AwaitHandshake`
and `Serve` are the accept loop, in the code's order: `c.conn` is set before the
handshake is read and stays set when it fails. Each connection has a message loop
(`lpc`) and a heartbeat sender (`hpc`); `age` is the one field `lastHeartbeatAck`,
which all heartbeat goroutines test and any message loop sets anew. `Closed` is a
close of the socket, which the reader notices later; the peer may close, go silent,
send a bad handshake or an unreadable frame. `Stop` is split at the cancel, at the
close of the current connection and at `wg.Wait`.

`SilenceNoticed`: a served connection which is dead does not stay `Connected`,
though a live successor keeps the shared clock young. `StopReturnsElsewhere`: `Stop`
returns, unless a *straggler* is left, a connection whose peer went silent and which
`Stop` does not close, as it closes the current one only. Fairness: the accept loop,
the readers and the heartbeat tickers go on, time passes, the peer echoes while it
lives and gives a dead connection up; nobody need connect or stop. Bounds: two
connections are an old one and its successor, which is all the shared field can
confuse; three beats under way, one fault of any kind at any point. A full TCP
buffer, which would block `Send`, is left out.

### QueryContract, QueryChannel, in MCPrograms (run `programs`, part `queries`)

`QueryContract`: an answer is the plugin's answer to this very call, evaluated once;
an error promises nothing. `QueryChannel`: `Register`, `Send`, `TakeAnswer`,
`TimeOut` and `Forget` are the stages of `SendQuery`, `Receive` the message loop's
part, `Enqueue` and `Evaluate` the plugin's queue, which outlives its connections,
so that an answer may go over another one than the question. `QueryContractKept` is
the refinement; `QueriesReturn` that every call returns, from the fairness of the
caller and its timer alone. Bounds: two calls over two connections; ids up to 3,
started at 0 or just before the wrap, which skips 0. With `MaxID` larger than the
number of calls no id is reused while its call waits, as with 2^32; the queue
meeting a restarted server, whose ids start again, is an observation.

### Deliberation, in MCPrograms (run `programs`, part `turns`)

`place` is the deliberator: `settle`, the ticker or trigger, `ask`, `fetch` for the
REQUESTs of a pass, `commit` node by node. `ePlace` is the executor, whose `Drain`
copies the ready nodes in their order and sends them one by one, finished or not by
the time they are reached. `Update` is the DAG's status change with the promotion of
dependents. `PlanIsFollowed`: no node twice, none before its dependencies, those
without dependencies in the order of the commit, none but digs under way after
`Stop`. `NothingHangs`: turns end, a ready node is taken up, `Stop` returns.
Fairness: a call of the model or of `SendCommand` is answered or times out,
cancelled goroutines leave; nobody is assumed to dig. Bounds: two turns of two
passes and plans of two actions with a dependency within a turn and one across
turns; the actions cover one that becomes done by its ACK, one that only the
reconciler finishes, `wait`, which needs no answer, and one that is unknown.

### Orchestrator, in MCPrograms (run `programs`, part `loops`)

Control of the older program. `Callback` is the full-state callback: it makes a new
loop, sets it up step by step and puts it in the global variable; the old one is
never stopped. `StartNewest` is the goroutine that starts, five seconds later,
whichever loop it finds; `Reader` handles entity updates (cache, then trigger, each
on the loop found then); `TryAnalyze` is `tryAnalyzeSVP` on three goroutines; `Run`
is a loop between its waits. `DecisionsInOrder`: a triggered loop knows the
entities, agents run with a layout, nothing crashes and nothing but replaced loops
decides after shutdown, except in the cases named in the property (each a race, see
Observations). `LoopsAnswer`: the first trigger is taken up, the survey is made
whichever of its inputs comes last, `Stop` returns. Fairness: goroutines that are
not blocked go on and a pending trigger is taken. Bounds: two loops, that is one
replacement; two states and one update or the other way round; one tick.

### OrchestratorTurn, FortAgents (run `structures`, part `cycles`)

`FortAgents` has what Food, Wealth, Defence, Housing and Mining propose for the
metrics of a fort, the graph with its overlaps, and what the decisions of an arbiter
become. `OrchestratorTurn` is `runCycle` in its three flows, each command an action
of its own, as it is sent and answered: feedback on pending commands, agents,
arbiter, the model, history. `HistoryIsTrue`: what the next prompt says about
earlier turns is what the plugin accepted, and a dig is pending until reported.
`CarriedOut`: whatever of an answer is refused or fails, each entry of it is handed to
the client as it says, in order and once (a shaft once for each level), but for
repetitions of a region and plain digs that are dug already; model and arbiter both
give commands in the graph flow only; each conflict of proposals is shown from both
sides. It does not say that no dig is sent twice: section 4. Instances
(`MCOrchestratorTurn`): one to three cycles, forts with and without food, enemies,
zones and housing, targets reached and not, arbiters that answer with nodes, ids and
sequences, answers that name a dig again in the same and in other words.

### AnswerParser (runs `structures`, part `words`, and `answer_zones`)

Phrases are what the code's patterns capture; `parseNaturalLanguage` is its passes
in their order, one per kind of command, `ActionOf` the signed action of the plan.
`PromptIsUnderstood`: what the prompt teaches becomes one action of that kind, with
the protocol's code, in order, plural or not, and what is out of range becomes none.
`answer_zones` shows the table of zones, which keeps another numbering (finding).
Two phrases at a time suffice for order within a kind and the one case where a
phrase hides another (dismiss all).

### Topology, Topology_proofs (run `structures`, part `map`)

Two bits a tile, known and open, with running counts (a compressed copy packs them
into bytes of `ByteBits`, two here, so that a map of 18 tiles fills several); full
state and update (`SetTileState` with its counters), flood fill in six directions,
the graph with its lookups, compression in its two modes and back, statistics, and
the hint of `designate_dig`. A server starts without an overlay, each full state
brings a new one (`FullState`), and the digs noted before it stay. The queue of the
flood fill is the sequence of the tiles found so far, of which the first ones have
left it (`Dequeue`); the loops of fill, scan, compression and decompression are
recursive functions of the number of their turns, with as many turns as there are
tiles or bytes. `LookupsAgree`: single tiles, counters, statistics and boxes
(`TilesAgree`) give what was last told, and a decompressed copy is the overlay
(`CopiesAgree`): one of the whole map always, unless it has a run of equal bytes so
long that its number needs a fourth digit (`FullCopyAgrees`), one of some levels if
it is not refused (`LevelCopiesAgree`).
`RegionsAreComponents` compares flood fill with the definition of connectedness.
`StatsForZRange` is `<<>>` where the code would panic (section 4).

A call of `designate_dig` goes through the steps of `connectorSuggestion`: `Designate`
takes the overlay of the moment once the plugin has acknowledged the dig, `Graph`
builds the regions, `Touch` tests the surroundings, `NextSlice` and `SeedFromSlice` ask
the plugin level by level, `Suggest` takes the counters of now and the regions of then,
and `Record` notes the dig. Between any two of them the connection's goroutine may
write tiles or install a new overlay, and other callers take their steps; a call goes
on with the overlay it took (`retired` keeps those replaced while a call uses them) and
seeds that one. Each call has a history: the tiles open in its overlay at some moment
since it began (`ever`), those open all the time (`always`), and those of the digs
recorded before (`before`). `SuggestionConnects` is what is true of a hint although the
map moves: it names a tile of `ever`, no tile of `always` is nearer, none of `always`
and `before` lies beside the dig, and following it joins the two. That the hint is
right of the map at the end is false, and no run says so. One scan of the map (for the
graph, for the test of the surroundings) and the seeding of one slice are one step each;
the code takes the overlay's lock per tile. The property is stated so that this makes
no difference: a scan finds every tile that stays open, and nothing that never was.

Bounds: 3 by 2 by 3 tiles; two callers; full states, updates and designations, three
in all, of which `Record` may still come later; four digs; slices with one open tile,
none, or no answer; eight maps with rooms that meet flat, across levels, by a corner
only or not at all; a tile outside the map; `MinKnownOpenTiles` of two instead of 20
and `connectorLiveRecheckMaxZSpan` of two instead of 8, which only decide when a hint
is given and when the plugin is asked.

### Places, in MCWorldModel (run `structures`, part `places`)

Names in memory and on disk; `NamePlace`, `Copy`, `Truncate` and the write are the
steps of a call of the tool; `FullState`, `Install`, `ReadFile` and `Reconcile`
those of the full-state callback; a crash at any point leaves what is on disk. A
save may fail before the file is touched or in the middle of the write, which leaves
it `broken` though an error is returned (`SaveFails`, `WriteFails`).
`NamesKeptElsewhere`: a name that was reported a success stays in memory, and on disk
unless the file is just written or broken, but for `exposed`: the races that lose
one, and a process that ends over a file that is not whole. Bounds: two tiles,
two tools and calls, two full states, one change of the map, one restart.

### Hazards, Modifications (run `structures`, parts `hazards` and `mods`)

`Hazards`: layers of aquifers, water, lava and caverns, of enemies and dwarves, each
with a count. `LayersMatchTold`: after any three messages each layer and its count
is what building it from the tiles last told gives, but that an aquifer keeps the
flags it was first told with (`firstTold`), and no creature of an earlier update is
left. The time of detection is left out. Three flag bytes, tile types at the edges
of the code's ranges.
`Modifications`: the detector with its baseline, the overlay with its count and the
cached bounding box. `ModificationsMatchHistory` states what is recorded as a
function of the sequence of observations of a tile: kind and latest type, count and
bounds included. Two tiles on the map and one outside, six observations and
sequences of three give each transition from each baseline, and a repeat.
`ExtractChambers` is the flood fill over the records: `ChambersExact` says that the
chambers are the connected pieces of all that was modified, which they are only if
the box they are looked for in follows every record.

### WireLayout, DesignationWire, CommandWire, MessageWire, Wire (run `structures`, part `wire`)

A message is a record, a layout the sequence of items the code writes or reads.
`WireLayout` gives an item its bytes, big-endian, with widths, and reads it the way
each side does: the server with an error at the end of the payload, the plugin by a
test of the size followed by unchecked indexing (reading past the end is the outcome
`fault`). `DesignationWire` and `CommandWire` have the 44 commands, `MessageWire`
the other messages and the frame; each with its struct, the server's encoder and
decoder (two switches that are not derived from each other), the plugin's reader or
sender, and `Validate`. In `Wire` one message is composed, changed in up to two
fields, written by this version or by an older one that lacked the last fields,
perhaps cut, and read by both sides.

`ReadersAgree`: both read what was meant, with defaults for what an older peer
lacks, and the plugin refuses nothing the server let through but two ranges only it
checks. `CutIsNotMisread`: no read out of bounds wherever the payload ends, and no
field with a value that was not sent. Each field of the start message has bytes of
its own, so that swapped or shifted fields are seen, and the changes are the
boundaries of each width. Payloads are cut by up to 24 bytes.

### ActionTools (run `structures`, part `wire`)

What each tool that sends one command checks, defaults and converts: names to codes,
rectangles in any order, the coordinates of a footprint. `ToolReachesPlugin` states
from the tool's own description what the plugin must be told, for arguments at the
edge of every width and optional arguments left out, through encoder and parser.

## 3. Proofs

Eight modules of proofs. A theorem holds for every value of the constants that meets
the named assumptions (`BoundsAssumption` and the like): bounds are natural numbers,
capacities positive where the code makes them so, `None` is not a value it could be
confused with, and what is particular to a module is said below. The runs evaluate
every assumption; those of a module that is instantiated are definitions, assumed
where the instance is made. But for the ids of queries (below) nothing bounds the
number of callers, calls, loops, tiles, places or faults.

| Property (run) | Theorem | Of |
|---|---|---|
| `TeardownOfOwnSession`, `ConnectedIsServed`, `NoThreadReplaced` (`session`) | `TeardownIsOwn`, `ConnectedServed`, `NoJoinableReplaced` | `PluginSession` |
| `TruthfulReport` (`step`) | `ReportsAreTruthful` | `StepControl` |
| `ContractKept` (`commands`) | `ImplementsContract` | `CommandLifecycle` |
| `NothingSkipped` (`feed`) | `CursorSkipsNothing` | `AnnouncementFeed` |
| `IndexConsistent`, `DismissalKept` (`structures`) | `IndexExact`, `DismissalsStick`, together `AlertsAreKept`; `StoreServed` carries them over to the feed | `AlertStore`, in `MCWorldModel_proofs` |
| `LookupsAgree`, `RegionsAreComponents`, `SuggestionConnects` (`structures`) | `MapTiles` and with `LevelsFit` `MapLookups`, `MapRegions`, `MapHints` | `Topology` |
| `TypeOK`, `OverlayExact`, `DoneIsDugElsewhere`, `ProgressKept` (`plan`) | `TypeCorrect`, `OverlayIsExact`, `DoneDigsAreDug`, `ProgressIsKept` | `PlanReconcile` |
| `GroundedElsewhere`, `NamesKeptElsewhere` (`structures`) | `OverlayIsGrounded`, `NamesAreKept` | `MCWorldModel` (`TileSync`, `Places`) |
| `LayersMatchTold`, `ModificationsMatchHistory`, `ChambersExact`, `HistoryIsTrue`, `CarriedOut` (`structures`) | `LayersAreAsTold`, `ModificationsAreTrue`, `ChambersAreRead`, `HistoryIsTold`, `CyclesAreCarriedOut` | `MCWorldModel` (`Hazards`, `Modifications`, `OrchestratorTurn`) |
| `DecisionsInOrder`, `PlanIsFollowed`, `QueryContractKept` (`programs`) | `DecisionsAreInOrder`, `PlanIsSentInOrder`, `KeepsContract`, together `ProgramsKeepTheirWord` | `MCPrograms` |

None of these properties is inductive. What had to be added, and why it holds:

*PluginSession.* That a teardown belongs to the newest session needs to know that a
thread runs only while its handle is kept and that `connect_to_server` reaps a handle
before it opens a socket. `IInv` adds `ThreadHasHandle`, `ConnectStages` (what each
stage of a connect has established), `LiveThread` (outside a console command a
connected plugin has a live thread, and until that thread starts a teardown the stop
flag is down and the socket open) and `CursorsAfterReset`. The console joins before
it spawns, so that a spawned thread is always the only one.

*StepControl.* `Truths` follows a step through three queues. The commands not yet
run stand in the order of their calls (`InOrder`) and no step of theirs or of a
later call has begun (`AllAhead`), so the step in progress is the latest that began
(`Latest`) and an end it comes to is its own (`OwnEnd`: at the target, or with the
tripwire that the record then names). The tool trusts an answer to its polling only
if it carries the current query's number: at most one query with that number is
under way, in one direction (`OneQuery`), only while the tool waits for it
(`Asking`), and what it answers is about the latest call (`AnswersTrue`). A push, a
lost connection and an exception in the push add, drop or cut short messages; each
leaves what remains in order.

*CommandLifecycle.* The refinement is by steps: the one that executes a command must
find it unexecuted, the one that returns a status must find it among the command's
own. Under way to its execution a command is in one place (`UnderWay`); every
acknowledgement on the wire, in the channel or in a tracker entry names a status the
command was acknowledged with (`AcksTrue`, `ResultsTrue`); ids are given out once
(`Numbered`), and two callers in `SendCommand` have different ones
(`CallersApart`). All but the types and the last hold while `restarts = 0`, which
the contract assumes too: after a restart they fail, as section 4 says.

*AnnouncementFeed.* The cursor may pass a report only if it was sent. `Collected`
says what a poll holds at each of its steps: the reports from the cursor to the
highest in order and without a gap, then repeats of earlier ones, so that a prefix
of them, cut by `MAX_PER_MSG`, advances the cursor over reports in the prefix only.
The assumption `UnlockedTeardown = FALSE` of that theorem is the console's teardown,
which holds the core lock (`Sessions`: a teardown and a poll exclude each other);
the other value is the finding of `feed_reset`. Types are proved for both.

*AlertStore.* Types and `IndexConsistent` together (`StoreIInv`) are inductive; the step that needs an
argument is eviction, where `Tail` and the shifted index move together.
`DismissalsStick` follows from it, as an entry is the same entry wherever the ring
has moved it. These lemmas are in `MCWorldModel_proofs`, whose composition
contains the store. `StoreServed` shows that the feed uses the store by its methods,
so they hold of the feed's store too; the feed's `TypeOK` is about its own variables.

*PlanReconcile.* `OverlayIsExact` is the counting: a step moves one tile, or retires
a set of them, between two cardinalities. The other two need to know that the
reconciler's copies, however old, err on the safe side: `CopiesFresh` says that a
copied count is at least what is stored and at most what counts as confirmed now.
That holds since a node's count is set once (`CountSetOnce`), after all its
predictions are written (`ExecutorStages`), so that from then on its outstanding
predictions only get fewer (`OwnedStep`, `CountedGrows`). `DugOrTaken` adds that a
written prediction goes only when its tile was seen open or taken over; a node that
`CountNode` finishes has none outstanding. The set of tiles is assumed finite.

*TileSync.* `GroundedElsewhere` speaks of a quiet system; the invariant says what
will be when it gets quiet. For every tile that is not suspect, the last update of
it that is still to be applied (in hand, in the channel, on the connection, a full
state included), or the overlay if there is none, has the value in the plugin's
cache (`WillBeCached`, once the session's full state has been sent); a push makes the
cache the map (`CacheIsMap`), and once it is sent a session's full state is under way
or there is an overlay (`FullComes`). A late frame either comes before that full
state, which names every tile, or has the cache's value, or makes its tiles suspect.

*Places.* Names live in memory and in a file that a tool writes from a copy, and that
a full state reads; either may be older than the other. The invariant follows the
names that no race has put at risk through memory (`InMemory`), the file (`OnDisk`),
what a call is about to write (`CopyHasSafe`, and `CopyHasNew` for the names of calls
still under way) and what has been read (`ReadHasSafe`), and says whose names are at
risk before the first reading (`EarlyAtRisk`).

*Hazards.* A layer of tiles is in place what it would be if built anew, the flags of
aquifers from the telling that began them (`Upright`); an update changes one tile in
every layer, and the steps that need an argument are the count, which must go up or
down exactly when the tile comes or goes (`Counts`), and the aquifer's first telling,
which must stay exactly as long as the record does (`Firsts`). That
tiles are finitely many is assumed (`TilesAssumption`).

*Modifications.* The code keeps one baseline and one record per tile, the property
speaks of the whole history. `BaseOf` says that the baseline has the first shape in
the history, or none if there was none, so that comparing with it gives the kind the
history gives (`KindStep`), and that an observation is telling exactly when the
detector records or could record it (`TellingStep`). `RecordOf` says that a record
is the last telling observation. The delicate case is a telling observation of the
type that is recorded already, which the code drops: where a type has one shape it
is of the recorded kind (`SameType`). A computed box is that of the records.
`SeenAssumption`: a map has finitely many tiles, each at three numbers, and shapes
are the detector's own.

`ChambersExact` follows from the same invariant. The fill is a recursive function of
its queue and of what it found. `Covers` says of a set that it keeps what is found
and has all that is beside the queue or beside what it adds; a step of the fill
changes nothing about which sets cover (`FillStep`), and with an empty queue the
least of them is what was found. So the least covering set solves the recursion, and
because every step leaves one tile less to look at (`Rest`) it is the only solution
(`FillIs`). From one tile it is the least closed set around it (`PieceIs`); being
beside goes both ways, hence two pieces are equal or apart (`SamePiece`) and the
chambers are the pieces of all tiles, in whatever order they are taken
(`ChambersAre`). The box holds every record, because it was computed from them or is
computed now, and a finite set of numbers has its ends (`RegionHasAll`).

*Topology.* `Shows` says of the overlay what `TilesAgree` needs: of every tile the
known bit and the open bit are those of what was told last, and the two counters are
the numbers of tiles told to be open and closed. The step that needs an argument is
that two tiles have two bits (`BitIs`, by the uniqueness of quotient and rest,
`Quotient`) and that a level is a range of bits (`BitsAre`), so that sets of bits can
be counted for sets of tiles (`BitsCount`).

The regions follow from the overlay of the moment. `Found` says of a fill in progress
that its tiles are open, not visited, different, and each but the first beside an
earlier one; `Emptied` that of those which have left the queue every open neighbour is
found or visited. A turn keeps both (`DequeueIs`), and since different tiles of a
finite map are at most `Size`, the queue is empty after `Size` turns (`FoundFew`,
`FloodFillIs`). Hence a region is closed under open neighbours, which makes two
regions disjoint (`Apart`), and cannot be cut in two, because each tile has an earlier
one beside it (`RegionIsOne`); the scan comes to every tile (`ScanComesTo`), so each
open one is in a region (`Placed`).

For the hints the invariant is about every call at work (`CallIs`). `Sound` bounds
what the overlay of the call shows now by its history: `always` is within the open
tiles, these are within `ever`, and `before` is within the digs recorded. Tiles told
and slices keep it because they write the history with the overlay, and nothing else
touches an overlay in use. `GraphOf` says the same of the regions once built: they hold
all of `always` and nothing outside `ever`. It survives every later step, because
`ever` only grows and `always` only shrinks, and this is what makes the old regions
usable after the waits. The test of the surroundings looks at everything beside the
rectangle (`RingIs`, `TouchIs`), hence clears whatever of `always` and `before` there
is; the nearest tile of the regions is in `ever` and nearer than all of `always`
(`NearestIs`), and the legs are straight (`LegsJoin`). The assumptions are that the map
has natural dimensions, any of which may be zero, that the corners of a dig are
integers, and that a byte has a bit
(`DimensionsAssumption`, `DigsAssumption`, `BytesAssumption`); `MinKnownOpenTiles`
and the flags may be anything.

A compressed copy is true for every sequence of bytes, so nothing of the overlay's
history is needed. `Written(s, V, o)` says that the stream `s` is a series of runs
that make `o`; such a stream decodes to `o`, whatever turns are left (`DecodedIs`).
Digits are read back as the number they were written for, less what a fourth digit
would hold (`VarintIs`, by the uniqueness of quotient and rest, `DividedAll`). While
bytes are added (`AddKeeps`), what is written makes a prefix of the bytes, and a
shorter sequence once a run was too long (`Fits`); a shorter output is refused, and
one of the right length is therefore the map (`CompressIs`, `FullCopyIs`). For some
levels, the list before the runs must make nothing: numbers below `Byte` are pairs
of a zero and a byte, which read as runs of length zero (`ListIs`); and levels that
follow each other have as many bytes as the map only if they are all of it
(`ExtractIs`). `MapLookups` says so as a hypothesis, `LevelsFit`: every level begins
a byte and there are at most `Byte` levels (256 in the code), as in the run. The
game's maps are made of blocks of 16 by 16 tiles, and the header counts the levels in
one byte; the code checks neither, and beyond the second a copy can be wrong
(section 4).

*OrchestratorTurn.* `HistoryIsTrue` compares the window of turns with everything
accepted. Ids grow and belong to the cycle in progress or an earlier one
(`IdsAreNew`), the id that the turn in progress will name is the last accepted in it
(`LastOfThis`), and a stored turn is of a cycle that is over, so later commands do
not change what was true of it (`TurnsAreTrue`). The window slides by one
(`Slide`, `WindowIsFull`); its size is at least one (`WindowAssumption`).
`PendingIsKept` gives the second half. Agents, arbiters and answers are arbitrary.

`CarriedOut` has two invariants. `SentIInv`: the list is places of the answer, in
order and without repetitions (`DedupedIs`); what was sent comes before it, but for
the levels of the shaft at its head (`SentBefore`, `LevelsAreLeft`); what is on it no
more was sent, or need not be (`NoneForgotten`), and what is dug stays dug
(`ExcavatedStays`, for which the map must be finite, `MapAssumption`); nothing is sent
before the model answers, and an arbiter that gave commands outside the graph flow
ended the cycle (`OneDecides`). `GraphIInv` is about what `FortAgents` computes. Every
agent proposes boxes whose ends are in order (`AnalyzeIsBoxed`), so that two overlap
by `regionsOverlap` exactly when they share a tile; the names of nodes differ
(`NodesAre`); every pair is looked at once (`PairsAre`), and after the first k of them
exactly their overlaps are told, once and from both sides (`ToldOnce`, `NextPairIs`).
The recursive functions behind it exist and are followed step by step by two general
lemmas, `Recursion` and `Upward`, the second by the least counterexample, and
`FlattenIs` says what joining sequences does. Assumed: agents are those of the
program and a level is a number (`SetupsAssumption`), and a command of an answer has a
region of six numbers or none (`AnswersAssumption`), as the parser's types have it.

*QueryChannel.* An id in the table names one call: ids are given out in turn, so the
calls that have one hold the latest ones (`RecentIds`, across the wrap) and different
ones (`OwnIds`). `CallsAssumption` says that the calls are finitely many and fewer
than the ids, of which the code has 2^32. A question is in one place, on a connection
or in the queue, and then has not been evaluated (`OneCopy`); an answer, under way or
in a channel, is that of the call whose id it has (`OwnAnswers`). The contract
follows step by step.

*Orchestrator.* Five goroutines act on "the loop found there". `Calling` says where
each may be inside `tryAnalyzeSVP`, `SetUp` what the callback has given a loop at
each of its stages, `LaidOut` that a loop marked ready has its layout or is just
being given it; `Agents` follows. `Knows` and `Cached` carry the entities from the
reader to the loop it found, `Over` and `NoCrash` name what may still happen during
a shutdown. Of the configurations only the types are assumed.

*Deliberation.* The executor works on a copy, which the deliberator, by commits, and
the reconciler, by promotions, make old. The invariant says that this does no harm:
what is left of the copy is still ready (`InHand`) and stands in the order of the
DAG (`Sorted`), and no node without dependencies is missing from it that was
committed before one in it (`NonePassed`), because such a node is ready from the
start (`DepsFirst`). A node is ready only before it is taken up (`TakenUp`), which
gives "once", and ids are not used again (`FreshIds`). `Chosen`, by which the copy is
made, is a recursive function; `ChosenIs` shows by the least counterexample that it
exists and keeps order and elements.

*The compositions.* `MCPrograms_proofs` and `MCWorldModel_proofs` prove their parts
through the instances the composed modules make (`Queries!`, `Turns!`, `Sync!`,
`Naming!`, `Danger!`, `Changed!`, `Cycle!`). A step of the composition is a step of
one part and leaves the others alone (`PartsStep`, `EachServed`), hence the specification of the run implies that of
each part and keeps what is proved of it.

Only model-checked:

- Liveness, which is outside the prover's reach: `CallsReturn`, `StepEnds`,
  `Delivered`, `ConsoleReturnsManual`, `RequestsAreServed`, `StallReported`,
  `LoopsAnswer`, `QueriesReturn`, `NothingHangs`, and both properties of
  `ClientSession`, `SilenceNoticed` and `StopReturnsElsewhere`.
- What recursive operators compute, in modules that declare them: `WireLayout` and
  what is built on it, that is `ReadersAgree`, `CutIsNotMisread` and
  `ToolReachesPlugin`; and `PromptIsUnderstood`. These are functions of bounded
  inputs, which the run enumerates.

## 4. Observations

Findings with a run are in `PROJECT.json`. Seen while modelling, without a run:

*Commands and turns*

- `SendCommand` stores `CommandStatusSent` after the write and without the tracker's
  lock (`executor.go:959`). It can overwrite an `Acked`; the caller still gets its
  result, but `CheckTimeouts` then counts the command as timed out.
- Command ids start from one with every server process (`tracker.go:42`), while the
  plugin keeps its command queue over a teardown: after a restart the ACK of an old
  command is taken for the answer to the new one with the same id. `ContractKept`
  therefore speaks of one life of the process. Queries are the same: the plugin's
  query queue is not cleared either, and an old answer meets a re-used query id.
- A command that arrives without a map is not refused: the drain returns before the
  command loop (`df_ai_protocol.cpp:1729`), so it stays queued for the next map.
- A step report marked as pushed may hold the state before the push: the tool sees
  the event counter, which `OnEntityUpdate` raises before the entities are
  installed.

*Announcements, map and places*

- The backlog sent again after a reconnect puts older reports behind newer ones in
  `AlertStore`, whose comment says "newest at the end" (`alerts.go:41`). The
  plugin's cursor is not reset when another save is loaded in one session; the store
  is.
- A delta the tile cache suppresses, as full states do not touch the cache, leaves
  the overlay stale until the tile changes again.
- A full state between `name_place`'s `Set` and its `Save` loses a name that is
  reported a success. A name given before the file was read (the callback installs
  the overlay first), or after it was torn by a crash or by a save that failed in
  the middle, makes the next save write only the new names, against "Names survive
  df-mcp restarts" (`places.go:244`): `os.WriteFile` (`places.go:80`) truncates first.
  Saves that overlap lose an update; `os.WriteFile` is not atomic; a name reconciled
  away is gone with the next save.
- The comment on compression gives a varint's maximum as 16777215; it holds 21 bits,
  so a map with 2097152 equal bytes in a row cannot be decompressed.
- `Decompress` does not pass over the level list of the filtered mode but reads it as
  runs: of length 0 for levels below 256, beyond it of the high byte of the number.
  Levels 1 to 527 of a map of 48 by 48 by 528 (centre 264, radius 263) so gain the 288
  bytes of the level left out, and the copy is accepted. `extractZLevels` assumes
  that a level fills whole bytes.
- `ClassifyTile` and `ClassifyState` disagree on a floor under deep liquid. The
  hint's ring has the diagonals, the flood fill has not. A cancelled dig stays among
  the pending ones.
- `connectorSuggestion` uses at `tools_action.go:166` the regions it built at 87, after
  as many waits for the plugin as the dig has levels: a hint may name a tile that was
  closed meanwhile, and misses one opened meanwhile. A dig is recorded after the hint
  (693), so two callers that dig side by side at once may both be told to connect.
- `StatsForZRange` (`overlay.go:221`) makes a slice of negative capacity, and panics,
  for a range more than one level above or below the map.
- `IsAquifer` tests flag 0x01, which is `FLAG_HIDDEN` on the wire (`message.go:81`,
  `detectors.go:13`). The flags stored with an aquifer are not refreshed by
  updates (`manager.go:105`), those of a liquid are.
- A tile restored to its baseline stays recorded as modified; a new shape with an
  old tile type keeps the old kind; a baseline without a shape counts as wall, so a
  cavern floor revealed later is recorded as dug.
- `PersistentModifications.Save` holds the read lock of the embedded overlay and
  calls `GetBounds`, which takes the write lock: it waits for itself
  (`persistence.go:47`, called from `cmd/df-orchestrator/main.go:738`). Nothing in
  the model reads that file.

*Server session and wire*

- `IsConnected` is true during the handshake, which has no deadline and holds up the
  accept loop, and after it fails; after a DISCONNECT or a frame that cannot be
  decoded, until a beat fails. A message sent between `Publish` and the greeting
  precedes the handshake.
- A connection that is replaced is never closed: its reader still installs an old
  full state, or queues an old delta, after those of the new session
  (`client.go:227`), and the overlay stays wrong until the tile changes again. It
  can hold up `Stop`'s `wg.Wait`; an accept racing `Stop` can publish a connection after it.
- An error text of 65532 bytes or more wraps its `uint16` length and the encoder
  panics (`codec.go:568`); lengths of capabilities, professions and labour lists are
  not checked at all. `Validate` accepts quantities of work orders and kinds of
  smoothing which the plugin refuses.
- Tool arguments outside the width of their field wrap without a word
  (`tools_action.go:881`, 1028, 1125, 1150). In `smooth` any mode but `engrave`
  means smooth.
- The work-detail tool looks up an index by name and sends it: another change
  between moves it (`tools_state.go:931`). `queue_job` sends its jobs one by one and
  stops at the first failure, the earlier ones stay queued (`tools_action.go:957`).

*Plan and BDI loop*

- `MarkActive` reports whether the node exists, not whether it was Ready
  (`dag.go:70`), so the executor's "someone else picked it up" never applies; with
  one executor nothing depends on it.
- Where two digs overlap, the first can become Done by the other taking over its
  predictions, before anything is dug.
- An action whose second level is 0 gets the first level's number
  (`bdi/loop.go:448`), so nothing can be dug down to level 0.
- A `PARTIAL` acknowledgement is a failure to every executor but that of digs.
- A stray "wait" in an answer that asks for information counts as a command, and the
  requests are dropped. Commands are grouped by kind, not kept in the order of the
  text.

*Answers of the model*

- Any JSON object, even an empty one, hides every phrase of the answer; the JSON
  field is `digtype`. A number too large becomes 65535, which is −1 in the plan.
- `ParseResponse` returns no error, so the branches for "parse failed" are dead.

*Older program*

- With `use_intent_planning` but without `use_svp`, or when a loop starts before
  `SetSVP`, the planner is a nil pointer that is called (`loop.go:268`,
  `planner.go:380`).
- Each full state makes a loop and the old one is never stopped: two deciders. A
  starter's five seconds can end after the next loop was made, which is then started
  before it is set up; the pointer can be replaced between the caching and the
  trigger (`main.go:862-905`), so the loop triggered is not the one that was told.
- A trigger spent while disconnected is gone (`loop.go:191`). A loop in `timer.Wait`
  does not see the cancel and may run one more cycle. `tryAnalyzeSVP` reads and sets
  its flags without a lock, so the survey is "ready" before its layout
  (`planner.go:104`).
- Feedback counts all modifications of the map for each command (`loop.go:1020`).
  The filter for repeated commands ignores the kind of a dig and fails on a command
  without region (`loop.go:700`). It looks at all six numbers: a plain dig that is
  repeated with another second level, which it never sends (`loop.go:867`), is sent
  twice, and so is a shaft with its ends exchanged (`loop.go:807`). What an arbiter
  decides passes no filter (`loop.go:318`, 449). Levels of a shaft are not tracked. The graph flow
  lets two deciders decide in one cycle. Ids from the clock and from the tracker can
  collide.
- `GraphExecutor` makes nothing of a stockpile zone, nor of nodes which only have an
  id, the form the prompt's own example has. Blueprint words such as `stairs` and
  `remove_ramp` become plain digs; `executeBuild` ignores what to build.
- Mining never proposes; gathering never at the default target of 15; Food and
  Wealth always do. Zones, stockpiles, orders and smoothing in an answer are
  ignored.
- The layout of "unknown_fort" loads another fort's levels.

## 5. Not modelled

- *Perception tools, map views, queries of the plugin, context queries of the
  deliberator, predicates*: each formats one answer, one snapshot or one goal and
  keeps no state. What they read is in the modules above; an error in a format is
  better found by the tests that are there.
- *LLM clients, HTTP status, configuration, logging*: external services and I/O. A
  call of the model is an action that may answer anything or fail.
- *Plugin domain handlers* (buildings, work orders, designations, military, trade):
  calls into DFHack and the game's structures, whose behaviour the repository does
  not contain. What they are asked is in the wire modules; what they do is an
  outcome, success or not.
- *Unused code*: `entities` and `planning/task_queue` are not imported;
  `TopologicalSort`, `AddDependency` and the Manhattan helpers of the older program,
  `MarkDiverged`, `RemoveByPlanNode`, `LinkCommandToModifications` and `Clear` are
  not called; the `Stalled` estimate of `CheckProgress` is practically never
  reached.
- *Parts of modelled components*: `ai-listen`, partial reads of a frame, full TCP
  buffers, world-switch detection, the aggregates of snapshots, the guess whether a
  modified region is a chamber, the selection of levels in the survey, reading of
  blueprint files.

## 6. Plan

1. Proofs: type correctness of `ClientSession` with the invariant that says which
   reader serves which connection. It joins one of the eight modules with theorems, by
   an instance.
2. The frame reader with partial reads, composed with `PluginSession`.
3. The blueprint parser and the rectangle decomposition of map views against
   reference definitions.
4. World-switch detection in the snapshots, with `AnnouncementFeed`.
