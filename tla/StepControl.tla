---------------------------- MODULE StepControl ----------------------------
(***************************************************************************)
(* The turn protocol: the MCP tools step, pause and unpause                 *)
(* (internal/mcpserver/tools_control.go), the plugin's pause, step and       *)
(* tripwire state (df_ai_protocol.cpp, announcements.cpp), the sim_status   *)
(* query, the state push at a turn boundary, and the Populator that ingests *)
(* it.  One agent calls one tool at a time; the player has the pause key;   *)
(* the connection may break.  A drain holds the core lock, so neither a     *)
(* frame nor a key press comes between its phases.                          *)
(***************************************************************************)
EXTENDS Integers, Sequences

CONSTANTS Ticks,     \* lengths of a step the agent asks for, in frames
          MaxCalls,  \* bound on tool calls
          MaxFrame,  \* bound on frames outside a step
          MaxAlarms, \* bound on critical announcements
          MaxFaults, \* bound on the player's key presses, lost connections,
                     \* failed extractions and timed-out queries, together
          EntityCap, \* capacity of the Populator's entity channel
          None

ASSUME TicksAssumption == Ticks \subseteq Nat \ {0}
ASSUME BoundsAssumption ==
  {MaxCalls, MaxFrame, MaxAlarms, MaxFaults, EntityCap} \subseteq Nat

Calls == 1..MaxCalls

\* None is no frame or alarm, and none of the records it stands in for.
ASSUME NoneAssumption ==
  None \notin Nat \cup [by : {"command", "target", "tripwire"}, at : Nat]
                  \cup [pushed : BOOLEAN, world : Nat, tripwire : Nat \cup {None}]

VARIABLES
  paused, frame, \* the game
  alarms,        \* critical announcements raised so far
  cursor,        \* the plugin has sent the alarms 1..cursor
  target,        \* g_step_target_frame, -1 when no step is in progress
  tripwire,      \* g_step_tripwire and its reason: an alarm, or None
  commands,      \* g_command_queue
  queries,       \* g_query_queue: the ids of sim_status queries
  phase,         \* where drain_pending_work_impl stands; "none" outside
  linkUp,        \* the TCP connection
  toPlugin,      \* frames on their way to the plugin
  toServer,      \* frames on their way to the server
  entityCh,      \* the Populator's entity channel: frames of the pushed states
  eventSeq,      \* World.eventSeq
  installing,    \* OnEntityUpdate between NextEventID and the install
  world,         \* frame of the entities in the world model
  calls,         \* tool calls so far
  tool,          \* where the tool stands
  before,        \* its EventSeq before the step
  status,        \* its last sim_status answer
  running,       \* the call whose step is in progress, or 0
  ended,         \* how and at which frame the step of a call ended
  report,        \* what the step tool reported
  lapses,        \* queries timed out so far: the id of the query outstanding or next
  faults         \* key presses, lost connections, failed extractions, lapses

gameVars == <<paused, frame, alarms>>
pluginVars == <<cursor, target, tripwire, commands, queries, phase, running, ended>>
wireVars == <<linkUp, toPlugin, toServer>>
modelVars == <<entityCh, eventSeq, installing, world>>
toolVars == <<calls, tool, before, status, report, lapses>>
vars == <<gameVars, pluginVars, wireVars, modelVars, toolVars, faults>>

Init ==
  /\ paused \in BOOLEAN /\ frame = 0 /\ alarms = 0 /\ cursor = 0
  /\ target = -1 /\ tripwire = None
  /\ commands = <<>> /\ queries = <<>> /\ phase = "none"
  /\ linkUp = TRUE /\ toPlugin = <<>> /\ toServer = <<>>
  /\ entityCh = <<>> /\ eventSeq = 0 /\ installing = None /\ world = 0
  /\ calls = 0 /\ tool = "idle" /\ before = 0 /\ status = None
  /\ running = 0
  /\ ended = [c \in Calls |-> None] /\ report = [c \in Calls |-> None]
  /\ faults = 0 /\ lapses = 0

\* One of the things that may go wrong, or the player's intervention.
Fault == faults < MaxFaults /\ faults' = faults + 1

----------------------------------------------------------------------------
(* The game and its player.                                                 *)

\* A frame of an unpaused game; a step may overshoot its target by one frame.
Tick ==
  /\ phase = "none" /\ ~paused
  /\ frame < IF target >= 0 THEN target + 1 ELSE MaxFrame
  /\ frame' = frame + 1
  /\ UNCHANGED <<paused, alarms, pluginVars, wireVars, modelVars, toolVars, faults>>

RaiseAlarm ==
  /\ phase = "none" /\ ~paused /\ alarms < MaxAlarms
  /\ alarms' = alarms + 1
  /\ UNCHANGED <<paused, frame, pluginVars, wireVars, modelVars, toolVars, faults>>

PressPause ==
  /\ phase = "none" /\ Fault
  /\ paused' = ~paused
  /\ UNCHANGED <<frame, alarms, pluginVars, wireVars, modelVars, toolVars>>

----------------------------------------------------------------------------
(* The plugin.                                                              *)

\* The step in progress is over.
EndStep(how) ==
  /\ target' = -1 /\ running' = 0
  /\ ended' = IF running = 0 THEN ended
              ELSE [ended EXCEPT ![running] = [by |-> how, at |-> frame]]

\* The extraction inside a push; without a connection there is none.
Extraction(ok) == \/ ok /\ UNCHANGED faults
                  \/ ~ok /\ linkUp /\ Fault

\* What push_state_refresh sends, with the ACK of the command before it: the
\* entities, unless the extraction throws; then neither they nor announcements go out.
Push(acks, ok) ==
  /\ toServer' = IF ~linkUp THEN toServer
                 ELSE toServer \o acks \o IF ok THEN <<[kind |-> "entity",
                 frame |-> frame]>>
                                          ELSE <<>>
  /\ cursor' = IF linkUp /\ ok THEN alarms ELSE cursor
  /\ Extraction(ok)

Ack(c) == [kind |-> "ack", call |-> c]

\* The socket thread queues what arrives, then drains; onupdate drains while
\* the game is not paused.
Receive ==
  /\ phase = "none" /\ toPlugin # <<>>
  /\ toPlugin' = Tail(toPlugin)
  /\ phase' = "commands"
  /\ LET m == Head(toPlugin) IN
       IF m.kind = "sim_status"
       THEN queries' = Append(queries, m.id) /\ UNCHANGED commands
       ELSE commands' = Append(commands, m) /\ UNCHANGED queries
  /\ UNCHANGED <<gameVars, cursor, target, tripwire, running, ended, linkUp, toServer,
                 modelVars, toolVars, faults>>

OnUpdate ==
  /\ phase = "none" /\ ~paused
  /\ phase' = "commands"
  /\ UNCHANGED <<gameVars, cursor, target, tripwire, commands, queries, running, ended,
                 wireVars, modelVars, toolVars, faults>>

NextCommand(kind) ==
  /\ phase = "commands" /\ commands # <<>> /\ Head(commands).kind = kind
  /\ commands' = Tail(commands)

\* COMMAND_TYPE_PAUSE, mode 1: the ACK first, then the push.  A std::exception there
\* is caught by executeCommand, which sends a NACK too; any other one leaves
\* drain_pending_work_impl with the rest still queued.
RunPause ==
  /\ NextCommand("pause")
  /\ paused' = TRUE /\ EndStep("command")
  /\ LET ack == Ack(Head(commands).call) IN
       \/ Push(<<ack>>, TRUE) /\ UNCHANGED phase
       \/ Push(<<ack, ack>>, FALSE) /\ UNCHANGED phase
       \/ Push(<<ack>>, FALSE) /\ phase' = "none"
  /\ UNCHANGED <<frame, alarms, tripwire, queries, linkUp, toPlugin,
                 modelVars, toolVars>>

Answer(m) == toServer' = IF linkUp THEN Append(toServer, m) ELSE toServer

RunUnpause ==
  /\ NextCommand("unpause")
  /\ paused' = FALSE /\ EndStep("command")
  /\ Answer(Ack(Head(commands).call))
  /\ UNCHANGED <<frame, alarms, cursor, tripwire, queries, phase, linkUp, toPlugin,
                 modelVars, toolVars, faults>>

\* Seeded fault: a new step keeps the tripwire record of the last one.
RunStepKeepingTripwire ==
  /\ NextCommand("step")
  /\ target' = frame + Head(commands).ticks /\ running' = Head(commands).call
  /\ ended' = IF running = 0 THEN ended
              ELSE [ended EXCEPT ![running] = [by |-> "command", at |-> frame]]
  /\ paused' = FALSE
  /\ Answer(Ack(Head(commands).call))
  /\ UNCHANGED <<frame, alarms, cursor, tripwire, queries, phase, linkUp, toPlugin,
                 modelVars, toolVars, faults>>

RunStep ==
  /\ NextCommand("step")
  /\ tripwire' = None
  /\ target' = frame + Head(commands).ticks /\ running' = Head(commands).call
  /\ ended' = IF running = 0 THEN ended
              ELSE [ended EXCEPT ![running] = [by |-> "command", at |-> frame]]
  /\ paused' = FALSE
  /\ Answer(Ack(Head(commands).call))
  /\ UNCHANGED <<frame, alarms, cursor, queries, phase, linkUp, toPlugin,
                 modelVars, toolVars, faults>>

\* Seeded fault: the target is compared for equality, a frame too late is missed.
ReachedExactly == target >= 0 /\ frame = target

Reached == target >= 0 /\ frame >= target

Repause ==
  /\ phase = "commands" /\ commands = <<>> /\ Reached
  /\ paused' = TRUE /\ EndStep("target")
  /\ \E ok \in BOOLEAN : Push(<<>>, ok)
                         /\ phase' = IF ok THEN "queries" ELSE "none"
  /\ UNCHANGED <<frame, alarms, tripwire, commands, queries, linkUp, toPlugin,
                 modelVars, toolVars>>

NotReached ==
  /\ phase = "commands" /\ commands = <<>> /\ ~Reached
  /\ phase' = "queries"
  /\ UNCHANGED <<gameVars, cursor, target, tripwire, commands, queries, running, ended,
                 wireVars, modelVars, toolVars, faults>>

\* handleSimStatus; the drain ends when the query queue is empty.
SimStatus ==
  /\ phase = "queries" /\ queries # <<>>
  /\ queries' = Tail(queries)
  /\ Answer([kind |-> "status", id |-> Head(queries), paused |-> paused, stepping |-> target >= 0, tripwire |-> tripwire])
  /\ UNCHANGED <<gameVars, cursor, target, tripwire, commands, phase, running, ended,
                 linkUp, toPlugin, modelVars, toolVars, faults>>

EndDrain ==
  /\ phase = "queries" /\ queries = <<>>
  /\ phase' = "none"
  /\ UNCHANGED <<gameVars, cursor, target, tripwire, commands, queries, running, ended,
                 wireVars, modelVars, toolVars, faults>>

\* poll_and_send_announcements from onupdate finds a critical one: sent first,
\* the cursor moved, then trip_step_tripwire, which pushes behind its own barrier.
PollAlarms ==
  /\ phase = "none" /\ ~paused /\ linkUp /\ cursor < alarms
  /\ cursor' = alarms
  /\ IF target >= 0
     THEN /\ tripwire' = cursor + 1
          /\ paused' = TRUE /\ EndStep("tripwire")
          /\ \E ok \in BOOLEAN :
               /\ toServer' = toServer \o IF ok THEN <<[kind |-> "entity",
                 frame |-> frame]>>
                                                ELSE <<>>
               /\ Extraction(ok)
     ELSE UNCHANGED <<tripwire, paused, target, running, ended, toServer, faults>>
  /\ UNCHANGED <<frame, alarms, commands, queries, phase, linkUp, toPlugin,
                 modelVars, toolVars>>

\* The teardown resets the announcement cursor; queues, target and tripwire stay.
LinkBreaks ==
  /\ linkUp /\ phase = "none" /\ Fault
  /\ linkUp' = FALSE /\ toPlugin' = <<>> /\ toServer' = <<>>
  /\ cursor' = 0
  /\ UNCHANGED <<gameVars, target, tripwire, commands, queries, phase, running, ended,
                 modelVars, toolVars>>

Reconnect ==
  /\ ~linkUp /\ linkUp' = TRUE
  /\ UNCHANGED <<gameVars, pluginVars, toPlugin, toServer, modelVars, toolVars, faults>>

----------------------------------------------------------------------------
(* The server: message loop and Populator.                                  *)

\* The message loop hands an ENTITY_UPDATE to the Populator, or drops it when
\* the channel is full.
ReceiveEntity ==
  /\ toServer # <<>> /\ Head(toServer).kind = "entity"
  /\ toServer' = Tail(toServer)
  /\ entityCh' = IF Len(entityCh) < EntityCap THEN Append(entityCh, Head(toServer).frame)
                                              ELSE entityCh
  /\ UNCHANGED <<gameVars, pluginVars, linkUp, toPlugin, eventSeq, installing,
                 world, toolVars, faults>>

\* OnEntityUpdate takes the event number first and installs under the lock later.
CountEvent ==
  /\ installing = None /\ entityCh # <<>>
  /\ eventSeq' = eventSeq + 1
  /\ installing' = Head(entityCh) /\ entityCh' = Tail(entityCh)
  /\ UNCHANGED <<gameVars, pluginVars, wireVars, world, toolVars, faults>>

InstallEntities ==
  /\ installing # None
  /\ world' = installing /\ installing' = None
  /\ UNCHANGED <<gameVars, pluginVars, wireVars, entityCh, eventSeq, toolVars, faults>>

----------------------------------------------------------------------------
(* The tools.                                                               *)

CallTool ==
  /\ tool = "idle" /\ linkUp /\ calls < MaxCalls
  /\ calls' = calls + 1 /\ before' = eventSeq /\ status' = None
  /\ \E m \in [kind : {"pause", "unpause"}, call : {calls'}]
              \cup [kind : {"step"}, call : {calls'}, ticks : Ticks] :
       /\ toPlugin' = Append(toPlugin, m)
       /\ tool' = IF m.kind = "step" THEN "stepack" ELSE "ack"
  /\ UNCHANGED <<gameVars, pluginVars, linkUp, toServer, modelVars, report, lapses,
                 faults>>

\* pause and unpause return with the ACK, step goes on to poll.
ReceiveAck ==
  /\ toServer # <<>> /\ Head(toServer).kind = "ack"
  /\ toServer' = Tail(toServer)
  /\ tool' = IF Head(toServer).call # calls THEN tool
             ELSE CASE tool = "ack" -> "idle" [] tool = "stepack" -> "poll" [] OTHER -> tool
  /\ UNCHANGED <<gameVars, pluginVars, linkUp, toPlugin, modelVars, calls, before,
                 status, report, lapses, faults>>

Ask ==
  /\ tool = "poll" /\ linkUp
  /\ toPlugin' = Append(toPlugin, [kind |-> "sim_status", id |-> lapses])
  /\ tool' = "asked"
  /\ UNCHANGED <<gameVars, pluginVars, linkUp, toServer, modelVars, calls, before,
                 status, report, lapses, faults>>

\* Completed: the plugin says paused and no step in progress.
ReceiveStatus ==
  /\ toServer # <<>> /\ Head(toServer).kind = "status"
  /\ toServer' = Tail(toServer)
  /\ IF tool = "asked" /\ Head(toServer).id = lapses
     THEN /\ status' = Head(toServer)
          /\ tool' = IF status'.paused /\ ~status'.stepping THEN "push" ELSE "poll"
     ELSE UNCHANGED <<status, tool>>
  /\ UNCHANGED <<gameVars, pluginVars, linkUp, toPlugin, modelVars, calls, before,
                 report, lapses, faults>>

Report(pushed) ==
  /\ tool' = "idle"
  /\ report' = [report EXCEPT ![calls] =
       [pushed |-> pushed, world |-> world, tripwire |-> status.tripwire]]

\* The snapshot's EventSeq has passed the one taken before the step.
ReportPushed ==
  /\ tool = "push" /\ eventSeq > before /\ Report(TRUE)
  /\ UNCHANGED <<gameVars, pluginVars, wireVars, modelVars, calls, before, status, lapses,
                 faults>>

\* Three seconds without it.
ReportUnpushed ==
  /\ tool = "push" /\ eventSeq <= before /\ Report(FALSE)
  /\ UNCHANGED <<gameVars, pluginVars, wireVars, modelVars, calls, before, status, lapses,
                 faults>>

\* A query that timed out: its answer will find no entry in queryPending.
Lapse(to) ==
  /\ tool = "asked" /\ Fault /\ lapses' = lapses + 1
  /\ tool' = to

QueryTimeout == Lapse("poll") /\ UNCHANGED <<gameVars, pluginVars, wireVars, modelVars,
                 calls,
                                            before, status, report>>

\* The ACK timed out, the poll deadline passed, or the connection is gone.
ReturnWithoutReport ==
  /\ \/ tool \in {"ack", "stepack", "poll"} /\ tool' = "idle" /\ UNCHANGED <<lapses,
                 faults>>
     \/ Lapse("idle")
  /\ UNCHANGED <<gameVars, pluginVars, wireVars, modelVars, calls, before, status, report>>

----------------------------------------------------------------------------
Game == Tick \/ RaiseAlarm \/ PressPause
Drain == RunPause \/ RunUnpause \/ RunStep \/ Repause \/ NotReached \/ SimStatus \/ EndDrain
Plugin == Receive \/ OnUpdate \/ Drain \/ PollAlarms
Server == ReceiveEntity \/ CountEvent \/ InstallEntities \/ ReceiveAck \/ ReceiveStatus
Tool == \/ CallTool \/ Ask \/ ReportPushed \/ ReportUnpushed
        \/ QueryTimeout \/ ReturnWithoutReport
Next == Game \/ Plugin \/ Server \/ Tool \/ LinkBreaks \/ Reconnect

Spec == Init /\ [][Next]_vars

\* The main loop of an unpaused game advances frames and calls onupdate, and a
\* drain that has begun goes on; messages need not arrive, nobody need call a tool.
Fairness == SF_vars(Tick) /\ SF_vars(OnUpdate) /\ WF_vars(Drain)
FairSpec == Spec /\ Fairness

----------------------------------------------------------------------------
TypeOK ==
  LET Step == [kind : {"step"}, call : Calls, ticks : Ticks]
      Command == Step \cup [kind : {"pause", "unpause"}, call : Calls]
      Query == [kind : {"sim_status"}, id : 0..MaxFaults]
      Trip == 1..MaxAlarms \cup {None}
      Status == [kind : {"status"}, id : 0..MaxFaults, paused : BOOLEAN,
                 stepping : BOOLEAN, tripwire : Trip]
      Entity == [kind : {"entity"}, frame : Nat]
  IN
  /\ {paused, linkUp} \subseteq BOOLEAN /\ {frame, world, eventSeq, before} \subseteq Nat
  /\ alarms \in 0..MaxAlarms /\ cursor \in 0..alarms /\ target \in Nat \cup {-1}
  /\ tripwire \in Trip /\ phase \in {"none", "commands", "queries"}
  /\ commands \in Seq(Command) /\ queries \in Seq(0..MaxFaults)
  /\ toPlugin \in Seq(Command \cup Query)
  /\ toServer \in Seq(Status \cup Entity \cup [kind : {"ack"}, call : Calls])
  /\ entityCh \in Seq(Nat) /\ Len(entityCh) <= EntityCap /\ installing \in Nat \cup {None}
  /\ calls \in 0..MaxCalls /\ running \in 0..MaxCalls /\ (running = 0 <=> target = -1)
  /\ tool \in {"idle", "ack", "stepack", "poll", "asked", "push"}
  /\ status \in Status \cup {None} /\ lapses \in 0..MaxFaults
  /\ ended \in [Calls -> [by : {"command", "target", "tripwire"}, at : Nat] \cup {None}]
  /\ report \in [Calls -> [pushed : BOOLEAN, world : Nat, tripwire : Trip] \cup {None}]
  /\ faults \in 0..MaxFaults

----------------------------------------------------------------------------
(* Properties.                                                              *)

\* The step tool says that a step is complete only when the step it started
\* ran to its target or was cut short by the tripwire, and it names a tripwire
\* reason exactly in the second case: the completion poll cannot miss it, and
\* no reason is left over from an earlier step.
TruthfulReport == \A c \in Calls : report[c] # None =>
  /\ ended[c] # None /\ ended[c].by \in {"target", "tripwire"}
  /\ report[c].tripwire # None <=> ended[c].by = "tripwire"

\* A step in progress does not run on for ever: the target, the tripwire or a
\* command ends it, connected or not, unless the player's key pauses the game.
StepEnds == target >= 0 ~> target < 0 \/ paused
=============================================================================
