--------------------------- MODULE PluginSession ---------------------------
(***************************************************************************)
(* The plugin's threads (dfhack-plugin/df_ai_protocol.cpp): the socket      *)
(* thread runs message_receive_loop and drains what it queued, the          *)
(* simulation thread runs plugin_onupdate while the game is not paused, and *)
(* the console runs ai-connect, ai-reconnect and ai-disconnect.  DFHack     *)
(* runs console commands and plugin_onupdate with the core lock held; the   *)
(* socket thread takes that lock only around a drain, by a bounded try, and *)
(* around the state extraction of the auto-update, by a blocking lock.      *)
(* The model has a loaded map throughout (CommandLifecycle has the other    *)
(* case) and no ai-listen.                                                  *)
(***************************************************************************)
EXTENDS Integers

CONSTANTS MaxQueue,    \* bound on g_command_queue and g_query_queue together
          MaxSessions  \* bound on TCP connections opened

ASSUME BoundsAssumption == MaxQueue \in Nat \ {0} /\ MaxSessions \in Nat

VARIABLES
  core,      \* who holds CoreSuspendMutex
  paused,    \* the simulation is paused: plugin_onupdate does not run
  stop,      \* g_stop_message_loop
  connected, \* g_connected
  socket,    \* g_socket is not null
  handle,    \* g_message_thread is not null
  tpc,       \* socket thread
  cpc,       \* console command
  spc,       \* simulation thread
  queue,     \* commands and queries waiting, as a number
  resync,    \* g_resync_requested
  aborted,   \* the last drain was ended by an exception
  silent,    \* more than HEARTBEAT_TIMEOUT_MS since the last heartbeat
  auto,      \* g_auto_update_enabled
  opened,    \* connections opened so far: the number of the current session
  serving,   \* the session the socket thread was started for
  greeting   \* the RESYNC_REQUEST every new session starts with is on its way

netVars == <<connected, socket, opened>>
workVars == <<queue, resync, aborted>>
vars == <<core, paused, stop, handle, tpc, cpc, spc, silent, auto, serving,
          greeting, netVars, workVars>>

Init ==
  /\ core = "free" /\ paused \in BOOLEAN
  /\ stop = FALSE /\ handle = FALSE
  /\ connected = FALSE /\ socket = FALSE
  /\ tpc = "none" /\ cpc = "idle" /\ spc = "idle"
  /\ queue = 0 /\ resync = FALSE /\ aborted = FALSE /\ silent = FALSE /\ auto = FALSE
  /\ opened = 0 /\ serving = 0 /\ greeting = FALSE

----------------------------------------------------------------------------
(* drain_pending_work_impl, by whoever holds the core lock.                 *)

DrainItem == queue > 0 /\ queue' = queue - 1 /\ UNCHANGED <<resync, aborted>>

\* The queues are empty; a resync is served, or tried in vain.
DrainRest == queue = 0 /\ resync' = FALSE /\ aborted' = FALSE /\ UNCHANGED queue

\* drain_pending_work's barrier: an exception that escaped an item or the full
\* state ends the drain.  What was being done is lost, the rest stays queued.
DrainThrows ==
  /\ aborted' = TRUE
  /\ \/ queue > 0 /\ queue' = queue - 1 /\ UNCHANGED resync
     \/ queue = 0 /\ resync' = FALSE /\ UNCHANGED queue

----------------------------------------------------------------------------
(* The socket thread.                                                       *)

\* Seeded fault: the receive loop does not look at the stop flag.
MayReceiveUnstopped == tpc = "loop" /\ connected /\ socket

MayReceive == tpc = "loop" /\ ~stop /\ connected /\ socket

\* Seeded fault: a command is queued and left to plugin_onupdate.
ReceiveWorkUndrained ==
  /\ MayReceive /\ queue < MaxQueue
  /\ queue' = queue + 1
  /\ UNCHANGED <<core, paused, stop, handle, tpc, cpc, spc, resync, aborted, silent, auto,
                 serving, greeting, netVars>>

\* A COMMAND or QUERY is queued, then drain_from_socket_thread.
ReceiveWork ==
  /\ MayReceive /\ queue < MaxQueue
  /\ queue' = queue + 1 /\ tpc' = "drain"
  /\ UNCHANGED <<core, paused, stop, handle, cpc, spc, resync, aborted, silent, auto,
                 serving, greeting, netVars>>

\* Seeded fault: the request is noted and left to plugin_onupdate.
ReceiveResyncUndrained ==
  /\ MayReceive /\ greeting
  /\ greeting' = FALSE
  /\ resync' = TRUE
  /\ UNCHANGED <<core, paused, stop, handle, tpc, cpc, spc, queue, aborted, silent, auto,
                 serving, netVars>>

\* The server's client.go asks for a full state once, right after the handshake.
ReceiveResync ==
  /\ MayReceive /\ greeting
  /\ greeting' = FALSE
  /\ resync' = TRUE /\ tpc' = "drain"
  /\ UNCHANGED <<core, paused, stop, handle, cpc, spc, queue, aborted, silent, auto,
                 serving, netVars>>

\* The echo, and every tenth time under auto-update the blocking extraction.
ReceiveHeartbeat ==
  /\ MayReceive
  /\ silent' = FALSE
  /\ tpc' \in IF auto THEN {"loop", "auto"} ELSE {"loop"}
  /\ UNCHANGED <<core, paused, stop, handle, cpc, spc, auto, serving, greeting, netVars, workVars>>

\* DISCONNECT from the server, or a receive that failed after the heartbeat
\* timeout: teardown_from_socket_thread begins by setting the stop flag.
BeginTeardown ==
  /\ MayReceive
  /\ tpc' = "closing" /\ stop' = TRUE
  /\ UNCHANGED <<core, paused, handle, cpc, spc, silent, auto, serving, greeting, netVars, workVars>>

ReceiveDisconnect == BeginTeardown
HeartbeatTimeout == silent /\ BeginTeardown

\* The peer has sent nothing for HEARTBEAT_TIMEOUT_MS.
PeerSilent ==
  /\ tpc = "loop" /\ ~silent /\ silent' = TRUE
  /\ UNCHANGED <<core, paused, stop, handle, tpc, cpc, spc, auto, serving, greeting,
                 netVars, workVars>>

\* The loop condition fails: the thread function returns.
LeaveLoop ==
  /\ tpc = "loop" /\ ~MayReceive
  /\ tpc' = "exited"
  /\ UNCHANGED <<core, paused, stop, handle, cpc, spc, silent, auto, serving, greeting,
                 netVars, workVars>>

\* ConditionalCoreSuspender got the lock.
DrainLock ==
  /\ tpc = "drain" /\ ~stop /\ core = "free"
  /\ core' = "socket" /\ tpc' = "draining"
  /\ UNCHANGED <<paused, stop, handle, cpc, spc, silent, auto, serving, greeting, netVars, workVars>>

\* Between two tries the stop flag is seen: what was queued stays queued.
DrainAbandon ==
  /\ tpc = "drain" /\ stop
  /\ tpc' = "loop"
  /\ UNCHANGED <<core, paused, stop, handle, cpc, spc, silent, auto, serving, greeting,
                 netVars, workVars>>

DrainStep ==
  /\ tpc = "draining"
  /\ \/ DrainItem /\ UNCHANGED <<core, tpc>>
     \/ (DrainRest \/ DrainThrows) /\ core' = "free" /\ tpc' = "loop"
  /\ UNCHANGED <<paused, stop, handle, cpc, spc, silent, auto, serving, greeting, netVars>>

\* CoreSuspender in detect_tile_changes and extract_entities: waits for the lock.
AutoUpdateStep ==
  /\ tpc = "auto" /\ core = "free"
  /\ tpc' = "loop"
  /\ UNCHANGED <<core, paused, stop, handle, cpc, spc, silent, auto, serving, greeting,
                 netVars, workVars>>

\* close_socket_and_reset: the socket goes first, then g_connected and the cursors.
CloseSocket ==
  /\ tpc = "closing"
  /\ socket' = FALSE /\ tpc' = "resetting"
  /\ UNCHANGED <<core, paused, stop, handle, cpc, spc, silent, auto, serving, greeting,
                 connected, opened, workVars>>

ResetConnected ==
  /\ tpc = "resetting"
  /\ connected' = FALSE /\ tpc' = "cursors"
  /\ UNCHANGED <<core, paused, stop, handle, cpc, spc, silent, auto, serving, greeting,
                 socket, opened, workVars>>

ResetCursors ==
  /\ tpc = "cursors" /\ tpc' = "exited"
  /\ UNCHANGED <<core, paused, stop, handle, cpc, spc, silent, auto, serving, greeting,
                 netVars, workVars>>

SocketThread ==
  \/ ReceiveWork \/ ReceiveResync \/ ReceiveHeartbeat
  \/ ReceiveDisconnect \/ HeartbeatTimeout \/ LeaveLoop
  \/ DrainLock \/ DrainAbandon \/ DrainStep \/ AutoUpdateStep
  \/ CloseSocket \/ ResetConnected \/ ResetCursors

----------------------------------------------------------------------------
(* The console: one command at a time, under the core lock.                 *)

Console(from, to) == cpc = from /\ cpc' = to

BeginDisconnect ==
  /\ Console("idle", "join") /\ core = "free" /\ core' = "console"
  /\ stop' = TRUE
  /\ UNCHANGED <<paused, handle, tpc, spc, silent, auto, serving, greeting, netVars, workVars>>

\* g_message_thread->join(), then reset().
Joined == tpc \in {"none", "exited"}
JoinThread ==
  /\ Console("join", "close") /\ Joined
  /\ handle' = FALSE /\ tpc' = "none"
  /\ UNCHANGED <<core, paused, stop, spc, silent, auto, serving, greeting, netVars, workVars>>

CloseAndReset ==
  /\ Console("close", "idle")
  /\ core' = "free" /\ socket' = FALSE /\ connected' = FALSE
  /\ UNCHANGED <<paused, stop, handle, tpc, spc, silent, auto, serving, greeting, opened, workVars>>

\* Seeded fault: an old thread is not reaped.
BeginConnectUnreaped ==
  /\ Console("idle", "open")
  /\ core = "free" /\ ~connected
  /\ core' = "console"
  /\ UNCHANGED <<paused, stop, handle, tpc, spc, silent, auto, serving, greeting, netVars, workVars>>

\* connect_to_server: an exited thread left by a teardown is reaped first.
BeginConnect ==
  /\ Console("idle", IF handle THEN "reap" ELSE "open")
  /\ core = "free" /\ ~connected
  /\ core' = "console"
  /\ stop' = (stop \/ handle)
  /\ UNCHANGED <<paused, handle, tpc, spc, silent, auto, serving, greeting, netVars, workVars>>

\* Seeded fault: the old thread is detached instead of joined.
ReapThreadDetached ==
  /\ Console("reap", "open")
  /\ handle' = FALSE
  /\ UNCHANGED <<core, paused, stop, tpc, spc, silent, auto, serving, greeting, netVars, workVars>>

ReapThread ==
  /\ Console("reap", "open") /\ Joined
  /\ handle' = FALSE /\ tpc' = "none"
  /\ UNCHANGED <<core, paused, stop, spc, silent, auto, serving, greeting, netVars, workVars>>

OpenSocket ==
  /\ Console("open", "handshake") /\ opened < MaxSessions
  /\ socket' = TRUE /\ opened' = opened + 1
  /\ UNCHANGED <<core, paused, stop, handle, tpc, spc, silent, auto, serving, greeting,
                 connected, workVars>>

OpenFails ==
  /\ Console("open", "idle") /\ core' = "free" /\ socket' = FALSE
  /\ UNCHANGED <<paused, stop, handle, tpc, spc, silent, auto, serving, greeting,
                 connected, opened, workVars>>

HandshakeOk ==
  /\ Console("handshake", "spawn")
  /\ connected' = TRUE
  /\ UNCHANGED <<core, paused, stop, handle, tpc, spc, silent, auto, serving, greeting,
                 socket, opened, workVars>>

\* disconnect_from_server, reached from inside connect_to_server.
HandshakeFails ==
  /\ Console("handshake", "join")
  /\ stop' = TRUE
  /\ UNCHANGED <<core, paused, handle, tpc, spc, silent, auto, serving, greeting, netVars, workVars>>

\* Seeded fault: the stop flag of the last session is left up.
SpawnThreadStopped ==
  /\ Console("spawn", "idle") /\ core' = "free"
  /\ handle' = TRUE /\ tpc' = "loop"
  /\ silent' = FALSE /\ serving' = opened /\ greeting' = TRUE
  /\ UNCHANGED <<paused, stop, spc, auto, netVars, workVars>>

SpawnThread ==
  /\ Console("spawn", "idle") /\ core' = "free"
  /\ stop' = FALSE /\ handle' = TRUE /\ tpc' = "loop"
  /\ silent' = FALSE /\ serving' = opened /\ greeting' = TRUE
  /\ UNCHANGED <<paused, spc, auto, netVars, workVars>>

SwitchAuto ==
  /\ cpc = "idle" /\ core = "free" /\ connected
  /\ auto' = ~auto
  /\ UNCHANGED <<core, paused, stop, handle, tpc, cpc, spc, silent, serving, greeting,
                 netVars, workVars>>

ConsoleThread ==
  \/ BeginDisconnect \/ JoinThread \/ CloseAndReset
  \/ BeginConnect \/ ReapThread \/ OpenSocket \/ OpenFails
  \/ HandshakeOk \/ HandshakeFails \/ SpawnThread \/ SwitchAuto

----------------------------------------------------------------------------
(* The simulation thread and the player's pause key.                        *)

BeginUpdate ==
  /\ spc = "idle" /\ ~paused /\ core = "free"
  /\ core' = "sim" /\ spc' = "update"
  /\ UNCHANGED <<paused, stop, handle, tpc, cpc, silent, auto, serving, greeting, netVars, workVars>>

UpdateStep ==
  /\ spc = "update"
  /\ \/ DrainItem /\ UNCHANGED <<core, spc>>
     \/ (DrainRest \/ DrainThrows) /\ core' = "free" /\ spc' = "idle"
  /\ UNCHANGED <<paused, stop, handle, tpc, cpc, silent, auto, serving, greeting, netVars>>

TogglePause ==
  /\ core = "free" /\ paused' = ~paused
  /\ UNCHANGED <<core, stop, handle, tpc, cpc, spc, silent, auto, serving, greeting,
                 netVars, workVars>>

SimThread == BeginUpdate \/ UpdateStep

Next == SocketThread \/ ConsoleThread \/ SimThread \/ TogglePause \/ PeerSilent

Spec == Init /\ [][Next]_vars

\* Threads are scheduled, and a thread that tries again and again for a lock
\* others keep releasing gets it in the end; nobody has to type a command,
\* send a message or unpause the game.  TCP delivers the greeting or the
\* silence of a dead peer ends the session.
Fairness ==
  /\ WF_vars(ReceiveResync \/ HeartbeatTimeout)
  /\ SF_vars(DrainLock) /\ SF_vars(AutoUpdateStep)
  /\ WF_vars(LeaveLoop) /\ WF_vars(DrainAbandon) /\ WF_vars(DrainStep)
  /\ WF_vars(CloseSocket) /\ WF_vars(ResetConnected) /\ WF_vars(ResetCursors)
  /\ WF_vars(JoinThread) /\ WF_vars(CloseAndReset) /\ WF_vars(ReapThread)
  /\ WF_vars(OpenSocket \/ OpenFails) /\ WF_vars(HandshakeOk \/ HandshakeFails)
  /\ WF_vars(SpawnThread) /\ WF_vars(UpdateStep)
FairSpec == Spec /\ Fairness

----------------------------------------------------------------------------
(* Properties.                                                              *)

TypeOK ==
  /\ core \in {"free", "socket", "console", "sim"}
  /\ paused \in BOOLEAN /\ stop \in BOOLEAN /\ connected \in BOOLEAN
  /\ socket \in BOOLEAN /\ handle \in BOOLEAN /\ resync \in BOOLEAN
  /\ aborted \in BOOLEAN /\ silent \in BOOLEAN /\ auto \in BOOLEAN
  /\ greeting \in BOOLEAN
  /\ tpc \in {"none", "loop", "drain", "draining", "auto", "closing",
              "resetting", "cursors", "exited"}
  /\ cpc \in {"idle", "join", "close", "reap", "open", "handshake", "spawn"}
  /\ spc \in {"idle", "update"}
  /\ queue \in 0..MaxQueue
  /\ opened \in 0..MaxSessions /\ serving \in 0..MaxSessions

\* g_message_thread is never assigned while it still owns a thread: the
\* destructor of a joinable std::thread would terminate the game.
NoThreadReplaced == [][SpawnThread => ~handle]_vars

\* A teardown still under way belongs to the current connection: no new
\* connection is opened before the old session's thread has closed its socket
\* and reset the cursors.
TeardownOfOwnSession ==
  tpc \in {"closing", "resetting", "cursors"} => serving = opened

\* Between console commands, a plugin that says it is connected has a thread
\* that reads its socket.
ConnectedIsServed ==
  connected /\ cpc = "idle" => handle /\ tpc \notin {"none", "exited"} /\ serving = opened

\* ai-disconnect, ai-connect and the plugin's shutdown always come back: the
\* join does not wait for a thread that waits for the lock its joiner holds.
ConsoleReturns == cpc # "idle" ~> cpc = "idle"

\* They do as long as ai-auto-update is left off: the bounded try for the lock
\* sees the stop flag.
ConsoleReturnsManual == []~auto => ConsoleReturns

\* Pausing never deafens the plugin: what the socket thread queued is drained
\* and a request for a full state taken up, in a game that stays paused too,
\* unless the session ends first or an exception cut the drain short (then it
\* waits for the next drain).  A thread stuck in the auto-update's lock is
\* ConsoleReturns' matter.
RequestsAreServed ==
  []~auto => /\ queue > 0 /\ connected ~> queue = 0 \/ ~connected \/ aborted
             /\ resync /\ connected ~> ~resync \/ ~connected \/ aborted
=============================================================================
