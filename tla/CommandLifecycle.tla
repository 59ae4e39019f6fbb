-------------------------- MODULE CommandLifecycle --------------------------
(***************************************************************************)
(* The life of a command: a tool goroutine calls CommandExecutor.SendCommand*)
(* (internal/commands/executor.go), the CommandTracker (tracker.go) keeps   *)
(* its entry, the frame crosses TCP, the plugin queues it                   *)
(* (dfhack-plugin/df_ai_protocol.cpp handleCommand), a drain executes it    *)
(* and writes a COMMAND_ACK, the client's message loop puts the ACK on a    *)
(* bounded channel (internal/dfhack/client.go) and the executor's handleAcks*)
(* goroutine hands it to the tracker.  Next to that run the tracker's       *)
(* timeout and cleanup tickers, lost connections, restarts of the Go        *)
(* process (command ids start again) and map unloads in the game.           *)
(***************************************************************************)
EXTENDS Integers, Sequences, FiniteSets

CONSTANTS Callers,        \* goroutines that call SendCommand
          MaxOps,         \* bound on the number of calls in a behaviour
          MaxFaults,      \* bound on lost connections, restarts of the Go
                          \* process and map loads or unloads, together
          AckCap,         \* capacity of the client's ACK channel
          None            \* no entry, no status, no result

AckStatus == {"success", "partial", "failure"}
Ops == 1..MaxOps
Ids == 2..(MaxOps + 1)

ASSUME BoundsAssumption ==
  MaxOps \in Nat /\ MaxFaults \in Nat /\ AckCap \in Nat \ {0}
Msg == [op : Ops, id : Ids]                    \* op is the model's name of a call
Ack == [op : Ops, id : Ids, status : AckStatus]
Entry == [op : Ops, status : {"pending", "sent", "acked", "timeout"},
          response : AckStatus \cup {None},    \* Command.Response
          overdue : BOOLEAN,                   \* now is after TimeoutAt
          result : AckStatus \cup {"timeout", None}] \* ResultChan, capacity 1

ASSUME NoneAssumption ==
  None \notin AckStatus \cup {"timeout", "senderror", "lost"} \cup Entry

VARIABLES
  calls,      \* number of SendCommand calls so far: the latest op
  pc,         \* where each caller is in SendCommand
  cur,        \* the message each caller is sending
  nextID,     \* CommandTracker.nextID
  tracker,    \* CommandTracker.commands
  reply,      \* what SendCommand returned for each call
  link,       \* "up"; "broken": lost, the Go side has not noticed; "down"
  toPlugin,   \* COMMAND frames in the TCP stream to the plugin
  toServer,   \* COMMAND_ACK frames in the TCP stream to the server
  ackCh,      \* Client.commandAckCh
  queue,      \* g_command_queue
  mapLoaded,  \* Core::isMapLoaded
  outcome,    \* statuses the plugin acknowledged each command with, {} before it ran
  restarts,   \* restarts of the Go process so far
  faults      \* lost connections, restarts and map switches so far

goVars == <<calls, pc, cur, nextID, tracker, reply, ackCh>>
wireVars == <<link, toPlugin, toServer>>
pluginVars == <<queue, mapLoaded, outcome>>
bounds == <<restarts, faults>>
vars == <<goVars, wireVars, pluginVars, bounds>>

Init ==
  /\ calls = 0
  /\ pc = [c \in Callers |-> "idle"]
  /\ cur = [c \in Callers |-> None]
  /\ nextID = 1
  /\ tracker = [i \in Ids |-> None]
  /\ reply = [o \in Ops |-> None]
  /\ link = "up" /\ toPlugin = <<>> /\ toServer = <<>>
  /\ ackCh = <<>> /\ queue = <<>>
  /\ mapLoaded \in BOOLEAN
  /\ outcome = [o \in Ops |-> {}]
  /\ restarts = 0 /\ faults = 0

Fault == faults < MaxFaults /\ faults' = faults + 1

----------------------------------------------------------------------------
(* CommandExecutor.SendCommand, split where another goroutine may run.      *)

\* client.IsConnected: the Go side still believes in the connection.
IsConnected == link \in {"up", "broken"}

\* GenerateCommandID, then AddCommand if connected; the id is spent either way.
StartSend(c) ==
  /\ pc[c] = "idle" /\ calls < MaxOps
  /\ calls' = calls + 1
  /\ nextID' = nextID + 1
  /\ IF IsConnected
     THEN /\ pc' = [pc EXCEPT ![c] = "added"]
          /\ cur' = [cur EXCEPT ![c] = [op |-> calls', id |-> nextID']]
          /\ tracker' = [tracker EXCEPT ![nextID'] =
               [op |-> calls', status |-> "pending", response |-> None,
                overdue |-> FALSE, result |-> None]]
          /\ UNCHANGED reply
     ELSE /\ reply' = [reply EXCEPT ![calls'] = "senderror"]
          /\ UNCHANGED <<pc, cur, tracker>>
  /\ UNCHANGED <<ackCh, wireVars, pluginVars, bounds>>

\* client.SendCommand succeeds; on a connection already lost the bytes go nowhere.
WriteFrame(c) ==
  /\ pc[c] = "added" /\ IsConnected
  /\ pc' = [pc EXCEPT ![c] = "written"]
  /\ toPlugin' = IF link = "up" THEN Append(toPlugin, cur[c]) ELSE toPlugin
  /\ UNCHANGED <<calls, cur, nextID, tracker, reply, link, toServer, ackCh,
                 pluginVars, bounds>>

\* client.SendCommand fails: the entry is removed and the connection is in error.
WriteFails(c) ==
  /\ pc[c] = "added" /\ link # "up"
  /\ link' = "down"
  /\ tracker' = [tracker EXCEPT ![cur[c].id] = None]
  /\ reply' = [reply EXCEPT ![cur[c].op] = "senderror"]
  /\ pc' = [pc EXCEPT ![c] = "idle"]
  /\ UNCHANGED <<calls, cur, nextID, toPlugin, toServer, ackCh, pluginVars, bounds>>

\* cmd.Status = CommandStatusSent and a new TimeoutAt, without the tracker's lock.
MarkSent(c) ==
  /\ pc[c] = "written"
  /\ pc' = [pc EXCEPT ![c] = "waiting"]
  /\ tracker' = [tracker EXCEPT ![cur[c].id].status = "sent",
                                ![cur[c].id].overdue = FALSE]
  /\ UNCHANGED <<calls, cur, nextID, reply, ackCh, wireVars, pluginVars, bounds>>

\* Time passes TimeoutAt of a command that is Sent or that somebody waits for.
DeadlinePasses(i) ==
  /\ tracker[i] # None /\ ~tracker[i].overdue
  /\ tracker[i].status = "sent" \/ \E c \in Callers : pc[c] = "waiting" /\ cur[c].id = i
  /\ tracker' = [tracker EXCEPT ![i].overdue = TRUE]
  /\ UNCHANGED <<calls, pc, cur, nextID, reply, ackCh, wireVars, pluginVars, bounds>>

Return(c, r) ==
  /\ reply' = [reply EXCEPT ![cur[c].op] = r]
  /\ pc' = [pc EXCEPT ![c] = "idle"]

TakeResult(c) ==
  /\ pc[c] = "waiting" /\ tracker[cur[c].id].result # None
  /\ Return(c, tracker[cur[c].id].result)
  /\ tracker' = [tracker EXCEPT ![cur[c].id].result = None]
  /\ UNCHANGED <<calls, cur, nextID, ackCh, wireVars, pluginVars, bounds>>

\* Seeded fault: no timer of its own, the caller waits for the tracker's verdict.
GiveUpByTracker(c) ==
  /\ pc[c] = "waiting" /\ tracker[cur[c].id].status = "timeout"
  /\ Return(c, "timeout")
  /\ UNCHANGED <<calls, cur, nextID, tracker, ackCh, wireVars, pluginVars, bounds>>

\* The caller's own timer, one second after TimeoutAt.
GiveUp(c) ==
  /\ pc[c] = "waiting" /\ tracker[cur[c].id].overdue
  /\ Return(c, "timeout")
  /\ UNCHANGED <<calls, cur, nextID, tracker, ackCh, wireVars, pluginVars, bounds>>

----------------------------------------------------------------------------
(* The executor's background goroutines and the client's message loop.      *)

\* A non-blocking send on a channel of capacity one.
Offer(e, r) == [e EXCEPT !.result = IF @ = None THEN r ELSE @]

\* messageLoop: a COMMAND_ACK goes on the channel, or is dropped when it is full.
ReceiveAck ==
  /\ toServer # <<>>
  /\ toServer' = Tail(toServer)
  /\ ackCh' = IF Len(ackCh) < AckCap THEN Append(ackCh, Head(toServer)) ELSE ackCh
  /\ UNCHANGED <<calls, pc, cur, nextID, tracker, reply, link, toPlugin,
                 pluginVars, bounds>>

\* handleAcks, HandleAck, MarkAcked: whatever the entry's status; unknown ids are logged.
MarkAcked ==
  /\ ackCh # <<>>
  /\ ackCh' = Tail(ackCh)
  /\ LET a == Head(ackCh) IN
       tracker' = IF tracker[a.id] = None THEN tracker
                  ELSE [tracker EXCEPT ![a.id] =
                         Offer([@ EXCEPT !.status = "acked", !.response = a.status], a.status)]
  /\ UNCHANGED <<calls, pc, cur, nextID, reply, wireVars, pluginVars, bounds>>

\* checkTimeouts: one tick marks every command that is Sent and overdue.
TimedOut(i) == tracker[i] # None /\ tracker[i].status = "sent" /\ tracker[i].overdue
CheckTimeouts ==
  /\ \E i \in Ids : TimedOut(i)
  /\ tracker' = [i \in Ids |-> IF TimedOut(i)
                               THEN Offer([tracker[i] EXCEPT !.status = "timeout"], "timeout")
                               ELSE tracker[i]]
  /\ UNCHANGED <<calls, pc, cur, nextID, reply, ackCh, wireVars, pluginVars, bounds>>

\* cleanupOldCommands: five minutes outlast the wait of SendCommand.
CleanupOld(i) ==
  /\ tracker[i] # None /\ tracker[i].status \in {"acked", "timeout"}
  /\ \A c \in Callers : pc[c] # "idle" => cur[c].id # i
  /\ tracker' = [tracker EXCEPT ![i] = None]
  /\ UNCHANGED <<calls, pc, cur, nextID, reply, ackCh, wireVars, pluginVars, bounds>>

\* The server process ends and a new one starts with an empty tracker and nextID = 1.
GoRestart ==
  /\ Fault /\ restarts' = restarts + 1
  /\ reply' = [o \in Ops |-> IF \E c \in Callers : pc[c] # "idle" /\ cur[c].op = o
                             THEN "lost" ELSE reply[o]]
  /\ pc' = [c \in Callers |-> "idle"]
  /\ cur' = [c \in Callers |-> None]
  /\ nextID' = 1
  /\ tracker' = [i \in Ids |-> None]
  /\ ackCh' = <<>> /\ toPlugin' = <<>> /\ toServer' = <<>> /\ link' = "down"
  /\ UNCHANGED <<calls, pluginVars>>

----------------------------------------------------------------------------
(* The plugin and the game.                                                 *)

\* message_receive_loop and handleCommand: the frame is queued as it arrives.
QueueCommand ==
  /\ toPlugin # <<>>
  /\ toPlugin' = Tail(toPlugin)
  /\ queue' = Append(queue, Head(toPlugin))
  /\ UNCHANGED <<goVars, link, toServer, mapLoaded, outcome, bounds>>

\* executeCommand acknowledges with one status.  The exception is a PAUSE whose
\* push throws: it has been acknowledged already, the catch sends a NACK too.
\* Without a socket the ACKs go nowhere.
Reports == {<<s>> : s \in AckStatus} \cup {<<"success", "failure">>}
Execute(m) == \E r \in Reports :
  /\ outcome' = [outcome EXCEPT ![m.op] = {r[k] : k \in DOMAIN r}]
  /\ toServer' = IF link = "up"
                 THEN toServer \o [k \in DOMAIN r |->
                        [op |-> m.op, id |-> m.id, status |-> r[k]]]
                 ELSE toServer

\* Seeded fault: the command is executed but stays at the front of the queue.
ExecuteNextUnpopped ==
  /\ mapLoaded /\ queue # <<>>
  /\ Execute(Head(queue))
  /\ UNCHANGED <<goVars, link, toPlugin, queue, mapLoaded, bounds>>

\* One turn of drain_pending_work_impl's command loop: pop, then executeCommand.
\* Without a map the drain returns first.
ExecuteNext ==
  /\ mapLoaded /\ queue # <<>>
  /\ queue' = Tail(queue)
  /\ Execute(Head(queue))
  /\ UNCHANGED <<goVars, link, toPlugin, mapLoaded, bounds>>

SwitchMap ==
  /\ Fault
  /\ mapLoaded' = ~mapLoaded
  /\ UNCHANGED <<goVars, wireVars, queue, outcome, restarts>>

\* The connection is lost with everything in flight; the plugin keeps its queue.
LinkBreaks ==
  /\ link = "up" /\ Fault
  /\ link' = "broken" /\ toPlugin' = <<>> /\ toServer' = <<>>
  /\ UNCHANGED <<goVars, pluginVars, restarts>>

\* messageLoop's Receive fails: the connection goes to StateError.
NoticeBreak ==
  /\ link = "broken" /\ link' = "down"
  /\ UNCHANGED <<goVars, toPlugin, toServer, pluginVars, bounds>>

\* ai-connect or ai-reconnect; teardown never emptied g_command_queue.
Reconnect ==
  /\ link # "up" /\ link' = "up"
  /\ UNCHANGED <<goVars, toPlugin, toServer, pluginVars, bounds>>

Next ==
  \/ \E c \in Callers : \/ StartSend(c) \/ WriteFrame(c) \/ WriteFails(c)
                        \/ MarkSent(c) \/ TakeResult(c) \/ GiveUp(c)
  \/ \E i \in Ids : DeadlinePasses(i) \/ CleanupOld(i)
  \/ ReceiveAck \/ MarkAcked \/ CheckTimeouts \/ GoRestart
  \/ QueueCommand \/ ExecuteNext \/ SwitchMap
  \/ LinkBreaks \/ NoticeBreak \/ Reconnect

Spec == Init /\ [][Next]_vars

\* The Go runtime runs every ready goroutine and time passes.
CallFairness ==
  /\ \A c \in Callers : /\ WF_vars(WriteFrame(c) \/ WriteFails(c)) /\ WF_vars(MarkSent(c))
                        /\ WF_vars(TakeResult(c) \/ GiveUp(c))
  /\ \A i \in Ids : WF_vars(DeadlinePasses(i))
FairSpec == Spec /\ CallFairness

----------------------------------------------------------------------------
TypeOK ==
  /\ calls \in 0..MaxOps
  /\ pc \in [Callers -> {"idle", "added", "written", "waiting"}]
  /\ cur \in [Callers -> Msg \cup {None}]
  /\ nextID \in 1..(MaxOps + 1)
  /\ tracker \in [Ids -> Entry \cup {None}]
  /\ reply \in [Ops -> AckStatus \cup {"timeout", "senderror", "lost", None}]
  /\ link \in {"up", "broken", "down"}
  /\ toPlugin \in Seq(Msg) /\ queue \in Seq(Msg)
  /\ toServer \in Seq(Ack) /\ ackCh \in Seq(Ack) /\ Len(ackCh) <= AckCap
  /\ mapLoaded \in BOOLEAN
  /\ outcome \in [Ops -> SUBSET AckStatus]
  /\ restarts \in 0..faults /\ faults \in 0..MaxFaults

----------------------------------------------------------------------------
(* Properties.                                                              *)

\* As long as the server process lives, SendCommand keeps the promise of
\* CommandContract: at most one execution, a reply that is the command's own
\* status, nothing executed after a send error.
Contract == INSTANCE CommandContract WITH outcome <- outcome, reply <- reply
KeepsContract == restarts' = 0 => Contract!Next \/ UNCHANGED Contract!vars
ContractKept == Contract!Init /\ [][KeepsContract]_vars

\* Every call of SendCommand returns: a lost frame, a lost ACK or a full
\* channel ends in the caller's own timer, never in a goroutine that hangs.
CallsReturn == \A c \in Callers : pc[c] # "idle" ~> pc[c] = "idle"
=============================================================================
