-------------------------- MODULE StepControl_proofs --------------------------
(***************************************************************************)
(* Proofs about the turn protocol, for any lengths of steps and any number  *)
(* of calls, frames, alarms and faults.                                     *)
(***************************************************************************)
EXTENDS StepControl, SequencesExt, SequenceTheorems, TLAPS

\* What messages are.
Command  == [kind : {"step"}, call : Calls, ticks : Ticks]
            \cup [kind : {"pause", "unpause"}, call : Calls]
Query    == [kind : {"sim_status"}, id : 0..MaxFaults]
Trip     == 1..MaxAlarms \cup {None}
Status   == [kind : {"status"}, id : 0..MaxFaults, paused : BOOLEAN,
             stepping : BOOLEAN, tripwire : Trip]
Entity   == [kind : {"entity"}, frame : Nat]
Acks     == [kind : {"ack"}, call : Calls]
Messages == Status \cup Entity \cup Acks

\* The commands that have not been run stand in the order of their calls, those
\* queued in the plugin before those under way to it.
Rising(s) == \A j, k \in 1..Len(s) :
               j < k /\ s[j] \in Command /\ s[k] \in Command => s[j].call < s[k].call
InOrder ==
  /\ Rising(commands) /\ Rising(toPlugin)
  /\ \A m \in ToSet(commands), n \in ToSet(toPlugin) \cap Command : m.call < n.call

\* No step of their calls or of later ones has begun, and what a step tool
\* without an answer waits for is a step.
Ahead(m) ==
  /\ running < m.call /\ m.call <= calls
  /\ \A c \in Calls : c >= m.call => ended[c] = None
  /\ tool = "stepack" /\ m.call = calls => m.kind = "step"
AllAhead == /\ \A m \in ToSet(commands) : Ahead(m)
            /\ \A m \in ToSet(toPlugin) \cap Command : Ahead(m)

\* The step in progress is the latest that has begun.
Latest ==
  /\ running <= calls
  /\ running # 0 => \A c \in Calls : c >= running => ended[c] = None
  /\ \A c \in Calls : c > calls => ended[c] = None /\ report[c] = None

\* The step of the latest call, once it has begun, ends at its target or with a
\* tripwire, and the plugin's record names a tripwire in the second case only.
Ended == calls # 0 /\ ended[calls] # None
Executed == calls # 0 /\ (running = calls \/ ended[calls] # None)
OwnEnd ==
  /\ calls # 0 /\ running = calls => tripwire = None
  /\ Ended => /\ ended[calls].by \in {"target", "tripwire"}
              /\ tripwire # None <=> ended[calls].by = "tripwire"

\* The tool polls only for a step that has been executed, and has seen its end
\* when it goes on to wait for the push.
Complete(m) == m.paused /\ ~m.stepping
Truth(m) == Ended /\ (m.tripwire # None <=> ended[calls].by = "tripwire")
Tooling ==
  /\ tool \in {"poll", "asked", "push"} => Executed
  /\ \A m \in ToSet(toServer) \cap Acks :
       /\ m.call <= calls
       /\ tool = "stepack" /\ m.call = calls => Executed
  /\ tool = "push" => status \in Status /\ Truth(status)

\* At most one query with the current id is under way, as a query or as an
\* answer, and only while the tool waits for it; its answer is about the latest
\* call.
Current  == {m \in Query : m.id = lapses}
Answers  == {m \in Status : m.id = lapses}
Hits(s, S) == ToSet(s) \cap S # {}
Once(s, S) == \A j, k \in 1..Len(s) : s[j] \in S /\ s[k] \in S => j = k
Asking ==
  /\ \A m \in ToSet(toPlugin) \cap Query : m.id <= lapses
  /\ \A i \in ToSet(queries) : i <= lapses
  /\ \A m \in ToSet(toServer) \cap Status : m.id <= lapses
OneQuery ==
  /\ Hits(toPlugin, Current) \/ Hits(queries, {lapses}) \/ Hits(toServer, Answers) => tool = "asked"
  /\ ~(Hits(toPlugin, Current) /\ Hits(queries, {lapses}))
  /\ ~(Hits(toPlugin, Current) /\ Hits(toServer, Answers))
  /\ ~(Hits(queries, {lapses}) /\ Hits(toServer, Answers))
  /\ Once(toPlugin, Current) /\ Once(queries, {lapses}) /\ Once(toServer, Answers)
AnswersTrue == \A m \in ToSet(toServer) \cap Answers : Complete(m) => Truth(m)

Truths == /\ InOrder /\ AllAhead /\ Latest /\ OwnEnd /\ TruthfulReport
          /\ Tooling /\ Asking /\ OneQuery /\ AnswersTrue
IInv == TypeOK /\ lapses <= faults /\ Truths

----------------------------------------------------------------------------
(* Types.                                                                   *)

Ends     == [by : {"command", "target", "tripwire"}, at : Nat]
Reports  == [pushed : BOOLEAN, world : Nat, tripwire : Trip]

Queues ==
  /\ commands \in Seq(Command) /\ queries \in Seq(0..MaxFaults)
  /\ toPlugin \in Seq(Command \cup Query) /\ toServer \in Seq(Messages)
  /\ entityCh \in Seq(Nat) /\ Len(entityCh) <= EntityCap
PluginState ==
  /\ {paused, linkUp} \subseteq BOOLEAN /\ frame \in Nat
  /\ alarms \in 0..MaxAlarms /\ cursor \in 0..alarms /\ target \in Nat \cup {-1}
  /\ tripwire \in Trip /\ phase \in {"none", "commands", "queries"}
  /\ running \in 0..MaxCalls /\ (running = 0 <=> target = -1)
  /\ ended \in [Calls -> Ends \cup {None}]
ServerState ==
  /\ {world, eventSeq, before} \subseteq Nat /\ installing \in Nat \cup {None}
  /\ calls \in 0..MaxCalls
  /\ tool \in {"idle", "ack", "stepack", "poll", "asked", "push"}
  /\ status \in Status \cup {None} /\ report \in [Calls -> Reports \cup {None}]
Faults == lapses \in 0..faults /\ faults \in 0..MaxFaults

\* TypeOK in parts: the queues, the plugin, the server, the bounds.
LEMMA TypeParts ==
  TypeOK /\ lapses <= faults <=> Queues /\ PluginState /\ ServerState /\ Faults
<1>1. MaxFaults \in Nat BY BoundsAssumption
<1>2. TypeOK <=> /\ Queues /\ PluginState /\ ServerState
                 /\ lapses \in 0..MaxFaults /\ faults \in 0..MaxFaults
  BY DEF TypeOK, Queues, PluginState, ServerState, Command, Query, Trip, Status, Entity, Acks,
         Messages, Ends, Reports
<1>3. lapses \in 0..MaxFaults /\ faults \in 0..MaxFaults /\ lapses <= faults <=> Faults
  BY <1>1 DEF Faults
<1> QED BY <1>2, <1>3

\* What messages carry.
LEMMA Fields ==
  /\ \A m \in Command : /\ m.call \in Calls /\ m.kind \in {"step", "pause", "unpause"}
                        /\ (m.kind = "step" => m.ticks \in Nat \ {0})
  /\ \A m \in Query : m.kind = "sim_status" /\ m.id \in 0..MaxFaults
  /\ \A m \in Messages : /\ m.kind \in {"status", "entity", "ack"}
                         /\ m.kind = "ack" => m.call \in Calls
                         /\ m.kind = "entity" => m.frame \in Nat
                         /\ m.kind = "status" => m \in Status /\ m.id \in 0..MaxFaults
  /\ \A m \in Status : m.kind = "status" /\ m.tripwire \in Trip
  /\ \A m \in Acks : m.kind = "ack" /\ m.call \in Calls
  /\ \A m \in Entity : m.kind = "entity"
  /\ \A c \in Calls : c \in Nat /\ c >= 1 /\ c <= MaxCalls
  /\ \A c \in Nat : c # 0 /\ c <= MaxCalls => c \in Calls
  /\ {MaxCalls, MaxFrame, MaxAlarms, MaxFaults, EntityCap} \subseteq Nat
<1>1. \A m \in Command : /\ m.call \in Calls /\ m.kind \in {"step", "pause", "unpause"}
                         /\ m.kind # "sim_status" /\ (m.kind = "step" => m.ticks \in Ticks)
  BY DEF Command
<1>2. \A m \in Query : m.kind = "sim_status" /\ m.id \in 0..MaxFaults BY DEF Query
<1>3. \A m \in Messages : /\ m.kind \in {"status", "entity", "ack"}
                          /\ m.kind = "ack" => m.call \in Calls
                          /\ m.kind = "entity" => m.frame \in Nat
                          /\ m.kind = "status" => m \in Status /\ m.id \in 0..MaxFaults
  BY DEF Messages, Status, Entity, Acks
<1>7. /\ \A m \in Status : m.kind = "status" /\ m.tripwire \in Trip
      /\ \A m \in Acks : m.kind = "ack" /\ m.call \in Calls
      /\ \A m \in Entity : m.kind = "entity"
  BY DEF Status, Entity, Acks
<1>4. {MaxCalls, MaxFrame, MaxAlarms, MaxFaults, EntityCap} \subseteq Nat BY BoundsAssumption
<1>5. \A c \in Calls : c \in Nat /\ c >= 1 /\ c <= MaxCalls BY <1>4 DEF Calls
<1>6. \A c \in Nat : c # 0 /\ c <= MaxCalls => c \in Calls BY <1>4 DEF Calls
<1> QED BY <1>1, <1>2, <1>3, <1>4, <1>5, <1>6, <1>7, TicksAssumption

\* A queue after its first element has been taken.
LEMMA Taken ==
  ASSUME NEW S, NEW s \in Seq(S), s # <<>>
  PROVE  /\ Head(s) \in S /\ Tail(s) \in Seq(S) /\ Len(s) \in Nat /\ Len(s) >= 1
         /\ Head(s) = s[1] /\ Len(Tail(s)) = Len(s) - 1
         /\ \A k \in 1..Len(Tail(s)) : Tail(s)[k] = s[k + 1]
BY HeadTailProperties, LenProperties, EmptySeq

\* A queue that grows keeps what it has, and gets elements of New.
Grown(s, t, New) ==
  /\ Len(s) \in Nat /\ Len(t) \in Nat /\ Len(s) <= Len(t)
  /\ \A k \in 1..Len(s) : t[k] = s[k]
  /\ \A k \in 1..Len(t) : k > Len(s) => t[k] \in New

\* It grows by one element, or not at all.
LEMMA Joined ==
  ASSUME NEW S, NEW s \in Seq(S), NEW e \in S
  PROVE  /\ Append(s, e) \in Seq(S) /\ Len(Append(s, e)) = Len(s) + 1
         /\ Append(s, e)[Len(s) + 1] = e /\ Grown(s, Append(s, e), {e}) /\ Grown(s, s, {e})
<1>1. /\ Append(s, e) \in Seq(S) /\ Len(Append(s, e)) = Len(s) + 1 /\ Len(s) \in Nat
      /\ Append(s, e)[Len(s) + 1] = e /\ \A k \in 1..Len(s) : Append(s, e)[k] = s[k]
  BY AppendProperties, LenProperties
<1> QED BY <1>1 DEF Grown

\* It grows by the elements of another queue.
LEMMA JoinedBy ==
  ASSUME NEW S, NEW s \in Seq(S), NEW New \in SUBSET S, NEW e \in Seq(New)
  PROVE  s \o e \in Seq(S) /\ Grown(s, s \o e, New)
<1>1. e \in Seq(S) /\ Len(e) \in Nat /\ Len(s) \in Nat BY LenProperties, SeqDef
<1>2. /\ s \o e \in Seq(S) /\ Len(s \o e) = Len(s) + Len(e)
      /\ \A k \in 1..(Len(s) + Len(e)) : (s \o e)[k] = IF k <= Len(s) THEN s[k] ELSE e[k - Len(s)]
  BY <1>1, ConcatProperties
<1>3. ASSUME NEW k \in 1..(Len(s) + Len(e)), k > Len(s) PROVE (s \o e)[k] \in New
  <2>1. k - Len(s) \in 1..Len(e) BY <1>1, <1>3
  <2> QED BY <1>1, <1>2, <1>3, <2>1, ElementOfSeq
<1> QED BY <1>1, <1>2, <1>3 DEF Grown

\* Growing twice, and by elements of a larger set.
LEMMA GrownTwice ==
  ASSUME NEW s, NEW t, NEW u, NEW M, NEW N, Grown(s, t, M), Grown(t, u, N)
  PROVE  Grown(s, u, M \cup N)
<1>1. /\ Len(s) \in Nat /\ Len(t) \in Nat /\ Len(u) \in Nat /\ Len(s) <= Len(t) /\ Len(t) <= Len(u)
      /\ \A k \in 1..Len(s) : t[k] = s[k]
      /\ \A k \in 1..Len(t) : k > Len(s) => t[k] \in M
      /\ \A k \in 1..Len(t) : u[k] = t[k]
      /\ \A k \in 1..Len(u) : k > Len(t) => u[k] \in N
  BY DEF Grown
<1>2. ASSUME NEW k \in 1..Len(s) PROVE u[k] = s[k] BY <1>1
<1>3. ASSUME NEW k \in 1..Len(u), k > Len(s) PROVE u[k] \in M \cup N
  <2>1. CASE k \in 1..Len(t) BY <1>1, <1>3, <2>1
  <2>2. CASE k > Len(t) BY <1>1, <1>3, <2>2
  <2> QED BY <1>1, <2>1, <2>2
<1> QED BY <1>1, <1>2, <1>3 DEF Grown

\* A push sends the acknowledgement before it, and entities.
LEMMA Pushed ==
  ASSUME Queues, PluginState, NEW New \in SUBSET Acks, NEW acks \in Seq(New), NEW ok \in BOOLEAN,
         \/ Push(acks, ok)
         \/ toServer' = toServer \o IF ok THEN <<[kind |-> "entity", frame |-> frame]>> ELSE <<>>
  PROVE  toServer' \in Seq(Messages) /\ Grown(toServer, toServer', New \cup Entity)
<1> DEFINE e == IF ok THEN <<[kind |-> "entity", frame |-> frame]>> ELSE <<>>
<1>1. e \in Seq(Entity)
  <2>1. [kind |-> "entity", frame |-> frame] \in Entity BY DEF PluginState, Entity
  <2> HIDE DEF Entity
  <2> QED BY <2>1, EmptySeq
<1>2. toServer \in Seq(Messages) /\ Acks \subseteq Messages /\ Entity \subseteq Messages
  BY DEF Queues, Messages
<1>3. toServer \o acks \in Seq(Messages) /\ Grown(toServer, toServer \o acks, New)
  <2>1. New \in SUBSET Messages BY <1>2
  <2> QED BY <1>2, <2>1, JoinedBy
<1>4. /\ toServer \o acks \o e \in Seq(Messages) /\ Grown(toServer \o acks, toServer \o acks \o e, Entity)
      /\ toServer \o e \in Seq(Messages) /\ Grown(toServer, toServer \o e, Entity)
  <2>1. Entity \in SUBSET Messages BY <1>2
  <2> HIDE DEF e
  <2> QED BY <1>1, <1>2, <1>3, <2>1, JoinedBy
<1>5. Grown(toServer, toServer \o acks \o e, New \cup Entity) BY <1>3, <1>4, GrownTwice
<1>6. \/ toServer' = toServer \/ toServer' = toServer \o acks \o e \/ toServer' = toServer \o e
  BY DEF Push
<1>7. Grown(toServer, toServer, New \cup Entity) /\ Grown(toServer, toServer \o e, New \cup Entity)
  BY <1>2, <1>4, LenProperties DEF Grown
<1> QED BY <1>2, <1>4, <1>5, <1>6, <1>7

\* Every step keeps the types of the queues.
LEMMA QueuesStep == ASSUME Queues, PluginState, ServerState, Faults, [Next]_vars PROVE Queues'
<1> USE DEF gameVars, pluginVars, wireVars, modelVars, toolVars
<1>1. CASE Receive
  <2>1. /\ Head(toPlugin) \in Command \cup Query /\ Tail(toPlugin) \in Seq(Command \cup Query)
    BY <1>1, Taken DEF Receive, Queues
  <2>2. CASE Head(toPlugin).kind = "sim_status"
    <3>1. Head(toPlugin).id \in 0..MaxFaults BY <2>1, <2>2, Fields
    <3>2. Append(queries, Head(toPlugin).id) \in Seq(0..MaxFaults) BY <3>1, Joined DEF Queues
    <3> QED BY <1>1, <2>1, <2>2, <3>2 DEF Queues, Receive
  <2>3. CASE Head(toPlugin).kind # "sim_status"
    <3>1. Head(toPlugin) \in Command BY <2>1, <2>3, Fields
    <3>2. Append(commands, Head(toPlugin)) \in Seq(Command) BY <3>1, Joined DEF Queues
    <3> QED BY <1>1, <2>1, <2>3, <3>2 DEF Queues, Receive
  <2> QED BY <2>2, <2>3
<1>2. ASSUME NEW kind, NextCommand(kind)
      PROVE  /\ commands' \in Seq(Command) /\ Head(commands) \in Command
             /\ Ack(Head(commands).call) \in Acks /\ Ack(Head(commands).call) \in Messages
  <2>1. commands # <<>> /\ commands' = Tail(commands) BY <1>2 DEF NextCommand
  <2>2. commands' \in Seq(Command) /\ Head(commands) \in Command BY <2>1, Taken DEF Queues
  <2>3. Head(commands).call \in Calls BY <2>2, Fields
  <2> QED BY <2>2, <2>3 DEF Ack, Acks, Messages
<1>3. CASE RunPause
  <2> DEFINE a == Ack(Head(commands).call)
  <2>1. commands' \in Seq(Command) /\ a \in Acks BY <1>2, <1>3 DEF RunPause
  <2>2. /\ <<a>> \in Seq({a}) /\ <<a, a>> \in Seq({a}) /\ {a} \in SUBSET Acks
    BY <2>1
  <2>3. Push(<<a>>, TRUE) \/ Push(<<a, a>>, FALSE) \/ Push(<<a>>, FALSE) BY <1>3 DEF RunPause
  <2> HIDE DEF a
  <2>4. toServer' \in Seq(Messages) BY <2>2, <2>3, Pushed
  <2> QED BY <1>3, <2>1, <2>4 DEF Queues, RunPause
<1>4. ASSUME NEW m \in Messages, Answer(m) PROVE toServer' \in Seq(Messages)
  BY <1>4, Joined DEF Answer, Queues
<1>5. CASE RunUnpause
  <2>1. toServer' \in Seq(Messages) /\ commands' \in Seq(Command) BY <1>2, <1>4, <1>5 DEF RunUnpause
  <2> QED BY <1>5, <2>1 DEF Queues, RunUnpause
<1>6. CASE RunStep
  <2>1. toServer' \in Seq(Messages) /\ commands' \in Seq(Command) BY <1>2, <1>4, <1>6 DEF RunStep
  <2> QED BY <1>6, <2>1 DEF Queues, RunStep
<1>7. CASE Repause
  <2>1. PICK ok \in BOOLEAN : Push(<<>>, ok) BY <1>7 DEF Repause
  <2>2. <<>> \in Seq({}) /\ {} \in SUBSET Acks BY EmptySeq
  <2>3. toServer' \in Seq(Messages) BY <2>1, <2>2, Pushed
  <2> QED BY <1>7, <2>3 DEF Queues, Repause
<1>8. CASE SimStatus
  <2>1. Head(queries) \in 0..MaxFaults /\ Tail(queries) \in Seq(0..MaxFaults)
    BY <1>8, Taken DEF SimStatus, Queues
  <2> DEFINE m == [kind |-> "status", id |-> Head(queries), paused |-> paused,
                   stepping |-> target >= 0, tripwire |-> tripwire]
  <2>2. m \in Messages BY <2>1 DEF PluginState, Messages, Status
  <2>3. toServer' \in Seq(Messages) BY <1>4, <1>8, <2>2 DEF SimStatus
  <2> QED BY <1>8, <2>1, <2>3 DEF Queues, SimStatus
<1>9. CASE PollAlarms
  <2>1. CASE target >= 0
    <3>1. PICK ok \in BOOLEAN :
            toServer' = toServer \o IF ok THEN <<[kind |-> "entity", frame |-> frame]>> ELSE <<>>
      BY <1>9, <2>1 DEF PollAlarms
    <3>2. <<>> \in Seq({}) /\ {} \in SUBSET Acks BY EmptySeq
    <3>3. toServer' \in Seq(Messages) BY <3>1, <3>2, Pushed
    <3> QED BY <1>9, <3>3 DEF Queues, PollAlarms
  <2>2. CASE ~(target >= 0) BY <1>9, <2>2 DEF Queues, PollAlarms
  <2> QED BY <2>1, <2>2
<1>10. CASE LinkBreaks BY <1>10, EmptySeq DEF Queues, LinkBreaks
<1>11. CASE ReceiveEntity
  <2>1. /\ Head(toServer) \in Messages /\ Tail(toServer) \in Seq(Messages)
        /\ Head(toServer).kind = "entity" /\ toServer' = Tail(toServer)
    BY <1>11, Taken DEF ReceiveEntity, Queues
  <2>2. Head(toServer).frame \in Nat BY <2>1, Fields
  <2>3. entityCh' \in Seq(Nat) /\ Len(entityCh') <= EntityCap
    <3>1. Len(entityCh) \in Nat /\ EntityCap \in Nat BY LenProperties, Fields DEF Queues
    <3> QED BY <1>11, <2>2, <3>1, Joined DEF Queues, ReceiveEntity
  <2> QED BY <1>11, <2>1, <2>3 DEF Queues, ReceiveEntity
<1>12. CASE CountEvent
  <2>1. Tail(entityCh) \in Seq(Nat) /\ Len(Tail(entityCh)) = Len(entityCh) - 1 /\ Len(entityCh) \in Nat
    BY <1>12, Taken DEF CountEvent, Queues
  <2> QED BY <1>12, <2>1, Fields DEF Queues, CountEvent
<1>13. CASE CallTool
  <2>1. calls + 1 \in Calls BY <1>13, Fields DEF CallTool, ServerState
  <2>2. PICK m \in [kind : {"pause", "unpause"}, call : {calls + 1}]
                   \cup [kind : {"step"}, call : {calls + 1}, ticks : Ticks] :
          toPlugin' = Append(toPlugin, m)
    BY <1>13 DEF CallTool
  <2>3. m \in Command \cup Query BY <2>1, <2>2 DEF Command
  <2>4. toPlugin' \in Seq(Command \cup Query) BY <2>2, <2>3, Joined DEF Queues
  <2> QED BY <1>13, <2>4 DEF Queues, CallTool
<1>14. CASE Ask
  <2>1. [kind |-> "sim_status", id |-> lapses] \in Command \cup Query
    BY Fields DEF Query, Faults
  <2>2. toPlugin' \in Seq(Command \cup Query) BY <1>14, <2>1, Joined DEF Queues, Ask
  <2> QED BY <1>14, <2>2 DEF Queues, Ask
<1>15. CASE ReceiveAck \/ ReceiveStatus
  <2>1. toServer' \in Seq(Messages) BY <1>15, Taken DEF ReceiveAck, ReceiveStatus, Queues
  <2> QED BY <1>15, <2>1 DEF Queues, ReceiveAck, ReceiveStatus
<1>16. CASE Game \/ OnUpdate \/ NotReached \/ EndDrain \/ Reconnect \/ UNCHANGED vars
  BY <1>16 DEF Queues, Game, Tick, RaiseAlarm, PressPause, OnUpdate, NotReached, EndDrain, Reconnect, vars
<1>17. CASE InstallEntities \/ ReportPushed \/ ReportUnpushed \/ QueryTimeout \/ ReturnWithoutReport
  BY <1>17 DEF Queues, InstallEntities, ReportPushed, ReportUnpushed, QueryTimeout, ReturnWithoutReport
<1> QED BY <1>1, <1>3, <1>5, <1>6, <1>7, <1>8, <1>9, <1>10, <1>11, <1>12, <1>13, <1>14, <1>15, <1>16,
           <1>17 DEF Next, Plugin, Drain, Server, Tool

\* Every step keeps the types of the plugin's state.
LEMMA PluginStep == ASSUME Queues, PluginState, ServerState, Faults, [Next]_vars PROVE PluginState'
<1> USE DEF gameVars, pluginVars, wireVars, modelVars, toolVars
<1>0. {MaxCalls, MaxAlarms} \subseteq Nat BY Fields
<1>1. CASE Tick \/ RaiseAlarm \/ PressPause
  <2>1. /\ paused' \in BOOLEAN /\ frame' \in Nat /\ alarms' \in 0..MaxAlarms /\ alarms <= alarms'
        /\ UNCHANGED <<cursor, target, tripwire, phase, running, ended, linkUp>>
    <3>1. CASE Tick BY <3>1 DEF PluginState, Tick
    <3>2. CASE RaiseAlarm BY <1>0, <3>2 DEF PluginState, RaiseAlarm
    <3>3. CASE PressPause
      <4>1. paused' \in BOOLEAN BY <3>3 DEF PressPause
      <4> QED BY <3>3, <4>1 DEF PluginState, PressPause
    <3> QED BY <1>1, <3>1, <3>2, <3>3
  <2> QED BY <1>0, <2>1 DEF PluginState
<1>2. ASSUME NEW how \in {"command", "target", "tripwire"}, EndStep(how), frame \in Nat
      PROVE  /\ target' \in Nat \cup {-1} /\ running' \in 0..MaxCalls /\ (running' = 0 <=> target' = -1)
             /\ ended' \in [Calls -> Ends \cup {None}]
  <2>1. [by |-> how, at |-> frame] \in Ends BY <1>2 DEF Ends
  <2>2. ended' \in [Calls -> Ends \cup {None}] BY <1>2, <2>1 DEF EndStep, PluginState
  <2> QED BY <1>0, <1>2, <2>2 DEF EndStep
<1>3. ASSUME NEW acks, NEW ok, Push(acks, ok) PROVE cursor' \in {cursor, alarms}
  BY <1>3 DEF Push
<1>4. CASE RunPause
  <2>1. /\ \E acks, ok : Push(acks, ok)
        /\ EndStep("command") /\ phase' \in {phase, "none"} /\ paused' = TRUE
        /\ UNCHANGED <<frame, alarms, tripwire, linkUp>>
    BY <1>4 DEF RunPause
  <2>2. cursor' \in {cursor, alarms} BY <1>3, <2>1
  <2> QED BY <1>0, <1>2, <2>1, <2>2 DEF PluginState
<1>5. CASE RunUnpause
  <2>1. /\ EndStep("command") /\ paused' = FALSE
        /\ UNCHANGED <<frame, alarms, tripwire, linkUp, cursor, phase>>
    BY <1>5 DEF RunUnpause
  <2> QED BY <1>0, <1>2, <2>1 DEF PluginState
<1>6. CASE RunStep
  <2>1. Head(commands).call \in Calls /\ Head(commands).ticks \in Nat \ {0}
    BY <1>6, Taken, Fields DEF RunStep, NextCommand, Queues
  <2>2. target' \in Nat /\ running' \in 0..MaxCalls /\ running' # 0
    BY <1>6, <2>1, Fields DEF RunStep, PluginState
  <2>3. [by |-> "command", at |-> frame] \in Ends BY DEF Ends, PluginState
  <2>4. ended' \in [Calls -> Ends \cup {None}] BY <1>6, <2>3 DEF RunStep, PluginState
  <2>5. target' # -1 BY <2>2
  <2>6. tripwire' \in Trip /\ paused' = FALSE /\ UNCHANGED <<frame, alarms, cursor, phase, linkUp>>
    BY <1>6 DEF RunStep, Trip
  <2> QED BY <2>2, <2>4, <2>5, <2>6 DEF PluginState
<1>7. CASE Repause
  <2>1. /\ \E acks, ok : Push(acks, ok)
        /\ EndStep("target") /\ phase' \in {"queries", "none"} /\ paused' = TRUE
        /\ UNCHANGED <<frame, alarms, tripwire, linkUp>>
    BY <1>7 DEF Repause
  <2>2. cursor' \in {cursor, alarms} BY <1>3, <2>1
  <2> QED BY <1>0, <1>2, <2>1, <2>2 DEF PluginState
<1>8. CASE PollAlarms
  <2>1. cursor' = alarms /\ cursor + 1 \in 1..MaxAlarms /\ UNCHANGED <<frame, alarms, phase, linkUp>>
    BY <1>0, <1>8 DEF PollAlarms, PluginState
  <2>2. CASE target >= 0
    <3>1. tripwire' = cursor + 1 /\ paused' = TRUE /\ EndStep("tripwire")
      BY <1>8, <2>2 DEF PollAlarms
    <3> QED BY <1>0, <1>2, <2>1, <3>1 DEF PluginState, Trip
  <2>3. CASE ~(target >= 0)
    BY <1>0, <1>8, <2>1, <2>3 DEF PollAlarms, PluginState
  <2> QED BY <2>2, <2>3
<1>9. CASE Receive \/ OnUpdate \/ NotReached \/ SimStatus \/ EndDrain \/ LinkBreaks \/ Reconnect
  <2>1. /\ phase' \in {"none", "commands", "queries"} /\ linkUp' \in BOOLEAN /\ cursor' \in {0, cursor}
        /\ UNCHANGED <<paused, frame, alarms, target, tripwire, running, ended>>
    BY <1>9 DEF PluginState, Receive, OnUpdate, NotReached, SimStatus, EndDrain, LinkBreaks, Reconnect
  <2> QED BY <1>0, <2>1 DEF PluginState
<1>10. CASE Server \/ Tool \/ UNCHANGED vars
  BY <1>10 DEF PluginState, Server, ReceiveEntity, CountEvent, InstallEntities, ReceiveAck, ReceiveStatus,
       Tool, CallTool, Ask, ReportPushed, ReportUnpushed, QueryTimeout, ReturnWithoutReport, vars
<1> QED BY <1>1, <1>4, <1>5, <1>6, <1>7, <1>8, <1>9, <1>10 DEF Next, Plugin, Drain, Game

\* Every step keeps the types of the server's state, and the bounds.
LEMMA ServerStep ==
  ASSUME Queues, PluginState, ServerState, Faults, Tooling, [Next]_vars
  PROVE  ServerState' /\ Faults'
<1> USE DEF gameVars, pluginVars, wireVars, modelVars, toolVars
<1>0. {MaxCalls, MaxFaults} \subseteq Nat BY Fields
<1>1. CASE Game \/ Plugin \/ LinkBreaks \/ Reconnect \/ UNCHANGED vars
  <2>1. UNCHANGED <<modelVars, toolVars>>
    BY <1>1 DEF Game, Tick, RaiseAlarm, PressPause, Plugin, Receive, OnUpdate, Drain, RunPause, RunUnpause,
         RunStep, Repause, NotReached, SimStatus, EndDrain, PollAlarms, LinkBreaks, Reconnect, vars
  <2>2. faults' = faults \/ Fault
    BY <1>1 DEF Game, Tick, RaiseAlarm, PressPause, Plugin, Receive, OnUpdate, Drain, RunPause, RunUnpause,
         RunStep, Repause, NotReached, SimStatus, EndDrain, PollAlarms, LinkBreaks, Reconnect, vars,
         Push, Extraction
  <2> QED BY <1>0, <2>1, <2>2 DEF ServerState, Faults, Fault
<1>2. CASE ReceiveEntity \/ CountEvent \/ InstallEntities
  <2>1. entityCh # <<>> => Head(entityCh) \in Nat BY Taken DEF Queues
  <2> QED BY <1>2, <2>1 DEF ServerState, Faults, ReceiveEntity, CountEvent, InstallEntities
<1>3. CASE ReceiveAck BY <1>3 DEF ServerState, Faults, ReceiveAck
<1>4. CASE ReceiveStatus
  <2>1. Head(toServer) \in Messages /\ Head(toServer).kind = "status"
    BY <1>4, Taken DEF ReceiveStatus, Queues
  <2>2. Head(toServer) \in Status BY <2>1, Fields
  <2> QED BY <1>4, <2>2 DEF ServerState, Faults, ReceiveStatus
<1>5. CASE CallTool BY <1>0, <1>5 DEF ServerState, Faults, CallTool
<1>6. CASE Ask BY <1>6 DEF ServerState, Faults, Ask
<1>7. CASE ReportPushed \/ ReportUnpushed
  <2>1. status \in Status BY <1>7 DEF ReportPushed, ReportUnpushed, Tooling, ServerState
  <2>2. status.tripwire \in Trip BY <2>1 DEF Status
  <2>3. \A p \in BOOLEAN : [pushed |-> p, world |-> world, tripwire |-> status.tripwire] \in Reports
    BY <2>2 DEF Reports, ServerState
  <2> QED BY <1>7, <2>3 DEF ServerState, Faults, ReportPushed, ReportUnpushed, Report
<1>8. CASE QueryTimeout \/ ReturnWithoutReport
  <2>1. \/ UNCHANGED <<lapses, faults>>
        \/ lapses' = lapses + 1 /\ Fault
    BY <1>8 DEF QueryTimeout, ReturnWithoutReport, Lapse
  <2>2. tool' \in {"poll", "idle"} /\ UNCHANGED <<modelVars, calls, before, status, report>>
    BY <1>8 DEF QueryTimeout, ReturnWithoutReport, Lapse
  <2>3. Faults' BY <1>0, <2>1 DEF Faults, Fault
  <2> QED BY <2>2, <2>3 DEF ServerState
<1> QED BY <1>1, <1>2, <1>3, <1>4, <1>5, <1>6, <1>7, <1>8 DEF Next, Server, Tool

----------------------------------------------------------------------------
(* Queues and what holds of their elements.                                 *)

\* Taking the first element.
LEMMA TakenFrom ==
  ASSUME NEW T, NEW s \in Seq(T), s # <<>>
  PROVE  /\ Head(s) \in ToSet(s) /\ ToSet(Tail(s)) \subseteq ToSet(s)
         /\ \A S : Once(s, S) => /\ Once(Tail(s), S)
                                 /\ Head(s) \in S => ~Hits(Tail(s), S)
         /\ Rising(s) => /\ Rising(Tail(s))
                         /\ Head(s) \in Command =>
                              \A m \in ToSet(Tail(s)) \cap Command : Head(s).call < m.call
<1>1. /\ Tail(s) \in Seq(T) /\ Len(s) \in Nat /\ Len(s) >= 1 /\ Head(s) = s[1]
      /\ Len(Tail(s)) = Len(s) - 1 /\ \A k \in 1..Len(Tail(s)) : Tail(s)[k] = s[k + 1]
      /\ DOMAIN s = 1..Len(s) /\ DOMAIN Tail(s) = 1..Len(Tail(s))
  BY Taken, LenProperties
<1>2. /\ \A k \in 1..Len(Tail(s)) : k + 1 \in 1..Len(s) /\ k + 1 # 1 /\ 1 < k + 1
      /\ 1 \in 1..Len(s)
  BY <1>1
<1>3. Head(s) \in ToSet(s) /\ ToSet(Tail(s)) \subseteq ToSet(s) BY <1>1, <1>2 DEF ToSet
<1>4. ASSUME NEW S, Once(s, S) PROVE Once(Tail(s), S) /\ (Head(s) \in S => ~Hits(Tail(s), S))
  <2>1. Once(Tail(s), S) BY <1>1, <1>2, <1>4 DEF Once
  <2>2. ASSUME Head(s) \in S, NEW k \in 1..Len(Tail(s)), Tail(s)[k] \in S PROVE FALSE
    BY <1>1, <1>2, <1>4, <2>2 DEF Once
  <2> QED BY <1>1, <2>1, <2>2 DEF Hits, ToSet
<1>5. ASSUME Rising(s) PROVE Rising(Tail(s))
  <2> SUFFICES ASSUME NEW j \in 1..Len(Tail(s)), NEW k \in 1..Len(Tail(s)), j < k,
                      Tail(s)[j] \in Command, Tail(s)[k] \in Command
               PROVE  Tail(s)[j].call < Tail(s)[k].call
    BY DEF Rising
  <2>1. j + 1 < k + 1 BY <1>1
  <2> QED BY <1>1, <1>2, <1>5, <2>1 DEF Rising
<1>6. ASSUME Rising(s), Head(s) \in Command, NEW k \in 1..Len(Tail(s)), Tail(s)[k] \in Command
      PROVE  Head(s).call < Tail(s)[k].call
  BY <1>1, <1>2, <1>6 DEF Rising
<1> QED BY <1>1, <1>3, <1>4, <1>5, <1>6 DEF ToSet

\* One more element.
LEMMA JoinedTo ==
  ASSUME NEW T, NEW s \in Seq(T), NEW e \in T
  PROVE  /\ ToSet(Append(s, e)) = ToSet(s) \cup {e}
         /\ \A S : Once(s, S) /\ (e \in S => ~Hits(s, S)) => Once(Append(s, e), S)
         /\ Rising(s) /\ (e \in Command => \A m \in ToSet(s) \cap Command : m.call < e.call)
              => Rising(Append(s, e))
<1> DEFINE t == Append(s, e)
<1>1. /\ t \in Seq(T) /\ Len(s) \in Nat /\ Len(t) = Len(s) + 1 /\ t[Len(s) + 1] = e
      /\ \A k \in 1..Len(s) : t[k] = s[k]
      /\ DOMAIN s = 1..Len(s) /\ DOMAIN t = 1..Len(t)
  BY AppendProperties, LenProperties
<1> HIDE DEF t
<1>2. \A k \in 1..Len(t) : k \in 1..Len(s) \/ k = Len(s) + 1 BY <1>1
<1>3. ToSet(t) = ToSet(s) \cup {e}
  <2>1. Len(s) + 1 \in 1..Len(t) /\ \A k \in 1..Len(s) : k \in 1..Len(t) BY <1>1
  <2> QED BY <1>1, <1>2, <2>1 DEF ToSet
<1>4. ASSUME NEW S, Once(s, S), e \in S => ~Hits(s, S) PROVE Once(t, S)
  <2>1. \A k \in 1..Len(s) : s[k] \in S => e \notin S BY <1>1, <1>4 DEF Hits, ToSet
  <2> SUFFICES ASSUME NEW j \in 1..Len(t), NEW k \in 1..Len(t), t[j] \in S, t[k] \in S PROVE j = k
    BY DEF Once
  <2> QED BY <1>1, <1>2, <1>4, <2>1 DEF Once
<1>5. ASSUME Rising(s), e \in Command => \A m \in ToSet(s) \cap Command : m.call < e.call
      PROVE  Rising(t)
  <2>1. \A k \in 1..Len(s) : s[k] \in Command /\ e \in Command => s[k].call < e.call
    BY <1>1, <1>5 DEF ToSet
  <2> SUFFICES ASSUME NEW j \in 1..Len(t), NEW k \in 1..Len(t), j < k, t[j] \in Command, t[k] \in Command
               PROVE  t[j].call < t[k].call
    BY DEF Rising
  <2>2. j \in 1..Len(s) BY <1>1
  <2> QED BY <1>1, <1>2, <1>5, <2>1, <2>2 DEF Rising
<1> QED BY <1>3, <1>4, <1>5 DEF t

\* Growing by elements outside S.
LEMMA GrownBy ==
  ASSUME NEW T, NEW s \in Seq(T), NEW t \in Seq(T), NEW New, Grown(s, t, New)
  PROVE  /\ ToSet(t) \subseteq ToSet(s) \cup New
         /\ \A S : New \cap S = {} => /\ Once(s, S) => Once(t, S)
                                      /\ Hits(t, S) => Hits(s, S)
<1>1. /\ Len(s) \in Nat /\ Len(t) \in Nat /\ Len(s) <= Len(t) /\ \A k \in 1..Len(s) : t[k] = s[k]
      /\ \A k \in 1..Len(t) : k > Len(s) => t[k] \in New
      /\ DOMAIN s = 1..Len(s) /\ DOMAIN t = 1..Len(t)
  BY LenProperties DEF Grown
<1>2. \A k \in 1..Len(t) : k \in 1..Len(s) \/ t[k] \in New BY <1>1
<1>3. ToSet(t) \subseteq ToSet(s) \cup New BY <1>1, <1>2 DEF ToSet
<1>4. ASSUME NEW S, New \cap S = {}, Once(s, S) PROVE Once(t, S)
  BY <1>1, <1>2, <1>4 DEF Once
<1> QED BY <1>3, <1>4 DEF Hits

\* An empty queue.
LEMMA Emptied == ToSet(<<>>) = {} /\ Rising(<<>>) /\ \A S : Once(<<>>, S) /\ ~Hits(<<>>, S)
BY DEF ToSet, Rising, Once, Hits

Types == Queues /\ PluginState /\ ServerState /\ Faults

\* At the start nothing is under way and no tool has been called.
LEMMA InitIInv == Init => Types /\ Truths
<1> SUFFICES ASSUME Init PROVE Types /\ Truths OBVIOUS
<1>1. Queues BY EmptySeq, Fields DEF Init, Queues
<1>2. PluginState /\ ServerState /\ Faults
  BY Fields DEF Init, PluginState, ServerState, Faults, Trip
<1>3. InOrder /\ AllAhead BY Emptied DEF Init, InOrder, AllAhead
<1>4. Latest /\ OwnEnd /\ TruthfulReport
  BY DEF Init, Latest, OwnEnd, TruthfulReport, Ended
<1>5. Tooling /\ Asking /\ OneQuery /\ AnswersTrue
  BY Emptied DEF Init, Tooling, Asking, OneQuery, AnswersTrue
<1> QED BY <1>1, <1>2, <1>3, <1>4, <1>5 DEF Types, Truths

----------------------------------------------------------------------------
(* The plugin's steps.                                                      *)

\* Steps that neither send nor receive, run or end anything the tools see.
Unseen == UNCHANGED <<commands, queries, toPlugin, toServer, running, ended, tripwire,
                      calls, tool, lapses, status, report>>

\* They change nothing the invariant speaks of.
LEMMA UnseenStep == ASSUME Truths, Unseen PROVE Truths'
<1>1. InOrder' /\ AllAhead' /\ Latest'
  BY DEF Truths, Unseen, InOrder, AllAhead, Ahead, Latest, Rising
<1>2. OwnEnd' /\ TruthfulReport' BY DEF Truths, Unseen, OwnEnd, Ended, TruthfulReport
<1>3. Tooling' BY DEF Truths, Unseen, Tooling, Executed, Truth, Ended
<1>4. Asking' /\ OneQuery' BY DEF Truths, Unseen, Asking, OneQuery, Hits, Once, Current, Answers
<1>5. AnswersTrue' BY DEF Truths, Unseen, AnswersTrue, Answers, Complete, Truth, Ended
<1> QED BY <1>1, <1>2, <1>3, <1>4, <1>5 DEF Truths

\* An ended step has been ended for good, and the step in progress has not.
LEMMA Ending ==
  ASSUME Types, Truths, NEW how \in {"command", "target", "tripwire"}, EndStep(how), calls' = calls
  PROVE  /\ running' = 0
         /\ \A c \in Calls : c # running => ended'[c] = ended[c]
         /\ running # 0 => /\ running \in Calls /\ ended[running] = None
                           /\ ended'[running] # None /\ ended'[running].by = how
         /\ \A c \in Calls : ended[c] # None => ended'[c] = ended[c]
         /\ calls # 0 => calls \in Calls
<1>1. /\ running' = 0 /\ ended \in [Calls -> Ends \cup {None}]
      /\ ended' = IF running = 0 THEN ended ELSE [ended EXCEPT ![running] = [by |-> how, at |-> frame]]
  BY DEF EndStep, Types, PluginState
<1>2. [by |-> how, at |-> frame] # None
  <2>1. [by |-> how, at |-> frame] \in [by : {"command", "target", "tripwire"}, at : Nat]
    BY DEF Types, PluginState
  <2> QED BY <2>1, NoneAssumption
<1>3. running # 0 => running \in Calls /\ ended[running] = None
  <2>1. running \in 0..MaxCalls BY DEF Types, PluginState
  <2>2. running # 0 => running \in Calls BY <2>1, Fields
  <2> QED BY <2>1, <2>2 DEF Truths, Latest
<1>4. calls # 0 => calls \in Calls BY Fields DEF Types, ServerState
<1>5. running # 0 => ended'[running] = [by |-> how, at |-> frame]
  BY <1>1, <1>3
<1> QED BY <1>1, <1>2, <1>3, <1>4, <1>5

\* What the end of a step leaves true.
LEMMA EndKeeps ==
  ASSUME Types, Truths, NEW how \in {"command", "target", "tripwire"}, EndStep(how),
         UNCHANGED <<calls, tool, report>>
  PROVE  /\ Latest' /\ TruthfulReport' /\ (Executed => Executed') /\ (\A m : Truth(m) => Truth(m)')
         /\ \A m \in Command : Ahead(m) => Ahead(m)'
<1>1. /\ running' = 0
      /\ \A c \in Calls : c # running => ended'[c] = ended[c]
      /\ running # 0 => running \in Calls /\ ended[running] = None /\ ended'[running] # None
      /\ \A c \in Calls : ended[c] # None => ended'[c] = ended[c]
      /\ calls # 0 => calls \in Calls
  BY Ending
<1>2. Latest /\ TruthfulReport /\ running \in 0..MaxCalls /\ calls \in Nat
  BY Fields DEF Truths, Types, PluginState, ServerState
<1>3. Latest'
  <2>1. ASSUME NEW c \in Calls, c > calls PROVE ended'[c] = None
    <3>1. c # running BY <1>2, <2>1, Fields DEF Latest
    <3> QED BY <1>1, <1>2, <2>1, <3>1 DEF Latest
  <2> QED BY <1>1, <1>2, <2>1 DEF Latest
<1>4. TruthfulReport' BY <1>1, <1>2 DEF TruthfulReport
<1>5. Executed => Executed' BY <1>1 DEF Executed
<1>6. \A m : Truth(m) => Truth(m)' BY <1>1 DEF Truth, Ended
<1>7. ASSUME NEW m \in Command, Ahead(m) PROVE Ahead(m)'
  <2>1. m.call \in Calls /\ m.call \in Nat /\ m.call >= 1 BY Fields
  <2>2. ASSUME NEW c \in Calls, c >= m.call PROVE ended'[c] = None
    <3>1. c # running BY <1>2, <1>7, <2>1, <2>2, Fields DEF Ahead
    <3> QED BY <1>1, <1>7, <2>2, <3>1 DEF Ahead
  <2> QED BY <1>1, <1>7, <2>1, <2>2 DEF Ahead
<1> QED BY <1>3, <1>4, <1>5, <1>6, <1>7

\* What the plugin sends, acknowledgements and entities, leaves true.
LEMMA SendKeeps ==
  ASSUME Types, Truths, Types', UNCHANGED <<calls, tool, lapses, status, toPlugin, queries>>,
         Executed => Executed', \A m : Truth(m) => Truth(m)', NEW New \in SUBSET Acks,
         Grown(toServer, toServer', New \cup Entity),
         \A m \in New : m.call <= calls /\ (tool = "stepack" /\ m.call = calls => Executed')
  PROVE  Tooling' /\ Asking' /\ OneQuery' /\ AnswersTrue'
<1>1. toServer \in Seq(Messages) /\ toServer' \in Seq(Messages) BY DEF Types, Queues
<1>2. (New \cup Entity) \cap Status = {} BY Fields
<1>3. Answers \subseteq Status /\ Answers' = Answers /\ Current' = Current BY DEF Answers, Current
<1>4. (New \cup Entity) \cap Answers = {} BY <1>2, <1>3
<1>5. /\ ToSet(toServer') \subseteq ToSet(toServer) \cup New \cup Entity
      /\ Once(toServer, Answers) => Once(toServer', Answers)
      /\ Hits(toServer', Answers) => Hits(toServer, Answers)
  BY <1>1, <1>4, GrownBy
<1>6. Tooling'
  <2>1. \A m \in ToSet(toServer') \cap Acks : m \in ToSet(toServer) \/ m \in New
    BY <1>5, Fields
  <2> QED BY <2>1 DEF Truths, Tooling
<1>7. Asking' BY <1>2, <1>5 DEF Truths, Asking
<1>8. OneQuery'
  <2>1. /\ Hits(toServer', Answers) => Hits(toServer, Answers)
        /\ Once(toServer', Answers) /\ OneQuery
    BY <1>5 DEF Truths, OneQuery
  <2> HIDE DEF Hits, Once, Answers, Current
  <2>2. /\ Hits(toServer, Answers)' = Hits(toServer', Answers)
        /\ Once(toServer, Answers)' = Once(toServer', Answers)
        /\ Hits(toPlugin, Current)' = Hits(toPlugin, Current)
        /\ Hits(queries, {lapses})' = Hits(queries, {lapses})
        /\ Once(toPlugin, Current)' = Once(toPlugin, Current)
        /\ Once(queries, {lapses})' = Once(queries, {lapses})
    BY <1>3 DEF Hits, Once
  <2> QED BY <2>1, <2>2 DEF OneQuery
<1>9. AnswersTrue' BY <1>3, <1>4, <1>5 DEF Truths, AnswersTrue, Complete
<1> QED BY <1>6, <1>7, <1>8, <1>9

\* A command that is run has no step of its call or a later one before it, and
\* those that wait come later.
LEMMA Running ==
  ASSUME Types, Truths, NEW kind, NextCommand(kind)
  PROVE  /\ Head(commands) \in Command /\ Head(commands).call \in Calls /\ Head(commands).kind = kind
         /\ Ahead(Head(commands)) /\ ~Executed /\ ~Ended
         /\ ToSet(commands') \subseteq ToSet(commands) /\ Rising(commands')
         /\ \A m \in ToSet(commands') : m \in Command /\ Head(commands).call < m.call
         /\ \A m \in ToSet(toPlugin) \cap Command : Head(commands).call < m.call
<1>1. commands \in Seq(Command) /\ commands # <<>> /\ commands' = Tail(commands)
      /\ Head(commands).kind = kind
  BY DEF Types, Queues, NextCommand
<1>2. Head(commands) \in Command /\ Head(commands).call \in Calls /\ commands' \in Seq(Command)
  BY <1>1, Taken, Fields
<1>3. /\ Head(commands) \in ToSet(commands) /\ ToSet(commands') \subseteq ToSet(commands)
      /\ Rising(commands') /\ \A m \in ToSet(commands') \cap Command : Head(commands).call < m.call
  BY <1>1, <1>2, TakenFrom DEF Truths, InOrder
<1>4. \A m \in ToSet(commands') : m \in Command
  BY <1>2, ElementOfSeq, LenProperties DEF ToSet
<1>5. Ahead(Head(commands)) BY <1>3 DEF Truths, AllAhead
<1>6. ~Executed /\ ~Ended
  <2>1. calls # 0 => calls \in Calls BY Fields DEF Types, ServerState
  <2>2. calls \in Nat /\ running \in Nat BY Fields DEF Types, ServerState, PluginState
  <2> QED BY <1>2, <1>5, <2>1, <2>2, Fields DEF Executed, Ended, Ahead
<1> QED BY <1>1, <1>2, <1>3, <1>4, <1>5, <1>6 DEF Truths, InOrder

\* The order of the commands when one of them has been taken to be run.
LEMMA OrderKept ==
  ASSUME Types, Truths, NEW kind, NextCommand(kind), toPlugin' = toPlugin
  PROVE  InOrder'
<1>1. ToSet(commands') \subseteq ToSet(commands) /\ Rising(commands') BY Running
<1>2. Rising(toPlugin)' BY DEF Truths, InOrder, Rising
<1>3. Rising(commands)' BY <1>1 DEF Rising
<1> QED BY <1>1, <1>2, <1>3 DEF Truths, InOrder

\* A command other than a step ends the step in progress, which is not the one
\* of the latest call.
LEMMA StopStep == ASSUME Types, Truths, Types', RunPause \/ RunUnpause PROVE Truths'
<1>1. PICK kind \in {"pause", "unpause"} : NextCommand(kind) BY DEF RunPause, RunUnpause
<1> DEFINE h == Head(commands)
           a == Ack(h.call)
<1>2. /\ h \in Command /\ h.call \in Calls /\ h.kind = kind /\ Ahead(h) /\ ~Executed /\ ~Ended
      /\ ToSet(commands') \subseteq ToSet(commands)
      /\ \A m \in ToSet(commands') : m \in Command
  BY <1>1, Running
<1>3. /\ EndStep("command")
      /\ UNCHANGED <<calls, tool, report, lapses, status, toPlugin, queries, tripwire>>
  BY DEF RunPause, RunUnpause, modelVars, toolVars
<1>4. a \in Acks /\ a.call = h.call BY <1>2 DEF Ack, Acks
<1>5. Grown(toServer, toServer', {a} \cup Entity)
  <2>1. CASE RunPause
    <3>1. /\ <<a>> \in Seq({a}) /\ <<a, a>> \in Seq({a}) /\ {a} \in SUBSET Acks
      BY <1>4
    <3>2. Push(<<a>>, TRUE) \/ Push(<<a, a>>, FALSE) \/ Push(<<a>>, FALSE) BY <2>1 DEF RunPause
    <3> HIDE DEF a
    <3> QED BY <3>1, <3>2, Pushed DEF Types
  <2>2. CASE RunUnpause
    <3>1. toServer \in Seq(Messages) /\ a \in Messages BY <1>4 DEF Types, Queues, Messages
    <3>2. toServer' = Append(toServer, a) \/ toServer' = toServer BY <2>2 DEF RunUnpause, Answer
    <3> HIDE DEF a
    <3>3. Grown(toServer, toServer', {a}) BY <3>1, <3>2, Joined
    <3> QED BY <3>3 DEF Grown
  <2> QED BY <2>1, <2>2
<1>6. /\ Latest' /\ TruthfulReport' /\ (Executed => Executed') /\ (\A m : Truth(m) => Truth(m)')
      /\ \A m \in Command : Ahead(m) => Ahead(m)'
  BY <1>3, EndKeeps
<1>7. Tooling' /\ Asking' /\ OneQuery' /\ AnswersTrue'
  <2>1. a.call <= calls /\ ~(tool = "stepack" /\ a.call = calls)
    BY <1>1, <1>2, <1>4 DEF Ahead
  <2> HIDE DEF a
  <2>2. {a} \in SUBSET Acks BY <1>4
  <2>3. \A m \in {a} : m.call <= calls /\ (tool = "stepack" /\ m.call = calls => Executed') BY <2>1
  <2> QED BY <1>3, <1>5, <1>6, <2>2, <2>3, SendKeeps
<1>8. InOrder' BY <1>1, <1>3, OrderKept
<1>9. AllAhead' BY <1>2, <1>3, <1>6 DEF Truths, AllAhead
<1>10. OwnEnd'
  <2>1. running' = 0 /\ (\A c \in Calls : c # running => ended'[c] = ended[c])
        /\ (calls # 0 => calls \in Calls)
    BY <1>3, Ending
  <2>2. ~Ended' BY <1>2, <1>3, <2>1 DEF Executed, Ended
  <2> QED BY <1>3, <2>1, <2>2 DEF OwnEnd
<1> QED BY <1>6, <1>7, <1>8, <1>9, <1>10 DEF Truths

\* A step that is run replaces the one in progress, and takes its record with it.
LEMMA RunStepStep == ASSUME Types, Truths, Types', RunStep PROVE Truths'
<1>1. NextCommand("step") BY DEF RunStep
<1> DEFINE h == Head(commands)
           a == Ack(h.call)
<1>2. /\ h \in Command /\ h.call \in Calls /\ h.kind = "step" /\ Ahead(h) /\ ~Executed /\ ~Ended
      /\ ToSet(commands') \subseteq ToSet(commands)
      /\ \A m \in ToSet(commands') : m \in Command /\ h.call < m.call
      /\ \A m \in ToSet(toPlugin) \cap Command : h.call < m.call
  BY <1>1, Running
<1>3. /\ running' = h.call /\ tripwire' = None
      /\ ended' = IF running = 0 THEN ended
                  ELSE [ended EXCEPT ![running] = [by |-> "command", at |-> frame]]
      /\ UNCHANGED <<calls, tool, report, lapses, status, toPlugin, queries>>
  BY DEF RunStep, modelVars, toolVars
<1>4. a \in Acks /\ a.call = h.call BY <1>2 DEF Ack, Acks
<1>5. Grown(toServer, toServer', {a} \cup Entity)
  <2>1. toServer \in Seq(Messages) /\ a \in Messages BY <1>4 DEF Types, Queues, Messages
  <2>2. toServer' = Append(toServer, a) \/ toServer' = toServer BY DEF RunStep, Answer
  <2> HIDE DEF a
  <2>3. Grown(toServer, toServer', {a}) BY <2>1, <2>2, Joined
  <2> QED BY <2>3 DEF Grown
<1>6. /\ running \in 0..MaxCalls /\ calls \in Nat /\ h.call \in Nat /\ h.call >= 1
      /\ running < h.call /\ h.call <= calls /\ MaxCalls \in Nat
      /\ (running # 0 => running \in Calls /\ ended[running] = None)
      /\ ended \in [Calls -> Ends \cup {None}]
  BY <1>2, Fields DEF Types, PluginState, ServerState, Ahead, Truths, Latest
<1>7. /\ \A c \in Calls : c >= h.call => ended'[c] = None
      /\ \A c \in Calls : ended[c] # None => ended'[c] = ended[c]
  <2>1. \A c \in Calls : c # running => ended'[c] = ended[c] BY <1>3, <1>6
  <2>2. \A c \in Calls : c >= h.call => c # running BY <1>6, Fields
  <2>3. \A c \in Calls : c >= h.call => ended[c] = None BY <1>2 DEF Ahead
  <2>4. ASSUME NEW c \in Calls, ended[c] # None PROVE c # running
    <3>1. running \in Nat BY <1>6
    <3>2. c # 0 BY Fields
    <3> QED BY <1>6, <2>4, <3>1, <3>2
  <2> HIDE DEF h
  <2>5. \A c \in Calls : c >= h.call => ended'[c] = None BY <2>1, <2>2, <2>3
  <2>6. \A c \in Calls : ended[c] # None => ended'[c] = ended[c] BY <2>1, <2>4
  <2> QED BY <2>5, <2>6
<1>8. Latest'
  <2>1. \A c \in Calls : c > calls => c >= h.call BY <1>6, Fields
  <2> QED BY <1>3, <1>6, <1>7, <2>1 DEF Truths, Latest
<1>9. TruthfulReport' BY <1>3, <1>7 DEF Truths, TruthfulReport
<1>10. InOrder' BY <1>1, <1>3, OrderKept
<1>11. AllAhead'
  <2>1. ASSUME NEW m \in Command, Ahead(m), h.call < m.call PROVE Ahead(m)'
    <3>1. m.call \in Calls /\ m.call \in Nat BY Fields
    <3>2. \A c \in Calls : c >= m.call => c >= h.call BY <1>6, <2>1, <3>1, Fields
    <3> QED BY <1>3, <1>7, <2>1, <3>1, <3>2 DEF Ahead
  <2> QED BY <1>2, <1>3, <2>1 DEF Truths, AllAhead
<1>12. OwnEnd'
  <2>1. calls # 0 => calls \in Calls BY Fields DEF Types, ServerState
  <2>2. ~Ended' BY <1>3, <1>6, <1>7, <2>1 DEF Ended
  <2> QED BY <1>3, <2>2 DEF OwnEnd
<1>13. Tooling' /\ Asking' /\ OneQuery' /\ AnswersTrue'
  <2>1. a.call <= calls /\ (a.call = calls => Executed')
    BY <1>3, <1>4, <1>6 DEF Executed
  <2>2. \A m : Truth(m) => Truth(m)' BY <1>2 DEF Truth
  <2> HIDE DEF a
  <2>3. {a} \in SUBSET Acks BY <1>4
  <2>4. \A m \in {a} : m.call <= calls /\ (tool = "stepack" /\ m.call = calls => Executed') BY <2>1
  <2> QED BY <1>2, <1>3, <1>5, <2>2, <2>3, <2>4, SendKeeps
<1> QED BY <1>8, <1>9, <1>10, <1>11, <1>12, <1>13 DEF Truths

\* The step in progress reaches its target, or a tripwire cuts it short and is
\* written into the record.
LEMMA EndsStep ==
  ASSUME Types, Truths, Types',
         NEW how \in {"target", "tripwire"}, EndStep(how), target >= 0,
         how = "target" => tripwire' = tripwire,
         how = "tripwire" => tripwire' # None,
         UNCHANGED <<calls, tool, report, lapses, status, toPlugin, queries, commands>>,
         Grown(toServer, toServer', Entity)
  PROVE  Truths'
<1>1. /\ Latest' /\ TruthfulReport' /\ (Executed => Executed') /\ (\A m : Truth(m) => Truth(m)')
      /\ \A m \in Command : Ahead(m) => Ahead(m)'
  BY EndKeeps
<1>2. InOrder' BY DEF Truths, InOrder, Rising
<1>3. AllAhead'
  <2>1. \A m \in ToSet(commands) : m \in Command BY ElementOfSeq, LenProperties DEF ToSet, Types, Queues
  <2> QED BY <1>1, <2>1 DEF Truths, AllAhead
<1>4. Tooling' /\ Asking' /\ OneQuery' /\ AnswersTrue'
  <2>1. {} \in SUBSET Acks /\ Grown(toServer, toServer', {} \cup Entity) BY DEF Grown
  <2> QED BY <1>1, <2>1, SendKeeps
<1>5. OwnEnd'
  <2>1. /\ running' = 0
        /\ \A c \in Calls : c # running => ended'[c] = ended[c]
        /\ running \in Calls /\ ended'[running].by = how
        /\ calls # 0 => calls \in Calls
    <3>1. running # 0 BY DEF Types, PluginState
    <3> QED BY <3>1, Ending
  <2>2. CASE running = calls
    BY <2>1, <2>2 DEF Truths, OwnEnd, Ended
  <2>3. CASE running # calls
    <3>1. running <= calls /\ running # 0 /\ running \in Nat /\ calls \in Nat
      BY Fields DEF Truths, Latest, Types, PluginState, ServerState
    <3>2. ~Ended BY <2>1, <3>1 DEF Truths, Latest, Ended
    <3>3. ~Ended' BY <2>1, <2>3, <3>2 DEF Ended
    <3> QED BY <2>1, <3>3 DEF OwnEnd
  <2> QED BY <2>2, <2>3
<1> QED BY <1>1, <1>2, <1>3, <1>4, <1>5 DEF Truths

\* The step in progress has reached its target.
LEMMA RepauseStep == ASSUME Types, Truths, Types', Repause PROVE Truths'
<1>1. PICK ok \in BOOLEAN : Push(<<>>, ok) BY DEF Repause
<1>2. <<>> \in Seq({}) /\ {} \in SUBSET Acks BY EmptySeq
<1>3. Grown(toServer, toServer', {} \cup Entity) BY <1>1, <1>2, Pushed DEF Types
<1>4. Grown(toServer, toServer', Entity) BY <1>3 DEF Grown
<1>5. /\ EndStep("target") /\ target >= 0 /\ tripwire' = tripwire
      /\ UNCHANGED <<calls, tool, report, lapses, status, toPlugin, queries, commands>>
  BY DEF Repause, Reached, modelVars, toolVars
<1> QED BY <1>4, <1>5, EndsStep

\* A critical announcement cuts the step short; without a step it is only sent.
LEMMA PollAlarmsStep == ASSUME Types, Truths, Types', PollAlarms PROVE Truths'
<1>1. CASE target >= 0
  <2>1. PICK ok \in BOOLEAN :
          toServer' = toServer \o IF ok THEN <<[kind |-> "entity", frame |-> frame]>> ELSE <<>>
    BY <1>1 DEF PollAlarms
  <2>2. <<>> \in Seq({}) /\ {} \in SUBSET Acks BY EmptySeq
  <2>3. Grown(toServer, toServer', {} \cup Entity) BY <2>1, <2>2, Pushed DEF Types
  <2>4. Grown(toServer, toServer', Entity) BY <2>3 DEF Grown
  <2>5. /\ EndStep("tripwire") /\ tripwire' = cursor + 1
        /\ UNCHANGED <<calls, tool, report, lapses, status, toPlugin, queries, commands>>
    BY <1>1 DEF PollAlarms, modelVars, toolVars
  <2>6. tripwire' # None
    <3>1. cursor + 1 \in Nat BY Fields DEF Types, PluginState
    <3> QED BY <2>5, <3>1, NoneAssumption
  <2> QED BY <1>1, <2>4, <2>5, <2>6, EndsStep
<1>2. CASE ~(target >= 0)
  <2>1. Unseen BY <1>2 DEF PollAlarms, Unseen, modelVars, toolVars
  <2> QED BY <2>1, UnseenStep
<1> QED BY <1>1, <1>2

\* What arrives is queued behind what is there.
LEMMA ReceiveStep == ASSUME Types, Truths, Types', Receive PROVE Truths'
<1> DEFINE m == Head(toPlugin)
<1>1. /\ toPlugin \in Seq(Command \cup Query) /\ toPlugin # <<>> /\ toPlugin' = Tail(toPlugin)
      /\ commands \in Seq(Command) /\ queries \in Seq(0..MaxFaults)
      /\ UNCHANGED <<toServer, running, ended, tripwire, calls, tool, lapses, status, report>>
  BY DEF Receive, modelVars, toolVars, Types, Queues
<1>2. /\ m \in ToSet(toPlugin) /\ ToSet(toPlugin') \subseteq ToSet(toPlugin) /\ Rising(toPlugin')
      /\ Once(toPlugin', Current) /\ (m \in Current => ~Hits(toPlugin', Current))
      /\ m \in Command => \A n \in ToSet(toPlugin') \cap Command : m.call < n.call
  BY <1>1, TakenFrom DEF Truths, InOrder, OneQuery
<1>3. m \in Command \/ m \in Query BY <1>1, Taken
<1>4. /\ Current' = Current /\ Answers' = Answers /\ Current \subseteq Query
      /\ \A n \in Command : n \notin Query
  BY <1>1, Fields DEF Current, Answers
<1>5. Latest' /\ OwnEnd' /\ TruthfulReport' /\ Tooling'
  BY <1>1 DEF Truths, Latest, OwnEnd, TruthfulReport, Tooling, Executed, Ended, Truth
<1>6. AnswersTrue' BY <1>1, <1>4 DEF Truths, AnswersTrue, Complete, Truth, Ended
<1>7. CASE m \in Command
  <2>1. m.kind # "sim_status" BY <1>7, Fields
  <2>2. commands' = Append(commands, m) /\ queries' = queries BY <2>1 DEF Receive
  <2> HIDE DEF m
  <2>3. \A n \in ToSet(commands) : n.call < m.call BY <1>2, <1>7 DEF Truths, InOrder
  <2>4. ToSet(commands') = ToSet(commands) \cup {m} /\ Rising(commands')
    BY <1>1, <1>7, <2>2, <2>3, JoinedTo DEF Truths, InOrder
  <2>5. InOrder'
    <3>1. Rising(commands)' /\ Rising(toPlugin)' BY <1>2, <2>4 DEF Rising
    <3> QED BY <1>2, <1>7, <2>4, <3>1 DEF Truths, InOrder
  <2>6. AllAhead' BY <1>1, <1>2, <1>7, <2>4 DEF Truths, AllAhead, Ahead
  <2>7. Asking' BY <1>1, <1>2, <2>2 DEF Truths, Asking
  <2>8. OneQuery' BY <1>1, <1>2, <1>4, <2>2 DEF Truths, OneQuery, Hits, Once
  <2> QED BY <1>5, <1>6, <2>5, <2>6, <2>7, <2>8 DEF Truths
<1>8. CASE m \in Query
  <2>1. m.kind = "sim_status" /\ m.id \in 0..MaxFaults BY <1>8, Fields
  <2>2. queries' = Append(queries, m.id) /\ commands' = commands BY <2>1 DEF Receive
  <2> HIDE DEF m
  <2>3. m.id = lapses => m \in Current BY <1>8 DEF Current
  <2>4. m.id \in {lapses} => ~Hits(queries, {lapses}) /\ ~Hits(toServer, Answers)
                             /\ ~Hits(toPlugin', Current) /\ tool = "asked"
    BY <1>2, <2>3 DEF Truths, OneQuery, Hits
  <2>5. ToSet(queries') = ToSet(queries) \cup {m.id} /\ Once(queries', {lapses})
    BY <1>1, <2>1, <2>2, <2>4, JoinedTo DEF Truths, OneQuery
  <2>6. InOrder'
    <3>1. Rising(commands)' /\ Rising(toPlugin)' BY <1>2, <2>2 DEF Truths, InOrder, Rising
    <3> QED BY <1>2, <2>2, <3>1 DEF Truths, InOrder
  <2>7. AllAhead' BY <1>1, <1>2, <2>2 DEF Truths, AllAhead, Ahead
  <2>8. Asking'
    <3>1. m.id <= lapses BY <1>2, <1>8 DEF Truths, Asking
    <3> QED BY <1>1, <1>2, <2>5, <3>1 DEF Truths, Asking
  <2>9. OneQuery'
    <3>1. /\ Hits(toPlugin', Current) => Hits(toPlugin, Current)
          /\ Hits(queries', {lapses}) => Hits(queries, {lapses}) \/ m.id \in {lapses}
      BY <1>2, <2>5 DEF Hits
    <3>2. /\ Hits(toPlugin, Current)' = Hits(toPlugin', Current)
          /\ Hits(queries, {lapses})' = Hits(queries', {lapses})
          /\ Hits(toServer, Answers)' = Hits(toServer, Answers)
          /\ Once(toPlugin, Current)' = Once(toPlugin', Current)
          /\ Once(queries, {lapses})' = Once(queries', {lapses})
          /\ Once(toServer, Answers)' = Once(toServer, Answers)
      BY <1>1, <1>4 DEF Hits, Once
    <3>3. m.id \in {lapses} => Hits(toPlugin, Current) BY <1>2, <2>3 DEF Hits
    <3> QED BY <1>1, <1>2, <2>4, <2>5, <3>1, <3>2, <3>3 DEF Truths, OneQuery
  <2> QED BY <1>5, <1>6, <2>6, <2>7, <2>8, <2>9 DEF Truths
<1> QED BY <1>3, <1>7, <1>8

\* The answer to a query says how the latest call stands, if it is the one asked for.
LEMMA SimStatusStep == ASSUME Types, Truths, Types', SimStatus PROVE Truths'
<1> DEFINE i == Head(queries)
           m == [kind |-> "status", id |-> i, paused |-> paused, stepping |-> target >= 0,
                 tripwire |-> tripwire]
<1>1. /\ queries \in Seq(0..MaxFaults) /\ queries # <<>> /\ queries' = Tail(queries)
      /\ toServer \in Seq(Messages) /\ toServer' \in Seq(Messages)
      /\ UNCHANGED <<commands, toPlugin, running, ended, tripwire, calls, tool, lapses, status, report>>
  BY DEF SimStatus, modelVars, toolVars, Types, Queues
<1>2. /\ i \in ToSet(queries) /\ ToSet(queries') \subseteq ToSet(queries) /\ i \in 0..MaxFaults
      /\ Once(queries', {lapses}) /\ (i \in {lapses} => ~Hits(queries', {lapses}))
  BY <1>1, Taken, TakenFrom DEF Truths, OneQuery
<1>3. m \in Status /\ m.id = i /\ m \in Messages
  BY <1>2 DEF Types, PluginState, Status, Messages
<1>4. toServer' = toServer \/ toServer' = Append(toServer, m) BY DEF SimStatus, Answer
<1>5. /\ Current' = Current /\ Answers' = Answers /\ Answers \subseteq Status
      /\ \A n \in Status : n \notin Acks
      /\ m \in Answers => i = lapses
  BY <1>1, <1>3, Fields DEF Current, Answers
<1>6. i = lapses => /\ Hits(queries, {lapses}) /\ ~Hits(toServer, Answers) /\ ~Hits(toPlugin, Current)
                    /\ tool = "asked"
  BY <1>2 DEF Truths, OneQuery, Hits
<1>7. i = lapses /\ Complete(m) => Truth(m)
  <2> SUFFICES ASSUME i = lapses, Complete(m) PROVE Truth(m) OBVIOUS
  <2>1. Executed BY <1>6 DEF Truths, Tooling
  <2>2. m.stepping = (target >= 0) /\ m.tripwire = tripwire OBVIOUS
  <2>3. running = 0
    <3>1. ~m.stepping BY DEF Complete
    <3>2. ~(target >= 0) BY <3>1
    <3> QED BY <3>2 DEF Types, PluginState
  <2>4. Ended BY <2>1, <2>3 DEF Executed, Ended
  <2> QED BY <2>2, <2>4 DEF Truths, OwnEnd, Truth
<1> HIDE DEF m, i
<1>8. /\ ToSet(toServer') \subseteq ToSet(toServer) \cup {m}
      /\ Once(toServer', Answers)
  <2>1. Once(toServer, Answers) /\ (m \in Answers => ~Hits(toServer, Answers))
    BY <1>5, <1>6 DEF Truths, OneQuery
  <2>2. CASE toServer' = Append(toServer, m) BY <1>1, <1>3, <2>1, <2>2, JoinedTo
  <2>3. CASE toServer' = toServer BY <2>1, <2>3
  <2> QED BY <1>4, <2>2, <2>3
<1>9. InOrder' /\ AllAhead' /\ Latest'
  BY <1>1 DEF Truths, InOrder, AllAhead, Ahead, Latest, Rising
<1>10. OwnEnd' /\ TruthfulReport' BY <1>1 DEF Truths, OwnEnd, Ended, TruthfulReport
<1>11. Tooling'
  <2>1. \A n \in ToSet(toServer') \cap Acks : n \in ToSet(toServer) BY <1>3, <1>5, <1>8
  <2> QED BY <1>1, <2>1 DEF Truths, Tooling, Executed, Truth, Ended
<1>12. Asking' BY <1>1, <1>2, <1>3, <1>8 DEF Truths, Asking
<1>13. OneQuery'
  <2>1. /\ Hits(queries', {lapses}) => Hits(queries, {lapses})
        /\ Hits(toServer', Answers) => Hits(toServer, Answers) \/ i = lapses
    BY <1>2, <1>5, <1>8 DEF Hits
  <2>2. /\ Hits(toPlugin, Current)' = Hits(toPlugin, Current)
        /\ Hits(queries, {lapses})' = Hits(queries', {lapses})
        /\ Hits(toServer, Answers)' = Hits(toServer', Answers)
        /\ Once(toPlugin, Current)' = Once(toPlugin, Current)
        /\ Once(queries, {lapses})' = Once(queries', {lapses})
        /\ Once(toServer, Answers)' = Once(toServer', Answers)
    BY <1>1, <1>5 DEF Hits, Once
  <2> QED BY <1>1, <1>2, <1>6, <1>8, <2>1, <2>2 DEF Truths, OneQuery
<1>14. AnswersTrue'
  <2>1. \A n \in ToSet(toServer') \cap Answers : n \in ToSet(toServer) \/ (n = m /\ i = lapses)
    BY <1>5, <1>8
  <2> QED BY <1>1, <1>5, <1>7, <2>1 DEF Truths, AnswersTrue, Complete, Truth, Ended
<1> QED BY <1>9, <1>10, <1>11, <1>12, <1>13, <1>14 DEF Truths

\* A broken connection loses what is under way, and the plugin keeps its queues.
LEMMA LinkBreaksStep == ASSUME Types, Truths, LinkBreaks PROVE Truths'
<1>1. /\ toPlugin' = <<>> /\ toServer' = <<>>
      /\ UNCHANGED <<commands, queries, running, ended, tripwire, calls, tool, lapses, status, report>>
  BY DEF LinkBreaks, modelVars, toolVars
<1>2. InOrder' /\ AllAhead' /\ Latest'
  BY <1>1, Emptied DEF Truths, InOrder, AllAhead, Ahead, Latest, Rising
<1>3. OwnEnd' /\ TruthfulReport' BY <1>1 DEF Truths, OwnEnd, Ended, TruthfulReport
<1>4. Tooling' BY <1>1, Emptied DEF Truths, Tooling, Executed, Truth, Ended
<1>5. Asking' BY <1>1, Emptied DEF Truths, Asking
<1>6. OneQuery'
  <2>1. /\ Hits(queries, {lapses})' = Hits(queries, {lapses})
        /\ Once(queries, {lapses})' = Once(queries, {lapses})
    BY <1>1 DEF Hits, Once
  <2>2. /\ ~Hits(toPlugin, Current)' /\ ~Hits(toServer, Answers)'
        /\ Once(toPlugin, Current)' /\ Once(toServer, Answers)'
    BY <1>1, Emptied DEF Hits, Once
  <2> QED BY <1>1, <2>1, <2>2 DEF Truths, OneQuery
<1>7. AnswersTrue' BY <1>1, Emptied DEF AnswersTrue
<1> QED BY <1>2, <1>3, <1>4, <1>5, <1>6, <1>7 DEF Truths

----------------------------------------------------------------------------
(* The server's steps.                                                      *)

\* The message loop takes the first message, whatever it is.
LEMMA TakesMessage ==
  ASSUME Types, Truths, toServer # <<>>, toServer' = Tail(toServer),
         UNCHANGED <<commands, queries, toPlugin, running, ended, tripwire, calls, lapses, report>>
  PROVE  /\ InOrder' /\ Latest' /\ OwnEnd' /\ TruthfulReport' /\ Asking' /\ AnswersTrue'
         /\ (tool' = "stepack" => tool = "stepack") => AllAhead'
         /\ ToSet(toServer') \subseteq ToSet(toServer) /\ Head(toServer) \in ToSet(toServer)
         /\ Head(toServer) \in Messages
         /\ (tool' = "asked" <=> tool = "asked") => OneQuery'
         /\ Head(toServer) \in Answers => OneQuery'
<1>1. toServer \in Seq(Messages) BY DEF Types, Queues
<1>2. /\ ToSet(toServer') \subseteq ToSet(toServer) /\ Head(toServer) \in ToSet(toServer)
      /\ Once(toServer', Answers) /\ (Head(toServer) \in Answers => ~Hits(toServer', Answers))
  BY <1>1, TakenFrom DEF Truths, OneQuery
<1>3. Head(toServer) \in Messages BY <1>1, Taken
<1>4. Current' = Current /\ Answers' = Answers BY DEF Current, Answers
<1>5. InOrder' /\ Latest' BY DEF Truths, InOrder, Latest, Rising
<1>6. (tool' = "stepack" => tool = "stepack") => AllAhead' BY DEF Truths, AllAhead, Ahead
<1>7. OwnEnd' /\ TruthfulReport' BY DEF Truths, OwnEnd, Ended, TruthfulReport
<1>8. Asking' BY <1>2 DEF Truths, Asking
<1>9. AnswersTrue' BY <1>2, <1>4 DEF Truths, AnswersTrue, Complete, Truth, Ended
<1>10. /\ Hits(toPlugin, Current)' = Hits(toPlugin, Current)
       /\ Hits(queries, {lapses})' = Hits(queries, {lapses})
       /\ Hits(toServer, Answers)' = Hits(toServer', Answers)
       /\ Once(toPlugin, Current)' = Once(toPlugin, Current)
       /\ Once(queries, {lapses})' = Once(queries, {lapses})
       /\ Once(toServer, Answers)' = Once(toServer', Answers)
  BY <1>4 DEF Hits, Once
<1>11. Hits(toServer', Answers) => Hits(toServer, Answers) BY <1>2 DEF Hits
<1>12. (tool' = "asked" <=> tool = "asked") => OneQuery'
  BY <1>2, <1>10, <1>11 DEF Truths, OneQuery
<1>13. Head(toServer) \in Answers => OneQuery'
  <2>1. Head(toServer) \in Answers => Hits(toServer, Answers) BY <1>2 DEF Hits
  <2> QED BY <1>2, <1>10, <1>11, <2>1 DEF Truths, OneQuery
<1> QED BY <1>2, <1>3, <1>5, <1>6, <1>7, <1>8, <1>9, <1>12, <1>13

\* Entities go to the Populator and mean nothing to the tools.
LEMMA ReceiveEntityStep == ASSUME Types, Truths, ReceiveEntity PROVE Truths'
<1>1. /\ toServer # <<>> /\ toServer' = Tail(toServer)
      /\ UNCHANGED <<commands, queries, toPlugin, running, ended, tripwire, calls, lapses, report,
                     tool, status>>
  BY DEF ReceiveEntity, pluginVars, toolVars
<1>2. /\ InOrder' /\ AllAhead' /\ Latest' /\ OwnEnd' /\ TruthfulReport' /\ Asking' /\ AnswersTrue'
      /\ OneQuery' /\ ToSet(toServer') \subseteq ToSet(toServer)
  BY <1>1, TakesMessage
<1>3. Tooling' BY <1>1, <1>2 DEF Truths, Tooling, Executed, Truth, Ended
<1> QED BY <1>2, <1>3 DEF Truths

\* A step's own acknowledgement says that the plugin has run it.
LEMMA ReceiveAckStep == ASSUME Types, Truths, ReceiveAck PROVE Truths'
<1>1. /\ toServer # <<>> /\ toServer' = Tail(toServer) /\ Head(toServer).kind = "ack"
      /\ UNCHANGED <<commands, queries, toPlugin, running, ended, tripwire, calls, lapses, report,
                     status>>
      /\ tool' = IF Head(toServer).call # calls THEN tool
                 ELSE CASE tool = "ack" -> "idle" [] tool = "stepack" -> "poll" [] OTHER -> tool
  BY DEF ReceiveAck, pluginVars
<1>2. /\ tool' = "stepack" => tool = "stepack"
      /\ tool' = "asked" <=> tool = "asked"
      /\ tool' = "push" => tool = "push"
      /\ tool' = "poll" => tool = "poll" \/ (tool = "stepack" /\ Head(toServer).call = calls)
  BY <1>1
<1>3. /\ InOrder' /\ AllAhead' /\ Latest' /\ OwnEnd' /\ TruthfulReport' /\ Asking' /\ AnswersTrue'
      /\ OneQuery' /\ ToSet(toServer') \subseteq ToSet(toServer)
      /\ Head(toServer) \in ToSet(toServer) /\ Head(toServer) \in Messages
  BY <1>1, <1>2, TakesMessage
<1>4. Head(toServer) \in Acks BY <1>1, <1>3, Fields DEF Messages
<1>5. tool' = "poll" => Executed BY <1>2, <1>3, <1>4 DEF Truths, Tooling
<1>6. Executed' = Executed /\ \A m : Truth(m)' = Truth(m)
  BY <1>1 DEF Executed, Truth, Ended
<1>7. Tooling' BY <1>1, <1>2, <1>3, <1>5, <1>6 DEF Truths, Tooling
<1> QED BY <1>3, <1>7 DEF Truths

\* The answer the tool waits for says that the step is complete only when it is.
LEMMA ReceiveStatusStep == ASSUME Types, Truths, ReceiveStatus PROVE Truths'
<1> DEFINE m == Head(toServer)
<1>1. /\ toServer # <<>> /\ toServer' = Tail(toServer) /\ m.kind = "status"
      /\ UNCHANGED <<commands, queries, toPlugin, running, ended, tripwire, calls, lapses, report>>
  BY DEF ReceiveStatus, pluginVars
<1>2. Executed' = Executed /\ \A n : Truth(n)' = Truth(n)
  BY <1>1 DEF Executed, Truth, Ended
<1>3. ToSet(toServer') \subseteq ToSet(toServer) /\ m \in ToSet(toServer) /\ m \in Messages
  BY <1>1, TakesMessage
<1>4. m \in Status BY <1>1, <1>3, Fields
<1>5. CASE tool = "asked" /\ m.id = lapses
  <2>1. /\ status' = m /\ tool' \in {"push", "poll"} /\ (tool' = "push" => Complete(m))
    BY <1>5 DEF ReceiveStatus, Complete
  <2>2. m \in Answers BY <1>4, <1>5 DEF Answers
  <2> HIDE DEF m
  <2>3. tool' = "push" => Truth(m) BY <1>3, <2>1, <2>2 DEF Truths, AnswersTrue
  <2>4. /\ InOrder' /\ AllAhead' /\ Latest' /\ OwnEnd' /\ TruthfulReport' /\ Asking' /\ AnswersTrue'
        /\ OneQuery'
    BY <1>1, <2>1, <2>2, TakesMessage DEF m
  <2>5. Tooling'
    <3>1. Executed BY <1>5 DEF Truths, Tooling
    <3>2. tool' = "push" => status' \in Status' /\ (Truth(status))'
      <4>1. Status' = Status BY DEF Status, Trip
      <4>2. (Truth(status))' = Truth(m) BY <1>1, <2>1 DEF Truth, Ended
      <4> QED BY <1>4, <2>1, <2>3, <4>1, <4>2
    <3>3. \A n \in ToSet(toServer') \cap Acks : n.call <= calls'
      BY <1>1, <1>3 DEF Truths, Tooling
    <3> QED BY <1>2, <2>1, <3>1, <3>2, <3>3 DEF Tooling
  <2> QED BY <2>4, <2>5 DEF Truths
<1>6. CASE ~(tool = "asked" /\ m.id = lapses)
  <2>1. UNCHANGED <<status, tool>> BY <1>6 DEF ReceiveStatus
  <2>2. /\ InOrder' /\ AllAhead' /\ Latest' /\ OwnEnd' /\ TruthfulReport' /\ Asking' /\ AnswersTrue'
        /\ OneQuery'
    BY <1>1, <2>1, TakesMessage
  <2>3. Tooling' BY <1>1, <1>2, <1>3, <2>1 DEF Truths, Tooling
  <2> QED BY <2>2, <2>3 DEF Truths
<1> QED BY <1>5, <1>6

----------------------------------------------------------------------------
(* The tools' steps.                                                        *)

\* The command of a new call comes after all others, and nothing of that call
\* has happened.
LEMMA CallToolStep == ASSUME Types, Truths, CallTool PROVE Truths'
<1>1. PICK m \in [kind : {"pause", "unpause"}, call : {calls + 1}]
                 \cup [kind : {"step"}, call : {calls + 1}, ticks : Ticks] :
        toPlugin' = Append(toPlugin, m) /\ tool' = IF m.kind = "step" THEN "stepack" ELSE "ack"
  BY DEF CallTool
<1>2. /\ tool = "idle" /\ calls' = calls + 1 /\ calls + 1 \in Calls /\ calls \in Nat
      /\ UNCHANGED <<commands, queries, toServer, running, ended, tripwire, lapses, report>>
  BY Fields DEF CallTool, pluginVars, Types, ServerState
<1>3. /\ m \in Command /\ m.call = calls + 1 /\ m \notin Query /\ (tool' = "stepack" => m.kind = "step")
      /\ tool' \in {"stepack", "ack"}
  <2>1. m \in Command /\ m.call = calls + 1 BY <1>2 DEF Command
  <2>2. m.kind # "sim_status" BY <2>1, Fields
  <2> QED BY <1>1, <2>1, <2>2, Fields
<1>4. toPlugin \in Seq(Command \cup Query) /\ running \in Nat BY Fields DEF Types, Queues, PluginState
<1>5. /\ \A n \in ToSet(commands) : Ahead(n) /\ n.call < calls + 1
      /\ \A n \in ToSet(toPlugin) \cap Command : Ahead(n) /\ n.call < calls + 1
  <2>1. \A n \in ToSet(commands) : n \in Command
    BY ElementOfSeq, LenProperties DEF ToSet, Types, Queues
  <2>2. \A n \in Command : Ahead(n) => n.call < calls + 1 BY <1>2, Fields DEF Ahead
  <2> QED BY <2>1, <2>2 DEF Truths, AllAhead
<1>6. ToSet(toPlugin') = ToSet(toPlugin) \cup {m} /\ Rising(toPlugin')
      /\ \A S : Once(toPlugin, S) /\ m \notin S => Once(toPlugin', S)
  BY <1>1, <1>3, <1>4, <1>5, JoinedTo DEF Truths, InOrder
<1>7. ~Hits(toPlugin, Current) /\ ~Hits(queries, {lapses}) /\ ~Hits(toServer, Answers)
  BY <1>2 DEF Truths, OneQuery
<1>8. Current' = Current /\ Answers' = Answers /\ Current \subseteq Query BY <1>2 DEF Current, Answers
<1>9. InOrder'
  <2>1. Rising(commands)' /\ Rising(toPlugin)' BY <1>2, <1>6 DEF Truths, InOrder, Rising
  <2> QED BY <1>2, <1>3, <1>5, <1>6, <2>1 DEF Truths, InOrder
<1>10. /\ running < calls + 1 /\ ended[calls + 1] = None
       /\ \A c \in Calls : c >= calls + 1 => ended[c] = None /\ report[c] = None
  <2>1. running <= calls BY DEF Truths, Latest
  <2>2. \A c \in Calls : c >= calls + 1 => c > calls BY <1>2, Fields
  <2>3. \A c \in Calls : c > calls => ended[c] = None /\ report[c] = None BY DEF Truths, Latest
  <2> QED BY <1>2, <1>4, <2>1, <2>2, <2>3
<1>11. AllAhead'
  <2>1. ASSUME NEW n \in Command, Ahead(n), n.call < calls + 1 PROVE Ahead(n)'
    <3>1. n.call \in Nat BY Fields
    <3> QED BY <1>2, <2>1, <3>1 DEF Ahead
  <2>2. Ahead(m)' BY <1>2, <1>3, <1>10 DEF Ahead
  <2>3. \A n \in ToSet(commands) : n \in Command
    BY ElementOfSeq, LenProperties DEF ToSet, Types, Queues
  <2> QED BY <1>2, <1>5, <1>6, <2>1, <2>2, <2>3 DEF AllAhead
<1>12. Latest'
  <2>1. \A c \in Calls : c > calls + 1 => c >= calls + 1 BY <1>2, Fields
  <2> QED BY <1>2, <1>4, <1>10, <2>1 DEF Truths, Latest
<1>13. OwnEnd' /\ TruthfulReport'
  BY <1>2, <1>4, <1>10 DEF Truths, OwnEnd, Ended, TruthfulReport
<1>14. Tooling'
  <2>1. \A n \in ToSet(toServer) \cap Acks : n.call <= calls /\ n.call \in Nat
    BY Fields DEF Truths, Tooling
  <2> QED BY <1>2, <1>3, <2>1 DEF Tooling
<1>15. Asking' BY <1>2, <1>3, <1>6 DEF Truths, Asking
<1>16. OneQuery'
  <2>1. m \notin Current /\ ~Hits(toPlugin', Current) /\ Once(toPlugin', Current)
    BY <1>3, <1>6, <1>7, <1>8 DEF Hits, Truths, OneQuery
  <2>2. /\ ~Hits(toPlugin, Current)' /\ ~Hits(queries, {lapses})' /\ ~Hits(toServer, Answers)'
        /\ Once(toPlugin, Current)' /\ Once(queries, {lapses})' /\ Once(toServer, Answers)'
    BY <1>2, <1>7, <1>8, <2>1 DEF Hits, Once, Truths, OneQuery
  <2> QED BY <2>2 DEF OneQuery
<1>17. AnswersTrue' BY <1>2, <1>7, <1>8 DEF AnswersTrue, Hits
<1> QED BY <1>9, <1>11, <1>12, <1>13, <1>14, <1>15, <1>16, <1>17 DEF Truths

\* A poll asks one question at a time.
LEMMA AskStep == ASSUME Types, Truths, Ask PROVE Truths'
<1> DEFINE m == [kind |-> "sim_status", id |-> lapses]
<1>1. /\ tool = "poll" /\ toPlugin' = Append(toPlugin, m) /\ tool' = "asked"
      /\ UNCHANGED <<commands, queries, toServer, running, ended, tripwire, calls, lapses, status, report>>
  BY DEF Ask, pluginVars
<1>2. m \in Query /\ m.id = lapses /\ m.kind = "sim_status" BY Fields DEF Query, Types, Faults
<1>3. m \notin Command BY <1>2, Fields
<1>4. toPlugin \in Seq(Command \cup Query) BY DEF Types, Queues
<1> HIDE DEF m
<1>5. ~Hits(toPlugin, Current) /\ ~Hits(queries, {lapses}) /\ ~Hits(toServer, Answers)
  BY <1>1 DEF Truths, OneQuery
<1>6. ToSet(toPlugin') = ToSet(toPlugin) \cup {m} /\ Rising(toPlugin') /\ Once(toPlugin', Current)
  BY <1>1, <1>2, <1>3, <1>4, <1>5, JoinedTo DEF Truths, InOrder, OneQuery
<1>7. Current' = Current /\ Answers' = Answers BY <1>1 DEF Current, Answers
<1>8. InOrder'
  <2>1. Rising(commands)' /\ Rising(toPlugin)' BY <1>1, <1>6 DEF Truths, InOrder, Rising
  <2> QED BY <1>1, <1>3, <1>6, <2>1 DEF Truths, InOrder
<1>9. AllAhead' BY <1>1, <1>3, <1>6 DEF Truths, AllAhead, Ahead
<1>10. Latest' /\ OwnEnd' /\ TruthfulReport'
  BY <1>1 DEF Truths, Latest, OwnEnd, Ended, TruthfulReport
<1>11. Tooling' BY <1>1 DEF Truths, Tooling, Executed
<1>12. Asking'
  <2>1. lapses <= lapses BY DEF Types, Faults
  <2> QED BY <1>1, <1>2, <1>6, <2>1 DEF Truths, Asking
<1>13. OneQuery'
  <2>1. /\ ~Hits(queries, {lapses})' /\ ~Hits(toServer, Answers)'
        /\ Once(toPlugin, Current)' /\ Once(queries, {lapses})' /\ Once(toServer, Answers)'
    BY <1>1, <1>5, <1>6, <1>7 DEF Hits, Once, Truths, OneQuery
  <2> QED BY <1>1, <2>1 DEF OneQuery
<1>14. AnswersTrue' BY <1>1, <1>7 DEF Truths, AnswersTrue, Complete, Truth, Ended
<1> QED BY <1>8, <1>9, <1>10, <1>11, <1>12, <1>13, <1>14 DEF Truths

\* The report of the latest call names what its last answer did.
LEMMA ReportStep == ASSUME Types, Truths, ReportPushed \/ ReportUnpushed PROVE Truths'
<1>1. PICK p \in BOOLEAN : Report(p) BY DEF ReportPushed, ReportUnpushed
<1>2. /\ tool = "push" /\ tool' = "idle"
      /\ report' = [report EXCEPT ![calls] = [pushed |-> p, world |-> world, tripwire |-> status.tripwire]]
      /\ UNCHANGED <<commands, queries, toPlugin, toServer, running, ended, tripwire, calls, lapses, status>>
  BY <1>1 DEF Report, ReportPushed, ReportUnpushed, pluginVars, wireVars
<1>3. Truth(status) BY <1>2 DEF Truths, Tooling
<1>4. /\ calls \in Calls /\ ended[calls] # None /\ ended[calls].by \in {"target", "tripwire"}
      /\ status.tripwire # None <=> ended[calls].by = "tripwire"
  BY <1>3, Fields DEF Types, ServerState, Truth, Ended, Truths, OwnEnd
<1>5. /\ \A c \in Calls : c # calls => report'[c] = report[c]
      /\ report'[calls].tripwire = status.tripwire
  <2>1. report \in [Calls -> Reports \cup {None}] BY DEF Types, ServerState
  <2>2. report'[calls] = [pushed |-> p, world |-> world, tripwire |-> status.tripwire]
    BY <1>2, <1>4, <2>1
  <2> QED BY <1>2, <1>4, <2>1, <2>2
<1>6. TruthfulReport'
  <2>1. ASSUME NEW c \in Calls, report'[c] # None
        PROVE  /\ ended[c] # None /\ ended[c].by \in {"target", "tripwire"}
               /\ report'[c].tripwire # None <=> ended[c].by = "tripwire"
    <3>1. CASE c = calls BY <1>4, <1>5, <3>1
    <3>2. CASE c # calls BY <1>5, <2>1, <3>2 DEF Truths, TruthfulReport
    <3> QED BY <3>1, <3>2
  <2> QED BY <1>2, <2>1 DEF TruthfulReport
<1>7. InOrder' /\ AllAhead' BY <1>2 DEF Truths, InOrder, AllAhead, Ahead, Rising
<1>8. Latest'
  <2>1. \A c \in Calls : c > calls => c # calls BY <1>4, Fields
  <2> QED BY <1>2, <1>5, <2>1 DEF Truths, Latest
<1>9. OwnEnd' BY <1>2 DEF Truths, OwnEnd, Ended
<1>10. Tooling' BY <1>2 DEF Truths, Tooling
<1>11. Asking' /\ OneQuery' BY <1>2 DEF Truths, Asking, OneQuery, Hits, Once, Current, Answers
<1>12. AnswersTrue' BY <1>2 DEF Truths, AnswersTrue, Answers, Complete, Truth, Ended
<1> QED BY <1>6, <1>7, <1>8, <1>9, <1>10, <1>11, <1>12 DEF Truths

\* A query that timed out leaves no answer behind that the next one could take.
LEMMA LapseStep == ASSUME Types, Truths, QueryTimeout \/ ReturnWithoutReport PROVE Truths'
<1>1. UNCHANGED <<commands, queries, toPlugin, toServer, running, ended, tripwire, calls, status, report>>
  BY DEF QueryTimeout, ReturnWithoutReport, pluginVars, wireVars
<1>2. InOrder' /\ Latest' /\ OwnEnd' /\ TruthfulReport'
  BY <1>1 DEF Truths, InOrder, Rising, Latest, OwnEnd, Ended, TruthfulReport
<1>3. ASSUME tool' \in {"poll", "idle"}, tool' = "poll" => tool = "asked" PROVE AllAhead' /\ Tooling'
  BY <1>1, <1>3 DEF Truths, AllAhead, Ahead, Tooling, Executed
<1>4. CASE tool \in {"ack", "stepack", "poll"} /\ tool' = "idle" /\ lapses' = lapses
  <2>1. Asking' BY <1>1, <1>4 DEF Truths, Asking
  <2>2. OneQuery' BY <1>1, <1>4 DEF Truths, OneQuery, Hits, Once, Current, Answers
  <2>3. AnswersTrue' BY <1>1, <1>4 DEF Truths, AnswersTrue, Answers, Complete, Truth, Ended
  <2> QED BY <1>2, <1>3, <1>4, <2>1, <2>2, <2>3 DEF Truths
<1>5. CASE tool = "asked" /\ tool' \in {"poll", "idle"} /\ lapses' = lapses + 1
  <2>1. /\ lapses \in Nat /\ lapses' = lapses + 1
        /\ toPlugin \in Seq(Command \cup Query) /\ queries \in Seq(0..MaxFaults) /\ toServer \in Seq(Messages)
    BY <1>5, Fields DEF Types, Faults, Queues
  <2>2. /\ \A m \in ToSet(toPlugin) \cap Query : m.id <= lapses /\ m.id \in Nat
        /\ \A i \in ToSet(queries) : i <= lapses /\ i \in Nat
        /\ \A m \in ToSet(toServer) \cap Status : m.id <= lapses /\ m.id \in Nat
    <3>1. \A i \in ToSet(queries) : i \in Nat
      BY <2>1, Fields, ElementOfSeq, LenProperties DEF ToSet
    <3>2. /\ \A m \in Query : m.id \in Nat
          /\ \A m \in Status : m.id \in Nat
      BY Fields DEF Messages
    <3> QED BY <3>1, <3>2 DEF Truths, Asking
  <2>3. Asking' BY <1>1, <2>1, <2>2 DEF Asking
  <2>4. \A s, S : ~Hits(s, S) /\ DOMAIN s = 1..Len(s) => Once(s, S) BY DEF Hits, Once, ToSet
  <2>5. /\ DOMAIN toPlugin = 1..Len(toPlugin) /\ DOMAIN queries = 1..Len(queries)
        /\ DOMAIN toServer = 1..Len(toServer)
    BY <2>1, LenProperties
  <2>6. ~Hits(toPlugin, Current') /\ ~Hits(queries, {lapses'}) /\ ~Hits(toServer, Answers')
    <3>1. /\ Current' = {m \in Query : m.id = lapses + 1}
          /\ Answers' = {m \in Status : m.id = lapses + 1}
      BY <2>1 DEF Current, Answers
    <3> QED BY <2>1, <2>2, <3>1 DEF Hits
  <2>7. Once(toPlugin, Current') /\ Once(queries, {lapses'}) /\ Once(toServer, Answers')
    BY <2>4, <2>5, <2>6
  <2>8. OneQuery'
    <3>1. /\ ~Hits(toPlugin, Current)' /\ ~Hits(queries, {lapses})' /\ ~Hits(toServer, Answers)'
          /\ Once(toPlugin, Current)' /\ Once(queries, {lapses})' /\ Once(toServer, Answers)'
      BY <1>1, <2>6, <2>7 DEF Hits, Once
    <3> QED BY <3>1 DEF OneQuery
  <2>9. AnswersTrue' BY <1>1, <2>6 DEF AnswersTrue, Hits
  <2> QED BY <1>2, <1>3, <1>5, <2>3, <2>8, <2>9 DEF Truths
<1>6. \/ tool \in {"ack", "stepack", "poll"} /\ tool' = "idle" /\ lapses' = lapses
      \/ tool = "asked" /\ tool' \in {"poll", "idle"} /\ lapses' = lapses + 1
  BY DEF QueryTimeout, ReturnWithoutReport, Lapse
<1> QED BY <1>4, <1>5, <1>6

----------------------------------------------------------------------------
(* The theorems.                                                            *)

\* Every step keeps the invariant.
LEMMA NextIInv == Types /\ Truths /\ [Next]_vars => Types' /\ Truths'
<1> SUFFICES ASSUME Types, Truths, [Next]_vars PROVE Types' /\ Truths' OBVIOUS
<1>1. Types'
  <2>1. Queues /\ PluginState /\ ServerState /\ Faults /\ Tooling BY DEF Types, Truths
  <2>2. Queues' /\ PluginState' /\ ServerState' /\ Faults'
    BY <2>1, QueuesStep, PluginStep, ServerStep
  <2> QED BY <2>2 DEF Types
<1>2. CASE Tick \/ RaiseAlarm \/ PressPause \/ Reconnect \/ UNCHANGED vars
  BY <1>1, <1>2, UnseenStep DEF Tick, RaiseAlarm, PressPause, Reconnect, vars, Unseen, pluginVars, wireVars,
       modelVars, toolVars
<1>3. CASE OnUpdate \/ NotReached \/ EndDrain
  BY <1>1, <1>3, UnseenStep DEF OnUpdate, NotReached, EndDrain, Unseen, wireVars, modelVars, toolVars
<1>4. CASE CountEvent \/ InstallEntities
  BY <1>1, <1>4, UnseenStep DEF CountEvent, InstallEntities, Unseen, pluginVars, wireVars, toolVars
<1>5. Truths'
  BY <1>1, <1>2, <1>3, <1>4, ReceiveStep, StopStep, RunStepStep, RepauseStep, SimStatusStep, PollAlarmsStep,
     LinkBreaksStep, ReceiveEntityStep, ReceiveAckStep, ReceiveStatusStep, CallToolStep, AskStep,
     ReportStep, LapseStep DEF Next, Game, Plugin, Drain, Server, Tool
<1> QED BY <1>1, <1>5

\* The invariant holds in every behaviour.
THEOREM Invariant == Spec => []IInv
<1>1. Types /\ Truths <=> IInv BY TypeParts DEF Types, IInv
<1>2. Init => Types /\ Truths BY InitIInv
<1>3. (Types /\ Truths) /\ [Next]_vars => (Types /\ Truths)' BY NextIInv
<1> QED BY <1>1, <1>2, <1>3, PTL DEF Spec

\* Every variable keeps its type, whatever is lost, delayed or cut short.
THEOREM TypeCorrect == Spec => []TypeOK
<1>1. IInv => TypeOK BY DEF IInv
<1> QED BY <1>1, Invariant, PTL

\* The step tool never calls a step complete that did not run to its target or
\* into the tripwire, and names a tripwire exactly when that cut the step short:
\* no late, lost or stale answer and no record left over can mislead it.
THEOREM ReportsAreTruthful == Spec => []TruthfulReport
<1>1. IInv => TruthfulReport BY DEF IInv, Truths
<1> QED BY <1>1, Invariant, PTL
=============================================================================
