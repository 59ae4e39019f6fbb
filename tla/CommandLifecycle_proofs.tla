---------------------- MODULE CommandLifecycle_proofs ----------------------
(***************************************************************************)
(* Proofs about the life of a command, for any callers, any number of       *)
(* calls and faults and any capacity of the acknowledgement channel.        *)
(***************************************************************************)
EXTENDS CommandLifecycle, SequenceTheorems, TLAPS

\* The callers inside SendCommand: each has an id of its own and its entry.
Active(c) == pc[c] # "idle"
CallersApart ==
  /\ nextID <= calls + 1
  /\ \A c \in Callers : Active(c) => /\ cur[c] \in Msg /\ cur[c].id <= nextID
                                     /\ tracker[cur[c].id] \in Entry
  /\ \A c, d \in Callers : Active(c) /\ Active(d) /\ cur[c].id = cur[d].id => c = d

\* The rest holds while the first server process lives, when ids name calls.
Alive == restarts = 0
Numbered ==
  /\ nextID = calls + 1
  /\ \A c \in Callers : Active(c) => cur[c].id = cur[c].op + 1 /\ reply[cur[c].op] = None
  /\ \A c \in Callers : pc[c] = "added" => outcome[cur[c].op] = {}
Unused == \A o \in Ops : o > calls => reply[o] = None /\ outcome[o] = {}

\* A command under way to its execution is nowhere else, has not been executed,
\* was not reported as unsendable and will not be.
Waits(m) ==
  /\ m.op <= calls /\ m.id = m.op + 1 /\ outcome[m.op] = {} /\ reply[m.op] # "senderror"
  /\ \A c \in Callers : pc[c] = "added" => cur[c].op # m.op
Once(s) == \A j, k \in 1..Len(s) : s[j].op = s[k].op => j = k
UnderWay ==
  /\ \A k \in 1..Len(toPlugin) : Waits(toPlugin[k])
  /\ \A k \in 1..Len(queue) : Waits(queue[k])
  /\ Once(toPlugin) /\ Once(queue)
  /\ \A j \in 1..Len(toPlugin), k \in 1..Len(queue) : toPlugin[j].op # queue[k].op

\* An acknowledgement names the command it is about, and says what became of it.
True(a) == a.id = a.op + 1 /\ a.status \in outcome[a.op]
AcksTrue ==
  /\ \A k \in 1..Len(toServer) : True(toServer[k])
  /\ \A k \in 1..Len(ackCh) : True(ackCh[k])
ResultsTrue ==
  \A i \in Ids : tracker[i] # None => tracker[i].result \in outcome[i - 1] \cup {"timeout", None}

FirstLife == Numbered /\ Unused /\ UnderWay /\ AcksTrue /\ ResultsTrue
IInv == TypeOK /\ CallersApart /\ (Alive => FirstLife)

----------------------------------------------------------------------------
(* Types.                                                                   *)

Queues == /\ toPlugin \in Seq(Msg) /\ queue \in Seq(Msg)
          /\ toServer \in Seq(Ack) /\ ackCh \in Seq(Ack)
Scalars ==
  /\ calls \in 0..MaxOps
  /\ pc \in [Callers -> {"idle", "added", "written", "waiting"}]
  /\ cur \in [Callers -> Msg \cup {None}]
  /\ nextID \in 1..(MaxOps + 1)
  /\ reply \in [Ops -> AckStatus \cup {"timeout", "senderror", "lost", None}]
  /\ link \in {"up", "broken", "down"} /\ mapLoaded \in BOOLEAN
  /\ outcome \in [Ops -> SUBSET AckStatus]
  /\ restarts \in 0..faults /\ faults \in 0..MaxFaults
Entries == tracker \in [Ids -> Entry \cup {None}]

\* TypeOK in parts: the queues, the tracker, and the rest.
LEMMA TypeParts == TypeOK <=> Queues /\ Scalars /\ Entries /\ Len(ackCh) <= AckCap
BY DEF TypeOK, Queues, Scalars, Entries

\* What a message and an acknowledgement carry.
LEMMA Fields ==
  /\ \A m \in Msg : m.op \in Ops /\ m.id \in Ids
  /\ \A a \in Ack : a.op \in Ops /\ a.id \in Ids /\ a.status \in AckStatus
  /\ \A o \in Ops, i \in Ids : [op |-> o, id |-> i] \in Msg
  /\ \A o \in Ops, i \in Ids, s \in AckStatus : [op |-> o, id |-> i, status |-> s] \in Ack
BY DEF Msg, Ack

\* Ops and Ids are runs of positive numbers, one apart.
LEMMA Numbers == /\ \A o \in Ops : o \in Nat /\ o >= 1 /\ o <= MaxOps
                 /\ \A i \in Ids : i \in Nat /\ i >= 2 /\ i - 1 \in Ops
                 /\ \A n \in Nat : n >= 1 /\ n <= MaxOps => n \in Ops /\ n + 1 \in Ids
                 /\ MaxOps \in Nat /\ MaxFaults \in Nat /\ AckCap \in Nat
BY BoundsAssumption DEF Ops, Ids

\* A result offered to an entry fills its channel if that was empty.
LEMMA Offered ==
  ASSUME NEW e \in Entry, NEW r \in AckStatus \cup {"timeout"}
  PROVE  Offer(e, r) \in Entry /\ Offer(e, r).result \in {e.result, r}
BY DEF Offer, Entry

\* Edits of an entry's other fields leave its result alone.
LEMMA Edited ==
  ASSUME NEW e \in Entry
  PROVE  /\ [e EXCEPT !.overdue = TRUE] \in Entry /\ [e EXCEPT !.overdue = TRUE].result = e.result
         /\ [e EXCEPT !.status = "timeout"] \in Entry /\ [e EXCEPT !.status = "timeout"].result = e.result
         /\ [e EXCEPT !.status = "sent", !.overdue = FALSE] \in Entry
         /\ [e EXCEPT !.status = "sent", !.overdue = FALSE].result = e.result
         /\ [e EXCEPT !.result = None] \in Entry /\ [e EXCEPT !.result = None].result = None
         /\ \A s \in AckStatus : /\ [e EXCEPT !.status = "acked", !.response = s] \in Entry
                                 /\ [e EXCEPT !.status = "acked", !.response = s].result = e.result
BY DEF Entry

\* The steps that edit entries.
Edits == \/ \E c \in Callers : MarkSent(c) \/ TakeResult(c)
         \/ \E i \in Ids : DeadlinePasses(i)
         \/ MarkAcked \/ CheckTimeouts

\* They add none and remove none; a result is new only when the entry's
\* acknowledgement has been taken from the channel or it timed out.
LEMMA EditsStep ==
  ASSUME TypeOK, CallersApart, Edits
  PROVE  /\ Entries'
         /\ \A i \in Ids : tracker'[i] = None <=> tracker[i] = None
         /\ \A i \in Ids : tracker[i] # None =>
              \/ tracker'[i].result \in {tracker[i].result, "timeout", None}
              \/ MarkAcked /\ i = Head(ackCh).id /\ tracker'[i].result = Head(ackCh).status
<1>0. Queues /\ Entries /\ Scalars BY TypeParts
<1>2. ASSUME NEW c \in Callers, MarkSent(c) \/ TakeResult(c) PROVE cur[c].id \in Ids /\ tracker[cur[c].id] \in Entry
  BY <1>2, Fields DEF MarkSent, TakeResult, CallersApart, Active
<1>3. ASSUME NEW c \in Callers, MarkSent(c) PROVE Entries' /\ \A i \in Ids :
             /\ tracker'[i] = None <=> tracker[i] = None
             /\ tracker[i] # None => tracker'[i].result \in {tracker[i].result, "timeout", None}
  <2> DEFINE i == cur[c].id
             e == [tracker[i] EXCEPT !.status = "sent", !.overdue = FALSE]
  <2>1. i \in Ids /\ tracker[i] \in Entry /\ e \in Entry /\ e.result = tracker[i].result
    BY <1>2, <1>3, Edited
  <2>2. tracker' = [tracker EXCEPT ![i] = e] BY <1>0, <1>3, <2>1 DEF MarkSent, Entries
  <2> HIDE DEF e, i
  <2> QED BY <1>0, <2>1, <2>2, NoneAssumption DEF Entries
<1>4. ASSUME NEW c \in Callers, TakeResult(c) PROVE Entries' /\ \A i \in Ids :
             /\ tracker'[i] = None <=> tracker[i] = None
             /\ tracker[i] # None => tracker'[i].result \in {tracker[i].result, "timeout", None}
  <2> DEFINE i == cur[c].id
             e == [tracker[i] EXCEPT !.result = None]
  <2>1. i \in Ids /\ tracker[i] \in Entry /\ e \in Entry /\ e.result = None
    BY <1>2, <1>4, Edited
  <2>2. tracker' = [tracker EXCEPT ![i] = e] BY <1>0, <1>4, <2>1 DEF TakeResult, Entries
  <2> HIDE DEF e, i
  <2> QED BY <1>0, <2>1, <2>2, NoneAssumption DEF Entries
<1>5. ASSUME NEW i \in Ids, DeadlinePasses(i) PROVE Entries' /\ \A j \in Ids :
             /\ tracker'[j] = None <=> tracker[j] = None
             /\ tracker[j] # None => tracker'[j].result \in {tracker[j].result, "timeout", None}
  <2> DEFINE e == [tracker[i] EXCEPT !.overdue = TRUE]
  <2>1. tracker[i] \in Entry BY <1>0, <1>5 DEF DeadlinePasses, Entries
  <2>2. e \in Entry /\ e.result = tracker[i].result BY <2>1, Edited
  <2>3. tracker' = [tracker EXCEPT ![i] = e] BY <1>0, <1>5 DEF DeadlinePasses, Entries
  <2> HIDE DEF e
  <2> QED BY <1>0, <2>1, <2>2, <2>3, NoneAssumption DEF Entries
<1>6. ASSUME MarkAcked PROVE Entries' /\ \A i \in Ids :
             /\ tracker'[i] = None <=> tracker[i] = None
             /\ tracker[i] # None =>
                  \/ tracker'[i].result \in {tracker[i].result, "timeout", None}
                  \/ /\ i = Head(ackCh).id /\ tracker'[i].result = Head(ackCh).status
  <2> DEFINE a == Head(ackCh)
             f == [tracker[a.id] EXCEPT !.status = "acked", !.response = a.status]
             e == Offer(f, a.status)
  <2>1. a \in Ack BY <1>0, <1>6, HeadTailProperties DEF MarkAcked, Queues
  <2>2. a.id \in Ids /\ a.status \in AckStatus BY <2>1, Fields
  <2>3. CASE tracker[a.id] = None
    <3>1. tracker' = tracker BY <1>6, <2>3 DEF MarkAcked
    <3> QED BY <1>0, <3>1 DEF Entries
  <2>4. CASE tracker[a.id] # None
    <3>1. tracker[a.id] \in Entry BY <1>0, <2>2, <2>4 DEF Entries
    <3>2. f \in Entry /\ f.result = tracker[a.id].result BY <2>2, <3>1, Edited
    <3>3. tracker' = [tracker EXCEPT ![a.id] = e] BY <1>6, <2>4 DEF MarkAcked
    <3>4. e \in Entry /\ e.result \in {tracker[a.id].result, a.status}
      <4> HIDE DEF f, a
      <4> QED BY <2>2, <3>2, Offered
    <3> HIDE DEF e
    <3> QED BY <1>0, <2>2, <3>1, <3>3, <3>4, NoneAssumption DEF Entries
  <2> QED BY <2>3, <2>4
<1>7. ASSUME CheckTimeouts PROVE Entries' /\ \A i \in Ids :
             /\ tracker'[i] = None <=> tracker[i] = None
             /\ tracker[i] # None => tracker'[i].result \in {tracker[i].result, "timeout", None}
  <2>1. ASSUME NEW i \in Ids
        PROVE  /\ tracker'[i] \in Entry \cup {None} /\ (tracker'[i] = None <=> tracker[i] = None)
               /\ tracker[i] # None => tracker'[i].result \in {tracker[i].result, "timeout", None}
    <3>1. CASE ~TimedOut(i)
      <4>1. tracker'[i] = tracker[i] BY <1>7, <3>1 DEF CheckTimeouts
      <4> QED BY <1>0, <4>1 DEF Entries
    <3>2. CASE TimedOut(i)
      <4> DEFINE f == [tracker[i] EXCEPT !.status = "timeout"]
      <4>1. tracker[i] \in Entry BY <1>0, <3>2 DEF TimedOut, Entries
      <4>2. f \in Entry /\ f.result = tracker[i].result BY <4>1, Edited
      <4>3. tracker'[i] = Offer(f, "timeout") BY <1>7, <3>2 DEF CheckTimeouts
      <4> HIDE DEF f
      <4> QED BY <4>1, <4>2, <4>3, Offered, NoneAssumption
    <3> QED BY <3>1, <3>2
  <2>2. tracker' = [i \in Ids |-> tracker'[i]] BY <1>7 DEF CheckTimeouts
  <2> QED BY <2>1, <2>2 DEF Entries
<1> QED BY <1>3, <1>4, <1>5, <1>6, <1>7 DEF Edits

\* The same for one entry.
LEMMA EntriesStay ==
  ASSUME TypeOK, CallersApart, Edits, NEW i \in Ids
  PROVE  (tracker'[i] = None <=> tracker[i] = None) /\ (tracker[i] \in Entry => tracker'[i] \in Entry)
<1>1. Entries' /\ Entries BY EditsStep, TypeParts
<1>2. tracker'[i] = None <=> tracker[i] = None BY EditsStep
<1> QED BY <1>1, <1>2, NoneAssumption DEF Entries

\* A queue after its first element has been taken, and after one has joined.
LEMMA Taken ==
  ASSUME NEW S, NEW s \in Seq(S), s # <<>>
  PROVE  /\ Head(s) \in S /\ Head(s) = s[1] /\ 1 \in 1..Len(s) /\ Len(s) \in Nat
         /\ Tail(s) \in Seq(S) /\ Len(Tail(s)) = Len(s) - 1
         /\ \A i \in 1..Len(Tail(s)) : i + 1 \in 1..Len(s) /\ Tail(s)[i] = s[i + 1]
BY HeadTailProperties, EmptySeq, LenProperties

\* A queue after a message has joined.
LEMMA Joined ==
  ASSUME NEW S, NEW s \in Seq(S), NEW e \in S
  PROVE  Append(s, e) \in Seq(S) /\ Len(s) \in Nat /\ Len(Append(s, e)) = Len(s) + 1
BY AppendProperties, LenProperties

\* Execution fixes the statuses of the command, and every acknowledgement it
\* writes is of that command and carries one of them.
LEMMA Executed ==
  ASSUME TypeOK, NEW m \in Msg, Execute(m)
  PROVE  \E S \in SUBSET AckStatus :
           /\ S # {} /\ outcome' = [outcome EXCEPT ![m.op] = S]
           /\ toServer' \in Seq(Ack)
           /\ \A k \in 1..Len(toServer') :
                \/ k \in 1..Len(toServer) /\ toServer'[k] = toServer[k]
                \/ /\ toServer'[k].op = m.op /\ toServer'[k].id = m.id
                   /\ toServer'[k].status \in S
<1>0. toServer \in Seq(Ack) BY TypeParts DEF Queues
<1>1. PICK r \in Reports :
        /\ outcome' = [outcome EXCEPT ![m.op] = {r[k] : k \in DOMAIN r}]
        /\ toServer' = IF link = "up"
                       THEN toServer \o [k \in DOMAIN r |-> [op |-> m.op, id |-> m.id, status |-> r[k]]]
                       ELSE toServer
  BY DEF Execute
<1>2. r \in Seq(AckStatus) /\ Len(r) \in {1, 2}
  <2>1. CASE r = <<"success", "failure">> BY <2>1 DEF AckStatus
  <2>2. ASSUME NEW s \in AckStatus, r = <<s>> PROVE r \in Seq(AckStatus) /\ Len(r) = 1 BY <2>2
  <2> QED BY <2>1, <2>2 DEF Reports
<1>3. DOMAIN r = 1..Len(r) /\ \A k \in 1..Len(r) : r[k] \in AckStatus
  BY <1>2, LenProperties, ElementOfSeq
<1> DEFINE S == {r[k] : k \in DOMAIN r}
           acks == [k \in DOMAIN r |-> [op |-> m.op, id |-> m.id, status |-> r[k]]]
<1>4. S \in SUBSET AckStatus /\ S # {} BY <1>2, <1>3
<1>5. \A k \in 1..Len(r) : acks[k] \in Ack /\ acks[k].op = m.op /\ acks[k].id = m.id /\ acks[k].status \in S
  BY <1>3, Fields
<1>6. acks \in Seq(Ack) /\ Len(acks) = Len(r)
  <2>1. acks \in [1..Len(r) -> Ack] /\ Len(r) \in Nat BY <1>2, <1>3, <1>5
  <2> HIDE DEF acks
  <2>2. acks \in Seq(Ack) BY <2>1, SeqDef
  <2>3. DOMAIN acks = 1..Len(r) /\ DOMAIN acks = 1..Len(acks) /\ Len(acks) \in Nat
    BY <2>1, <2>2, LenProperties
  <2> QED BY <2>1, <2>2, <2>3
<1> HIDE DEF acks
<1>7. /\ toServer \o acks \in Seq(Ack) /\ Len(toServer) \in Nat /\ Len(toServer \o acks) = Len(toServer) + Len(r)
      /\ \A k \in 1..Len(toServer \o acks) : (toServer \o acks)[k] =
           IF k <= Len(toServer) THEN toServer[k] ELSE acks[k - Len(toServer)]
  <2>1. Len(toServer) \in Nat /\ Len(acks) \in Nat BY <1>0, <1>6, LenProperties
  <2>2. /\ toServer \o acks \in Seq(Ack) /\ Len(toServer \o acks) = Len(toServer) + Len(acks)
        /\ \A k \in 1..Len(toServer) + Len(acks) : (toServer \o acks)[k] =
             IF k <= Len(toServer) THEN toServer[k] ELSE acks[k - Len(toServer)]
    BY <1>0, <1>6, ConcatProperties
  <2> QED BY <1>6, <2>1, <2>2
<1>8. toServer' = toServer \/ toServer' = toServer \o acks BY <1>1 DEF acks
<1>9. CASE toServer' = toServer
  BY <1>0, <1>1, <1>4, <1>9
<1>10. CASE toServer' = toServer \o acks
  <2>1. ASSUME NEW k \in 1..Len(toServer')
        PROVE  \/ k \in 1..Len(toServer) /\ toServer'[k] = toServer[k]
               \/ toServer'[k].op = m.op /\ toServer'[k].id = m.id /\ toServer'[k].status \in S
    <3>1. CASE k <= Len(toServer) BY <1>7, <1>10, <3>1
    <3>2. CASE k > Len(toServer)
      <4>1. k - Len(toServer) \in 1..Len(r) /\ toServer'[k] = acks[k - Len(toServer)]
        BY <1>2, <1>7, <1>10, <3>2
      <4> HIDE DEF S
      <4> QED BY <1>5, <4>1
    <3> QED BY <1>7, <3>1, <3>2
  <2>2. outcome' = [outcome EXCEPT ![m.op] = S] BY <1>1
  <2> HIDE DEF S
  <2> QED BY <1>4, <1>7, <1>10, <2>1, <2>2
<1> QED BY <1>8, <1>9, <1>10

\* Every step keeps the types of the four queues and the bound of the channel.
LEMMA QueuesStep == ASSUME TypeOK, CallersApart, [Next]_vars PROVE Queues' /\ Len(ackCh') <= AckCap
<1>0. Queues /\ Scalars /\ Len(ackCh) <= AckCap BY TypeParts
<1> USE DEF Queues, goVars, wireVars, pluginVars, bounds
<1>1. ASSUME NEW c \in Callers, WriteFrame(c) PROVE Queues' /\ Len(ackCh') <= AckCap
  <2>1. cur[c] \in Msg BY <1>1 DEF WriteFrame, CallersApart, Active
  <2>2. Append(toPlugin, cur[c]) \in Seq(Msg) BY <1>0, <2>1, Joined
  <2> QED BY <1>0, <1>1, <2>2 DEF WriteFrame
<1>2. CASE ReceiveAck
  <2>1. Head(toServer) \in Ack /\ Tail(toServer) \in Seq(Ack) BY <1>0, <1>2, Taken DEF ReceiveAck
  <2>2. /\ Append(ackCh, Head(toServer)) \in Seq(Ack) /\ Len(ackCh) \in Nat
        /\ Len(Append(ackCh, Head(toServer))) = Len(ackCh) + 1
    BY <1>0, <2>1, Joined
  <2>3. ackCh' \in Seq(Ack) /\ Len(ackCh') <= AckCap
    BY <1>0, <1>2, <2>2, Numbers DEF ReceiveAck
  <2> QED BY <1>0, <1>2, <2>1, <2>3 DEF ReceiveAck
<1>3. CASE MarkAcked
  <2>1. Tail(ackCh) \in Seq(Ack) /\ Len(Tail(ackCh)) = Len(ackCh) - 1 /\ Len(ackCh) \in Nat
    BY <1>0, <1>3, Taken DEF MarkAcked
  <2>2. Len(Tail(ackCh)) <= AckCap BY <1>0, <2>1, Numbers
  <2> QED BY <1>0, <1>3, <2>1, <2>2 DEF MarkAcked
<1>4. CASE GoRestart
  BY <1>0, <1>4, EmptySeq, Numbers DEF GoRestart
<1>5. CASE QueueCommand
  <2>1. Head(toPlugin) \in Msg /\ Tail(toPlugin) \in Seq(Msg) BY <1>0, <1>5, Taken DEF QueueCommand
  <2>2. Append(queue, Head(toPlugin)) \in Seq(Msg) BY <1>0, <2>1, Joined
  <2> QED BY <1>0, <1>5, <2>1, <2>2 DEF QueueCommand
<1>6. CASE ExecuteNext
  <2>1. Head(queue) \in Msg /\ Tail(queue) \in Seq(Msg) BY <1>0, <1>6, Taken DEF ExecuteNext
  <2>2. toServer' \in Seq(Ack) BY <1>6, <2>1, Executed DEF ExecuteNext
  <2> QED BY <1>0, <1>6, <2>1, <2>2 DEF ExecuteNext
<1>7. CASE LinkBreaks
  BY <1>0, <1>7, EmptySeq DEF LinkBreaks
<1>8. ASSUME NEW c \in Callers,
             StartSend(c) \/ WriteFails(c) \/ MarkSent(c) \/ TakeResult(c) \/ GiveUp(c)
      PROVE  Queues' /\ Len(ackCh') <= AckCap
  BY <1>0, <1>8 DEF StartSend, WriteFails, MarkSent, TakeResult, GiveUp
<1>9. ASSUME NEW i \in Ids, DeadlinePasses(i) \/ CleanupOld(i) PROVE Queues' /\ Len(ackCh') <= AckCap
  BY <1>0, <1>9 DEF DeadlinePasses, CleanupOld
<1>10. CASE CheckTimeouts \/ SwitchMap \/ NoticeBreak \/ Reconnect \/ UNCHANGED vars
  BY <1>0, <1>10 DEF CheckTimeouts, SwitchMap, NoticeBreak, Reconnect, vars
<1> QED BY <1>1, <1>2, <1>3, <1>4, <1>5, <1>6, <1>7, <1>8, <1>9, <1>10 DEF Next

\* The callers' places, the replies, the outcomes and the counters.
LEMMA ScalarsStep == ASSUME TypeOK, CallersApart, [Next]_vars PROVE Scalars'
<1>0. Queues /\ Scalars /\ Entries BY TypeParts
<1>n. MaxOps \in Nat /\ MaxFaults \in Nat BY Numbers
<1> USE DEF goVars, wireVars, pluginVars, bounds
<1>1. ASSUME NEW c \in Callers, StartSend(c) PROVE Scalars'
  <2>1. calls' \in 1..MaxOps /\ nextID' \in 2..(MaxOps + 1)
    BY <1>0, <1>n, <1>1 DEF StartSend, Scalars, CallersApart
  <2>2. calls' \in Ops /\ nextID' \in Ids BY <2>1, <1>n, Numbers DEF Ops, Ids
  <2>3. [op |-> calls', id |-> nextID'] \in Msg BY <2>2, Fields
  <2>4. cur' \in [Callers -> Msg \cup {None}] BY <1>0, <1>1, <2>3 DEF StartSend, Scalars
  <2>5. reply' \in [Ops -> AckStatus \cup {"timeout", "senderror", "lost", None}]
    BY <1>0, <1>1, <2>2 DEF StartSend, Scalars
  <2>6. pc' \in [Callers -> {"idle", "added", "written", "waiting"}]
    BY <1>0, <1>1 DEF StartSend, Scalars
  <2> QED BY <1>0, <1>n, <1>1, <2>1, <2>4, <2>5, <2>6 DEF StartSend, Scalars
<1>2. ASSUME NEW c \in Callers, WriteFrame(c) \/ MarkSent(c) PROVE Scalars'
  BY <1>0, <1>2 DEF WriteFrame, MarkSent, Scalars
<1>3. ASSUME NEW c \in Callers, WriteFails(c) PROVE Scalars'
  <2>1. cur[c].op \in Ops BY <1>3, Fields DEF WriteFails, CallersApart, Active
  <2> QED BY <1>0, <1>3, <2>1 DEF WriteFails, Scalars
<1>4. ASSUME NEW c \in Callers, TakeResult(c) PROVE Scalars'
  <2>1. cur[c].op \in Ops /\ tracker[cur[c].id] \in Entry
    BY <1>4, Fields DEF TakeResult, CallersApart, Active
  <2>2. tracker[cur[c].id].result \in AckStatus \cup {"timeout", None} BY <2>1 DEF Entry
  <2> QED BY <1>0, <1>4, <2>1, <2>2 DEF TakeResult, Return, Scalars
<1>5. ASSUME NEW c \in Callers, GiveUp(c) PROVE Scalars'
  <2>1. cur[c].op \in Ops BY <1>5, Fields DEF GiveUp, CallersApart, Active
  <2> QED BY <1>0, <1>5, <2>1 DEF GiveUp, Return, Scalars
<1>6. ASSUME NEW i \in Ids, DeadlinePasses(i) \/ CleanupOld(i) PROVE Scalars'
  BY <1>0, <1>6 DEF DeadlinePasses, CleanupOld, Scalars
<1>7. CASE GoRestart
  <2>1. restarts' \in 0..faults' /\ faults' \in 0..MaxFaults
    BY <1>0, <1>n, <1>7 DEF GoRestart, Fault, Scalars
  <2>2. nextID' \in 1..(MaxOps + 1) BY <1>n, <1>7 DEF GoRestart
  <2> QED BY <1>0, <1>7, <2>1, <2>2 DEF GoRestart, Scalars
<1>8. CASE ExecuteNext
  <2>1. Head(queue) \in Msg BY <1>0, <1>8, Taken DEF ExecuteNext, Queues
  <2>2. PICK S \in SUBSET AckStatus : outcome' = [outcome EXCEPT ![Head(queue).op] = S]
    BY <1>8, <2>1, Executed DEF ExecuteNext
  <2>3. outcome' \in [Ops -> SUBSET AckStatus] BY <1>0, <2>1, <2>2, Fields DEF Scalars
  <2> QED BY <1>0, <1>8, <2>3 DEF ExecuteNext, Scalars
<1>9. CASE SwitchMap \/ LinkBreaks
  <2>1. restarts' \in 0..faults' /\ faults' \in 0..MaxFaults
    BY <1>0, <1>n, <1>9 DEF SwitchMap, LinkBreaks, Fault, Scalars
  <2> QED BY <1>0, <1>9, <2>1 DEF SwitchMap, LinkBreaks, Scalars
<1>10. CASE ReceiveAck \/ MarkAcked \/ CheckTimeouts \/ QueueCommand \/ NoticeBreak \/ Reconnect \/ UNCHANGED vars
  BY <1>0, <1>10 DEF ReceiveAck, MarkAcked, CheckTimeouts, QueueCommand, NoticeBreak, Reconnect, vars, Scalars
<1> QED BY <1>1, <1>2, <1>3, <1>4, <1>5, <1>6, <1>7, <1>8, <1>9, <1>10 DEF Next

\* What a call that finds a connection adds: its message and its entry.
LEMMA Started ==
  ASSUME TypeOK, CallersApart, NEW c \in Callers, StartSend(c)
  PROVE  /\ calls' = calls + 1 /\ nextID' = nextID + 1 /\ calls' \in Ops /\ nextID' \in Ids
         /\ \/ /\ pc' = [pc EXCEPT ![c] = "added"] /\ reply' = reply
               /\ \E m \in Msg : m.op = calls' /\ m.id = nextID' /\ cur' = [cur EXCEPT ![c] = m]
               /\ \E e \in Entry : e.result = None /\ tracker' = [tracker EXCEPT ![nextID'] = e]
            \/ /\ UNCHANGED <<pc, cur, tracker>>
               /\ reply' = [reply EXCEPT ![calls'] = "senderror"]
<1>0. Scalars BY TypeParts
<1>n. MaxOps \in Nat BY Numbers
<1>1. calls' = calls + 1 /\ nextID' = nextID + 1 BY DEF StartSend
<1>2. calls' \in 1..MaxOps /\ nextID' \in 2..(MaxOps + 1)
  BY <1>0, <1>n, <1>1 DEF StartSend, Scalars, CallersApart
<1>3. calls' \in Ops /\ nextID' \in Ids BY <1>2, <1>n, Numbers DEF Ops, Ids
<1>4. CASE IsConnected
  <2> DEFINE m == [op |-> calls', id |-> nextID']
             e == [op |-> calls', status |-> "pending", response |-> None,
                   overdue |-> FALSE, result |-> None]
  <2>1. m \in Msg /\ m.op = calls' /\ m.id = nextID' BY <1>3, Fields
  <2>2. e \in Entry /\ e.result = None BY <1>3 DEF Entry
  <2>3. /\ pc' = [pc EXCEPT ![c] = "added"] /\ reply' = reply
        /\ cur' = [cur EXCEPT ![c] = m] /\ tracker' = [tracker EXCEPT ![nextID'] = e]
    BY <1>4 DEF StartSend
  <2> HIDE DEF m, e
  <2> QED BY <1>1, <1>3, <2>1, <2>2, <2>3
<1>5. CASE ~IsConnected
  BY <1>1, <1>3, <1>5 DEF StartSend
<1> QED BY <1>4, <1>5

\* Every step keeps the type of the tracker.
LEMMA EntriesStep == ASSUME TypeOK, CallersApart, [Next]_vars PROVE Entries'
<1>0. Entries BY TypeParts
<1> USE DEF goVars, wireVars, pluginVars, bounds
<1>1. ASSUME NEW c \in Callers, StartSend(c) PROVE Entries'
  <2>1. \/ tracker' = tracker
        \/ \E e \in Entry : nextID' \in Ids /\ tracker' = [tracker EXCEPT ![nextID'] = e]
    BY <1>1, Started
  <2> QED BY <1>0, <2>1 DEF Entries
<1>2. ASSUME NEW c \in Callers, WriteFails(c) PROVE Entries'
  BY <1>0, <1>2 DEF WriteFails, Entries
<1>3. ASSUME NEW i \in Ids, CleanupOld(i) PROVE Entries'
  BY <1>0, <1>3 DEF CleanupOld, Entries
<1>4. CASE Edits BY <1>4, EditsStep
<1>5. CASE GoRestart BY <1>5 DEF GoRestart, Entries
<1>6. ASSUME NEW c \in Callers, WriteFrame(c) \/ GiveUp(c) PROVE Entries'
  BY <1>0, <1>6 DEF WriteFrame, GiveUp, Entries
<1>7. CASE ReceiveAck \/ QueueCommand \/ ExecuteNext \/ SwitchMap \/ LinkBreaks
           \/ NoticeBreak \/ Reconnect \/ UNCHANGED vars
  BY <1>0, <1>7 DEF ReceiveAck, QueueCommand, ExecuteNext, SwitchMap, LinkBreaks, NoticeBreak,
                    Reconnect, vars, Entries
<1> QED BY <1>1, <1>2, <1>3, <1>4, <1>5, <1>6, <1>7 DEF Next, Edits

\* Ids are given out once in the life of a process, and an entry stays in the
\* tracker as long as its caller is inside SendCommand.
LEMMA CallersApartStep == ASSUME TypeOK, CallersApart, [Next]_vars PROVE CallersApart'
<1>0. Entries /\ Scalars /\ Entries' BY TypeParts, EntriesStep
<1>n. nextID \in Nat /\ calls \in Nat BY <1>0, Numbers DEF Scalars
<1> USE DEF goVars, wireVars, pluginVars, bounds
<1>m. ASSUME UNCHANGED <<calls, nextID, cur>>,
             \A c \in Callers : Active(c)' => Active(c) /\ tracker'[cur[c].id] \in Entry
      PROVE  CallersApart'
  BY <1>m DEF CallersApart, Active
<1>1. ASSUME NEW c \in Callers, StartSend(c) PROVE CallersApart'
  <2>1. /\ calls' = calls + 1 /\ nextID' = nextID + 1 /\ nextID' <= calls' + 1
    BY <1>n, <1>1, Started DEF CallersApart
  <2>2. CASE UNCHANGED <<pc, cur, tracker>>
    <3>1. \A d \in Callers : Active(d)' <=> Active(d) BY <2>2 DEF Active
    <3>2. \A d \in Callers : Active(d) => cur[d].id \in Nat BY Fields, Numbers DEF CallersApart
    <3>3. \A d \in Callers : Active(d) => cur[d].id <= nextID' BY <1>n, <2>1, <3>2 DEF CallersApart
    <3> QED BY <2>1, <2>2, <3>1, <3>3 DEF CallersApart
  <2>3. ASSUME pc' = [pc EXCEPT ![c] = "added"],
               NEW m \in Msg, m.id = nextID', cur' = [cur EXCEPT ![c] = m],
               NEW e \in Entry, nextID' \in Ids, tracker' = [tracker EXCEPT ![nextID'] = e]
        PROVE  CallersApart'
    <3>1. /\ cur'[c] = m /\ \A d \in Callers \ {c} : cur'[d] = cur[d] /\ (Active(d)' <=> Active(d))
      BY <1>0, <2>3 DEF Scalars, Active
    <3>2. tracker'[nextID'] = e /\ \A i \in Ids \ {nextID'} : tracker'[i] = tracker[i]
      BY <1>0, <2>3 DEF Entries
    <3>3. \A d \in Callers : Active(d) => /\ cur[d].id \in Ids /\ cur[d].id \in Nat
                                          /\ cur[d].id < nextID' /\ tracker[cur[d].id] \in Entry
      <4>1. \A d \in Callers : Active(d) => cur[d].id \in Ids /\ cur[d].id \in Nat
        BY Fields, Numbers DEF CallersApart
      <4> QED BY <1>n, <2>1, <4>1 DEF CallersApart
    <3>4. \A d \in Callers : Active(d)' =>
            /\ cur'[d] \in Msg /\ cur'[d].id <= nextID' /\ tracker'[cur'[d].id] \in Entry
            /\ d # c => cur'[d].id # nextID'
      <4> SUFFICES ASSUME NEW d \in Callers, Active(d)'
                   PROVE  /\ cur'[d] \in Msg /\ cur'[d].id <= nextID' /\ tracker'[cur'[d].id] \in Entry
                          /\ d # c => cur'[d].id # nextID'
        OBVIOUS
      <4>1. CASE d = c BY <1>n, <2>1, <2>3, <3>1, <3>2, <4>1
      <4>2. CASE d # c
        <5>1. Active(d) /\ cur'[d] = cur[d] BY <3>1, <4>2
        <5>2. cur[d] \in Msg BY <5>1 DEF CallersApart
        <5> QED BY <1>n, <2>1, <3>2, <3>3, <5>1, <5>2
      <4> QED BY <4>1, <4>2
    <3>5. ASSUME NEW b \in Callers, NEW d \in Callers, Active(b)', Active(d)', cur'[b].id = cur'[d].id
          PROVE  b = d
      <4>1. CASE b = c \/ d = c BY <2>3, <3>1, <3>4, <3>5, <4>1
      <4>2. CASE b # c /\ d # c
        <5>1. Active(b) /\ Active(d) /\ cur[b].id = cur[d].id BY <3>1, <3>5, <4>2
        <5> QED BY <5>1 DEF CallersApart
      <4> QED BY <4>1, <4>2
    <3> QED BY <2>1, <3>4, <3>5 DEF CallersApart
  <2> QED BY <1>1, <2>2, <2>3, Started
<1>2. ASSUME NEW c \in Callers, WriteFrame(c) \/ GiveUp(c) PROVE CallersApart'
  <2>1. UNCHANGED <<calls, nextID, cur, tracker>> /\ \A d \in Callers : Active(d)' => Active(d)
    BY <1>0, <1>2 DEF WriteFrame, GiveUp, Return, Active, Scalars
  <2> QED BY <1>m, <2>1 DEF CallersApart
<1>3. ASSUME NEW c \in Callers, WriteFails(c) PROVE CallersApart'
  <2>1. /\ UNCHANGED <<calls, nextID, cur>> /\ Active(c) /\ ~Active(c)'
        /\ \A d \in Callers \ {c} : Active(d)' <=> Active(d)
    BY <1>0, <1>3 DEF WriteFails, Active, Scalars
  <2>2. \A i \in Ids \ {cur[c].id} : tracker'[i] = tracker[i]
    BY <1>0, <1>3 DEF WriteFails, Entries
  <2>3. ASSUME NEW d \in Callers, Active(d)' PROVE Active(d) /\ tracker'[cur[d].id] \in Entry
    <3>1. Active(d) /\ d # c BY <2>1, <2>3
    <3>2. cur[d].id # cur[c].id /\ cur[d].id \in Ids /\ tracker[cur[d].id] \in Entry
      BY <2>1, <3>1, Fields DEF CallersApart
    <3> QED BY <2>2, <3>1, <3>2
  <2> QED BY <1>m, <2>1, <2>3
<1>4. CASE Edits
  <2>1. UNCHANGED <<calls, nextID, cur>> /\ \A d \in Callers : Active(d)' => Active(d)
    BY <1>0, <1>4 DEF Edits, MarkSent, TakeResult, Return, DeadlinePasses, MarkAcked, CheckTimeouts,
                      Active, Scalars
  <2>2. \A i \in Ids : tracker[i] \in Entry => tracker'[i] \in Entry BY <1>4, EntriesStay
  <2>3. \A d \in Callers : Active(d) => cur[d].id \in Ids /\ tracker[cur[d].id] \in Entry
    BY Fields DEF CallersApart
  <2> QED BY <1>m, <2>1, <2>2, <2>3
<1>5. ASSUME NEW i \in Ids, CleanupOld(i) PROVE CallersApart'
  <2>1. UNCHANGED <<calls, nextID, cur, pc>> /\ \A j \in Ids \ {i} : tracker'[j] = tracker[j]
    BY <1>0, <1>5 DEF CleanupOld, Entries
  <2>2. ASSUME NEW d \in Callers, Active(d)' PROVE Active(d) /\ tracker'[cur[d].id] \in Entry
    <3>1. Active(d) /\ cur[d].id # i BY <1>5, <2>1, <2>2 DEF CleanupOld, Active
    <3>2. cur[d].id \in Ids /\ tracker[cur[d].id] \in Entry BY <3>1, Fields DEF CallersApart
    <3> QED BY <2>1, <3>1, <3>2
  <2> QED BY <1>m, <2>1, <2>2
<1>6. CASE GoRestart
  <2>1. nextID' <= calls' + 1 BY <1>n, <1>6 DEF GoRestart
  <2>2. \A c \in Callers : ~Active(c)' BY <1>6 DEF GoRestart, Active
  <2> QED BY <2>1, <2>2 DEF CallersApart
<1>7. CASE ReceiveAck \/ QueueCommand \/ ExecuteNext \/ SwitchMap \/ LinkBreaks
           \/ NoticeBreak \/ Reconnect \/ UNCHANGED vars
  <2>1. UNCHANGED <<calls, nextID, cur, pc, tracker>>
    BY <1>7 DEF ReceiveAck, QueueCommand, ExecuteNext, SwitchMap, LinkBreaks, NoticeBreak, Reconnect, vars
  <2> QED BY <2>1 DEF CallersApart, Active
<1> QED BY <1>1, <1>2, <1>3, <1>4, <1>5, <1>6, <1>7 DEF Next, Edits

----------------------------------------------------------------------------
(* The first life of the server process.                                    *)

\* The calls inside SendCommand are among those made, each another one.
LEMMA ActiveOps ==
  ASSUME TypeOK, CallersApart, Numbered
  PROVE  /\ calls \in Nat /\ nextID \in Nat /\ nextID = calls + 1
         /\ \A c \in Callers : Active(c) => /\ cur[c] \in Msg /\ cur[c].op \in Ops /\ cur[c].op \in Nat
                                            /\ cur[c].id \in Ids /\ cur[c].id = cur[c].op + 1
                                            /\ cur[c].op <= calls /\ reply[cur[c].op] = None
         /\ \A c, d \in Callers : Active(c) /\ Active(d) /\ cur[c].op = cur[d].op => c = d
<1>1. Scalars BY TypeParts
<1>2. calls \in Nat /\ nextID \in Nat /\ nextID = calls + 1 BY <1>1, Numbers DEF Scalars, Numbered
<1>3. ASSUME NEW c \in Callers, Active(c)
      PROVE  /\ cur[c] \in Msg /\ cur[c].op \in Ops /\ cur[c].op \in Nat
             /\ cur[c].id \in Ids /\ cur[c].id = cur[c].op + 1
             /\ cur[c].op <= calls /\ reply[cur[c].op] = None
  <2>1. cur[c] \in Msg /\ cur[c].id <= nextID BY <1>3 DEF CallersApart
  <2>2. cur[c].op \in Ops /\ cur[c].id \in Ids BY <2>1, Fields
  <2>3. cur[c].op \in Nat BY <2>2, Numbers
  <2>4. cur[c].id = cur[c].op + 1 /\ reply[cur[c].op] = None BY <1>3 DEF Numbered
  <2> QED BY <1>2, <2>1, <2>2, <2>3, <2>4
<1>4. ASSUME NEW c \in Callers, NEW d \in Callers, Active(c), Active(d), cur[c].op = cur[d].op
      PROVE  c = d
  <2>1. cur[c].id = cur[d].id BY <1>3, <1>4
  <2> QED BY <1>4, <2>1 DEF CallersApart
<1> QED BY <1>2, <1>3, <1>4

\* A step changes the outcome of the command at the head of the plugin's queue or
\* of none, and the reply of the call that ends or of none.
Ends(c) == WriteFails(c) \/ TakeResult(c) \/ GiveUp(c)

\* The outcome of a command changes only when it is executed.
LEMMA OutcomeMoves ==
  ASSUME TypeOK, [Next]_vars
  PROVE  \/ outcome' = outcome
         \/ /\ ExecuteNext /\ Head(queue) \in Msg /\ queue # <<>>
            /\ \E S \in SUBSET AckStatus : /\ S # {} /\ outcome' = [outcome EXCEPT ![Head(queue).op] = S]
                                           /\ outcome'[Head(queue).op] = S
<1>0. Queues /\ Scalars BY TypeParts
<1>1. CASE ExecuteNext
  <2>1. Head(queue) \in Msg /\ queue # <<>> BY <1>0, <1>1, Taken DEF ExecuteNext, Queues
  <2>2. PICK S \in SUBSET AckStatus : S # {} /\ outcome' = [outcome EXCEPT ![Head(queue).op] = S]
    BY <1>1, <2>1, Executed DEF ExecuteNext
  <2>3. outcome'[Head(queue).op] = S BY <1>0, <2>1, <2>2, Fields DEF Scalars
  <2> QED BY <1>1, <2>1, <2>2, <2>3
<1> USE DEF goVars, wireVars, pluginVars, bounds
<1>2. ASSUME NEW c \in Callers,
             StartSend(c) \/ WriteFrame(c) \/ WriteFails(c) \/ MarkSent(c) \/ TakeResult(c) \/ GiveUp(c)
      PROVE  outcome' = outcome
  BY <1>2 DEF StartSend, WriteFrame, WriteFails, MarkSent, TakeResult, GiveUp
<1>3. ASSUME NEW i \in Ids, DeadlinePasses(i) \/ CleanupOld(i) PROVE outcome' = outcome
  BY <1>3 DEF DeadlinePasses, CleanupOld
<1>4. CASE ReceiveAck \/ MarkAcked \/ CheckTimeouts \/ GoRestart \/ QueueCommand \/ SwitchMap
           \/ LinkBreaks \/ NoticeBreak \/ Reconnect \/ UNCHANGED vars
  BY <1>4 DEF ReceiveAck, MarkAcked, CheckTimeouts, GoRestart, QueueCommand, SwitchMap, LinkBreaks,
              NoticeBreak, Reconnect, vars
<1> QED BY <1>1, <1>2, <1>3, <1>4 DEF Next

\* A call that ends replies to its own operation, and reports an unsendable command
\* only when it was never written.
LEMMA EndMoves ==
  ASSUME TypeOK, CallersApart, NEW c \in Callers, Ends(c)
  PROVE  /\ Active(c) /\ pc' = [pc EXCEPT ![c] = "idle"] /\ UNCHANGED <<calls, nextID, cur, outcome, toPlugin, queue>>
         /\ \E r \in AckStatus \cup {"timeout", "senderror"} :
              /\ reply' = [reply EXCEPT ![cur[c].op] = r]
              /\ r = "senderror" => pc[c] = "added"
<1> USE DEF goVars, wireVars, pluginVars, bounds
<1>1. CASE WriteFails(c)
  BY <1>1 DEF WriteFails, Active
<1>2. CASE TakeResult(c)
  <2>1. tracker[cur[c].id] \in Entry BY <1>2 DEF TakeResult, CallersApart, Active
  <2>2. tracker[cur[c].id].result \in AckStatus \cup {"timeout"} BY <1>2, <2>1 DEF TakeResult, Entry
  <2>3. tracker[cur[c].id].result # "senderror" BY <2>2 DEF AckStatus
  <2> QED BY <1>2, <2>2, <2>3 DEF TakeResult, Return, Active
<1>3. CASE GiveUp(c)
  <2>1. reply' = [reply EXCEPT ![cur[c].op] = "timeout"] BY <1>3 DEF GiveUp, Return
  <2>2. /\ Active(c) /\ pc' = [pc EXCEPT ![c] = "idle"]
        /\ UNCHANGED <<calls, nextID, cur, outcome, toPlugin, queue>>
    BY <1>3 DEF GiveUp, Return, Active
  <2>3. \E r \in AckStatus \cup {"timeout", "senderror"} :
          reply' = [reply EXCEPT ![cur[c].op] = r] /\ r # "senderror"
    BY <2>1
  <2> QED BY <2>2, <2>3
<1> QED BY <1>1, <1>2, <1>3 DEF Ends

\* The steps that concern neither the callers nor the replies.
Aside == UNCHANGED <<calls, nextID, pc, cur, reply>>

\* In the first server process a step is one of a caller, or leaves them all alone.
LEMMA CallerSteps ==
  ASSUME [Next]_vars, ~GoRestart
  PROVE  \/ \E c \in Callers : StartSend(c) \/ WriteFrame(c) \/ Ends(c) \/ MarkSent(c)
         \/ Aside
<1> USE DEF goVars, wireVars, pluginVars, bounds, Aside
<1>1. ASSUME NEW i \in Ids, DeadlinePasses(i) \/ CleanupOld(i) PROVE Aside
  BY <1>1 DEF DeadlinePasses, CleanupOld
<1>2. CASE ReceiveAck \/ MarkAcked \/ CheckTimeouts \/ QueueCommand \/ ExecuteNext \/ SwitchMap
           \/ LinkBreaks \/ NoticeBreak \/ Reconnect \/ UNCHANGED vars
  BY <1>2 DEF ReceiveAck, MarkAcked, CheckTimeouts, QueueCommand, ExecuteNext, SwitchMap, LinkBreaks,
              NoticeBreak, Reconnect, vars
<1> QED BY <1>1, <1>2 DEF Next, Ends

\* Ids stay one ahead of the calls: a call gets the next of both.
LEMMA NumberedStep ==
  ASSUME TypeOK, CallersApart, FirstLife, [Next]_vars, ~GoRestart
  PROVE  Numbered'
<1>0. Queues /\ Scalars /\ Entries /\ Numbered /\ Unused /\ UnderWay BY TypeParts DEF FirstLife
<1>a. /\ calls \in Nat /\ nextID \in Nat /\ nextID = calls + 1
      /\ \A c \in Callers : Active(c) => /\ cur[c] \in Msg /\ cur[c].op \in Ops /\ cur[c].op \in Nat
                                         /\ cur[c].id = cur[c].op + 1
                                         /\ cur[c].op <= calls /\ reply[cur[c].op] = None
      /\ \A c, d \in Callers : Active(c) /\ Active(d) /\ cur[c].op = cur[d].op => c = d
  BY <1>0, ActiveOps
\* What is added stays unexecuted: nothing that is queued has a caller at "added".
<1>b. \A c \in Callers : pc[c] = "added" => outcome'[cur[c].op] = {}
  <2>1. CASE outcome' = outcome BY <1>0, <2>1 DEF Numbered
  <2>2. CASE ExecuteNext /\ Head(queue) \in Msg /\ queue # <<>>
    <3>1. PICK S \in SUBSET AckStatus : outcome' = [outcome EXCEPT ![Head(queue).op] = S]
      BY <2>2, OutcomeMoves, Executed DEF ExecuteNext
    <3>2. Waits(Head(queue)) BY <1>0, <2>2, Taken DEF UnderWay, Queues
    <3>3. \A c \in Callers : pc[c] = "added" => cur[c].op # Head(queue).op /\ cur[c].op \in Ops
      BY <1>a, <3>2 DEF Waits, Active
    <3> QED BY <1>0, <3>1, <3>3 DEF Numbered, Scalars
  <2> QED BY <2>1, <2>2, OutcomeMoves
<1>1. ASSUME NEW c \in Callers, StartSend(c) PROVE Numbered'
  <2>1. calls' = calls + 1 /\ nextID' = nextID + 1 /\ calls' \in Ops BY <1>1, Started
  <2>2. outcome' = outcome /\ outcome[calls'] = {} /\ reply[calls'] = None
    BY <1>0, <1>1, <1>a, <2>1 DEF Unused, StartSend, pluginVars
  <2>3. CASE UNCHANGED <<pc, cur>> /\ reply' = [reply EXCEPT ![calls'] = "senderror"]
    <3>1. \A d \in Callers : Active(d) => reply'[cur[d].op] = None
      BY <1>0, <1>a, <2>1, <2>3 DEF Scalars
    <3>2. \A d \in Callers : Active(d)' <=> Active(d) BY <2>3 DEF Active
    <3> QED BY <1>0, <1>a, <2>1, <2>2, <2>3, <3>1, <3>2 DEF Numbered
  <2>4. ASSUME pc' = [pc EXCEPT ![c] = "added"], reply' = reply,
               NEW m \in Msg, m.op = calls', m.id = nextID', cur' = [cur EXCEPT ![c] = m]
        PROVE  Numbered'
    <3>1. /\ cur'[c] = m /\ \A d \in Callers \ {c} : cur'[d] = cur[d] /\ pc'[d] = pc[d] /\ (Active(d)' <=> Active(d))
      BY <1>0, <2>4 DEF Scalars, Active
    <3>2. \A d \in Callers : Active(d)' => cur'[d].id = cur'[d].op + 1 /\ reply'[cur'[d].op] = None
      BY <1>a, <2>1, <2>2, <2>4, <3>1
    <3>3. \A d \in Callers : pc'[d] = "added" => outcome'[cur'[d].op] = {}
      BY <1>0, <2>2, <2>4, <3>1 DEF Numbered
    <3> QED BY <1>a, <2>1, <3>2, <3>3 DEF Numbered
  <2> QED BY <1>1, <2>3, <2>4, Started
<1>2. ASSUME NEW c \in Callers, WriteFrame(c) \/ MarkSent(c) PROVE Numbered'
  <2>1. /\ UNCHANGED <<calls, nextID, cur, reply, outcome>>
        /\ \A d \in Callers : (Active(d)' => Active(d)) /\ (pc'[d] = "added" => pc[d] = "added")
    BY <1>0, <1>2 DEF WriteFrame, MarkSent, Active, pluginVars, Scalars
  <2> QED BY <1>0, <2>1 DEF Numbered
<1>3. ASSUME NEW c \in Callers, Ends(c) PROVE Numbered'
  <2>1. /\ Active(c) /\ pc' = [pc EXCEPT ![c] = "idle"] /\ UNCHANGED <<calls, nextID, cur, outcome>>
        /\ \E r : reply' = [reply EXCEPT ![cur[c].op] = r]
    BY <1>3, EndMoves
  <2>2. ~Active(c)' /\ \A d \in Callers \ {c} : pc'[d] = pc[d] /\ (Active(d)' <=> Active(d))
    BY <1>0, <2>1 DEF Scalars, Active
  <2>3. \A d \in Callers : Active(d)' => Active(d) /\ cur[d].op # cur[c].op
    BY <1>a, <2>1, <2>2
  <2>4. \A d \in Callers : Active(d)' => cur'[d].id = cur'[d].op + 1 /\ reply'[cur'[d].op] = None
    BY <1>0, <1>a, <2>1, <2>3 DEF Scalars
  <2>5. \A d \in Callers : pc'[d] = "added" => outcome'[cur'[d].op] = {}
    BY <1>0, <2>1 DEF Numbered, Scalars
  <2> QED BY <1>0, <2>1, <2>4, <2>5 DEF Numbered
<1>4. CASE Aside
  <2>1. \A c \in Callers : Active(c)' <=> Active(c) BY <1>4 DEF Aside, Active
  <2> QED BY <1>0, <1>b, <1>4, <2>1 DEF Aside, Numbered
<1> QED BY <1>1, <1>2, <1>3, <1>4, CallerSteps

\* Nothing is known of a call before it is made.
LEMMA UnusedStep ==
  ASSUME TypeOK, CallersApart, FirstLife, [Next]_vars, ~GoRestart
  PROVE  Unused'
<1>0. Queues /\ Scalars /\ Numbered /\ Unused /\ UnderWay BY TypeParts DEF FirstLife
<1>a. calls \in Nat /\ \A c \in Callers : Active(c) => cur[c].op <= calls BY <1>0, ActiveOps
<1>b. \A o \in Ops : o > calls => outcome'[o] = {}
  <2>1. CASE outcome' = outcome BY <1>0, <2>1 DEF Unused
  <2>2. CASE ExecuteNext /\ Head(queue) \in Msg /\ queue # <<>>
    <3>1. PICK S \in SUBSET AckStatus : outcome' = [outcome EXCEPT ![Head(queue).op] = S]
      BY <2>2, OutcomeMoves, Executed DEF ExecuteNext
    <3>2. Waits(Head(queue)) BY <1>0, <2>2, Taken DEF UnderWay, Queues
    <3>3. Head(queue).op <= calls /\ Head(queue).op \in Nat BY <2>2, <3>2, Fields, Numbers DEF Waits
    <3>4. \A o \in Ops : o > calls => o # Head(queue).op BY <1>a, <3>3, Numbers
    <3> QED BY <1>0, <3>1, <3>4 DEF Unused, Scalars
  <2> QED BY <2>1, <2>2, OutcomeMoves
<1>1. ASSUME NEW c \in Callers, StartSend(c) PROVE Unused'
  <2>1. calls' = calls + 1 /\ (reply' = reply \/ reply' = [reply EXCEPT ![calls'] = "senderror"])
    BY <1>1, Started
  <2>2. \A o \in Ops : o > calls' => o > calls /\ o # calls' BY <1>a, <2>1, Numbers
  <2>3. \A o \in Ops : o > calls' => reply'[o] = reply[o] BY <1>0, <2>1, <2>2 DEF Scalars
  <2> QED BY <1>0, <1>b, <2>2, <2>3 DEF Unused
<1>2. ASSUME NEW c \in Callers, Ends(c) PROVE Unused'
  <2>1. /\ Active(c) /\ calls' = calls /\ \E r : reply' = [reply EXCEPT ![cur[c].op] = r]
    BY <1>2, EndMoves
  <2>2. cur[c].op \in Nat /\ cur[c].op <= calls BY <1>0, <2>1, ActiveOps
  <2>3. \A o \in Ops : o > calls => o # cur[c].op BY <1>a, <2>2, Numbers
  <2>4. \A o \in Ops : o > calls => reply'[o] = reply[o] BY <1>0, <2>1, <2>3 DEF Scalars
  <2> QED BY <1>0, <1>b, <2>1, <2>4 DEF Unused
<1>3. ASSUME NEW c \in Callers, WriteFrame(c) \/ MarkSent(c) PROVE Unused'
  <2>1. UNCHANGED <<calls, reply>> BY <1>3 DEF WriteFrame, MarkSent
  <2> QED BY <1>0, <1>b, <2>1 DEF Unused
<1>4. CASE Aside BY <1>0, <1>b, <1>4 DEF Aside, Unused
<1> QED BY <1>1, <1>2, <1>3, <1>4, CallerSteps

\* A command that waits for its execution goes on waiting, whatever happens,
\* until it is its turn.
LEMMA WaitsStep ==
  ASSUME TypeOK, CallersApart, FirstLife, [Next]_vars, ~GoRestart,
         NEW m \in Msg, Waits(m), ExecuteNext => m.op # Head(queue).op
  PROVE  Waits(m)'
<1>0. Queues /\ Scalars /\ Numbered /\ Unused /\ UnderWay BY TypeParts DEF FirstLife
<1>a. calls \in Nat /\ m.op \in Nat /\ m.op \in Ops BY <1>0, Fields, Numbers DEF Scalars
<1>b. outcome'[m.op] = {}
  <2>1. CASE outcome' = outcome BY <2>1 DEF Waits
  <2>2. CASE ExecuteNext
    <3>1. \/ outcome' = outcome
          \/ \E S \in SUBSET AckStatus : outcome' = [outcome EXCEPT ![Head(queue).op] = S]
      BY OutcomeMoves
    <3> QED BY <1>0, <1>a, <2>2, <3>1 DEF Waits, Scalars
  <2> QED BY <2>1, <2>2, OutcomeMoves
<1>1. ASSUME NEW c \in Callers, StartSend(c) PROVE Waits(m)'
  <2>1. calls' = calls + 1 /\ m.op # calls' BY <1>1, <1>a, Started DEF Waits
  <2>2. reply'[m.op] # "senderror"
    <3>1. reply' = reply \/ reply' = [reply EXCEPT ![calls'] = "senderror"] BY <1>1, Started
    <3> QED BY <1>0, <1>a, <2>1, <3>1 DEF Waits, Scalars
  <2>3. \A d \in Callers : pc'[d] = "added" => cur'[d].op # m.op
    <3>1. CASE UNCHANGED <<pc, cur>> BY <3>1 DEF Waits
    <3>2. ASSUME pc' = [pc EXCEPT ![c] = "added"],
                 NEW n \in Msg, n.op = calls', cur' = [cur EXCEPT ![c] = n]
          PROVE  \A d \in Callers : pc'[d] = "added" => cur'[d].op # m.op
      BY <1>0, <2>1, <3>2 DEF Waits, Scalars
    <3> QED BY <1>1, <3>1, <3>2, Started
  <2> QED BY <1>a, <1>b, <2>1, <2>2, <2>3 DEF Waits
<1>2. ASSUME NEW c \in Callers, Ends(c) PROVE Waits(m)'
  <2>1. Active(c) /\ pc' = [pc EXCEPT ![c] = "idle"] /\ UNCHANGED <<calls, cur>> BY <1>2, EndMoves
  <2>2. PICK r \in AckStatus \cup {"timeout", "senderror"} :
          reply' = [reply EXCEPT ![cur[c].op] = r] /\ (r = "senderror" => pc[c] = "added")
    BY <1>2, EndMoves
  <2>3. reply'[m.op] # "senderror" BY <1>0, <1>a, <2>2 DEF Waits, Scalars
  <2>4. \A d \in Callers : pc'[d] = "added" => pc[d] = "added" BY <1>0, <2>1 DEF Scalars
  <2> QED BY <1>b, <2>1, <2>3, <2>4 DEF Waits
<1>3. ASSUME NEW c \in Callers, WriteFrame(c) \/ MarkSent(c) PROVE Waits(m)'
  <2>1. UNCHANGED <<calls, reply, cur>> /\ \A d \in Callers : pc'[d] = "added" => pc[d] = "added"
    BY <1>0, <1>3 DEF WriteFrame, MarkSent, Scalars
  <2> QED BY <1>b, <2>1 DEF Waits
<1>4. CASE Aside BY <1>b, <1>4 DEF Aside, Waits
<1> QED BY <1>1, <1>2, <1>3, <1>4, CallerSteps

\* The queues of commands under way move in few ways.
LEMMA QueueMoves ==
  ASSUME [Next]_vars, ~GoRestart
  PROVE  \/ UNCHANGED <<toPlugin, queue>> /\ ~ExecuteNext
         \/ \E c \in Callers : WriteFrame(c) /\ toPlugin' = Append(toPlugin, cur[c]) /\ queue' = queue
         \/ QueueCommand \/ ExecuteNext
         \/ toPlugin' = <<>> /\ queue' = queue /\ ~ExecuteNext
<1> DEFINE Kept == UNCHANGED <<toPlugin, queue>>
<1> USE DEF goVars, wireVars, pluginVars, bounds
<1>1. ASSUME NEW c \in Callers,
             StartSend(c) \/ WriteFails(c) \/ MarkSent(c) \/ TakeResult(c) \/ GiveUp(c)
      PROVE  Kept
  BY <1>1 DEF StartSend, WriteFails, MarkSent, TakeResult, GiveUp
<1>2. ASSUME NEW i \in Ids, DeadlinePasses(i) \/ CleanupOld(i) PROVE Kept
  BY <1>2 DEF DeadlinePasses, CleanupOld
<1>3. CASE ReceiveAck \/ MarkAcked \/ CheckTimeouts \/ SwitchMap \/ NoticeBreak \/ Reconnect \/ UNCHANGED vars
  BY <1>3 DEF ReceiveAck, MarkAcked, CheckTimeouts, SwitchMap, NoticeBreak, Reconnect, vars
<1>4. ASSUME NEW c \in Callers, WriteFrame(c)
      PROVE  Kept \/ (toPlugin' = Append(toPlugin, cur[c]) /\ queue' = queue)
  BY <1>4 DEF WriteFrame
<1>5. CASE LinkBreaks
  BY <1>5 DEF LinkBreaks
<1> QED BY <1>1, <1>2, <1>3, <1>4, <1>5 DEF Next

\* No command is twice under way, and none is under way once it has been executed.
LEMMA UnderWayStep ==
  ASSUME TypeOK, CallersApart, FirstLife, [Next]_vars, ~GoRestart
  PROVE  UnderWay'
<1>0. Queues /\ Scalars /\ Numbered /\ Unused /\ UnderWay BY TypeParts DEF FirstLife
<1>q. /\ \A k \in 1..Len(toPlugin) : toPlugin[k] \in Msg /\ Waits(toPlugin[k])
      /\ \A k \in 1..Len(queue) : queue[k] \in Msg /\ Waits(queue[k])
      /\ toPlugin \in Seq(Msg) /\ queue \in Seq(Msg)
  BY <1>0, ElementOfSeq DEF Queues, UnderWay
<1>w. ASSUME NEW m \in Msg, Waits(m), ExecuteNext => m.op # Head(queue).op PROVE Waits(m)'
  BY <1>w, WaitsStep
<1>u. ASSUME \A k \in 1..Len(toPlugin') : \E m \in Msg : m = toPlugin'[k] /\ Waits(m)',
             \A k \in 1..Len(queue') : \E m \in Msg : m = queue'[k] /\ Waits(m)',
             Once(toPlugin'), Once(queue'),
             \A j \in 1..Len(toPlugin'), k \in 1..Len(queue') : toPlugin'[j].op # queue'[k].op
      PROVE  UnderWay'
  <2>1. ASSUME NEW k \in 1..Len(toPlugin') PROVE Waits(toPlugin[k])'
    <3>1. PICK m \in Msg : m = toPlugin'[k] /\ Waits(m)' BY <1>u
    <3> QED BY <3>1 DEF Waits
  <2>2. ASSUME NEW k \in 1..Len(queue') PROVE Waits(queue[k])'
    <3>1. PICK m \in Msg : m = queue'[k] /\ Waits(m)' BY <1>u
    <3> QED BY <3>1 DEF Waits
  <2>3. Once(toPlugin)' /\ Once(queue)' BY <1>u DEF Once
  <2> QED BY <1>u, <2>1, <2>2, <2>3 DEF UnderWay
<1>1. CASE UNCHANGED <<toPlugin, queue>> /\ ~ExecuteNext
  <2>1. /\ \A k \in 1..Len(toPlugin') : \E m \in Msg : m = toPlugin'[k] /\ Waits(m)'
        /\ \A k \in 1..Len(queue') : \E m \in Msg : m = queue'[k] /\ Waits(m)'
    BY <1>q, <1>w, <1>1
  <2>2. /\ Once(toPlugin') /\ Once(queue')
        /\ \A j \in 1..Len(toPlugin'), k \in 1..Len(queue') : toPlugin'[j].op # queue'[k].op
    BY <1>0, <1>1 DEF UnderWay
  <2> QED BY <1>u, <2>1, <2>2
<1>2. ASSUME NEW c \in Callers, WriteFrame(c), toPlugin' = Append(toPlugin, cur[c]), queue' = queue
      PROVE  UnderWay'
  <2>1. /\ pc[c] = "added" /\ cur[c] \in Msg /\ cur[c].op \in Ops /\ cur[c].op <= calls
        /\ cur[c].id = cur[c].op + 1 /\ reply[cur[c].op] = None
    BY <1>0, <1>2, ActiveOps DEF WriteFrame, Active
  <2>2. /\ UNCHANGED <<calls, cur, outcome, reply>> /\ ~ExecuteNext
        /\ pc' = [pc EXCEPT ![c] = "written"]
    <3>1. UNCHANGED <<calls, cur, outcome, reply>> /\ pc' = [pc EXCEPT ![c] = "written"]
      BY <1>2 DEF WriteFrame, pluginVars
    <3>2. pc'[c] # pc[c] BY <1>0, <2>1, <3>1 DEF Scalars
    <3> QED BY <3>1, <3>2 DEF ExecuteNext, goVars
  <2>3. Waits(cur[c])'
    <3>1. outcome[cur[c].op] = {} BY <1>0, <2>1 DEF Numbered
    <3>2. None # "senderror" BY NoneAssumption
    <3>3. \A d \in Callers : pc'[d] = "added" => cur[d].op # cur[c].op
      <4> SUFFICES ASSUME NEW d \in Callers, pc'[d] = "added", cur[d].op = cur[c].op PROVE FALSE
        OBVIOUS
      <4>1. d # c /\ pc[d] = "added" BY <1>0, <2>2 DEF Scalars
      <4>2. Active(d) /\ Active(c) BY <2>1, <4>1 DEF Active
      <4> QED BY <1>0, <4>1, <4>2, ActiveOps
    <3> QED BY <2>1, <2>2, <3>1, <3>2, <3>3 DEF Waits
  <2>4. \A k \in 1..Len(toPlugin') : \/ k \in 1..Len(toPlugin) /\ toPlugin'[k] = toPlugin[k]
                                     \/ k = Len(toPlugin) + 1 /\ toPlugin'[k] = cur[c]
    <3>1. toPlugin \in Seq(Msg) /\ cur[c] \in Msg BY <1>q, <2>1
    <3>2. /\ Len(toPlugin) \in Nat /\ Len(toPlugin') = Len(toPlugin) + 1 /\ toPlugin'[Len(toPlugin) + 1] = cur[c]
          /\ \A k \in 1..Len(toPlugin) : toPlugin'[k] = toPlugin[k]
      BY <1>2, <3>1, AppendProperties, LenProperties
    <3>3. \A k \in 1..Len(toPlugin') : k \in 1..Len(toPlugin) \/ k = Len(toPlugin) + 1 BY <3>2
    <3> QED BY <3>2, <3>3
  <2>5. /\ \A k \in 1..Len(toPlugin) : toPlugin[k].op # cur[c].op
        /\ \A k \in 1..Len(queue) : queue[k].op # cur[c].op
    BY <1>q, <2>1 DEF Waits
  <2>6. \A k \in 1..Len(toPlugin') : \E m \in Msg : m = toPlugin'[k] /\ Waits(m)'
    <3> SUFFICES ASSUME NEW k \in 1..Len(toPlugin') PROVE \E m \in Msg : m = toPlugin'[k] /\ Waits(m)'
      OBVIOUS
    <3>1. CASE toPlugin'[k] = cur[c]
      <4>1. cur'[c] = cur[c] BY <2>2
      <4>2. \E m \in Msg : m = cur[c] BY <2>1
      <4>3. PICK m \in Msg : m = cur[c] BY <4>2
      <4>4. Waits(m)' BY <2>3, <4>1, <4>3 DEF Waits
      <4> QED BY <3>1, <4>3, <4>4
    <3>2. CASE k \in 1..Len(toPlugin) /\ toPlugin'[k] = toPlugin[k] BY <1>q, <1>w, <2>2, <3>2
    <3> QED BY <2>4, <3>1, <3>2
  <2>7. \A k \in 1..Len(queue') : \E m \in Msg : m = queue'[k] /\ Waits(m)'
    BY <1>q, <1>w, <1>2, <2>2
  <2>8. Once(toPlugin')
    <3> SUFFICES ASSUME NEW j \in 1..Len(toPlugin'), NEW k \in 1..Len(toPlugin'),
                        toPlugin'[j].op = toPlugin'[k].op
                 PROVE  j = k
      BY DEF Once
    <3> QED BY <1>0, <2>4, <2>5 DEF UnderWay, Once
  <2>9. Once(queue') BY <1>0, <1>2 DEF UnderWay
  <2>10. \A j \in 1..Len(toPlugin'), k \in 1..Len(queue') : toPlugin'[j].op # queue'[k].op
    BY <1>0, <1>2, <2>4, <2>5 DEF UnderWay
  <2> QED BY <1>u, <2>6, <2>7, <2>8, <2>9, <2>10
<1>3. CASE QueueCommand
  <2> DEFINE h == Head(toPlugin)
  <2>1. /\ toPlugin' = Tail(toPlugin) /\ queue' = Append(queue, h) /\ toPlugin # <<>>
        /\ UNCHANGED goVars
    BY <1>3 DEF QueueCommand
  <2>2. /\ h \in Msg /\ h = toPlugin[1] /\ 1 \in 1..Len(toPlugin) /\ Len(toPlugin) \in Nat
        /\ \A i \in 1..Len(toPlugin') : i + 1 \in 1..Len(toPlugin) /\ toPlugin'[i] = toPlugin[i + 1]
        /\ Len(toPlugin') = Len(toPlugin) - 1
    BY <1>q, <2>1, Taken
  <2> HIDE DEF h
  <2>3. \A k \in 1..Len(queue') : \/ k \in 1..Len(queue) /\ queue'[k] = queue[k]
                                  \/ k = Len(queue) + 1 /\ queue'[k] = h
    <3>1. queue \in Seq(Msg) /\ h \in Msg BY <1>q, <2>2
    <3>2. /\ Len(queue) \in Nat /\ Len(queue') = Len(queue) + 1 /\ queue'[Len(queue) + 1] = h
          /\ \A k \in 1..Len(queue) : queue'[k] = queue[k]
      BY <2>1, <3>1, AppendProperties, LenProperties
    <3>3. \A k \in 1..Len(queue') : k \in 1..Len(queue) \/ k = Len(queue) + 1 BY <3>2
    <3> QED BY <3>2, <3>3
  <2>4. \A m \in Msg : Waits(m) => Waits(m)'
    <3>1. ~ExecuteNext
      <4>1. Len(Append(queue, h)) = Len(queue) + 1 /\ Len(queue) \in Nat BY <1>q, <2>2, Joined
      <4>2. ExecuteNext => queue' = Tail(queue) /\ queue # <<>> BY DEF ExecuteNext
      <4>3. queue # <<>> => Len(Tail(queue)) = Len(queue) - 1 BY <1>q, Taken
      <4> QED BY <2>1, <4>1, <4>2, <4>3
    <3> QED BY <1>w, <3>1
  <2>5. /\ \A k \in 1..Len(queue) : queue[k].op # h.op
        /\ \A k \in 1..Len(toPlugin') : toPlugin'[k].op # h.op
    <3>1. \A k \in 1..Len(queue) : queue[k].op # h.op BY <1>0, <2>2 DEF UnderWay
    <3>2. ASSUME NEW k \in 1..Len(toPlugin') PROVE toPlugin'[k].op # h.op
      <4>1. k + 1 # 1 BY <2>2
      <4> QED BY <1>0, <2>2, <4>1 DEF UnderWay, Once
    <3> QED BY <3>1, <3>2
  <2>6. \A k \in 1..Len(toPlugin') : \E m \in Msg : m = toPlugin'[k] /\ Waits(m)' BY <1>q, <2>2, <2>4
  <2>7. \A k \in 1..Len(queue') : \E m \in Msg : m = queue'[k] /\ Waits(m)' BY <1>q, <2>2, <2>3, <2>4
  <2>8. Once(toPlugin')
    <3> SUFFICES ASSUME NEW j \in 1..Len(toPlugin'), NEW k \in 1..Len(toPlugin'),
                        toPlugin'[j].op = toPlugin'[k].op
                 PROVE  j = k
      BY DEF Once
    <3>1. j + 1 = k + 1 BY <1>0, <2>2 DEF UnderWay, Once
    <3> QED BY <2>2, <3>1
  <2>9. Once(queue')
    <3> SUFFICES ASSUME NEW j \in 1..Len(queue'), NEW k \in 1..Len(queue'), queue'[j].op = queue'[k].op
                 PROVE  j = k
      BY DEF Once
    <3> QED BY <1>0, <2>3, <2>5 DEF UnderWay, Once
  <2>10. \A j \in 1..Len(toPlugin'), k \in 1..Len(queue') : toPlugin'[j].op # queue'[k].op
    <3> SUFFICES ASSUME NEW j \in 1..Len(toPlugin'), NEW k \in 1..Len(queue')
                 PROVE  toPlugin'[j].op # queue'[k].op
      OBVIOUS
    <3>1. CASE queue'[k] = h BY <2>5, <3>1
    <3>2. CASE k \in 1..Len(queue) /\ queue'[k] = queue[k] BY <1>0, <2>2, <3>2 DEF UnderWay
    <3> QED BY <2>3, <3>1, <3>2
  <2> QED BY <1>u, <2>6, <2>7, <2>8, <2>9, <2>10
<1>4. CASE ExecuteNext
  <2> DEFINE h == Head(queue)
  <2>1. queue' = Tail(queue) /\ queue # <<>> /\ toPlugin' = toPlugin BY <1>4 DEF ExecuteNext
  <2>2. /\ h \in Msg /\ h = queue[1] /\ 1 \in 1..Len(queue) /\ Len(queue) \in Nat
        /\ \A i \in 1..Len(queue') : i + 1 \in 1..Len(queue) /\ queue'[i] = queue[i + 1]
        /\ Len(queue') = Len(queue) - 1
    BY <1>q, <2>1, Taken
  <2>3. \A m \in Msg : Waits(m) /\ m.op # h.op => Waits(m)' BY <1>w
  <2> HIDE DEF h
  <2>4. /\ \A k \in 1..Len(queue') : queue'[k].op # h.op
        /\ \A k \in 1..Len(toPlugin) : toPlugin[k].op # h.op
    <3>1. \A k \in 1..Len(toPlugin) : toPlugin[k].op # h.op BY <1>0, <2>2 DEF UnderWay
    <3>2. ASSUME NEW k \in 1..Len(queue') PROVE queue'[k].op # h.op
      <4>1. k + 1 # 1 BY <2>2
      <4> QED BY <1>0, <2>2, <4>1 DEF UnderWay, Once
    <3> QED BY <3>1, <3>2
  <2>5. \A k \in 1..Len(toPlugin') : \E m \in Msg : m = toPlugin'[k] /\ Waits(m)' BY <1>q, <2>1, <2>3, <2>4
  <2>6. \A k \in 1..Len(queue') : \E m \in Msg : m = queue'[k] /\ Waits(m)' BY <1>q, <2>2, <2>3, <2>4
  <2>7. Once(toPlugin') BY <1>0, <2>1 DEF UnderWay
  <2>8. Once(queue')
    <3> SUFFICES ASSUME NEW j \in 1..Len(queue'), NEW k \in 1..Len(queue'), queue'[j].op = queue'[k].op
                 PROVE  j = k
      BY DEF Once
    <3>1. j + 1 = k + 1 BY <1>0, <2>2 DEF UnderWay, Once
    <3> QED BY <2>2, <3>1
  <2>9. \A j \in 1..Len(toPlugin'), k \in 1..Len(queue') : toPlugin'[j].op # queue'[k].op
    BY <1>0, <2>1, <2>2 DEF UnderWay
  <2> QED BY <1>u, <2>5, <2>6, <2>7, <2>8, <2>9
<1>5. CASE toPlugin' = <<>> /\ queue' = queue /\ ~ExecuteNext
  <2>1. Len(toPlugin') = 0 BY <1>5, EmptySeq
  <2>2. \A k \in 1..Len(queue') : \E m \in Msg : m = queue'[k] /\ Waits(m)' BY <1>q, <1>w, <1>5
  <2>3. Once(queue') BY <1>0, <1>5 DEF UnderWay
  <2>4. /\ Once(toPlugin') /\ \A k \in 1..Len(toPlugin') : \E m \in Msg : m = toPlugin'[k] /\ Waits(m)'
        /\ \A j \in 1..Len(toPlugin'), k \in 1..Len(queue') : toPlugin'[j].op # queue'[k].op
    BY <2>1 DEF Once
  <2> QED BY <1>u, <2>2, <2>3, <2>4
<1> QED BY <1>1, <1>2, <1>3, <1>4, <1>5, QueueMoves

\* What was said of a command stays true: only a command that nothing has been
\* said of is executed.
LEMMA TrueStays ==
  ASSUME TypeOK, UnderWay, [Next]_vars
  PROVE  \A o \in Ops : outcome[o] # {} => outcome'[o] = outcome[o]
<1>0. Queues /\ Scalars BY TypeParts
<1>1. CASE outcome' = outcome BY <1>1
<1>2. CASE ExecuteNext /\ Head(queue) \in Msg /\ queue # <<>>
  <2>1. \/ outcome' = outcome
        \/ \E S \in SUBSET AckStatus : outcome' = [outcome EXCEPT ![Head(queue).op] = S]
    BY OutcomeMoves
  <2>2. Head(queue) = queue[1] /\ 1 \in 1..Len(queue) BY <1>0, <1>2, Taken DEF Queues
  <2>3. outcome[Head(queue).op] = {} BY <2>2 DEF UnderWay, Waits
  <2> QED BY <1>0, <2>1, <2>3 DEF Scalars
<1> QED BY <1>1, <1>2, OutcomeMoves

\* An acknowledgement is written with the status of the execution, and carried as it is.
LEMMA AcksTrueStep ==
  ASSUME TypeOK, CallersApart, FirstLife, [Next]_vars, ~GoRestart
  PROVE  AcksTrue'
<1>0. Queues /\ Scalars /\ UnderWay /\ AcksTrue BY TypeParts DEF FirstLife
<1>q. /\ \A k \in 1..Len(toServer) : toServer[k] \in Ack /\ True(toServer[k])
      /\ \A k \in 1..Len(ackCh) : ackCh[k] \in Ack /\ True(ackCh[k])
      /\ toServer \in Seq(Ack) /\ ackCh \in Seq(Ack)
  BY <1>0, ElementOfSeq DEF Queues, AcksTrue
<1>t. ASSUME NEW a \in Ack, True(a) PROVE True(a)'
  <2>1. a.op \in Ops /\ outcome[a.op] # {} BY <1>t, Fields DEF True
  <2>2. outcome'[a.op] = outcome[a.op] BY <1>0, <2>1, TrueStays
  <2> QED BY <1>t, <2>2 DEF True
<1>u. ASSUME \A k \in 1..Len(toServer') : \E a \in Ack : a = toServer'[k] /\ True(a)',
             \A k \in 1..Len(ackCh') : \E a \in Ack : a = ackCh'[k] /\ True(a)'
      PROVE  AcksTrue'
  <2>1. ASSUME NEW k \in 1..Len(toServer') PROVE True(toServer[k])'
    <3>1. PICK a \in Ack : a = toServer'[k] /\ True(a)' BY <1>u
    <3> QED BY <3>1 DEF True
  <2>2. ASSUME NEW k \in 1..Len(ackCh') PROVE True(ackCh[k])'
    <3>1. PICK a \in Ack : a = ackCh'[k] /\ True(a)' BY <1>u
    <3> QED BY <3>1 DEF True
  <2> QED BY <2>1, <2>2 DEF AcksTrue
<1>1. CASE UNCHANGED <<toServer, ackCh>>
  BY <1>q, <1>t, <1>u, <1>1
<1>2. CASE ReceiveAck
  <2> DEFINE h == Head(toServer)
  <2>1. toServer # <<>> /\ toServer' = Tail(toServer) /\ (ackCh' = ackCh \/ ackCh' = Append(ackCh, h))
    BY <1>2 DEF ReceiveAck
  <2>2. /\ h \in Ack /\ h = toServer[1] /\ 1 \in 1..Len(toServer)
        /\ \A i \in 1..Len(toServer') : i + 1 \in 1..Len(toServer) /\ toServer'[i] = toServer[i + 1]
    BY <1>q, <2>1, Taken
  <2> HIDE DEF h
  <2>3. \A k \in 1..Len(toServer') : \E a \in Ack : a = toServer'[k] /\ True(a)' BY <1>q, <1>t, <2>2
  <2>4. \A k \in 1..Len(ackCh') : \E a \in Ack : a = ackCh'[k] /\ True(a)'
    <3>1. CASE ackCh' = ackCh BY <1>q, <1>t, <3>1
    <3>2. CASE ackCh' = Append(ackCh, h)
      <4>1. /\ Len(ackCh) \in Nat /\ Len(ackCh') = Len(ackCh) + 1 /\ ackCh'[Len(ackCh) + 1] = h
            /\ \A k \in 1..Len(ackCh) : ackCh'[k] = ackCh[k]
        BY <1>q, <2>2, <3>2, AppendProperties, LenProperties
      <4>2. ASSUME NEW k \in 1..Len(ackCh') PROVE \E a \in Ack : a = ackCh'[k] /\ True(a)'
        <5>1. CASE k \in 1..Len(ackCh) BY <1>q, <1>t, <4>1, <5>1
        <5>2. CASE k = Len(ackCh) + 1
          <6>1. \E a \in Ack : a = h BY <2>2
          <6>2. PICK a \in Ack : a = h BY <6>1
          <6>3. True(a) BY <1>q, <2>2, <6>2
          <6> QED BY <1>t, <4>1, <5>2, <6>2, <6>3
        <5> QED BY <4>1, <5>1, <5>2
      <4> QED BY <4>2
    <3> QED BY <2>1, <3>1, <3>2
  <2> QED BY <1>u, <2>3, <2>4
<1>3. CASE MarkAcked
  <2>1. ackCh # <<>> /\ ackCh' = Tail(ackCh) /\ toServer' = toServer BY <1>3 DEF MarkAcked, wireVars
  <2>2. \A i \in 1..Len(ackCh') : i + 1 \in 1..Len(ackCh) /\ ackCh'[i] = ackCh[i + 1] BY <1>q, <2>1, Taken
  <2>3. \A k \in 1..Len(toServer') : \E a \in Ack : a = toServer'[k] /\ True(a)' BY <1>q, <1>t, <2>1
  <2>4. \A k \in 1..Len(ackCh') : \E a \in Ack : a = ackCh'[k] /\ True(a)' BY <1>q, <1>t, <2>2
  <2> QED BY <1>u, <2>3, <2>4
<1>4. CASE ExecuteNext
  <2> DEFINE h == Head(queue)
  <2>1. queue # <<>> /\ Execute(h) /\ ackCh' = ackCh BY <1>4 DEF ExecuteNext, goVars
  <2>2. h \in Msg /\ h = queue[1] /\ 1 \in 1..Len(queue) BY <1>0, <2>1, Taken DEF Queues
  <2> HIDE DEF h
  <2>3. PICK S \in SUBSET AckStatus :
          /\ outcome' = [outcome EXCEPT ![h.op] = S] /\ toServer' \in Seq(Ack)
          /\ \A k \in 1..Len(toServer') :
               \/ k \in 1..Len(toServer) /\ toServer'[k] = toServer[k]
               \/ toServer'[k].op = h.op /\ toServer'[k].id = h.id /\ toServer'[k].status \in S
    BY <2>1, <2>2, Executed
  <2>4. h.op \in Ops /\ h.id = h.op + 1 /\ outcome'[h.op] = S
    <3>1. Waits(h) BY <1>0, <2>2 DEF UnderWay
    <3> QED BY <1>0, <2>2, <2>3, <3>1, Fields DEF Waits, Scalars
  <2>5. ASSUME NEW k \in 1..Len(toServer') PROVE \E a \in Ack : a = toServer'[k] /\ True(a)'
    <3>1. toServer'[k] \in Ack BY <2>3, ElementOfSeq
    <3>2. \E a \in Ack : a = toServer'[k] BY <3>1
    <3>3. PICK a \in Ack : a = toServer'[k] BY <3>2
    <3>4. CASE k \in 1..Len(toServer) /\ toServer'[k] = toServer[k]
      <4>1. True(a) BY <1>q, <3>3, <3>4
      <4> QED BY <1>t, <3>3, <4>1
    <3>5. CASE toServer'[k].op = h.op /\ toServer'[k].id = h.id /\ toServer'[k].status \in S
      <4>1. a.id = a.op + 1 /\ a.status \in outcome'[a.op] BY <2>4, <3>3, <3>5
      <4> QED BY <3>3, <4>1 DEF True
    <3> QED BY <2>3, <3>4, <3>5
  <2>6. \A k \in 1..Len(ackCh') : \E a \in Ack : a = ackCh'[k] /\ True(a)' BY <1>q, <1>t, <2>1
  <2> QED BY <1>u, <2>5, <2>6
<1>5. CASE LinkBreaks
  <2>1. toServer' = <<>> /\ ackCh' = ackCh BY <1>5 DEF LinkBreaks, goVars
  <2>2. Len(toServer') = 0 BY <2>1, EmptySeq
  <2>3. \A k \in 1..Len(toServer') : \E a \in Ack : a = toServer'[k] /\ True(a)' BY <2>2
  <2>4. \A k \in 1..Len(ackCh') : \E a \in Ack : a = ackCh'[k] /\ True(a)' BY <1>q, <1>t, <2>1
  <2> QED BY <1>u, <2>3, <2>4
<1> USE DEF goVars, wireVars, pluginVars, bounds
<1>6. ASSUME NEW c \in Callers,
             StartSend(c) \/ WriteFrame(c) \/ WriteFails(c) \/ MarkSent(c) \/ TakeResult(c) \/ GiveUp(c)
      PROVE  UNCHANGED <<toServer, ackCh>>
  BY <1>6 DEF StartSend, WriteFrame, WriteFails, MarkSent, TakeResult, GiveUp
<1>7. ASSUME NEW i \in Ids, DeadlinePasses(i) \/ CleanupOld(i) PROVE UNCHANGED <<toServer, ackCh>>
  BY <1>7 DEF DeadlinePasses, CleanupOld
<1>8. CASE CheckTimeouts \/ QueueCommand \/ SwitchMap \/ NoticeBreak \/ Reconnect \/ UNCHANGED vars
  <2>1. UNCHANGED <<toServer, ackCh>>
    BY <1>8 DEF CheckTimeouts, QueueCommand, SwitchMap, NoticeBreak, Reconnect, vars
  <2> QED BY <1>1, <2>1
<1> QED BY <1>1, <1>2, <1>3, <1>4, <1>5, <1>6, <1>7, <1>8 DEF Next

\* A tracker entry is offered a status of its own command, or a timeout.
LEMMA ResultsTrueStep ==
  ASSUME TypeOK, CallersApart, FirstLife, [Next]_vars, ~GoRestart
  PROVE  ResultsTrue'
<1>0. Queues /\ Scalars /\ Entries /\ UnderWay /\ AcksTrue /\ ResultsTrue BY TypeParts DEF FirstLife
<1>s. ASSUME NEW i \in Ids, NEW r, r \in outcome[i - 1] \cup {"timeout", None}
      PROVE  r \in outcome'[i - 1] \cup {"timeout", None}
  <2>1. i - 1 \in Ops BY Numbers
  <2>2. outcome[i - 1] # {} => outcome'[i - 1] = outcome[i - 1] BY <1>0, <2>1, TrueStays
  <2> QED BY <1>s, <2>2
<1>1. ASSUME \A i \in Ids : tracker'[i] # None =>
               \/ tracker'[i].result = None
               \/ tracker[i] # None /\ tracker'[i].result \in {tracker[i].result, "timeout", None}
      PROVE  ResultsTrue'
  <2>1. ASSUME NEW i \in Ids, tracker'[i] # None
        PROVE  tracker'[i].result \in outcome[i - 1] \cup {"timeout", None}
    BY <1>0, <1>1, <2>1 DEF ResultsTrue
  <2>2. \A i \in Ids : tracker'[i] # None => tracker'[i].result \in outcome'[i - 1] \cup {"timeout", None}
    BY <1>s, <2>1
  <2> QED BY <2>2 DEF ResultsTrue
<1>2. ASSUME NEW c \in Callers, StartSend(c) PROVE ResultsTrue'
  <2>1. \/ tracker' = tracker
        \/ \E e \in Entry : e.result = None /\ nextID' \in Ids /\ tracker' = [tracker EXCEPT ![nextID'] = e]
    BY <1>2, Started
  <2>2. \A i \in Ids : tracker'[i] # None =>
          \/ tracker'[i].result = None
          \/ tracker[i] # None /\ tracker'[i].result = tracker[i].result
    BY <1>0, <2>1 DEF Entries
  <2> QED BY <1>1, <2>2
<1>3. ASSUME UNCHANGED tracker \/ \E j \in Ids : tracker' = [tracker EXCEPT ![j] = None]
      PROVE  ResultsTrue'
  <2>1. \A i \in Ids : tracker'[i] # None => tracker[i] # None /\ tracker'[i].result = tracker[i].result
    BY <1>0, <1>3 DEF Entries
  <2> QED BY <1>1, <2>1
<1>4. CASE Edits /\ ~MarkAcked
  <2>1. \A i \in Ids : tracker'[i] = None <=> tracker[i] = None BY <1>4, EditsStep
  <2>2. \A i \in Ids : tracker[i] # None => tracker'[i].result \in {tracker[i].result, "timeout", None}
    BY <1>4, EditsStep
  <2> QED BY <1>1, <2>1, <2>2
<1>5. CASE MarkAcked
  <2> DEFINE a == Head(ackCh)
  <2>1. a = ackCh[1] /\ 1 \in 1..Len(ackCh) /\ a \in Ack BY <1>0, <1>5, Taken DEF MarkAcked, Queues
  <2>2. a.id = a.op + 1 /\ a.status \in outcome[a.op] /\ a.op \in Nat
    BY <1>0, <2>1, Fields, Numbers DEF AcksTrue, True
  <2>3. Edits BY <1>5 DEF Edits
  <2>4. ASSUME NEW i \in Ids, tracker'[i] # None
        PROVE  tracker'[i].result \in outcome[i - 1] \cup {"timeout", None}
    <3>1. tracker[i] # None BY <2>3, <2>4, EditsStep
    <3>2. \/ tracker'[i].result \in {tracker[i].result, "timeout", None}
          \/ i = a.id /\ tracker'[i].result = a.status
      BY <2>3, <3>1, EditsStep
    <3> HIDE DEF a
    <3>3. CASE i = a.id /\ tracker'[i].result = a.status
      <4>1. i - 1 = a.op BY <2>2, <3>3
      <4> QED BY <2>2, <3>3, <4>1
    <3>4. CASE tracker'[i].result \in {tracker[i].result, "timeout", None} BY <1>0, <3>1, <3>4 DEF ResultsTrue
    <3> QED BY <3>2, <3>3, <3>4
  <2>5. \A i \in Ids : tracker'[i] # None => tracker'[i].result \in outcome'[i - 1] \cup {"timeout", None}
    BY <1>s, <2>4
  <2> QED BY <2>5 DEF ResultsTrue
<1> USE DEF goVars, wireVars, pluginVars, bounds
<1>6. ASSUME NEW c \in Callers, WriteFails(c) PROVE ResultsTrue'
  <2>1. cur[c].id \in Ids /\ tracker' = [tracker EXCEPT ![cur[c].id] = None]
    BY <1>6, Fields DEF WriteFails, CallersApart, Active
  <2> QED BY <1>3, <2>1
<1>7. ASSUME NEW i \in Ids, CleanupOld(i) PROVE ResultsTrue'
  BY <1>3, <1>7 DEF CleanupOld
<1>8. ASSUME NEW c \in Callers, WriteFrame(c) \/ GiveUp(c) PROVE ResultsTrue'
  BY <1>3, <1>8 DEF WriteFrame, GiveUp
<1>9. CASE ReceiveAck \/ QueueCommand \/ ExecuteNext \/ SwitchMap \/ LinkBreaks
           \/ NoticeBreak \/ Reconnect \/ UNCHANGED vars
  <2>1. UNCHANGED tracker
    BY <1>9 DEF ReceiveAck, QueueCommand, ExecuteNext, SwitchMap, LinkBreaks, NoticeBreak, Reconnect, vars
  <2> QED BY <1>3, <2>1
<1> QED BY <1>2, <1>4, <1>5, <1>6, <1>7, <1>8, <1>9 DEF Next, Edits

----------------------------------------------------------------------------
(* The invariant, and the contract.                                         *)

\* The first server process starts with nothing tracked and nothing under way.
LEMMA InitIInv == ASSUME Init PROVE IInv
<1>1. Queues /\ Len(toPlugin) = 0 /\ Len(queue) = 0 /\ Len(toServer) = 0 /\ Len(ackCh) = 0
  BY EmptySeq DEF Init, Queues
<1>2. Entries /\ Scalars /\ Len(ackCh) <= AckCap
  BY <1>1, Numbers DEF Init, Entries, Scalars
<1>3. CallersApart /\ \A c \in Callers : ~Active(c) BY DEF Init, CallersApart, Active
<1>4. Numbered /\ Unused
  <2>1. \A c \in Callers : pc[c] # "added" BY DEF Init
  <2> QED BY <1>3, <2>1 DEF Init, Numbered, Unused
<1>5. UnderWay /\ AcksTrue BY <1>1 DEF UnderWay, AcksTrue, Once
<1>6. ResultsTrue BY DEF Init, ResultsTrue
<1> QED BY <1>1, <1>2, <1>3, <1>4, <1>5, <1>6, TypeParts DEF IInv, FirstLife

\* While the process has not been restarted, no step was a restart.
LEMMA FirstSteps ==
  ASSUME TypeOK, [Next]_vars, Alive'
  PROVE  Alive /\ ~GoRestart
<1>0. restarts \in Nat BY TypeParts, Numbers DEF Scalars
<1>1. ~GoRestart BY <1>0 DEF GoRestart, Alive
<1> USE DEF goVars, wireVars, pluginVars, bounds
<1>2. ASSUME NEW c \in Callers,
             StartSend(c) \/ WriteFrame(c) \/ WriteFails(c) \/ MarkSent(c) \/ TakeResult(c) \/ GiveUp(c)
      PROVE  restarts' = restarts
  BY <1>2 DEF StartSend, WriteFrame, WriteFails, MarkSent, TakeResult, GiveUp
<1>3. ASSUME NEW i \in Ids, DeadlinePasses(i) \/ CleanupOld(i) PROVE restarts' = restarts
  BY <1>3 DEF DeadlinePasses, CleanupOld
<1>4. ASSUME ReceiveAck \/ MarkAcked \/ CheckTimeouts \/ QueueCommand \/ ExecuteNext \/ SwitchMap
             \/ LinkBreaks \/ NoticeBreak \/ Reconnect \/ UNCHANGED vars
      PROVE  restarts' = restarts
  BY <1>4 DEF ReceiveAck, MarkAcked, CheckTimeouts, QueueCommand, ExecuteNext, SwitchMap, LinkBreaks,
              NoticeBreak, Reconnect, vars
<1>5. restarts' = restarts BY <1>1, <1>2, <1>3, <1>4 DEF Next
<1> QED BY <1>1, <1>5 DEF Alive

\* Every step keeps the inductive invariant.
LEMMA NextIInv == ASSUME IInv, [Next]_vars PROVE IInv'
<1>1. TypeOK /\ CallersApart BY DEF IInv
<1>2. TypeOK'
  <2>1. Queues' /\ Len(ackCh') <= AckCap /\ Scalars' /\ Entries'
    BY <1>1, QueuesStep, ScalarsStep, EntriesStep
  <2> QED BY <2>1 DEF TypeOK, Queues, Scalars, Entries
<1>3. CallersApart' BY <1>1, CallersApartStep
<1>4. ASSUME Alive' PROVE FirstLife'
  <2>1. FirstLife /\ ~GoRestart BY <1>1, <1>4, FirstSteps DEF IInv
  <2> QED BY <1>1, <2>1, NumberedStep, UnusedStep, UnderWayStep, AcksTrueStep, ResultsTrueStep DEF FirstLife
<1> QED BY <1>2, <1>3, <1>4 DEF IInv

\* Every step of the first life is a step of the contract, or changes neither
\* outcomes nor replies.
LEMMA ContractStep == ASSUME IInv, [Next]_vars PROVE KeepsContract
<1> SUFFICES ASSUME Alive' PROVE Contract!Next \/ UNCHANGED Contract!vars
  BY DEF KeepsContract, Alive
<1>0. /\ TypeOK /\ CallersApart /\ FirstLife /\ ~GoRestart
      /\ Queues /\ Scalars /\ Numbered /\ Unused /\ UnderWay /\ ResultsTrue
  BY FirstSteps, TypeParts DEF IInv, FirstLife
<1>1. ASSUME NEW c \in Callers, StartSend(c) PROVE Contract!Next \/ UNCHANGED Contract!vars
  <2>1. /\ calls' \in Ops /\ calls' = calls + 1 /\ outcome' = outcome
        /\ reply' = reply \/ reply' = [reply EXCEPT ![calls'] = "senderror"]
    BY <1>0, <1>1, Started DEF StartSend, pluginVars
  <2>2. calls' > calls BY <1>0, <2>1, Numbers DEF Scalars
  <2>3. reply[calls'] = None /\ outcome[calls'] = {} BY <1>0, <2>1, <2>2 DEF Unused
  <2> QED BY <2>1, <2>3 DEF Contract!Next, Contract!Reject, Contract!vars
<1>2. ASSUME NEW c \in Callers, WriteFails(c) PROVE Contract!Next \/ UNCHANGED Contract!vars
  <2>1. /\ pc[c] = "added" /\ outcome' = outcome /\ reply' = [reply EXCEPT ![cur[c].op] = "senderror"]
    BY <1>2 DEF WriteFails, pluginVars
  <2>2. cur[c].op \in Ops /\ reply[cur[c].op] = None /\ outcome[cur[c].op] = {}
    BY <1>0, <2>1, ActiveOps DEF Active, Numbered
  <2> QED BY <2>1, <2>2 DEF Contract!Next, Contract!Reject, Contract!vars
<1>3. ASSUME NEW c \in Callers, TakeResult(c) PROVE Contract!Next \/ UNCHANGED Contract!vars
  <2> DEFINE r == tracker[cur[c].id].result
  <2>1. /\ Active(c) /\ r # None /\ outcome' = outcome /\ reply' = [reply EXCEPT ![cur[c].op] = r]
    BY <1>3 DEF TakeResult, Return, Active, pluginVars
  <2>2. /\ cur[c].op \in Ops /\ cur[c].op \in Nat /\ cur[c].id \in Ids /\ cur[c].id - 1 = cur[c].op
        /\ reply[cur[c].op] = None /\ tracker[cur[c].id] \in Entry
    BY <1>0, <2>1, ActiveOps DEF CallersApart
  <2>3. r \in outcome[cur[c].op] \cup {"timeout"}
    <3>1. tracker[cur[c].id] # None BY <2>2, NoneAssumption
    <3>2. r \in outcome[cur[c].id - 1] \cup {"timeout", None} BY <1>0, <2>2, <3>1 DEF ResultsTrue
    <3> QED BY <2>1, <2>2, <3>2
  <2> HIDE DEF r
  <2>4. CASE r \in outcome[cur[c].op]
    BY <2>1, <2>2, <2>4 DEF Contract!Next, Contract!Answer, Contract!vars
  <2>5. CASE r = "timeout"
    BY <2>1, <2>2, <2>5 DEF Contract!Next, Contract!GiveUp, Contract!vars
  <2> QED BY <2>3, <2>4, <2>5
<1>4. ASSUME NEW c \in Callers, GiveUp(c) PROVE Contract!Next \/ UNCHANGED Contract!vars
  <2>1. Active(c) /\ outcome' = outcome /\ reply' = [reply EXCEPT ![cur[c].op] = "timeout"]
    BY <1>4 DEF GiveUp, Return, Active, pluginVars
  <2>2. cur[c].op \in Ops /\ reply[cur[c].op] = None BY <1>0, <2>1, ActiveOps
  <2> QED BY <2>1, <2>2 DEF Contract!Next, Contract!GiveUp, Contract!vars
<1>5. CASE ExecuteNext
  <2> DEFINE h == Head(queue)
  <2>1. queue # <<>> /\ Execute(h) /\ reply' = reply BY <1>5 DEF ExecuteNext, goVars
  <2>2. h \in Msg /\ h = queue[1] /\ 1 \in 1..Len(queue) BY <1>0, <2>1, Taken DEF Queues
  <2> HIDE DEF h
  <2>3. h.op \in Ops /\ outcome[h.op] = {} /\ reply[h.op] # "senderror"
    BY <1>0, <2>2, Fields DEF UnderWay, Waits
  <2>4. \E S \in SUBSET AckStatus : S # {} /\ outcome' = [outcome EXCEPT ![h.op] = S]
    BY <1>0, <2>1, <2>2, Executed
  <2>5. PICK S \in (SUBSET AckStatus) \ {{}} : outcome' = [outcome EXCEPT ![h.op] = S] BY <2>4
  <2>6. Contract!Apply(h.op) BY <2>1, <2>3, <2>5 DEF Contract!Apply
  <2> QED BY <2>3, <2>6 DEF Contract!Next
<1> USE DEF goVars, wireVars, pluginVars, bounds, Contract!vars
<1>6. ASSUME NEW c \in Callers, WriteFrame(c) \/ MarkSent(c) PROVE UNCHANGED Contract!vars
  BY <1>6 DEF WriteFrame, MarkSent
<1>7. ASSUME NEW i \in Ids, DeadlinePasses(i) \/ CleanupOld(i) PROVE UNCHANGED Contract!vars
  BY <1>7 DEF DeadlinePasses, CleanupOld
<1>8. CASE ReceiveAck \/ MarkAcked \/ CheckTimeouts \/ QueueCommand \/ SwitchMap
           \/ LinkBreaks \/ NoticeBreak \/ Reconnect \/ UNCHANGED vars
  BY <1>8 DEF ReceiveAck, MarkAcked, CheckTimeouts, QueueCommand, SwitchMap, LinkBreaks,
              NoticeBreak, Reconnect, vars
<1> QED BY <1>0, <1>1, <1>2, <1>3, <1>4, <1>5, <1>6, <1>7, <1>8 DEF Next

\* The inductive invariant, for any number of callers, calls and faults.
THEOREM Invariant == Spec => []IInv
<1>1. Init => IInv BY InitIInv
<1>2. IInv /\ [Next]_vars => IInv' BY NextIInv
<1> QED BY <1>1, <1>2, PTL DEF Spec

\* Type correctness of the tracker, the queues, the channel and the replies.
THEOREM TypeCorrect == Spec => []TypeOK
<1>1. IInv => TypeOK BY DEF IInv
<1> QED BY <1>1, Invariant, PTL

\* SendCommand implements CommandContract until the server process is restarted:
\* one execution at most, a reply that is the command's own, none after an error.
THEOREM ImplementsContract == Spec => ContractKept
<1>1. Init => Contract!Init BY DEF Init, Contract!Init
<1>2. IInv /\ [Next]_vars => [KeepsContract]_vars BY ContractStep
<1> QED BY <1>1, <1>2, Invariant, PTL DEF Spec, ContractKept
=============================================================================
