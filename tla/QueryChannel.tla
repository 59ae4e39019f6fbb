------------------------------ MODULE QueryChannel ------------------------------
(***************************************************************************)
(* Queries in progress: Client.SendQuery (internal/dfhack/client.go) with  *)
(* its table of waiting calls, the message loop's part in it, and the      *)
(* plugin's query queue, which outlives its connections and is worked off  *)
(* on the simulation thread.  A connection is what ClientSession makes of  *)
(* it: published, usable until a read or write fails, read by one loop.    *)
(***************************************************************************)
EXTENDS Integers, Sequences, FiniteSets

CONSTANTS
    Calls,      \* calls of SendQuery
    MaxConns,   \* connections the plugin opens
    MaxID       \* largest query id, 2^32 - 1 in the code

\* ids are not used up by the calls in progress
CallsAssumption ==
    /\ IsFiniteSet(Calls) /\ Calls \cap {"none", "pending", "error"} = {}
    /\ MaxConns \in Nat /\ MaxID \in Nat /\ MaxID > Cardinality(Calls)

VARIABLES
    \* server
    current,       \* c.conn, 0 when nil
    usable,     \* by connection: its state is Connected
    reading,    \* by connection: its message loop runs
    nextID,     \* queryNextID
    pending,    \* queryPending: ids and their calls
    pc, on, id, \* by call: where it is, its connection and its id
    chan,       \* by call: the answer in its channel, or "none"
    result,     \* by call: what SendQuery returned
    \* plugin
    plugin,     \* its connection, 0 when none
    asked,      \* by connection: queries under way to it
    answers,    \* by connection: answers under way to the server
    queue,      \* g_query_queue
    evaluated   \* calls it has evaluated

connVars   == <<current, usable, reading>>
callVars   == <<nextID, pending, pc, on, id, chan, result>>
pluginVars == <<plugin, asked, answers, queue, evaluated>>
vars       == <<connVars, callVars, pluginVars>>

Conns == 1..MaxConns

Init ==
    /\ current = 0 /\ usable = [c \in Conns |-> FALSE] /\ reading = [c \in Conns |-> FALSE]
    /\ nextID \in {0, MaxID - 1}        \* a new process, or one after very many queries
    /\ pending = {} /\ pc = [q \in Calls |-> "idle"] /\ on = [q \in Calls |-> 0] /\ id = [q \in Calls |-> 0]
    /\ chan = [q \in Calls |-> "none"] /\ result = [q \in Calls |-> "none"]
    /\ plugin = 0 /\ asked = [c \in Conns |-> <<>>] /\ answers = [c \in Conns |-> <<>>]
    /\ queue = <<>> /\ evaluated = {}

-------------------------------------------------------------------------------
(***************************************************************************)
(* SendQuery.                                                              *)
(***************************************************************************)
NotConnected(q) ==
    /\ pc[q] = "idle" /\ current = 0
    /\ pc' = [pc EXCEPT ![q] = "returned"] /\ result' = [result EXCEPT ![q] = "error"]
    /\ UNCHANGED <<connVars, nextID, pending, on, id, chan, pluginVars>>

\* id 0 is reserved
Register(q) ==
    /\ pc[q] = "idle" /\ current # 0
    /\ nextID' = IF nextID = MaxID THEN 1 ELSE nextID + 1
    /\ id' = [id EXCEPT ![q] = nextID'] /\ on' = [on EXCEPT ![q] = current]
    /\ pending' = {p \in pending : p.id # nextID'} \cup {[id |-> nextID', q |-> q]}
    /\ pc' = [pc EXCEPT ![q] = "send"] /\ result' = [result EXCEPT ![q] = "pending"]
    /\ UNCHANGED <<connVars, chan, pluginVars>>

\* what the plugin no longer reads is lost, and the write may be the one that
\* reports it
Send(q) ==
    /\ pc[q] = "send" /\ usable[on[q]]
    /\ asked' = IF plugin = on[q] THEN [asked EXCEPT ![plugin] = Append(@, [id |-> id[q], q |-> q])] ELSE asked
    /\ pc' = [pc EXCEPT ![q] = "wait"]
    /\ UNCHANGED <<connVars, nextID, pending, on, id, chan, result, plugin, answers, queue, evaluated>>
SendFails(q) ==
    /\ pc[q] = "send" /\ (~usable[on[q]] \/ plugin # on[q])
    /\ usable' = [usable EXCEPT ![on[q]] = FALSE]
    /\ pc' = [pc EXCEPT ![q] = "forget"] /\ result' = [result EXCEPT ![q] = "error"]
    /\ UNCHANGED <<current, reading, nextID, pending, on, id, chan, pluginVars>>

TakeAnswer(q) ==
    /\ pc[q] = "wait" /\ chan[q] # "none"
    /\ result' = [result EXCEPT ![q] = chan[q]] /\ pc' = [pc EXCEPT ![q] = "forget"]
    /\ UNCHANGED <<connVars, nextID, pending, on, id, chan, pluginVars>>

\* Seeded fault: the timer is that of the connection, and ends with it.
TimeOutUsable(q) ==
    /\ pc[q] = "wait" /\ usable[on[q]]
    /\ result' = [result EXCEPT ![q] = "error"] /\ pc' = [pc EXCEPT ![q] = "forget"]
    /\ UNCHANGED <<connVars, nextID, pending, on, id, chan, pluginVars>>
\* the timer or the caller's context; select may choose it over a waiting answer
TimeOut(q) ==
    /\ pc[q] = "wait"
    /\ result' = [result EXCEPT ![q] = "error"] /\ pc' = [pc EXCEPT ![q] = "forget"]
    /\ UNCHANGED <<connVars, nextID, pending, on, id, chan, pluginVars>>

\* deferred, by id
Forget(q) ==
    /\ pc[q] = "forget"
    /\ pending' = {p \in pending : p.id # id[q]} /\ pc' = [pc EXCEPT ![q] = "returned"]
    /\ UNCHANGED <<connVars, nextID, on, id, chan, result, pluginVars>>

-------------------------------------------------------------------------------
(***************************************************************************)
(* The server's connections.                                               *)
(***************************************************************************)

\* Seeded fault: the answer goes to the call that has waited longest.
ReceiveInOrder(c) ==
    /\ reading[c] /\ answers[c] # <<>> /\ answers' = [answers EXCEPT ![c] = Tail(@)]
    /\ \/ pending = {} /\ UNCHANGED <<pending, chan>>
       \/ \E p \in pending :
             /\ \A o \in pending : p.id <= o.id
             /\ pending' = pending \ {p} /\ chan' = [chan EXCEPT ![p.q] = Head(answers[c]).q]
    /\ UNCHANGED <<connVars, nextID, pc, on, id, result, plugin, asked, queue, evaluated>>
\* messageLoop: the entry goes with its answer; one to an unknown id is dropped
Receive(c) ==
    /\ reading[c] /\ answers[c] # <<>> /\ answers' = [answers EXCEPT ![c] = Tail(@)]
    /\ LET waiting == {p \in pending : p.id = Head(answers[c]).id}
       IN /\ pending' = pending \ waiting
          /\ chan' = [q \in Calls |-> IF \E p \in waiting : p.q = q THEN Head(answers[c]).q ELSE chan[q]]
    /\ UNCHANGED <<connVars, nextID, pc, on, id, result, plugin, asked, queue, evaluated>>

\* the loop of a dead connection ends; the calls that wait on it are not told
ReadingEnds(c) ==
    /\ reading[c] /\ answers[c] = <<>> /\ plugin # c
    /\ reading' = [reading EXCEPT ![c] = FALSE] /\ usable' = [usable EXCEPT ![c] = FALSE]
    /\ UNCHANGED <<current, callVars, pluginVars>>

\* heartbeat timeout: closed by the server, with whatever is under way
ServerCloses(c) ==
    /\ usable[c] /\ current = c
    /\ usable' = [usable EXCEPT ![c] = FALSE] /\ reading' = [reading EXCEPT ![c] = FALSE]
    /\ UNCHANGED <<current, callVars, pluginVars>>

-------------------------------------------------------------------------------
(***************************************************************************)
(* The plugin.                                                             *)
(***************************************************************************)
Connect(c) ==
    /\ plugin = 0 /\ \A d \in Conns : d < c <=> (d <= current)
    /\ plugin' = c /\ current' = c
    /\ usable' = [usable EXCEPT ![c] = TRUE] /\ reading' = [reading EXCEPT ![c] = TRUE]
    /\ UNCHANGED <<callVars, asked, answers, queue, evaluated>>

\* what it has not read is lost, what it has sent may still be read
Disconnect ==
    /\ plugin # 0
    /\ plugin' = 0 /\ asked' = [asked EXCEPT ![plugin] = <<>>]
    /\ UNCHANGED <<connVars, callVars, answers, queue, evaluated>>

\* receive_messages_from_server: the queue has no bound
Enqueue ==
    /\ plugin # 0 /\ asked[plugin] # <<>>
    /\ asked' = [asked EXCEPT ![plugin] = Tail(@)]
    /\ queue' = Append(queue, Head(asked[plugin]))
    /\ UNCHANGED <<connVars, callVars, plugin, answers, evaluated>>

\* process_pending_queries: the answer goes to whatever connection there is now
Evaluate ==
    /\ queue # <<>>
    /\ queue' = Tail(queue) /\ evaluated' = evaluated \cup {Head(queue).q}
    /\ answers' = IF plugin = 0 THEN answers ELSE [answers EXCEPT ![plugin] = Append(@, Head(queue))]
    /\ UNCHANGED <<connVars, callVars, plugin, asked>>

-------------------------------------------------------------------------------
Query(q) == Send(q) \/ SendFails(q) \/ TakeAnswer(q) \/ TimeOut(q) \/ Forget(q)

Next ==
    \/ \E q \in Calls : NotConnected(q) \/ Register(q) \/ Query(q)
    \/ \E c \in Conns : Receive(c) \/ ReadingEnds(c) \/ ServerCloses(c) \/ Connect(c)
    \/ Disconnect \/ Enqueue \/ Evaluate

\* a call goes on by itself, and its timer fires
Fairness == \A q \in Calls : WF_vars(Query(q))

Spec == Init /\ [][Next]_vars /\ Fairness

-------------------------------------------------------------------------------
(* Types; the table holds calls in progress only, each under its own id.   *)
InTable ==
    \A p \in pending :
        /\ id[p.q] = p.id /\ pc[p.q] \in {"send", "wait", "forget"}
        /\ \A o \in pending : o.id = p.id => o = p
TypeOK ==
    /\ current \in 0..MaxConns /\ usable \in [Conns -> BOOLEAN] /\ reading \in [Conns -> BOOLEAN]
    /\ nextID \in 0..MaxID /\ pending \subseteq [id : 1..MaxID, q : Calls]
    /\ pc \in [Calls -> {"idle", "send", "wait", "forget", "returned"}]
    /\ on \in [Calls -> 0..MaxConns] /\ id \in [Calls -> 0..MaxID]
    /\ chan \in [Calls -> Calls \cup {"none"}]
    /\ result \in [Calls -> Calls \cup {"none", "pending", "error"}]
    /\ plugin \in 0..MaxConns /\ evaluated \subseteq Calls
    /\ asked \in [Conns -> Seq([id : 1..MaxID, q : Calls])]
    /\ answers \in [Conns -> Seq([id : 1..MaxID, q : Calls])]
    /\ queue \in Seq([id : 1..MaxID, q : Calls])
    /\ InTable

(* SendQuery keeps its contract: answers find the call that asked, however *)
(* late they are and over whichever connection they come, and a query is   *)
(* evaluated at most once.                                                 *)
Contract == INSTANCE QueryContract WITH Calls <- Calls, result <- result, evaluated <- evaluated
QueryContractKept == Contract!Spec

(* Every call returns, whatever becomes of the connection and the plugin.  *)
QueriesReturn == \A q \in Calls : pc[q] # "idle" ~> pc[q] = "returned"
===============================================================================
