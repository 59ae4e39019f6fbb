------------------------------ MODULE Deliberation ------------------------------
(***************************************************************************)
(* The turns of the BDI program (internal/bdi/loop.go) and the plan they    *)
(* leave behind (internal/plan/dag.go, executor.go): the deliberator asks   *)
(* the language model, answers its requests for a few passes and commits    *)
(* its commands as nodes of the DAG; the executor goroutine sends them to   *)
(* the plugin one after another; Stop cancels both and waits for them.      *)
(* What a dig predicts and how the reconciler finds it done is in           *)
(* PlanReconcile; here an active node may become done at any time.          *)
(***************************************************************************)
EXTENDS Integers, Sequences, SequencesExt, FiniteSets

CONSTANTS
    MaxPasses, \* Config.MaxPasses
    MaxTurns,  \* bound on the turns of a run
    Plans,     \* what a response may ask for: sequences of Action.Type
    MaxLength, \* the longest of them
    Depends    \* Node.Dependencies; commitPlan sets none, Add takes any

Ids == (1..MaxTurns) \X (0..MaxLength - 1)
PassesAssumption  == MaxPasses \in Nat \ {0} /\ MaxTurns \in Nat
PlansAssumption   == MaxLength \in Nat /\ \A p \in Plans : p \in Seq(STRING) /\ Len(p) \in 1..MaxLength
DependsAssumption == Depends \in [Ids -> SUBSET Ids]

VARIABLES
    cancelled,          \* the context of Start is cancelled
    stopping,           \* where Stop is: not called, in wg.Wait, returned
    place, turn, pass,  \* the deliberator: its place, turnCounter, the pass
    plan, index,        \* the commands of the response, the next to commit
    order, action, status,  \* DAG.insertOrder; Action.Type and Status of its nodes
    ePlace, batch,      \* the executor: its place, the rest of its copy of Ready
    sent                \* history: the nodes taken up, in that order

turnVars == <<place, turn, pass, plan, index>>
dagVars  == <<order, action, status>>
workVars == <<ePlace, batch, sent>>
stopVars == <<cancelled, stopping>>
deliberationVars == <<turnVars, dagVars, workVars, stopVars>>

-------------------------------------------------------------------------------
(***************************************************************************)
(* The DAG: every call holds its lock.                                      *)
(***************************************************************************)
Nodes == ToSet(order)
AllDepsDone(n, st) == \A d \in Depends[n] : d \in DOMAIN st /\ st[d] = "done"

\* a fresh id, as commitPlan makes them
Add(n, type) ==
    /\ order' = Append(order, n)
    /\ action' = [m \in Nodes \cup {n} |-> IF m = n THEN type ELSE action[m]]
    /\ status' = [m \in Nodes \cup {n} |-> IF m # n THEN status[m]
                    ELSE IF AllDepsDone(n, status) THEN "ready" ELSE "pending"]

\* Update: the new status of one node, and of those which it makes ready.
Promoted(st) == [m \in DOMAIN st |-> IF st[m] = "pending" /\ AllDepsDone(m, st) THEN "ready" ELSE st[m]]
\* Seeded fault: only what is added is looked at.
UpdateAlone(n, s) == status' = [status EXCEPT ![n] = s] /\ UNCHANGED <<order, action>>
Update(n, s) == status' = Promoted([status EXCEPT ![n] = s]) /\ UNCHANGED <<order, action>>

\* markDone, markFailed: a node that has ended stays as it is
Finish(n, s) == IF status[n] \in {"done", "failed"} THEN UNCHANGED dagVars ELSE Update(n, s)
\* MarkActive changes nothing of a node that is not ready, and says it did
MarkActive(n) == IF status[n] = "ready" THEN Update(n, "active") ELSE UNCHANGED dagVars

\* what of s is in S, in its order: SelectSeq as a function, to be reasoned about
Chosen(s, S) ==
    LET upto[i \in 0..Len(s)] ==
            IF i = 0 THEN <<>> ELSE IF s[i] \in S THEN Append(upto[i - 1], s[i]) ELSE upto[i - 1]
    IN  upto[Len(s)]
Ready == Chosen(order, {n \in Nodes : status[n] = "ready"})

-------------------------------------------------------------------------------
Init ==
    /\ cancelled = FALSE /\ stopping = "no"
    /\ place = "settle" /\ turn = 0 /\ pass = 0 /\ plan = <<>> /\ index = 0
    /\ order = <<>> /\ action = <<>> /\ status = <<>>
    /\ ePlace = "idle" /\ batch = <<>> /\ sent = <<>>

(***************************************************************************)
(* The deliberator.                                                         *)
(***************************************************************************)
\* the first cycle after the initial delay, the others on the ticker; without
\* dwarves in the snapshot the cycle is skipped
BeginCycle ==
    /\ place \in {"settle", "waiting"} /\ turn < MaxTurns
    /\ place' = "ask" /\ turn' = turn + 1 /\ pass' = 1
    /\ UNCHANGED <<plan, index, dagVars, workVars, stopVars>>
SkipCycle ==
    /\ place = "settle" /\ place' = "waiting"
    /\ UNCHANGED <<turn, pass, plan, index, dagVars, workVars, stopVars>>
LeaveTurns ==
    /\ place \in {"settle", "waiting"} /\ cancelled /\ place' = "gone"
    /\ UNCHANGED <<turn, pass, plan, index, dagVars, workVars, stopVars>>

\* Commands in a response win over requests.
Commands(p) ==
    /\ place = "ask" /\ place' = "commit" /\ plan' = p /\ index' = 0
    /\ UNCHANGED <<turn, pass, dagVars, workVars, stopVars>>
Requests ==
    /\ place = "ask" /\ place' = "fetch"
    /\ UNCHANGED <<turn, pass, plan, index, dagVars, workVars, stopVars>>
\* the model failed, the context is cancelled, or the response has nothing in it
NoAnswer ==
    /\ place = "ask" /\ place' = "waiting"
    /\ UNCHANGED <<turn, pass, plan, index, dagVars, workVars, stopVars>>
\* the answers to the requests go into the next pass, if there is one
Fetched ==
    /\ place = "fetch" /\ pass' = pass + 1
    /\ place' = IF pass < MaxPasses THEN "ask" ELSE "waiting"
    /\ UNCHANGED <<turn, plan, index, dagVars, workVars, stopVars>>

\* commitPlan: a command without a type is passed over, its index is not used
CommitOne ==
    /\ place = "commit" /\ index < Len(plan) /\ index' = index + 1
    /\ IF plan[index + 1] = "" THEN UNCHANGED dagVars ELSE Add(<<turn, index>>, plan[index + 1])
    /\ UNCHANGED <<place, turn, pass, plan, workVars, stopVars>>
EndTurn ==
    /\ place = "commit" /\ index = Len(plan) /\ place' = "waiting" /\ plan' = <<>> /\ index' = 0
    /\ UNCHANGED <<turn, pass, dagVars, workVars, stopVars>>

Deliberator ==
    \/ BeginCycle \/ SkipCycle \/ (\E p \in Plans : Commands(p)) \/ Requests \/ NoAnswer
    \/ Fetched \/ CommitOne \/ EndTurn

-------------------------------------------------------------------------------
(***************************************************************************)
(* The executor.  It does not look at the context while it drains.          *)
(***************************************************************************)
\* Seeded fault: the nodes come in the order of a map.
DrainUnordered ==
    /\ ePlace = "idle" /\ Ready # <<>> /\ ePlace' = "drain"
    /\ batch' \in SetToSeqs(ToSet(Ready))
    /\ UNCHANGED <<turnVars, dagVars, sent, stopVars>>
Drain ==
    /\ ePlace = "idle" /\ Ready # <<>> /\ ePlace' = "drain" /\ batch' = Ready
    /\ UNCHANGED <<turnVars, dagVars, sent, stopVars>>
LeaveDrains ==
    /\ ePlace = "idle" /\ cancelled /\ ePlace' = "gone"
    /\ UNCHANGED <<turnVars, dagVars, batch, sent, stopVars>>

\* What a kind of action waits for: its acknowledgement is all that is known of
\* most, by the executors of areas, of single things and of plants.
Areas   == {"zone", "stockpile", "smooth"}
Things  == {"dismiss", "unsuspend", "order", "build"}
Plants  == {"chop", "gather"}
AskedOf == Areas \cup Things \cup Plants \cup {"dig"}

ExecuteNode ==
    /\ ePlace = "drain" /\ batch # <<>>
    /\ MarkActive(Head(batch)) /\ sent' = Append(sent, Head(batch)) /\ ePlace' = "sent"
    /\ UNCHANGED <<turnVars, batch, stopVars>>
\* a dig stays active until the reconciler has seen it dug; "wait" needs no answer
Accepted ==
    /\ ePlace = "sent" /\ action[Head(batch)] \in AskedOf \cup {"wait"}
    /\ IF action[Head(batch)] = "dig" THEN UNCHANGED dagVars ELSE Finish(Head(batch), "done")
    /\ ePlace' = "drain" /\ batch' = Tail(batch)
    /\ UNCHANGED <<turnVars, sent, stopVars>>
Rejected ==
    /\ ePlace = "sent" /\ action[Head(batch)] # "wait"
    /\ Finish(Head(batch), "failed")
    /\ ePlace' = "drain" /\ batch' = Tail(batch)
    /\ UNCHANGED <<turnVars, sent, stopVars>>
Drained ==
    /\ ePlace = "drain" /\ batch = <<>> /\ ePlace' = "idle"
    /\ UNCHANGED <<turnVars, dagVars, batch, sent, stopVars>>

Executor == Drain \/ ExecuteNode \/ Accepted \/ Rejected \/ Drained

\* the reconciler finds a dig done: none that still waits for its acknowledgement
Reconciled(n) ==
    /\ n \in Nodes /\ status[n] = "active" /\ (ePlace = "sent" => n # Head(batch))
    /\ Update(n, "done")
    /\ UNCHANGED <<turnVars, workVars, stopVars>>

-------------------------------------------------------------------------------
Stop ==
    /\ stopping = "no" /\ stopping' = "waits" /\ cancelled' = TRUE
    /\ UNCHANGED <<turnVars, dagVars, workVars>>
StopReturns ==
    /\ stopping = "waits" /\ place = "gone" /\ ePlace = "gone" /\ stopping' = "returned"
    /\ UNCHANGED <<cancelled, turnVars, dagVars, workVars>>

Next ==
    \/ Deliberator \/ LeaveTurns \/ Executor \/ LeaveDrains
    \/ (stopping # "returned" /\ \E n \in Ids : Reconciled(n)) \/ Stop \/ StopReturns

Spec == Init /\ [][Next]_deliberationVars

\* A call of the model, a request and a command are answered or time out, and
\* a goroutine whose context is cancelled leaves (as turns are bounded, that
\* select may choose the ticker a few more times costs nothing).
\* Nothing need ever be dug, and nobody need call Stop.
Fairness ==
    /\ WF_deliberationVars(Deliberator /\ place \notin {"settle", "waiting"}) /\ WF_deliberationVars(LeaveTurns)
    /\ WF_deliberationVars(Executor) /\ WF_deliberationVars(LeaveDrains) /\ WF_deliberationVars(StopReturns)

-------------------------------------------------------------------------------
TypeOK ==
    /\ cancelled \in BOOLEAN /\ stopping \in {"no", "waits", "returned"}
    /\ place \in {"settle", "waiting", "ask", "fetch", "commit", "gone"}
    /\ turn \in 0..MaxTurns /\ pass \in 0..MaxPasses + 1 /\ plan \in Plans \cup {<<>>} /\ index \in 0..Len(plan)
    /\ IsInjective(order) /\ Nodes \subseteq Ids
    /\ DOMAIN action = Nodes
    /\ status \in [Nodes -> {"pending", "ready", "active", "done", "failed"}]
    /\ ePlace \in {"idle", "drain", "sent", "gone"} /\ ToSet(batch) \subseteq Nodes
    /\ ToSet(sent) \subseteq Nodes

\* What reaches the plugin is the plan: no node is sent twice, none before
\* everything it depends on is done, those without dependencies in the order in
\* which they were committed, and none is still under way when Stop has returned.
PlanIsFollowed ==
    /\ IsInjective(sent)
    /\ \A n \in ToSet(sent) : \A d \in Depends[n] : d \in Nodes /\ status[d] = "done"
    /\ \A i, j \in DOMAIN order : i < j /\ Depends[order[i]] = {} /\ Depends[order[j]] = {} /\ order[j] \in ToSet(sent)
            => \E k, l \in DOMAIN sent : k < l /\ sent[k] = order[i] /\ sent[l] = order[j]
    /\ stopping = "returned" => \A n \in Nodes : status[n] = "active" => action[n] = "dig"

\* Every turn ends, a node whose dependencies are done is taken up unless the
\* program stops, and Stop returns.
NothingHangs ==
    /\ (place \in {"ask", "fetch", "commit"}) ~> (place = "waiting")
    /\ \A n \in Ids : (n \in Nodes /\ status[n] \in {"pending", "ready"} /\ AllDepsDone(n, status))
                      ~> (n \in ToSet(sent) \/ cancelled)
    /\ (stopping = "waits") ~> (stopping = "returned")
================================================================================
