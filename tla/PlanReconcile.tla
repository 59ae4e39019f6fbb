--------------------------- MODULE PlanReconcile ---------------------------
(***************************************************************************)
(* From a committed plan node to its end (internal/plan, internal/reconcile,*)
(* internal/worldmodel/predicted.go): the deliberator adds nodes to the DAG,*)
(* the executor goroutine sends each to the plugin and predicts, tile by    *)
(* tile, what a dig will open, the Populator brings what is observed, and   *)
(* the reconciler goroutine confirms predictions, derives from them when a  *)
(* node is done, and reports nodes without progress as stalled.  The DAG    *)
(* and the predictions have a mutex each, so every call of theirs is a step.*)
(* The deliberator commits nodes without dependencies: Add makes each Ready.*)
(***************************************************************************)
EXTENDS Integers, FiniteSets

CONSTANTS Nodes, Tiles,
          Region,     \* the tiles the plugin designates for a node
          Digs,       \* the nodes whose action is a dig
          Descending, \* digs whose region is given with Z1 > Z2
          MaxCloses,  \* bound on tiles observed to close again
          None

ASSUME NodesAssumption == /\ IsFiniteSet(Tiles) /\ Digs \subseteq Nodes
                          /\ Descending \subseteq Digs
                          /\ Region \in [Nodes -> SUBSET Tiles]
ASSUME MaxClosesAssumption == MaxCloses \in Nat
ASSUME NoneAssumption == /\ None \notin Nodes
                         /\ None \notin [node : Nodes, status : {"outstanding", "confirmed"}]

VARIABLES
  status,    \* Node.Status, "new" before the node is committed
  count,     \* Node.PredictionCount
  confirmed, \* Node.PredictionsConfirmed
  idle,      \* StallThreshold has passed since Node.LastProgressAt
  noted,     \* Node.StallNotedAt is set and within StallReNotifyInterval
  pred,      \* PredictedState.tiles
  byNode,    \* PredictedState.byPlanNode
  tally,     \* PredictedState's counters
  open,      \* tiles the topology overlay shows open
  epc, enode, left,   \* the executor: its place, its node, tiles left to predict
  rpc, todo, credit,  \* the reconciler: its place, what is left of the step,
  opened,             \* nodes to credit with progress; tiles ever seen open;
  taken,              \* tiles whose prediction another node replaced before it
                      \* was confirmed
  closes

nodeVars == <<status, count, confirmed, idle, noted>>
overlayVars == <<pred, byNode, tally>>
worldVars == <<open, opened, closes>>
execVars == <<epc, enode, left>>
scanVars == <<rpc, todo, credit>>
vars == <<nodeVars, overlayVars, worldVars, execVars, scanVars, taken>>

Init ==
  /\ status = [n \in Nodes |-> "new"]
  /\ count = [n \in Nodes |-> 0] /\ confirmed = [n \in Nodes |-> 0]
  /\ idle = [n \in Nodes |-> FALSE] /\ noted = [n \in Nodes |-> FALSE]
  /\ pred = [t \in Tiles |-> None] /\ byNode = [n \in Nodes |-> {}]
  /\ tally = [outstanding |-> 0, confirmed |-> 0]
  /\ open \in SUBSET Tiles /\ opened = open /\ closes = 0
  /\ epc = "idle" /\ enode = None /\ left = {}
  /\ rpc = "idle" /\ todo = {} /\ credit = {}
  /\ taken = {}

----------------------------------------------------------------------------
(* Deliberator, Populator and the clock.                                    *)

Commit(n) ==
  /\ status[n] = "new"
  /\ status' = [status EXCEPT ![n] = "ready"]
  /\ UNCHANGED <<count, confirmed, idle, noted, overlayVars, worldVars, execVars,
                 scanVars, taken>>

ObserveOpen(t) ==
  /\ t \notin open
  /\ open' = open \cup {t} /\ opened' = opened \cup {t}
  /\ UNCHANGED <<nodeVars, overlayVars, closes, execVars, scanVars, taken>>

ObserveClosed(t) ==
  /\ t \in open /\ closes < MaxCloses /\ closes' = closes + 1
  /\ open' = open \ {t}
  /\ UNCHANGED <<nodeVars, overlayVars, opened, execVars, scanVars, taken>>

\* A scan is short against StallThreshold and compares with its own start.
\* detectStalls skips a node without predictions, so only a dig's age matters.
TimePasses(n) ==
  /\ rpc = "idle" /\ status[n] = "active" /\ ~idle[n]
  /\ idle' = [idle EXCEPT ![n] = TRUE]
  /\ UNCHANGED <<status, count, confirmed, noted, overlayVars, worldVars, execVars,
                 scanVars, taken>>

\* The stall was noted more than StallReNotifyInterval ago.
NoteAges(n) ==
  /\ rpc = "idle" /\ noted[n]
  /\ noted' = [noted EXCEPT ![n] = FALSE]
  /\ UNCHANGED <<status, count, confirmed, idle, overlayVars, worldVars, execVars,
                 scanVars, taken>>

----------------------------------------------------------------------------
(* The executor.                                                            *)

\* drain, executeNode: MarkActive, then the command goes out.
Dispatch(n) ==
  /\ epc = "idle" /\ status[n] = "ready"
  /\ status' = [status EXCEPT ![n] = "active"] /\ idle' = [idle EXCEPT ![n] = FALSE]
  /\ epc' = "sent" /\ enode' = n
  /\ UNCHANGED <<count, confirmed, noted, overlayVars, worldVars, left, scanVars, taken>>

\* An error, a timeout or a NACK; for a node that is no dig, PARTIAL too.
Refused ==
  /\ epc = "sent"
  /\ status' = [status EXCEPT ![enode] = "failed"]
  /\ epc' = "idle" /\ enode' = None
  /\ UNCHANGED <<count, confirmed, idle, noted, overlayVars, worldVars, left, scanVars, taken>>

\* The actions without predictions are done with their ACK.
AcceptedOther ==
  /\ epc = "sent" /\ enode \notin Digs
  /\ status' = [status EXCEPT ![enode] = "done"]
  /\ epc' = "idle" /\ enode' = None
  /\ UNCHANGED <<count, confirmed, idle, noted, overlayVars, worldVars, left, scanVars, taken>>

\* writeDigPredictionsForRegion counts z up from Z1, while SendDigRegion has
\* put the Zs in order: a descending region gets no prediction.
Predicted(n) == IF n \in Descending THEN {} ELSE Region[n]

AcceptedDig ==
  /\ epc = "sent" /\ enode \in Digs
  /\ epc' = "predict" /\ left' = Predicted(enode)
  /\ UNCHANGED <<nodeVars, overlayVars, worldVars, enode, scanVars, taken>>

Outstanding(t) == pred[t] # None /\ pred[t].status = "outstanding"
Confirmed(t) == pred[t] # None /\ pred[t].status = "confirmed"

\* Seeded fault: a replaced prediction stays in the index of its old node.
PredictUnindexed(n, t) ==
  /\ pred' = [pred EXCEPT ![t] = [node |-> n, status |-> "outstanding"]]
  /\ byNode' = [byNode EXCEPT ![n] = @ \cup {t}]
  /\ tally' = [outstanding |-> tally.outstanding + IF Outstanding(t) THEN 0 ELSE 1,
               confirmed |-> tally.confirmed - IF Confirmed(t) THEN 1 ELSE 0]

\* PredictedState.Predict: records or replaces.
Predict(n, t) ==
  /\ pred' = [pred EXCEPT ![t] = [node |-> n, status |-> "outstanding"]]
  /\ byNode' = [m \in Nodes |-> IF m = n THEN byNode[m] \cup {t} ELSE byNode[m] \ {t}]
  /\ tally' = [outstanding |-> tally.outstanding + IF Outstanding(t) THEN 0 ELSE 1,
               confirmed |-> tally.confirmed - IF Confirmed(t) THEN 1 ELSE 0]

PredictTile(t) ==
  /\ epc = "predict" /\ t \in left
  /\ left' = left \ {t}
  /\ Predict(enode, t)
  /\ taken' = IF Outstanding(t) THEN taken \cup {t} ELSE taken
  /\ UNCHANGED <<nodeVars, worldVars, epc, enode, scanVars>>

\* The prediction count is set when all predictions are written.
SetCount ==
  /\ epc = "predict" /\ left = {}
  /\ count' = [count EXCEPT ![enode] = Cardinality(Predicted(enode))]
  /\ epc' = "idle" /\ enode' = None
  /\ UNCHANGED <<status, confirmed, idle, noted, overlayVars, worldVars, left, scanVars, taken>>

----------------------------------------------------------------------------
(* The reconciler.                                                          *)

Owned(n) == {t \in Tiles : Outstanding(t) /\ pred[t].node = n}

\* scan begins: a copy of every outstanding prediction.
BeginScan ==
  /\ rpc = "idle" /\ rpc' = "confirm"
  /\ todo' = {[tile |-> t, node |-> pred[t].node] : t \in {u \in Tiles : Outstanding(u)}}
  /\ UNCHANGED <<nodeVars, overlayVars, worldVars, execVars, credit, taken>>

\* PredictedState.Confirm goes by the tile: the prediction may be a newer one.
Confirm(t) ==
  /\ pred' = IF Outstanding(t) THEN [pred EXCEPT ![t].status = "confirmed"] ELSE pred
  /\ tally' = IF Outstanding(t) THEN [outstanding |-> tally.outstanding - 1,
                                      confirmed |-> tally.confirmed + 1] ELSE tally

\* Seeded fault: every node with a prediction looked at counts as progressing.
CheckCrediting(p) ==
  /\ rpc = "confirm" /\ p \in todo
  /\ todo' = todo \ {p}
  /\ IF p.tile \in open THEN Confirm(p.tile) ELSE UNCHANGED <<pred, tally>>
  /\ credit' = credit \cup {p.node}
  /\ UNCHANGED <<nodeVars, byNode, worldVars, execVars, rpc, taken>>

\* isConfirmed and Confirm for one copied prediction.
Check(p) ==
  /\ rpc = "confirm" /\ p \in todo
  /\ todo' = todo \ {p}
  /\ IF p.tile \in open THEN Confirm(p.tile) ELSE UNCHANGED <<pred, tally>>
  /\ credit' = IF p.tile \in open /\ Outstanding(p.tile) THEN credit \cup {p.node} ELSE credit
  /\ UNCHANGED <<nodeVars, byNode, worldVars, execVars, rpc, taken>>

\* NoteProgress of one of the nodes whose predictions were confirmed.
NoteProgress(n) ==
  /\ rpc = "confirm" /\ todo = {} /\ n \in credit
  /\ credit' = credit \ {n}
  /\ idle' = [idle EXCEPT ![n] = @ /\ status[n] # "active"]
  /\ noted' = [noted EXCEPT ![n] = @ /\ status[n] # "active"]
  /\ UNCHANGED <<status, count, confirmed, overlayVars, worldVars, execVars, rpc, todo, taken>>

\* Seeded fault: confirmed predictions are counted, and retiring them is forgotten.
CountedOverlay(n) == Cardinality({t \in Tiles : Confirmed(t) /\ pred[t].node = n})

\* updateNodeCounts: what is neither outstanding nor diverged is confirmed
\* (nothing marks a prediction diverged).
Counted(n) == count[n] - Cardinality(Owned(n))

\* Seeded fault: nodes whose predictions are not written yet are counted too.
CopyActiveUnset ==
  /\ rpc = "confirm" /\ todo = {} /\ credit = {}
  /\ rpc' = "copied" /\ todo' = {n \in Nodes : status[n] = "active"}
  /\ UNCHANGED <<nodeVars, overlayVars, worldVars, execVars, credit, taken>>

\* A copy of the active nodes, and then one of the outstanding predictions.
CopyActive ==
  /\ rpc = "confirm" /\ todo = {} /\ credit = {}
  /\ rpc' = "copied" /\ todo' = {n \in Nodes : status[n] = "active" /\ count[n] > 0}
  /\ UNCHANGED <<nodeVars, overlayVars, worldVars, execVars, credit, taken>>

CopyOutstanding ==
  /\ rpc = "copied"
  /\ rpc' = "counts" /\ todo' = {[node |-> n, confirmed |-> Counted(n)] : n \in todo}
  /\ UNCHANGED <<nodeVars, overlayVars, worldVars, execVars, credit, taken>>

\* Update, and MarkDone of a node with nothing outstanding.
CountNode(p) ==
  /\ rpc = "counts" /\ p \in todo
  /\ todo' = todo \ {p}
  /\ confirmed' = [confirmed EXCEPT ![p.node] = p.confirmed]
  /\ status' = IF p.confirmed >= count[p.node] THEN [status EXCEPT ![p.node] = "done"]
                                               ELSE status
  /\ UNCHANGED <<count, idle, noted, overlayVars, worldVars, execVars, rpc, credit, taken>>

\* detectStalls: the active nodes again.
MayStall(n) == /\ status[n] = "active" /\ count[n] > 0 /\ confirmed[n] < count[n]
               /\ idle[n] /\ ~noted[n]
BeginStalls ==
  /\ rpc = "counts" /\ todo = {}
  /\ rpc' = "stalls" /\ todo' = {n \in Nodes : MayStall(n)}
  /\ UNCHANGED <<nodeVars, overlayVars, worldVars, execVars, credit, taken>>

\* A DivergenceEvent goes to the buffer the deliberator reads; NoteStall.
Stall(n) ==
  /\ rpc = "stalls" /\ n \in todo
  /\ todo' = todo \ {n}
  /\ noted' = [noted EXCEPT ![n] = TRUE]
  /\ UNCHANGED <<status, count, confirmed, idle, overlayVars, worldVars, execVars, rpc,
                 credit, taken>>

EndScan ==
  /\ rpc = "stalls" /\ todo = {}
  /\ rpc' = "idle"
  /\ UNCHANGED <<nodeVars, overlayVars, worldVars, execVars, todo, credit, taken>>

\* Seeded fault: predictions are dropped by age, whatever their status.
RetireByAge ==
  /\ rpc = "idle"
  /\ \E S \in (SUBSET {t \in Tiles : pred[t] # None}) \ {{}} :
       /\ pred' = [t \in Tiles |-> IF t \in S THEN None ELSE pred[t]]
       /\ byNode' = [n \in Nodes |-> byNode[n] \ {t \in S : pred[t].node = n}]
       /\ tally' = [tally EXCEPT !.confirmed = @ - Cardinality(S)]
  /\ UNCHANGED <<nodeVars, worldVars, execVars, scanVars, taken>>

\* retire: confirmed predictions older than RetainConfirmed are dropped.
Retire ==
  /\ rpc = "idle"
  /\ \E S \in (SUBSET {t \in Tiles : Confirmed(t)}) \ {{}} :
       /\ pred' = [t \in Tiles |-> IF t \in S THEN None ELSE pred[t]]
       /\ byNode' = [n \in Nodes |-> byNode[n] \ {t \in S : pred[t].node = n}]
       /\ tally' = [tally EXCEPT !.confirmed = @ - Cardinality(S)]
  /\ UNCHANGED <<nodeVars, worldVars, execVars, scanVars, taken>>

----------------------------------------------------------------------------
Executor == \/ \E n \in Nodes : Dispatch(n)
            \/ Refused \/ AcceptedOther \/ AcceptedDig \/ SetCount
            \/ \E t \in Tiles : PredictTile(t)
Scan == \/ \E p \in todo : Check(p) \/ CountNode(p) \/ Stall(p)
        \/ \E n \in Nodes : NoteProgress(n)
        \/ BeginScan \/ CopyActive \/ CopyOutstanding \/ BeginStalls \/ EndScan
Observe == \E t \in Tiles : ObserveOpen(t) \/ ObserveClosed(t)
Next == \/ \E n \in Nodes : Commit(n)
        \/ \E n \in Digs : TimePasses(n) \/ NoteAges(n)
        \/ Observe \/ Executor \/ Scan \/ Retire

Spec == Init /\ [][Next]_vars

\* Both goroutines go on (a command is answered or times out), time passes;
\* nothing need ever be dug or observed.
FairSpec == /\ Spec /\ WF_vars(Executor) /\ WF_vars(Scan)
            /\ \A n \in Digs : SF_vars(TimePasses(n))

----------------------------------------------------------------------------
TypeOK ==
  /\ status \in [Nodes -> {"new", "ready", "active", "done", "failed"}]
  /\ count \in [Nodes -> Nat] /\ confirmed \in [Nodes -> Nat]
  /\ \A n \in Nodes : confirmed[n] <= count[n] /\ count[n] <= Cardinality(Region[n])
  /\ idle \in [Nodes -> BOOLEAN] /\ noted \in [Nodes -> BOOLEAN]
  /\ pred \in [Tiles -> [node : Nodes, status : {"outstanding", "confirmed"}] \cup {None}]
  /\ byNode \in [Nodes -> SUBSET Tiles]
  /\ tally \in [outstanding : Nat, confirmed : Nat]
  /\ open \subseteq opened /\ opened \subseteq Tiles /\ closes \in 0..MaxCloses
  /\ epc \in {"idle", "sent", "predict"} /\ enode \in Nodes \cup {None}
  /\ (enode = None <=> epc = "idle") /\ left \subseteq Tiles
  /\ rpc \in {"idle", "confirm", "copied", "counts", "stalls"} /\ credit \subseteq Nodes
  /\ taken \subseteq Tiles

----------------------------------------------------------------------------
(* Properties.                                                              *)

\* The counters a snapshot shows and the index by node agree with the
\* predictions, through replacing, confirming and retiring.
OverlayExact ==
  /\ tally.outstanding = Cardinality({t \in Tiles : Outstanding(t)})
  /\ tally.confirmed = Cardinality({t \in Tiles : Confirmed(t)})
  /\ \A n \in Nodes : byNode[n] = {t \in Tiles : pred[t] # None /\ pred[t].node = n}

\* A dig reported done has been observed: each of its tiles was seen open,
\* except one that another node's dig claimed before it was.
DoneIsDugElsewhere == \A n \in Digs :
  status[n] = "done" => Region[n] \subseteq opened \cup taken

\* Retiring old confirmations, or observing a tile closed again, never takes
\* back progress the agent was shown.
ProgressKept == [][\A n \in Nodes : confirmed'[n] >= confirmed[n]]_vars

\* A dig the plugin took on does not hang in silence: it is done, or the agent
\* is told that it has stalled.
StallReported == \A n \in Digs :
  status[n] = "active" ~> status[n] # "active" \/ noted[n]
=============================================================================
