----------------------- MODULE PlanReconcile_proofs -----------------------
(***************************************************************************)
(* The predictions stay consistent, a dig is done only when dug or taken    *)
(* over, and progress is kept, for any set of nodes and tiles, overlapping  *)
(* or not.                                                                  *)
(***************************************************************************)
EXTENDS PlanReconcile, FiniteSetTheorems, TLAPS

\* What the executor's place says of its node.
ExecutorStages ==
  /\ epc # "idle" => enode \in Nodes /\ status[enode] = "active" /\ count[enode] = 0
  /\ epc = "predict" => left \subseteq Predicted(enode)
  /\ \A n \in Nodes : status[n] \in {"new", "ready"} => count[n] = 0

\* A node's predictions lie in its region; a node with a count has that many.
CountsAgree ==
  \A n \in Nodes : /\ Owned(n) \subseteq Predicted(n)
                   /\ count[n] > 0 => /\ count[n] = Cardinality(Predicted(n))
                                      /\ confirmed[n] <= Counted(n)

\* What the reconciler copied is what it takes it for, however old it is.
CopiesFresh ==
  /\ rpc = "confirm" => todo \subseteq [tile : Tiles, node : Nodes]
  /\ rpc = "copied" => todo \subseteq {n \in Nodes : count[n] > 0}
  /\ rpc = "counts" => \A p \in todo :
       /\ p.node \in Nodes /\ count[p.node] > 0
       /\ p.confirmed \in Nat /\ confirmed[p.node] <= p.confirmed
       /\ p.confirmed <= Counted(p.node)
       /\ \A q \in todo : p.node = q.node => p = q
  /\ rpc = "stalls" => todo \subseteq Nodes

\* Every prediction of n has been written.
Written(n, t) == count[n] > 0 \/ (epc = "predict" /\ enode = n /\ t \notin left)

\* A written prediction that is no longer the node's was seen open or taken.
DugOrTaken ==
  \A n \in Nodes : \A t \in Predicted(n) :
    Written(n, t) => t \in Owned(n) \cup opened \cup taken

IInv == /\ TypeOK /\ OverlayExact /\ ExecutorStages /\ CountsAgree /\ CopiesFresh
        /\ DugOrTaken /\ DoneIsDugElsewhere

----------------------------------------------------------------------------
(* Cardinalities of sets of tiles.                                          *)

\* Sets of tiles are finite.
LEMMA TilesFinite ==
  ASSUME NEW S \in SUBSET Tiles
  PROVE  IsFiniteSet(S) /\ Cardinality(S) \in Nat
BY FS_Subset, FS_CardinalityType, NodesAssumption DEF NodesAssumption

\* One tile more, one tile less.
LEMMA OneTile ==
  ASSUME NEW S \in SUBSET Tiles, NEW t \in Tiles
  PROVE  /\ t \notin S => Cardinality(S \cup {t}) = Cardinality(S) + 1
         /\ t \in S => Cardinality(S \ {t}) = Cardinality(S) - 1
BY TilesFinite, FS_AddElement, FS_RemoveElement

\* The predictions of one status, the counters' reference.
OutstandingTiles == {t \in Tiles : Outstanding(t)}
ConfirmedTiles == {t \in Tiles : Confirmed(t)}

----------------------------------------------------------------------------
(* The overlay.                                                             *)

\* Only three steps touch the overlay.
LEMMA OverlaySteps ==
  ASSUME [Next]_vars
  PROVE  \/ \E t \in Tiles : PredictTile(t)
         \/ \E p \in todo : Check(p)
         \/ Retire
         \/ UNCHANGED overlayVars
BY DEF Next, Executor, Scan, Observe, Commit, TimePasses, NoteAges, ObserveOpen,
       ObserveClosed, Dispatch, Refused, AcceptedOther, AcceptedDig, SetCount, CountNode,
       Stall, NoteProgress, BeginScan, CopyActive, CopyOutstanding, BeginStalls, EndScan,
       vars, nodeVars, worldVars, execVars, scanVars

\* A prediction moves its tile to the outstanding ones, whatever it was.
LEMMA PredictOverlay ==
  ASSUME IInv, NEW t \in Tiles, PredictTile(t)
  PROVE  OverlayExact' /\ pred' \in [Tiles -> [node : Nodes, status : {"outstanding", "confirmed"}] \cup {None}]
<1>1. /\ enode \in Nodes
      /\ pred' = [pred EXCEPT ![t] = [node |-> enode, status |-> "outstanding"]]
  BY DEF IInv, ExecutorStages, PredictTile, Predict
<1>2. pred \in [Tiles -> [node : Nodes, status : {"outstanding", "confirmed"}] \cup {None}]
  BY DEF IInv, TypeOK
<1>3. [node |-> enode, status |-> "outstanding"] # None
  BY <1>1, NoneAssumption DEF NoneAssumption
<1>4. OutstandingTiles' = OutstandingTiles \cup {t}
  BY <1>1, <1>2, <1>3 DEF OutstandingTiles, Outstanding
<1>5. ConfirmedTiles' = ConfirmedTiles \ {t}
  BY <1>1, <1>2, <1>3 DEF ConfirmedTiles, Confirmed
<1>6. OutstandingTiles \in SUBSET Tiles /\ ConfirmedTiles \in SUBSET Tiles
  BY DEF OutstandingTiles, ConfirmedTiles
<1>7. tally.outstanding = Cardinality(OutstandingTiles) /\ tally.confirmed = Cardinality(ConfirmedTiles)
  BY DEF IInv, OverlayExact, OutstandingTiles, ConfirmedTiles
<1>8. Outstanding(t) <=> t \in OutstandingTiles
  BY DEF OutstandingTiles
<1>9. Confirmed(t) <=> t \in ConfirmedTiles
  BY DEF ConfirmedTiles
<1>10. tally'.outstanding = Cardinality(OutstandingTiles')
  <2>1. CASE Outstanding(t)
    <3>1. OutstandingTiles' = OutstandingTiles BY <1>4, <1>8, <2>1
    <3>2. tally'.outstanding = tally.outstanding + 0 BY <2>1 DEF PredictTile, Predict
    <3> QED BY <3>1, <3>2, <1>6, <1>7, TilesFinite
  <2>2. CASE ~Outstanding(t)
    <3>1. tally'.outstanding = tally.outstanding + 1 BY <2>2 DEF PredictTile, Predict
    <3> QED BY <2>2, <3>1, <1>4, <1>6, <1>7, <1>8, OneTile
  <2> QED BY <2>1, <2>2
<1>11. tally'.confirmed = Cardinality(ConfirmedTiles')
  <2>1. CASE Confirmed(t)
    <3>1. tally'.confirmed = tally.confirmed - 1 BY <2>1 DEF PredictTile, Predict
    <3> QED BY <2>1, <3>1, <1>5, <1>6, <1>7, <1>9, OneTile
  <2>2. CASE ~Confirmed(t)
    <3>1. ConfirmedTiles' = ConfirmedTiles BY <1>5, <1>9, <2>2
    <3>2. tally'.confirmed = tally.confirmed - 0 BY <2>2 DEF PredictTile, Predict
    <3> QED BY <3>1, <3>2, <1>6, <1>7, TilesFinite
  <2> QED BY <2>1, <2>2
<1>12. \A n \in Nodes : byNode'[n] = {u \in Tiles : pred'[u] # None /\ pred'[u].node = n}
  <2>1. \A n \in Nodes : byNode'[n] = IF n = enode THEN byNode[n] \cup {t} ELSE byNode[n] \ {t}
    BY DEF PredictTile, Predict
  <2>2. \A n \in Nodes : byNode[n] = {u \in Tiles : pred[u] # None /\ pred[u].node = n}
    BY DEF IInv, OverlayExact
  <2>3. \A n \in Nodes : \A u \in Tiles :
          (pred'[u] # None /\ pred'[u].node = n)
            <=> IF u = t THEN n = enode ELSE pred[u] # None /\ pred[u].node = n
    BY <1>1, <1>2, <1>3
  <2>4. ASSUME NEW n \in Nodes, NEW u
        PROVE  u \in byNode'[n] <=> u \in Tiles /\ pred'[u] # None /\ pred'[u].node = n
    <3>1. CASE n = enode
      <4>1. byNode'[n] = byNode[n] \cup {t} BY <2>1, <3>1
      <4> QED BY <3>1, <4>1, <2>2, <2>3
    <3>2. CASE n # enode
      <4>1. byNode'[n] = byNode[n] \ {t} BY <2>1, <3>2
      <4> QED BY <3>2, <4>1, <2>2, <2>3
    <3> QED BY <3>1, <3>2
  <2> QED BY <2>4
<1>13. pred' \in [Tiles -> [node : Nodes, status : {"outstanding", "confirmed"}] \cup {None}]
  BY <1>1, <1>2
<1> QED BY <1>10, <1>11, <1>12, <1>13 DEF OverlayExact, OutstandingTiles, ConfirmedTiles

\* A confirmation moves its tile the other way, if it was outstanding.
LEMMA CheckOverlay ==
  ASSUME IInv, NEW p \in todo, Check(p)
  PROVE  /\ OverlayExact'
         /\ pred' \in [Tiles -> [node : Nodes, status : {"outstanding", "confirmed"}] \cup {None}]
         /\ \A n \in Nodes : Owned(n)' \subseteq Owned(n)
         /\ \A n \in Nodes : Owned(n) \subseteq Owned(n)' \cup opened
<1>1. p.tile \in Tiles /\ byNode' = byNode
  BY DEF IInv, CopiesFresh, Check
<1>2. pred \in [Tiles -> [node : Nodes, status : {"outstanding", "confirmed"}] \cup {None}]
  BY DEF IInv, TypeOK
<1> DEFINE t == p.tile
<1>3. CASE t \in open /\ Outstanding(t)
  <2>1. /\ pred[t] # None /\ pred[t].status = "outstanding"
        /\ pred[t] \in [node : Nodes, status : {"outstanding", "confirmed"}]
    BY <1>1, <1>2, <1>3 DEF Outstanding
  <2>2. pred' = [pred EXCEPT ![t] = [node |-> pred[t].node, status |-> "confirmed"]]
    BY <1>3, <2>1 DEF Check, Confirm
  <2>3. [node |-> pred[t].node, status |-> "confirmed"]
          \in [node : Nodes, status : {"outstanding", "confirmed"}]
    BY <2>1
  <2>4. [node |-> pred[t].node, status |-> "confirmed"] # None
    BY <2>3, NoneAssumption DEF NoneAssumption
  <2>5. OutstandingTiles' = OutstandingTiles \ {t} /\ t \in OutstandingTiles
    BY <1>1, <1>2, <1>3, <2>2, <2>4 DEF OutstandingTiles, Outstanding
  <2>6. ConfirmedTiles' = ConfirmedTiles \cup {t} /\ t \notin ConfirmedTiles
    BY <1>1, <1>2, <2>1, <2>2, <2>4 DEF ConfirmedTiles, Confirmed
  <2>7. OutstandingTiles \in SUBSET Tiles /\ ConfirmedTiles \in SUBSET Tiles
    BY DEF OutstandingTiles, ConfirmedTiles
  <2>8. /\ tally'.outstanding = tally.outstanding - 1
        /\ tally'.confirmed = tally.confirmed + 1
    BY <1>3 DEF Check, Confirm
  <2>9. /\ tally'.outstanding = Cardinality(OutstandingTiles')
        /\ tally'.confirmed = Cardinality(ConfirmedTiles')
    BY <1>1, <2>5, <2>6, <2>7, <2>8, OneTile
       DEF IInv, OverlayExact, OutstandingTiles, ConfirmedTiles
  <2>10. \A n \in Nodes : \A u \in Tiles :
           (pred'[u] # None /\ pred'[u].node = n) <=> (pred[u] # None /\ pred[u].node = n)
    BY <1>1, <1>2, <2>1, <2>2, <2>4
  <2>11. \A n \in Nodes : byNode'[n] = {u \in Tiles : pred'[u] # None /\ pred'[u].node = n}
    BY <1>1, <2>10 DEF IInv, OverlayExact
  <2>12. pred' \in [Tiles -> [node : Nodes, status : {"outstanding", "confirmed"}] \cup {None}]
    BY <1>1, <1>2, <2>2, <2>3
  <2>13. t \in opened
    BY <1>3 DEF IInv, TypeOK
  <2>14. \A n \in Nodes : Owned(n)' = Owned(n) \ {t}
    BY <1>1, <1>2, <2>1, <2>2, <2>4 DEF Owned, Outstanding
  <2> QED BY <2>9, <2>11, <2>12, <2>13, <2>14 DEF OverlayExact, OutstandingTiles, ConfirmedTiles
<1>4. CASE ~(t \in open /\ Outstanding(t))
  <2>1. UNCHANGED overlayVars
    BY <1>1, <1>4 DEF Check, Confirm, overlayVars
  <2> QED BY <1>2, <2>1 DEF overlayVars, IInv, OverlayExact, Owned, Outstanding, Confirmed
<1> QED BY <1>3, <1>4

\* Retiring drops confirmed predictions only.
LEMMA RetireOverlay ==
  ASSUME IInv, Retire
  PROVE  /\ OverlayExact'
         /\ pred' \in [Tiles -> [node : Nodes, status : {"outstanding", "confirmed"}] \cup {None}]
         /\ \A n \in Nodes : Owned(n)' = Owned(n)
<1>1. PICK S \in SUBSET ConfirmedTiles :
        /\ pred' = [t \in Tiles |-> IF t \in S THEN None ELSE pred[t]]
        /\ byNode' = [n \in Nodes |-> byNode[n] \ {t \in S : pred[t].node = n}]
        /\ tally' = [tally EXCEPT !.confirmed = @ - Cardinality(S)]
  BY DEF Retire, ConfirmedTiles
<1>2. pred \in [Tiles -> [node : Nodes, status : {"outstanding", "confirmed"}] \cup {None}]
  BY DEF IInv, TypeOK
<1>3. S \in SUBSET Tiles /\ ConfirmedTiles \in SUBSET Tiles
  BY DEF ConfirmedTiles
<1>4. \A t \in S : pred[t] # None /\ pred[t].status = "confirmed"
  BY DEF ConfirmedTiles, Confirmed
<1>5. OutstandingTiles' = OutstandingTiles
  BY <1>1, <1>3, <1>4 DEF OutstandingTiles, Outstanding
<1>6. ConfirmedTiles' = ConfirmedTiles \ S
  BY <1>1, <1>3 DEF ConfirmedTiles, Confirmed
<1>7. Cardinality(ConfirmedTiles \ S) = Cardinality(ConfirmedTiles) - Cardinality(S)
  <2>1. ConfirmedTiles \cap S = S
    OBVIOUS
  <2> QED BY <1>3, <2>1, TilesFinite, FS_Difference
<1>8. tally \in [outstanding : Nat, confirmed : Nat]
  BY DEF IInv, TypeOK
<1>9. tally'.outstanding = tally.outstanding /\ tally'.confirmed = tally.confirmed - Cardinality(S)
  BY <1>1, <1>8
<1>10. /\ tally'.outstanding = Cardinality(OutstandingTiles')
       /\ tally'.confirmed = Cardinality(ConfirmedTiles')
  BY <1>5, <1>6, <1>7, <1>9 DEF IInv, OverlayExact, OutstandingTiles, ConfirmedTiles
<1>11. \A n \in Nodes : byNode'[n] = {u \in Tiles : pred'[u] # None /\ pred'[u].node = n}
  BY <1>1, <1>3, <1>4 DEF IInv, OverlayExact
<1>12. \A n \in Nodes : Owned(n)' = Owned(n)
  BY <1>1, <1>3, <1>4 DEF Owned, Outstanding
<1>13. pred' \in [Tiles -> [node : Nodes, status : {"outstanding", "confirmed"}] \cup {None}]
  BY <1>1, <1>2, <1>3
<1> QED BY <1>10, <1>11, <1>12, <1>13 DEF OverlayExact, OutstandingTiles, ConfirmedTiles

\* The step keeps the overlay consistent.
LEMMA OverlayStep ==
  ASSUME IInv, [Next]_vars
  PROVE  /\ OverlayExact'
         /\ pred' \in [Tiles -> [node : Nodes, status : {"outstanding", "confirmed"}] \cup {None}]
<1>1. CASE \E t \in Tiles : PredictTile(t)
  BY <1>1, PredictOverlay
<1>2. CASE \E p \in todo : Check(p)
  BY <1>2, CheckOverlay
<1>3. CASE Retire
  BY <1>3, RetireOverlay
<1>4. CASE UNCHANGED overlayVars
  BY <1>4 DEF overlayVars, IInv, TypeOK, OverlayExact, Outstanding, Confirmed
<1> QED BY <1>1, <1>2, <1>3, <1>4, OverlaySteps

\* What a step does to the outstanding predictions of a node: none is added to
\* a node that has its count, and one that goes was seen open or taken over.
LEMMA OwnedStep ==
  ASSUME IInv, [Next]_vars, NEW n \in Nodes
  PROVE  /\ Owned(n)' \subseteq Predicted(n)
         /\ count[n] > 0 => Owned(n)' \subseteq Owned(n)
         /\ Owned(n) \subseteq Owned(n)' \cup opened \cup taken'
<1>0. Owned(n) \subseteq Predicted(n)
  BY DEF IInv, CountsAgree
<1>1. ASSUME NEW t \in Tiles, PredictTile(t)
      PROVE  /\ Owned(n)' \subseteq Predicted(n)
             /\ count[n] > 0 => Owned(n)' \subseteq Owned(n)
             /\ Owned(n) \subseteq Owned(n)' \cup opened \cup taken'
  <2>1. /\ enode \in Nodes /\ count[enode] = 0 /\ t \in Predicted(enode)
        /\ pred' = [pred EXCEPT ![t] = [node |-> enode, status |-> "outstanding"]]
        /\ taken' = IF Outstanding(t) THEN taken \cup {t} ELSE taken
    BY <1>1 DEF IInv, ExecutorStages, PredictTile, Predict
  <2>2. pred \in [Tiles -> [node : Nodes, status : {"outstanding", "confirmed"}] \cup {None}]
    BY DEF IInv, TypeOK
  <2>3. [node |-> enode, status |-> "outstanding"] # None
    BY <2>1, NoneAssumption DEF NoneAssumption
  <2>4. \A u \in Tiles : u \in Owned(n)' <=> IF u = t THEN n = enode ELSE u \in Owned(n)
    BY <2>1, <2>2, <2>3 DEF Owned, Outstanding
  <2>5. t \in Owned(n) => t \in taken'
    BY <2>1 DEF Owned
  <2>6. Owned(n) \subseteq Tiles /\ Owned(n)' \subseteq Tiles
    BY DEF Owned
  <2> QED BY <1>0, <2>1, <2>4, <2>5, <2>6
<1>2. CASE \E p \in todo : Check(p)
  <2>1. Owned(n)' \subseteq Owned(n) /\ Owned(n) \subseteq Owned(n)' \cup opened
    BY <1>2, CheckOverlay
  <2> QED BY <1>0, <2>1
<1>3. CASE Retire
  <2>1. Owned(n)' = Owned(n)
    BY <1>3, RetireOverlay
  <2> QED BY <1>0, <2>1
<1>4. CASE UNCHANGED overlayVars
  <2>1. Owned(n)' = Owned(n)
    BY <1>4 DEF overlayVars, Owned, Outstanding
  <2> QED BY <1>0, <2>1
<1> QED BY <1>1, <1>2, <1>3, <1>4, OverlaySteps

\* The count of a node is set once.
LEMMA CountSetOnce ==
  ASSUME IInv, [Next]_vars, NEW n \in Nodes, count[n] > 0
  PROVE  count'[n] = count[n]
<1>1. CASE SetCount
  BY <1>1 DEF SetCount, IInv, ExecutorStages, TypeOK
<1>2. CASE ~SetCount
  BY <1>2 DEF Next, Executor, Scan, Observe, Commit, TimePasses, NoteAges, ObserveOpen,
       ObserveClosed, Dispatch, Refused, AcceptedOther, AcceptedDig, PredictTile, Check,
       CountNode, Stall, NoteProgress, BeginScan, CopyActive, CopyOutstanding,
       BeginStalls, EndScan, Retire, vars, nodeVars
<1> QED BY <1>1, <1>2

\* Hence what counts as confirmed never gets less.
LEMMA CountedGrows ==
  ASSUME IInv, [Next]_vars, NEW n \in Nodes, count[n] > 0
  PROVE  /\ Counted(n) \in Int /\ Counted(n)' \in Int
         /\ Counted(n) <= Counted(n)'
<1>1. count'[n] = count[n] /\ count[n] \in Nat
  BY CountSetOnce DEF IInv, TypeOK
<1>2. Owned(n)' \subseteq Owned(n) /\ Owned(n) \in SUBSET Tiles
  BY OwnedStep DEF Owned
<1>3. /\ Cardinality(Owned(n)') \in Nat /\ Cardinality(Owned(n)) \in Nat
      /\ Cardinality(Owned(n)') <= Cardinality(Owned(n))
  BY <1>2, TilesFinite, FS_Subset
<1> QED BY <1>1, <1>3 DEF Counted

----------------------------------------------------------------------------
(* Types.                                                                   *)

\* A node predicts at most the tiles of its region.
LEMMA PredictedFinite ==
  ASSUME NEW n \in Nodes
  PROVE  /\ Predicted(n) \in SUBSET Tiles /\ Cardinality(Predicted(n)) \in Nat
         /\ Cardinality(Predicted(n)) <= Cardinality(Region[n])
         /\ Cardinality(Region[n]) \in Nat
<1>1. Region[n] \in SUBSET Tiles /\ Predicted(n) \in SUBSET Region[n]
  BY NodesAssumption DEF NodesAssumption, Predicted
<1>2. IsFiniteSet(Region[n]) /\ Cardinality(Region[n]) \in Nat
  BY <1>1, TilesFinite
<1>3. Cardinality(Predicted(n)) <= Cardinality(Region[n])
  BY <1>1, <1>2, FS_Subset
<1> QED BY <1>1, <1>2, <1>3, TilesFinite

\* At the start no node has been dispatched and nothing is predicted.
LEMMA InitIInv == Init => IInv
<1> SUFFICES ASSUME Init PROVE IInv
  OBVIOUS
<1>1. \A n \in Nodes : Owned(n) = {} /\ Counted(n) = 0
  <2>1. \A n \in Nodes : Owned(n) = {}
    BY DEF Init, Owned, Outstanding
  <2>2. Cardinality({}) = 0
    BY FS_EmptySet
  <2>3. ASSUME NEW n \in Nodes PROVE Counted(n) = 0
    <3>1. count[n] = 0
      BY DEF Init
    <3>2. Cardinality(Owned(n)) = 0
      BY <2>1, <2>2
    <3> QED BY <3>1, <3>2 DEF Counted
  <2> QED BY <2>1, <2>3
<1>2. TypeOK
  BY PredictedFinite, MaxClosesAssumption DEF Init, TypeOK, MaxClosesAssumption
<1>3. OverlayExact
  <2>1. OutstandingTiles = {} /\ ConfirmedTiles = {}
    BY DEF Init, OutstandingTiles, ConfirmedTiles, Outstanding, Confirmed
  <2> QED BY <2>1, FS_EmptySet DEF Init, OverlayExact, OutstandingTiles, ConfirmedTiles
<1>4. ExecutorStages /\ CopiesFresh /\ DugOrTaken /\ DoneIsDugElsewhere
  BY NodesAssumption DEF Init, ExecutorStages, CopiesFresh, DugOrTaken, Written,
     DoneIsDugElsewhere, NodesAssumption
<1>5. CountsAgree
  BY <1>1 DEF Init, CountsAgree
<1> QED BY <1>2, <1>3, <1>4, <1>5 DEF IInv

\* What the steps do to the predictions is OverlayStep; this is the rest.
LEMMA TypeStep ==
  ASSUME IInv, [Next]_vars
  PROVE  TypeOK'
<1>1. /\ OverlayExact'
      /\ pred' \in [Tiles -> [node : Nodes, status : {"outstanding", "confirmed"}] \cup {None}]
  BY OverlayStep
<1>2. tally' \in [outstanding : Nat, confirmed : Nat]
  <2>1. tally'.outstanding \in Nat /\ tally'.confirmed \in Nat
    BY <1>1, TilesFinite DEF OverlayExact
  <2>2. tally' = [outstanding |-> tally'.outstanding, confirmed |-> tally'.confirmed]
    <3>1. CASE \E t \in Tiles : PredictTile(t)
      BY <3>1 DEF PredictTile, Predict
    <3>2. CASE \E p \in todo : Check(p)
      BY <3>2 DEF Check, Confirm, IInv, TypeOK
    <3>3. CASE Retire
      <4>1. PICK k : tally' = [tally EXCEPT !.confirmed = k]
        BY <3>3 DEF Retire
      <4> QED BY <4>1 DEF IInv, TypeOK
    <3>4. CASE UNCHANGED overlayVars
      BY <3>4 DEF overlayVars, IInv, TypeOK
    <3> QED BY <3>1, <3>2, <3>3, <3>4, OverlaySteps
  <2> QED BY <2>1, <2>2
<1>3. byNode' \in [Nodes -> SUBSET Tiles]
  <2>1. byNode' = [n \in Nodes |-> byNode'[n]]
    BY OverlaySteps DEF PredictTile, Predict, Check, Retire, overlayVars, IInv, TypeOK
  <2> QED BY <1>1, <2>1 DEF OverlayExact
<1> USE DEF IInv, TypeOK, worldVars, execVars, scanVars, nodeVars, overlayVars
<1>4. CASE \E n \in Nodes : Commit(n)
  BY <1>1, <1>2, <1>3, <1>4 DEF Commit
<1>5. CASE \E n \in Digs : TimePasses(n) \/ NoteAges(n)
  BY <1>1, <1>2, <1>3, <1>5 DEF TimePasses, NoteAges
<1>6. CASE Observe
  BY <1>1, <1>2, <1>3, <1>6, MaxClosesAssumption
     DEF Observe, ObserveOpen, ObserveClosed, MaxClosesAssumption
<1>7. CASE Executor
  <2>1. CASE \E n \in Nodes : Dispatch(n)
    BY <1>1, <1>2, <1>3, <2>1, NoneAssumption DEF Dispatch, NoneAssumption
  <2>2. CASE Refused \/ AcceptedOther
    BY <1>1, <1>2, <1>3, <2>2 DEF Refused, AcceptedOther
  <2>3. CASE AcceptedDig
    BY <1>1, <1>2, <1>3, <2>3, PredictedFinite DEF AcceptedDig
  <2>4. CASE SetCount
    BY <1>1, <1>2, <1>3, <2>4, PredictedFinite DEF SetCount, ExecutorStages
  <2>5. CASE \E t \in Tiles : PredictTile(t)
    BY <1>1, <1>2, <1>3, <2>5 DEF PredictTile
  <2> QED BY <1>7, <2>1, <2>2, <2>3, <2>4, <2>5 DEF Executor
<1>8. CASE Scan
  <2>1. CASE \E p \in todo : Check(p)
    BY <1>1, <1>2, <1>3, <2>1 DEF Check, CopiesFresh
  <2>2. CASE \E p \in todo : CountNode(p)
    <3>1. PICK p \in todo : CountNode(p)
      BY <2>2
    <3>2. p.node \in Nodes /\ p.confirmed \in Nat /\ p.confirmed <= Counted(p.node)
      BY <3>1 DEF CountNode, CopiesFresh
    <3>3. p.confirmed <= count[p.node]
      <4>1. Cardinality(Owned(p.node)) \in Nat BY TilesFinite DEF Owned
      <4> QED BY <3>2, <4>1 DEF Counted
    <3> QED BY <1>1, <1>2, <1>3, <3>1, <3>2, <3>3 DEF CountNode
  <2>3. CASE \E p \in todo : Stall(p)
    BY <1>1, <1>2, <1>3, <2>3 DEF Stall, CopiesFresh
  <2>4. CASE \E n \in Nodes : NoteProgress(n)
    BY <1>1, <1>2, <1>3, <2>4 DEF NoteProgress
  <2>5. CASE BeginScan \/ CopyActive \/ CopyOutstanding \/ BeginStalls \/ EndScan
    BY <1>1, <1>2, <1>3, <2>5 DEF BeginScan, CopyActive, CopyOutstanding, BeginStalls, EndScan
  <2> QED BY <1>8, <2>1, <2>2, <2>3, <2>4, <2>5 DEF Scan
<1>9. CASE Retire
  BY <1>1, <1>2, <1>3, <1>9 DEF Retire
<1>10. CASE UNCHANGED vars
  BY <1>1, <1>2, <1>3, <1>10 DEF vars
<1> QED BY <1>4, <1>5, <1>6, <1>7, <1>8, <1>9, <1>10 DEF Next

----------------------------------------------------------------------------
(* The rest of the invariant.                                               *)

\* Every step keeps the stages of the executor's work on a node.
LEMMA ExecutorStep ==
  ASSUME IInv, [Next]_vars
  PROVE  ExecutorStages'
<1> USE DEF IInv, TypeOK, ExecutorStages, worldVars, execVars, scanVars, nodeVars, overlayVars
<1>0. \A n \in Nodes : Predicted(n)' = Predicted(n)
  BY DEF Predicted
<1>1. CASE Executor
  <2>1. CASE \E n \in Nodes : Dispatch(n)
    BY <2>1 DEF Dispatch
  <2>2. CASE Refused \/ AcceptedOther
    BY <2>2 DEF Refused, AcceptedOther
  <2>3. CASE AcceptedDig
    BY <1>0, <2>3 DEF AcceptedDig
  <2>4. CASE SetCount
    BY <2>4 DEF SetCount
  <2>5. CASE \E t \in Tiles : PredictTile(t)
    BY <1>0, <2>5 DEF PredictTile
  <2> QED BY <1>1, <2>1, <2>2, <2>3, <2>4, <2>5 DEF Executor
<1>2. CASE \E n \in Nodes : Commit(n)
  BY <1>0, <1>2 DEF Commit
<1>3. CASE \E p \in todo : CountNode(p)
  BY <1>0, <1>3 DEF CountNode, CopiesFresh
<1>4. CASE UNCHANGED <<status, count, epc, enode, left>>
  BY <1>0, <1>4
<1> QED BY <1>1, <1>2, <1>3, <1>4
        DEF Next, Scan, Observe, TimePasses, NoteAges, ObserveOpen, ObserveClosed, Check,
            Stall, NoteProgress, BeginScan, CopyActive, CopyOutstanding, BeginStalls,
            EndScan, Retire, vars

\* A node's confirmations are set by CountNode only, to what was copied.
LEMMA ConfirmedStep ==
  ASSUME IInv, [Next]_vars, NEW n \in Nodes
  PROVE  \/ confirmed'[n] = confirmed[n]
         \/ \E p \in todo : /\ CountNode(p) /\ p.node = n
                            /\ confirmed'[n] = p.confirmed
<1>1. CASE \E p \in todo : CountNode(p)
  BY <1>1 DEF CountNode, IInv, TypeOK
<1>2. CASE ~\E p \in todo : CountNode(p)
  BY <1>2 DEF Next, Executor, Scan, Observe, Commit, TimePasses, NoteAges, ObserveOpen,
       ObserveClosed, Dispatch, Refused, AcceptedOther, AcceptedDig, PredictTile, SetCount,
       Check, Stall, NoteProgress, BeginScan, CopyActive, CopyOutstanding,
       BeginStalls, EndScan, Retire, vars, nodeVars
<1> QED BY <1>1, <1>2

\* What CountNode stores is what the copy says, not less than what was there.
LEMMA CountNodeFacts ==
  ASSUME IInv, NEW p \in todo, CountNode(p)
  PROVE  /\ p.node \in Nodes /\ count[p.node] > 0
         /\ p.confirmed \in Nat /\ confirmed[p.node] <= p.confirmed
         /\ p.confirmed <= Counted(p.node)
BY DEF IInv, CopiesFresh, CountNode

\* Every step keeps the counts of a node in agreement with its predictions.
LEMMA CountsStep ==
  ASSUME IInv, [Next]_vars
  PROVE  CountsAgree'
<1> SUFFICES ASSUME NEW n \in Nodes
             PROVE  /\ Owned(n)' \subseteq Predicted(n)'
                    /\ count'[n] > 0 => /\ count'[n] = Cardinality(Predicted(n)')
                                        /\ confirmed'[n] <= Counted(n)'
  BY DEF CountsAgree
<1>1. Predicted(n)' = Predicted(n)
  BY DEF Predicted
<1>2. Owned(n)' \subseteq Predicted(n)
  BY OwnedStep
<1>3. ASSUME count[n] > 0
      PROVE  count'[n] = Cardinality(Predicted(n)) /\ confirmed'[n] <= Counted(n)'
  <2>1. count'[n] = Cardinality(Predicted(n))
    BY <1>3, CountSetOnce DEF IInv, CountsAgree
  <2>2. /\ Counted(n) \in Int /\ Counted(n)' \in Int /\ Counted(n) <= Counted(n)'
    BY <1>3, CountedGrows
  <2>3. confirmed'[n] \in Nat /\ confirmed'[n] <= Counted(n)
    BY <1>3, ConfirmedStep, CountNodeFacts DEF IInv, CountsAgree, TypeOK
  <2> QED BY <2>1, <2>2, <2>3
<1>4. ASSUME ~(count[n] > 0), count'[n] > 0
      PROVE  count'[n] = Cardinality(Predicted(n)) /\ confirmed'[n] <= Counted(n)'
  <2>1. count[n] = 0 /\ confirmed[n] = 0
    BY <1>4 DEF IInv, TypeOK
  <2>2. SetCount /\ n = enode
    <3>1. SetCount
      BY <1>4 DEF Next, Executor, Scan, Observe, Commit, TimePasses, NoteAges,
         ObserveOpen, ObserveClosed, Dispatch, Refused, AcceptedOther, AcceptedDig,
         PredictTile, Check, CountNode, Stall, NoteProgress, BeginScan, CopyActive,
         CopyOutstanding, BeginStalls, EndScan, Retire, vars, nodeVars
    <3> QED BY <1>4, <3>1 DEF SetCount, IInv, TypeOK
  <2>3. count'[n] = Cardinality(Predicted(n)) /\ confirmed'[n] = 0
    BY <2>1, <2>2 DEF SetCount, IInv, TypeOK
  <2>4. Cardinality(Owned(n)') <= Cardinality(Predicted(n)) /\ Cardinality(Owned(n)') \in Nat
    BY <1>2, PredictedFinite, TilesFinite, FS_Subset
  <2>5. Counted(n)' >= 0
    BY <2>3, <2>4, PredictedFinite DEF Counted
  <2> QED BY <2>3, <2>5
<1> QED BY <1>1, <1>2, <1>3, <1>4

\* A copy stays true while the executor and the Populator go on: counts are set
\* once and what counts as confirmed only grows.
LEMMA CopiesKept ==
  ASSUME IInv, [Next]_vars, rpc' = rpc, todo' \subseteq todo
  PROVE  CopiesFresh'
<1>1. \A n \in Nodes : count[n] > 0 => count'[n] > 0
  BY CountSetOnce
<1>2. CASE rpc = "counts"
  <2> SUFFICES ASSUME NEW q \in todo'
               PROVE  /\ q.node \in Nodes /\ count'[q.node] > 0
                      /\ q.confirmed \in Nat /\ confirmed'[q.node] <= q.confirmed
                      /\ q.confirmed <= Counted(q.node)'
                      /\ \A r \in todo' : q.node = r.node => q = r
    BY <1>2 DEF CopiesFresh
  <2>1. /\ q.node \in Nodes /\ count[q.node] > 0
        /\ q.confirmed \in Nat /\ confirmed[q.node] <= q.confirmed
        /\ q.confirmed <= Counted(q.node)
        /\ \A r \in todo : q.node = r.node => q = r
    BY <1>2 DEF IInv, CopiesFresh
  <2>2. q.confirmed <= Counted(q.node)'
    <3>1. /\ Counted(q.node) \in Int /\ Counted(q.node)' \in Int
          /\ Counted(q.node) <= Counted(q.node)'
      BY <2>1, CountedGrows
    <3> QED BY <2>1, <3>1
  <2>3. confirmed'[q.node] <= q.confirmed
    <3>1. CASE confirmed'[q.node] = confirmed[q.node]
      BY <2>1, <3>1
    <3>2. CASE \E p \in todo : p.node = q.node /\ confirmed'[q.node] = p.confirmed
      BY <2>1, <3>2
    <3> QED BY <2>1, <3>1, <3>2, ConfirmedStep
  <2> QED BY <1>1, <2>1, <2>2, <2>3
<1>3. CASE rpc # "counts"
  BY <1>1, <1>3 DEF IInv, CopiesFresh
<1> QED BY <1>2, <1>3

\* A fresh copy is true.
LEMMA CopiesStep ==
  ASSUME IInv, [Next]_vars
  PROVE  CopiesFresh'
<1>1. CASE rpc' = rpc /\ todo' \subseteq todo
  BY <1>1, CopiesKept
<1>2. CASE BeginScan
  BY <1>2 DEF BeginScan, CopiesFresh, Outstanding, IInv, TypeOK
<1>3. CASE CopyActive
  BY <1>3 DEF CopyActive, CopiesFresh, nodeVars
<1>4. CASE CopyOutstanding
  <2>1. \A n \in todo : n \in Nodes /\ count[n] > 0
    BY <1>4 DEF CopyOutstanding, IInv, CopiesFresh
  <2>2. \A n \in todo : /\ confirmed[n] \in Nat /\ confirmed[n] <= Counted(n)
                        /\ Counted(n) \in Int
    BY <2>1, CountedGrows DEF IInv, TypeOK, CountsAgree
  <2>3. \A n \in todo : Counted(n) \in Nat
    BY <2>2
  <2>4. \A n \in Nodes : Counted(n)' = Counted(n)
    BY <1>4 DEF CopyOutstanding, nodeVars, overlayVars, Counted, Owned, Outstanding
  <2>5. /\ rpc' = "counts" /\ UNCHANGED <<count, confirmed>>
        /\ todo' = {[node |-> n, confirmed |-> Counted(n)] : n \in todo}
    BY <1>4 DEF CopyOutstanding, nodeVars
  <2>6. ASSUME NEW p \in todo'
        PROVE  \E n \in todo : p.node = n /\ p.confirmed = Counted(n)
                               /\ p = [node |-> n, confirmed |-> Counted(n)]
    BY <2>5
  <2> QED BY <2>1, <2>2, <2>3, <2>4, <2>5, <2>6 DEF CopiesFresh
<1>5. CASE BeginStalls \/ EndScan
  BY <1>5 DEF BeginStalls, EndScan, CopiesFresh
<1> QED BY <1>1, <1>2, <1>3, <1>4, <1>5
        DEF Next, Executor, Scan, Observe, Commit, TimePasses, NoteAges, ObserveOpen,
            ObserveClosed, Dispatch, Refused, AcceptedOther, AcceptedDig, PredictTile,
            SetCount, Check, CountNode, Stall, NoteProgress, Retire, vars, scanVars

\* A tile of a written region leaves the node's predictions only seen or taken.
LEMMA DugStep ==
  ASSUME IInv, [Next]_vars
  PROVE  DugOrTaken'
<1> SUFFICES ASSUME NEW n \in Nodes, NEW t \in Predicted(n)', Written(n, t)'
             PROVE  t \in Owned(n)' \cup opened' \cup taken'
  BY DEF DugOrTaken
<1>1. t \in Predicted(n) /\ t \in Tiles
  BY PredictedFinite DEF Predicted
<1>2. opened \subseteq opened' /\ taken \subseteq taken'
  BY DEF Next, Executor, Scan, Observe, Commit, TimePasses, NoteAges, ObserveOpen,
     ObserveClosed, Dispatch, Refused, AcceptedOther, AcceptedDig, PredictTile, SetCount,
     Check, CountNode, Stall, NoteProgress, BeginScan, CopyActive, CopyOutstanding,
     BeginStalls, EndScan, Retire, vars, nodeVars, worldVars
<1>3. CASE Written(n, t)
  <2>1. t \in Owned(n) \cup opened \cup taken
    BY <1>1, <1>3 DEF IInv, DugOrTaken
  <2> QED BY <1>2, <2>1, OwnedStep
<1>4. CASE ~Written(n, t)
  <2>1. CASE SetCount
    BY <1>4, <2>1 DEF SetCount, Written, IInv, TypeOK
  <2>2. CASE AcceptedDig
    BY <1>1, <1>4, <2>2 DEF AcceptedDig, Written, nodeVars
  <2>3. CASE PredictTile(t)
    <3>1. n = enode
      BY <1>4, <2>3 DEF PredictTile, Written, nodeVars
    <3>2. pred' = [pred EXCEPT ![t] = [node |-> n, status |-> "outstanding"]]
      BY <2>3, <3>1 DEF PredictTile, Predict
    <3>3. [node |-> n, status |-> "outstanding"] # None
      BY NoneAssumption DEF NoneAssumption
    <3> QED BY <1>1, <3>2, <3>3 DEF Owned, Outstanding, IInv, TypeOK
  <2>4. CASE ~SetCount /\ ~AcceptedDig /\ ~PredictTile(t)
    BY <1>4, <2>4
       DEF Written, Next, Executor, Scan, Observe, Commit, TimePasses, NoteAges,
       ObserveOpen, ObserveClosed, Dispatch, Refused, AcceptedOther, PredictTile, Check,
       CountNode, Stall, NoteProgress, BeginScan, CopyActive, CopyOutstanding,
       BeginStalls, EndScan, Retire, vars, nodeVars, execVars
  <2> QED BY <2>1, <2>2, <2>3, <2>4
<1> QED BY <1>3, <1>4

\* CountNode reports a dig done when it owns no outstanding prediction, and then
\* all of its region was seen open or taken.
LEMMA DoneStep ==
  ASSUME IInv, [Next]_vars
  PROVE  DoneIsDugElsewhere'
<1> SUFFICES ASSUME NEW n \in Digs, status'[n] = "done"
             PROVE  Region[n] \subseteq opened' \cup taken'
  BY DEF DoneIsDugElsewhere
<1>0. n \in Nodes
  BY NodesAssumption DEF NodesAssumption
<1>1. opened \subseteq opened' /\ taken \subseteq taken'
  BY DEF Next, Executor, Scan, Observe, Commit, TimePasses, NoteAges, ObserveOpen,
     ObserveClosed, Dispatch, Refused, AcceptedOther, AcceptedDig, PredictTile, SetCount,
     Check, CountNode, Stall, NoteProgress, BeginScan, CopyActive, CopyOutstanding,
     BeginStalls, EndScan, Retire, vars, nodeVars, worldVars
<1>2. CASE status[n] = "done"
  BY <1>1, <1>2 DEF IInv, DoneIsDugElsewhere
<1>3. CASE status[n] # "done"
  <2>1. PICK p \in todo : CountNode(p) /\ p.node = n /\ p.confirmed >= count[n]
    BY <1>0, <1>3
       DEF IInv, TypeOK, Next, Executor, Scan, Observe, Commit, TimePasses, NoteAges,
       ObserveOpen, ObserveClosed, Dispatch, Refused, AcceptedOther, AcceptedDig,
       PredictTile, SetCount, Check, CountNode, Stall, NoteProgress, BeginScan,
       CopyActive, CopyOutstanding, BeginStalls, EndScan, Retire, vars, nodeVars
  <2>2. count[n] > 0 /\ count[n] \in Nat /\ p.confirmed \in Nat /\ p.confirmed <= Counted(n)
    BY <1>0, <2>1, CountNodeFacts DEF IInv, TypeOK
  <2>3. Owned(n) = {}
    <3>1. IsFiniteSet(Owned(n)) /\ Cardinality(Owned(n)) \in Nat
      BY TilesFinite DEF Owned
    <3>2. Cardinality(Owned(n)) = 0
      BY <2>1, <2>2, <3>1 DEF Counted
    <3> QED BY <3>1, <3>2, FS_EmptySet
  <2>4. Predicted(n) = Region[n]
    <3>1. count[n] = Cardinality(Predicted(n))
      BY <1>0, <2>2 DEF IInv, CountsAgree
    <3> QED BY <2>2, <3>1, FS_EmptySet DEF Predicted
  <2>5. Predicted(n) \subseteq opened \cup taken
    BY <1>0, <2>2, <2>3 DEF IInv, DugOrTaken, Written
  <2> QED BY <1>1, <2>4, <2>5
<1> QED BY <1>2, <1>3

----------------------------------------------------------------------------
(* Theorems.                                                                *)

\* The inductive invariant, for any nodes, tiles and regions.
THEOREM Invariance == Spec => []IInv
<1>1. Init => IInv
  BY InitIInv
<1>2. IInv /\ [Next]_vars => IInv'
  BY TypeStep, OverlayStep, ExecutorStep, CountsStep, CopiesStep, DugStep, DoneStep DEF IInv
<1> QED BY <1>1, <1>2, PTL DEF Spec

\* Types, and the bounds on the counts of a node.
THEOREM TypeCorrect == Spec => []TypeOK
<1>1. IInv => TypeOK
  BY DEF IInv
<1> QED BY <1>1, Invariance, PTL

\* The counters and the index agree with the predictions at every step of the
\* executor, the reconciler and the retirement.
THEOREM OverlayIsExact == Spec => []OverlayExact
<1>1. IInv => OverlayExact
  BY DEF IInv
<1> QED BY <1>1, Invariance, PTL

\* A dig reported done was seen open, except for tiles another dig took over.
THEOREM DoneDigsAreDug == Spec => []DoneIsDugElsewhere
<1>1. IInv => DoneIsDugElsewhere
  BY DEF IInv
<1> QED BY <1>1, Invariance, PTL

ConfirmedKept == \A n \in Nodes : confirmed'[n] >= confirmed[n]

\* reconcileConfirmed never lowers the count of a node's confirmed tiles, although
\* it is computed from copies and counters that other goroutines have moved on.
THEOREM ProgressIsKept == Spec => ProgressKept
<1>1. IInv /\ [Next]_vars => [ConfirmedKept]_vars
  <2> SUFFICES ASSUME IInv, [Next]_vars, NEW n \in Nodes PROVE confirmed'[n] >= confirmed[n]
    BY DEF ConfirmedKept
  <2>1. confirmed[n] \in Nat
    BY DEF IInv, TypeOK
  <2> QED BY <2>1, ConfirmedStep, CountNodeFacts
<1>2. Spec => [][ConfirmedKept]_vars
  BY <1>1, Invariance, PTL DEF Spec
<1> QED BY <1>2 DEF ProgressKept, ConfirmedKept
=============================================================================
