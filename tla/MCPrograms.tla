-------------------------------- MODULE MCPrograms --------------------------------
(***************************************************************************)
(* Goroutines that do not meet, checked for safety and liveness in one run: *)
(* the initial state chooses who runs, the others stand still.              *)
(***************************************************************************)
EXTENDS Orchestrator

CONSTANTS Calls, MaxConns, MaxID
CONSTANTS MaxPasses, MaxTurns, Plans, MaxLength, Depends

VARIABLE part
VARIABLES current, usable, reading, nextID, pending, pc, on, id, chan, result, plugin, asked, answers, queue, evaluated
VARIABLES cancelled, stopping, place, turn, pass, plan, index, order, action, status, ePlace, batch, sent

queryState == <<current, usable, reading, nextID, pending, pc, on, id, chan, result, plugin, asked, answers, queue, evaluated>>
turnState  == <<cancelled, stopping, place, turn, pass, plan, index, order, action, status, ePlace, batch, sent>>
allState   == <<part, orchestratorVars, queryState, turnState>>

Queries == INSTANCE QueryChannel
Turns   == INSTANCE Deliberation

ASSUME QueriesAssumption == Queries!CallsAssumption
ASSUME TurnsAssumption   == Turns!PassesAssumption /\ Turns!PlansAssumption /\ Turns!DependsAssumption

-------------------------------------------------------------------------------
Arrivals(flow, planner, states, updates_) == [flow |-> flow, planner |-> planner, states |-> states, updates |-> updates_]
MCConfigs == {Arrivals("intent", TRUE, 2, 1), Arrivals("intent", TRUE, 1, 2), Arrivals("direct", FALSE, 2, 1)}

MCPlans == {<<"dig", "build">>, <<"", "dig">>, <<"wait", "unknown">>}
MCDepends == [n \in (1..2) \X (0..1) |-> IF n = <<1, 1>> THEN {<<1, 0>>} ELSE IF n = <<2, 1>> THEN {<<1, 1>>} ELSE {}]

-------------------------------------------------------------------------------
\* one initial state for what stands still
MCInit ==
    /\ part \in {"loops", "queries", "turns"}
    /\ Init /\ (part # "loops" => config.flow = "direct")
    /\ Queries!Init /\ (part # "queries" => nextID = 0)
    /\ Turns!Init

MCNext ==
    /\ UNCHANGED part
    /\ \/ part = "loops" /\ Next /\ UNCHANGED <<queryState, turnState>>
       \/ part = "queries" /\ Queries!Next /\ UNCHANGED <<orchestratorVars, turnState>>
       \/ part = "turns" /\ Turns!Next /\ UNCHANGED <<orchestratorVars, queryState>>

\* the fairness of each is met by the others, in whose initial states nothing is
\* under way
MCSpec == MCInit /\ [][MCNext]_allState /\ Fairness /\ Queries!Fairness /\ Turns!Fairness

-------------------------------------------------------------------------------
(* The properties of the queries and turns, see their modules.             *)
\* SendQuery keeps its contract (QueryChannel, Client.SendQuery).
QueryContractKept == Queries!QueryContractKept
\* Every call of SendQuery returns (QueryChannel).
QueriesReturn == Queries!QueriesReturn
\* The plan is sent in order, once, after its dependencies (Deliberation, drain).
PlanIsFollowed == part = "turns" => Turns!PlanIsFollowed
\* Turns end, nodes are taken up, Stop returns (Deliberation, runCycle).
NothingHangs == part = "turns" => Turns!NothingHangs
===================================================================================
