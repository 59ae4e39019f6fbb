------------------------------ MODULE Orchestrator ------------------------------
(***************************************************************************)
(* The older program, df-orchestrator: every full state makes a new         *)
(* autonomous loop and puts it in a global variable; the goroutine of the   *)
(* entity updates and the one that starts a loop five seconds later take    *)
(* the loop that the variable holds when they look.  A loop decides on a    *)
(* ticker or when it is triggered, after the survey of the terrain          *)
(* (spatial/planner.go), which three goroutines may make.                   *)
(* What it proposes and sends is in FortAgents and OrchestratorTurn.        *)
(***************************************************************************)
EXTENDS Integers, FiniteSets

CONSTANTS
    MaxLoops,   \* bound on the loops
    MaxTicks,   \* bound on the ticks of the loops' tickers
    Configs     \* configurations [flow, planner], and bounds on what arrives:
                \* full states, each of which makes a loop, and entity updates

ASSUME BoundsAssumption == MaxLoops \in Nat \ {0} /\ MaxTicks \in Nat
ASSUME ConfigsAssumption == \A c \in Configs :
    /\ c.flow \in {"direct", "graph", "intent"} /\ c.planner \in BOOLEAN
    /\ c.states \in 0..MaxLoops /\ c.updates \in Nat

Loops == 1..MaxLoops
\* the goroutines that call tryAnalyzeSVP: client's, the updates', and 1..MaxLoops
Callers == {-1, 0} \cup Loops
Message == -1
Entity  == 0

VARIABLES
    config,         \* what the loops are set up for, and use_svp
    newest,         \* autonomousLoop, 0 when nil
    loops,          \* what each has
    callback,       \* where the callback for a full state is
    starters,       \* goroutines which wait to start a loop
    first,          \* firstEntityUpdate
    reader, updates,    \* where the goroutine for entity updates is; how many it took
    survey,         \* by goroutine: where it is in tryAnalyzeSVP, and of which loop
    saved,          \* a layout is on disk
    ticks,          \* of all tickers so far
    shutdown, target,   \* where main is in its shutdown; the loop it stops
    early,          \* history: loops started before they had been set up
    cachedIn, swapped, fired, answered  \* history: see TriggerImmediate
readerVars   == <<reader, updates, first, cachedIn, swapped, fired>>
mainVars     == <<ticks, shutdown, target>>
orchestratorVars == <<config, newest, loops, callback, starters, readerVars, survey, saved, mainVars, early, answered>>

NewLoop == [cache |-> "none", trigger |-> FALSE, at |-> "off", svp |-> FALSE, topology |-> FALSE,
            entities |-> FALSE, ready |-> FALSE, layout |-> FALSE, stopped |-> FALSE]
InCycle(i) == loops[i].at \in {"gate", "retry", "agents", "model"}
NoCall == [at |-> "none", loop |-> 0]
Free(c) == survey[c].at = "none"

Init ==
    /\ config \in Configs /\ ticks = 0 /\ early = {}
    /\ newest = 0 /\ loops = [i \in Loops |-> NewLoop] /\ callback = "idle" /\ starters = 0
    /\ first = TRUE /\ reader = "idle" /\ updates = 0
    /\ survey = [c \in Callers |-> NoCall] /\ saved = FALSE
    /\ shutdown = "no" /\ target = 0
    /\ cachedIn = 0 /\ swapped = {} /\ fired = 0 /\ answered = TRUE

-------------------------------------------------------------------------------
(***************************************************************************)
(* The callback for a full state, in the message loop of the client.        *)
(***************************************************************************)
FullState ==
    /\ callback = "idle" /\ newest < config.states /\ shutdown # "done" /\ callback' = "built"
    /\ UNCHANGED <<config, newest, loops, starters, readerVars, survey, saved, mainVars, early, answered>>
\* the loop it replaces goes on
MakeLoop ==
    /\ callback = "built" /\ callback' = "made" /\ newest' = newest + 1
    /\ UNCHANGED <<config, loops, starters, readerVars, survey, saved, mainVars, early, answered>>
NoProvider ==
    /\ callback = "built" /\ callback' = "idle"
    /\ UNCHANGED <<config, newest, loops, starters, readerVars, survey, saved, mainVars, early, answered>>
\* Load, then SetSVP: a layout on disk is taken, whose ever it is
SetSVP ==
    /\ callback = "made" /\ config.planner
    /\ loops' = [loops EXCEPT ![newest].svp = TRUE, ![newest].ready = saved]
    /\ callback' = "planned"
    /\ UNCHANGED <<config, newest, starters, readerVars, survey, saved, mainVars, early, answered>>
\* OnTopologyReceived
Announce ==
    /\ callback = "planned" /\ callback' = "announced"
    /\ loops' = [loops EXCEPT ![newest].topology = TRUE, ![newest].layout = @ \/ loops[newest].ready]
    /\ survey' = [survey EXCEPT ![Message] = [at |-> "test", loop |-> newest]]
    /\ UNCHANGED <<config, newest, starters, readerVars, saved, mainVars, early, answered>>
Schedule ==
    /\ callback = IF config.planner THEN "announced" ELSE "made"
    /\ Free(Message) /\ callback' = "idle" /\ starters' = starters + 1
    /\ UNCHANGED <<config, newest, loops, readerVars, survey, saved, mainVars, early, answered>>
\* Start: not what was made five seconds ago but what is newest now
StartNewest ==
    /\ starters > 0 /\ starters' = starters - 1
    /\ loops' = IF loops[newest].at \in {"off", "gone"} THEN [loops EXCEPT ![newest].at = "top"] ELSE loops
    /\ early' = IF callback \in {"made", "planned"} THEN early \cup {newest} ELSE early
    /\ UNCHANGED <<config, newest, callback, readerVars, survey, saved, mainVars, answered>>

Callback == FullState \/ MakeLoop \/ NoProvider \/ SetSVP \/ Announce \/ Schedule

-------------------------------------------------------------------------------
(***************************************************************************)
(* tryAnalyzeSVP: tested, measured and laid out without a lock.             *)
(***************************************************************************)
Test(c) ==
    /\ survey[c].at = "test"
    /\ LET l == loops[survey[c].loop]
       IN survey' = [survey EXCEPT ![c] =
            IF l.svp /\ ~l.ready /\ l.topology /\ l.entities /\ l.cache = "dwarves"
            THEN [@ EXCEPT !.at = "measure"] ELSE NoCall]
    /\ UNCHANGED <<config, newest, loops, callback, starters, readerVars, saved, mainVars, early, answered>>
\* AnalyzeTerrain says that it is ready before it has the layout
Measure(c) ==
    /\ survey[c].at = "measure"
    /\ loops' = [loops EXCEPT ![survey[c].loop].ready = TRUE]
    /\ survey' = [survey EXCEPT ![c].at = "lay"]
    /\ UNCHANGED <<config, newest, callback, starters, readerVars, saved, mainVars, early, answered>>
LayOut(c) ==
    /\ survey[c].at = "lay"
    /\ loops' = [loops EXCEPT ![survey[c].loop].layout = TRUE]
    /\ survey' = [survey EXCEPT ![c] = NoCall]
    /\ saved' = TRUE
    /\ UNCHANGED <<config, newest, callback, starters, readerVars, mainVars, early, answered>>
TryAnalyze(c) == Test(c) \/ Measure(c) \/ LayOut(c)

-------------------------------------------------------------------------------
(***************************************************************************)
(* The goroutine for entity updates.  It takes them once there are hazards, *)
(* which the callback makes before the loop.                                *)
(***************************************************************************)
UpdateEntities(kind) ==
    /\ reader = "idle" /\ updates < config.updates /\ (newest > 0 \/ callback = "built")
    /\ updates' = updates + 1 /\ cachedIn' = newest
    /\ IF newest = 0 THEN reader' = "told" /\ UNCHANGED loops
       ELSE reader' = "cached" /\ loops' = [loops EXCEPT ![newest].cache = kind]
    /\ UNCHANGED <<config, newest, callback, starters, first, swapped, fired, survey, saved, mainVars, early, answered>>
OnEntitiesReceived ==
    /\ reader = "cached" /\ reader' = "told"
    /\ IF loops[newest].svp
       THEN /\ loops' = [loops EXCEPT ![newest].entities = TRUE]
            /\ survey' = [survey EXCEPT ![Entity] = [at |-> "test", loop |-> newest]]
       ELSE UNCHANGED <<loops, survey>>
    /\ UNCHANGED <<config, newest, callback, starters, updates, first, cachedIn, swapped, fired, saved, mainVars, early, answered>>
\* the first decision is triggered a little later
FirstUpdate ==
    /\ reader = "told" /\ Free(Entity)
    /\ IF first /\ newest > 0 THEN reader' = "trigger" /\ first' = FALSE /\ UNCHANGED cachedIn
       ELSE reader' = "idle" /\ cachedIn' = 0 /\ UNCHANGED first
    /\ UNCHANGED <<config, newest, loops, callback, starters, updates, swapped, fired, survey, saved, mainVars, early, answered>>
\* Seeded fault: the channel holds nothing, who does not wait is not woken.
UnbufferedTrigger ==
    /\ reader = "trigger" /\ reader' = "idle"
    /\ loops' = [loops EXCEPT ![newest].trigger = loops[newest].at = "wait"]
    /\ fired' = newest /\ answered' = FALSE /\ cachedIn' = 0
    /\ swapped' = IF newest = cachedIn THEN swapped ELSE swapped \cup {newest}
    /\ UNCHANGED <<config, newest, callback, starters, updates, first, survey, saved, mainVars, early>>
TriggerImmediate ==
    /\ reader = "trigger" /\ reader' = "idle"
    /\ loops' = [loops EXCEPT ![newest].trigger = TRUE]
    /\ fired' = newest /\ answered' = FALSE /\ cachedIn' = 0
    /\ swapped' = IF newest = cachedIn THEN swapped ELSE swapped \cup {newest}
    /\ UNCHANGED <<config, newest, callback, starters, updates, first, survey, saved, mainVars, early>>

Reader == (\E k \in {"others", "dwarves"} : UpdateEntities(k)) \/ OnEntitiesReceived \/ FirstUpdate \/ TriggerImmediate

-------------------------------------------------------------------------------
(***************************************************************************)
(* run and runCycle of a loop.                                              *)
(***************************************************************************)
Go(i, from, to) ==
    /\ loops[i].at = from /\ loops' = [loops EXCEPT ![i].at = to]
    /\ UNCHANGED <<config, newest, callback, starters, readerVars, saved, mainVars, early>>
Moves(i, from, to) == Go(i, from, to) /\ UNCHANGED <<survey, answered>>

\* the contexts are looked at here only, and not while the loop waits
Top(i)     == Moves(i, "top", IF shutdown # "no" \/ loops[i].stopped THEN "gone" ELSE "wait")
TimerStopped(i) == loops[i].stopped /\ Moves(i, "wait", "gone")
\* Wait returns and the connection is tested: without one the trigger is spent
Wake(i, next) ==
    /\ loops[i].at = "wait"
    /\ answered' = (answered \/ fired = i)
    /\ UNCHANGED <<config, newest, callback, starters, readerVars, survey, saved, shutdown, target, early>>
    /\ \/ loops[i].trigger /\ UNCHANGED ticks /\ loops' = [loops EXCEPT ![i].trigger = FALSE, ![i].at = next]
       \/ ticks < MaxTicks /\ ticks' = ticks + 1 /\ loops' = [loops EXCEPT ![i].at = next]
NotConnected(i) == Wake(i, "top")
BeginCycle(i)   == Wake(i, "gate")

\* the agents wait for the survey, one more attempt at it is made here; a loop
\* which is not set up yet has no agents
Gate(i) ==
    LET direct == config.flow = "direct" \/ (i = newest /\ callback = "made")
    IN \/ direct /\ Moves(i, "gate", "model")
       \/ /\ config.flow # "direct" /\ loops[i].svp /\ ~loops[i].ready
          /\ Go(i, "gate", "retry") /\ UNCHANGED answered
          /\ survey' = [survey EXCEPT ![i] = [at |-> "test", loop |-> i]]
       \/ config.flow # "direct" /\ (loops[i].svp => loops[i].ready) /\ Moves(i, "gate", "agents")
\* Seeded fault: the cycle goes on after the attempt.
RetryAnyway(i) == Free(i) /\ Moves(i, "retry", "agents")
Retry(i)       == Free(i) /\ Moves(i, "retry", IF loops[i].ready THEN "agents" ELSE "top")
\* the intent flow ends without proposals, and nobody proposes without dwarves
NoProposals(i) == config.flow = "intent" /\ Moves(i, "agents", "top")
Proposals(i) ==
    /\ config.flow = "intent" => loops[i].cache = "dwarves" /\ loops[i].svp
    /\ Moves(i, "agents", "model")
\* the layout is asked of a planner that is nil: the program ends
NoPlanner(i) ==
    /\ config.flow = "intent" /\ loops[i].at = "agents" /\ loops[i].cache = "dwarves" /\ ~loops[i].svp
    /\ shutdown' = "crashed"
    /\ UNCHANGED <<config, newest, loops, callback, starters, readerVars, survey, saved, ticks, target, early, answered>>
\* the rest of the cycle is in OrchestratorTurn
CycleEnds(i) == Moves(i, "model", "top")

\* a call of the model is answered or times out; what wakes a loop is apart
Run(i) ==
    \/ Top(i) \/ TimerStopped(i) \/ Gate(i) \/ Retry(i) \/ NoProposals(i) \/ Proposals(i) \/ NoPlanner(i) \/ CycleEnds(i)

-------------------------------------------------------------------------------
(***************************************************************************)
(* The shutdown: the context is cancelled and one loop is stopped.          *)
(***************************************************************************)
Stop ==
    /\ shutdown = "no" /\ target' = newest
    /\ shutdown' = IF newest = 0 THEN "done" ELSE "waits"
    /\ loops' = IF newest = 0 THEN loops ELSE [loops EXCEPT ![newest].stopped = TRUE]
    /\ UNCHANGED <<config, newest, callback, starters, readerVars, survey, saved, ticks, early, answered>>
StopReturns ==
    /\ shutdown = "waits" /\ loops[target].at \in {"off", "gone"} /\ shutdown' = "done"
    /\ UNCHANGED <<config, newest, loops, callback, starters, readerVars, survey, saved, ticks, target, early, answered>>

Next ==
    /\ shutdown # "crashed"
    /\ \/ Callback \/ StartNewest \/ (\E c \in Callers : TryAnalyze(c)) \/ Reader
       \/ (\E i \in Loops : NotConnected(i) \/ BeginCycle(i) \/ Run(i)) \/ Stop \/ StopReturns

Spec == Init /\ [][Next]_orchestratorVars

\* Goroutines which are not blocked go on, a loop that is triggered or has been
\* stopped is woken.  Nobody need send anything, tick, or shut the program down.
Fairness ==
    /\ WF_orchestratorVars(Callback /\ callback # "idle") /\ WF_orchestratorVars(StartNewest)
    /\ WF_orchestratorVars(Reader /\ reader # "idle") /\ WF_orchestratorVars(StopReturns)
    /\ \A c \in Callers : WF_orchestratorVars(TryAnalyze(c))
    /\ \A i \in Loops : WF_orchestratorVars(Run(i)) /\ WF_orchestratorVars(loops[i].trigger /\ (NotConnected(i) \/ BeginCycle(i)))

-------------------------------------------------------------------------------
LoopType == [cache : {"none", "others", "dwarves"}, at : {"off", "top", "wait", "gate", "retry", "agents", "model", "gone"},
             trigger : BOOLEAN, svp : BOOLEAN, topology : BOOLEAN, entities : BOOLEAN, ready : BOOLEAN,
             layout : BOOLEAN, stopped : BOOLEAN]
TypeOK ==
    /\ config \in Configs /\ loops \in [Loops -> LoopType]
    /\ newest \in 0..config.states /\ (callback = "built" => newest < config.states)
    /\ callback \in {"idle", "built", "made", "planned", "announced"} /\ (callback \in {"made", "planned", "announced"} => newest > 0)
    /\ starters \in 0..newest
    /\ reader \in {"idle", "cached", "told", "trigger"} /\ updates \in 0..config.updates /\ first \in BOOLEAN
    /\ (reader \in {"cached", "trigger"} => newest > 0) /\ {cachedIn, fired} \subseteq 0..newest /\ swapped \subseteq Loops
    /\ \A c \in Callers : survey[c] \in {NoCall} \cup [at : {"test", "measure", "lay"}, loop : Loops]
    /\ ticks \in 0..MaxTicks /\ shutdown \in {"no", "waits", "done", "crashed"} /\ target \in 0..newest
    /\ {saved, answered} \subseteq BOOLEAN /\ early \subseteq Loops

\* A loop that is triggered knows the entities, unless the loop was made after
\* they had been cached elsewhere; agents are run with a layout, or while
\* another goroutine is laying it out, and the program does not crash, unless the
\* loop was started before it was set up or no planner is configured; and when
\* the shutdown is over only loops which had been replaced still decide.
DecisionsInOrder ==
    /\ \A i \in Loops \ swapped : loops[i].trigger => loops[i].cache # "none"
    /\ \A i \in Loops \ early : loops[i].at = "agents" /\ loops[i].svp /\ ~loops[i].layout
                                => loops[i].ready /\ \E c \in Callers : survey[c] = [at |-> "lay", loop |-> i]
    /\ shutdown = "crashed" => early # {} \/ ~config.planner
    /\ shutdown = "done" => \A i \in Loops : InCycle(i) => i < target

\* The first trigger is taken up though the loop is not started yet, the survey
\* is made whichever of topology and entities comes last, and Stop returns,
\* each unless another full state takes the loop's place or the program ends.
LoopsAnswer ==
    /\ \A i \in Loops : (fired = i /\ ~answered) ~> (answered \/ newest # i \/ shutdown # "no")
    /\ \A i \in Loops : (loops[i].svp /\ loops[i].topology /\ loops[i].entities /\ loops[i].cache = "dwarves")
                        ~> (loops[i].ready \/ loops[i].cache # "dwarves" \/ newest # i \/ shutdown = "crashed")
    /\ (shutdown = "waits") ~> (shutdown \in {"done", "crashed"})
================================================================================
