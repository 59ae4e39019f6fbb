--------------------------- MODULE OrchestratorTurn ---------------------------
(***************************************************************************)
(* One cycle after another of a loop of the older program (autonomous/      *)
(* loop.go, runCycle): feedback on the commands that are pending, the       *)
(* agents and their arbiter, the model's own answer and the history of      *)
(* turns that the next prompt shows.  When a cycle begins is in             *)
(* Orchestrator, how an answer is read in AnswerParser.                     *)
(***************************************************************************)
EXTENDS FortAgents, Functions, FiniteSets

CONSTANTS
    Setups,         \* how the loop is set up, and what it knows of the fort:
                    \* [flow, agents, targets, zones, fort, cycles], the last a bound,
                    \* the fort [dwarves, enemies, zones, days, clock, housingZ]
    Answers,        \* commands of the model
    Sequences,      \* nodes of the arbiter of the graph
    Decisions,      \* commands of the arbiter of the intents
    Library,        \* blueprints, sequences of [at, word]
    Walls,          \* tiles that can be dug; others on the map are open
    OnMap,          \* the tiles of the map
    Window          \* maxTurns of the history

VARIABLES
    setup,
    dug,            \* the tiles of Walls that have been dug
    at,             \* where the cycle is
    graph,          \* the proposals as the arbiter is shown them
    pending,        \* pendingCommands
    specs,          \* the model's answer in this cycle
    todo, levels,   \* what is still to be sent: places in the answer, levels of a shaft
    last, nextID,   \* the last command that was accepted; the tracker's next id
    turns, count,   \* conversationHistory
    sent, decided,  \* history: what this cycle sent for the model, and for an arbiter
    cycles, accepted, reported  \* history: cycles, ids accepted, ids reported complete
turnVars == <<setup, dug, at, graph, pending, specs, todo, levels, last, nextID, turns, count,
              sent, decided, cycles, accepted, reported>>

\* a size that is not positive is replaced by a default
WindowAssumption == Window \in Nat \ {0}
\* the agents are those there are; a level is a number
SetupsAssumption == \A s \in Setups : s.agents \subseteq AgentNames /\ s.fort.housingZ \in Int
\* a map is finite
MapAssumption == IsFiniteSet(OnMap)
\* a command has a region of six numbers or none
Asked == [type : STRING, dig : STRING, region : {<<>>} \cup [1..6 -> Int]]
AnswersAssumption == Answers \subseteq Seq(Asked)

fort == setup.fort
NoGraph == [nodes |-> <<>>, conflicts |-> <<>>]

Init ==
    /\ setup \in Setups /\ dug = {} /\ at = "idle" /\ graph = NoGraph
    /\ pending = <<>> /\ specs = <<>> /\ todo = <<>> /\ levels = <<>> /\ last = 0 /\ nextID = 1
    /\ turns = <<>> /\ count = 0 /\ sent = <<>> /\ decided = <<>>
    /\ cycles = 0 /\ accepted = <<>> /\ reported = {}

\* Dwarves dig a tile, whoever asked for it, and the overlay hears of it; a
\* cycle looks at the overlay only at these places.
DigTile ==
    /\ at \in {"idle", "executing"} /\ \E c \in Walls \ dug : dug' = dug \cup {c}
    /\ UNCHANGED <<setup, at, graph, pending, specs, todo, levels, last, nextID, turns, count, sent, decided,
                   cycles, accepted, reported>>

-------------------------------------------------------------------------------
(***************************************************************************)
(* generateFeedback: all modifications of the fort are counted for each of *)
(* the commands.                                                           *)
(***************************************************************************)
Progress(p, done, late) ==
    [p EXCEPT !.completed = done,
              !.status = IF done >= p.expected THEN "completed"
                         ELSE IF done > p.completed THEN "in progress"
                         ELSE IF p.status = "in progress" /\ late THEN "stalled" ELSE p.status]
Finished(done) == {c \in DOMAIN pending : done >= pending[c].expected}
BeginCycle ==
    /\ at = "idle" /\ cycles < setup.cycles /\ cycles' = cycles + 1
    /\ LET done == Cardinality(dug)
       IN /\ \E late \in SUBSET DOMAIN pending :
               pending' = [c \in DOMAIN pending \ Finished(done) |-> Progress(pending[c], done, c \in late)]
          /\ reported' = reported \cup Finished(done)
    /\ at' = IF setup.flow = "direct" THEN "model" ELSE "agents"
    /\ graph' = NoGraph /\ last' = 0 /\ specs' = <<>> /\ sent' = <<>> /\ decided' = <<>>
    /\ UNCHANGED <<setup, dug, todo, levels, nextID, turns, count, accepted>>

-------------------------------------------------------------------------------
(***************************************************************************)
(* The agents and their arbiter.                                           *)
(***************************************************************************)
\* zones/extractor.go: what the older enumeration does not have is a bedroom
convertZoneType(type) == IF type \in {"dining", "dormitory", "office", "barracks"} THEN type ELSE "bedroom"
CountByType(zones, type) == Len(SelectSeq(zones, LAMBDA z : convertZoneType(z) = type))
\* phases/phase_manager.go: days are guessed from the clock until they are told
GetDaysElapsed == IF fort.days > 0 THEN fort.days ELSE fort.clock
\* what is not tracked is a constant
computeFortMetrics ==
    [dwarves |-> fort.dwarves, enemies |-> fort.enemies, food |-> 15000, drink |-> 15000, bedrooms |-> 0,
     noStrike |-> 0, growth |-> 50, age |-> GetDaysElapsed, housingZ |-> fort.housingZ,
     bedroomZones |-> IF setup.zones THEN CountByType(fort.zones, "bedroom") ELSE 0]

\* housing is the one agent that has intents
collectIntentProposals ==
    IF "Housing" \in setup.agents THEN AnalyzeIntent(computeFortMetrics, setup.targets) ELSE <<>>
\* Nobody proposes: the intent flow gives the cycle up, the other goes on.
NothingProposed ==
    /\ at = "agents"
    /\ IF setup.flow = "intent" THEN collectIntentProposals = <<>> /\ at' = "idle"
       ELSE Proposals(SetToSeq(setup.agents), computeFortMetrics, setup.targets) = <<>> /\ at' = "model"
    /\ UNCHANGED <<setup, dug, graph, pending, specs, todo, levels, last, nextID, turns, count, sent, decided,
                   cycles, accepted, reported>>
Propose ==
    /\ at = "agents" /\ at' = "arbiter"
    /\ \/ /\ setup.flow = "intent" /\ collectIntentProposals # <<>>
          /\ UNCHANGED graph
       \/ /\ setup.flow = "graph"
          /\ \E ends \in {f \in [1..Cardinality(setup.agents) -> setup.agents] : IsInjective(f)} :
               LET proposals == Proposals(ends, computeFortMetrics, setup.targets)
               IN proposals # <<>> /\ graph' = assembleProposalGraph(proposals)
    /\ UNCHANGED <<setup, dug, pending, specs, todo, levels, last, nextID, turns, count, sent, decided,
                   cycles, accepted, reported>>
\* an error, or an answer that is not JSON: the model is asked all the same
NoDecision ==
    /\ at = "arbiter" /\ at' = "model"
    /\ UNCHANGED <<setup, dug, graph, pending, specs, todo, levels, last, nextID, turns, count, sent, decided,
                   cycles, accepted, reported>>
\* Its commands are written at once and not waited for; the graph's is not the
\* last decision of the cycle.
Decide ==
    /\ at = "arbiter" /\ at' = IF setup.flow = "graph" THEN "model" ELSE "idle"
    /\ \/ /\ setup.flow = "graph"
          /\ \E s \in Sequences : decided' = Execute(s)
       \/ /\ setup.flow = "intent"
          /\ \E d \in Decisions : decided' = convertArbiterCommandsToProtocol(d, Library)
    /\ UNCHANGED <<setup, dug, graph, pending, specs, todo, levels, last, nextID, turns, count, sent,
                   cycles, accepted, reported>>

-------------------------------------------------------------------------------
(***************************************************************************)
(* The model's answer: executeCommands sends one command and waits for it.  *)
(***************************************************************************)
\* the type and six numbers of the region, and not what kind of dig it is
DedupeKey(c) == <<c.type, c.region>>
Again(answer, i) ==
    answer[i].type \in {"dig", "cancel"} /\ \E j \in 1..(i - 1) : DedupeKey(answer[j]) = DedupeKey(answer[i])
\* the places in the answer of what is gone through
Deduped(answer) == FlattenSeq([i \in DOMAIN answer |-> IF Again(answer, i) THEN <<>> ELSE <<i>>])

\* the key of a dig without a region is read through a nil pointer
Crash ==
    /\ at = "model" /\ \E a \in Answers : \E i \in DOMAIN a : a[i].type \in {"dig", "cancel"} /\ a[i].region = <<>>
    /\ at' = "crashed"
    /\ UNCHANGED <<setup, dug, graph, pending, specs, todo, levels, last, nextID, turns, count, sent, decided,
                   cycles, accepted, reported>>
ModelFails ==
    /\ at = "model" /\ at' = "idle"
    /\ UNCHANGED <<setup, dug, graph, pending, specs, todo, levels, last, nextID, turns, count, sent, decided,
                   cycles, accepted, reported>>
ModelAnswers ==
    /\ at = "model" /\ at' = "executing"
    /\ \E a \in Answers : /\ \A i \in DOMAIN a : a[i].type \in {"dig", "cancel"} => a[i].region # <<>>
                          /\ specs' = a /\ todo' = Deduped(a)
    /\ UNCHANGED <<setup, dug, graph, pending, levels, last, nextID, turns, count, sent, decided,
                   cycles, accepted, reported>>

spec == specs[todo[1]]
mapDigType(word) ==
    CASE word \in {"stairs", "updownstairs"} -> "updownstair"
      [] word \in {"channel", "ramp", "downstair", "upstair"} -> word
      [] OTHER -> "default"
IsShaft(c) == c.type = "dig" /\ c.dig \in {"stairs", "updownstairs"} /\ c.region[6] > 0 /\ c.region[6] # c.region[3]
IsSent(c)  == c.type \in {"dig", "chop", "gather", "build"} /\ c.region # <<>>
\* the command as it is handed to the client, with one level
OnWire(c, z) ==
    [type |-> c.type, dig |-> IF c.type = "dig" THEN mapDigType(c.dig) ELSE "", z |-> z,
     from |-> <<c.region[1], c.region[2]>>,
     to   |-> IF c.type = "build" THEN <<>> ELSE <<c.region[4], c.region[5]>>]
SendOnWire(z) == sent' = Append(sent, [entry |-> todo[1], what |-> OnWire(spec, z)])
Area(r, z)    == {<<x, y, z>> : x \in r[1]..r[4], y \in r[2]..r[5]}
\* a plain dig is refused where less than a fifth of the tiles on the map are walls
Excavated(c) ==
    LET known == Area(c.region, c.region[3]) \cap OnMap
    IN c.type = "dig" /\ mapDigType(c.dig) = "default"
       /\ known # {} /\ 5 * Cardinality(known \cap (Walls \ dug)) < Cardinality(known)

\* what is not sent is passed over
SkipCommand ==
    /\ at = "executing" /\ todo # <<>> /\ levels = <<>>
    /\ IsSent(spec) => Excavated(spec)
    /\ todo' = Tail(todo)
    /\ UNCHANGED <<setup, dug, at, graph, pending, specs, levels, last, nextID, turns, count, sent, decided,
                   cycles, accepted, reported>>
BeginShaft ==
    /\ at = "executing" /\ todo # <<>> /\ levels = <<>> /\ IsSent(spec) /\ IsShaft(spec)
    /\ LET ends == {spec.region[3], spec.region[6]}
       IN levels' = [i \in 1..(Max(ends) - Min(ends) + 1) |-> Min(ends) + i - 1]
    /\ UNCHANGED <<setup, dug, at, graph, pending, specs, todo, last, nextID, turns, count, sent, decided,
                   cycles, accepted, reported>>
\* a level of a shaft is not remembered, and one that fails is passed over
DigLevel(result) ==
    /\ at = "executing" /\ levels # <<>>
    /\ SendOnWire(levels[1])
    /\ nextID' = nextID + 1
    /\ IF result = "accepted" THEN last' = nextID /\ accepted' = Append(accepted, [id |-> nextID, cycle |-> cycles, kept |-> FALSE])
       ELSE UNCHANGED <<last, accepted>>
    /\ levels' = Tail(levels) /\ todo' = IF Len(levels) = 1 THEN Tail(todo) ELSE todo
    /\ UNCHANGED <<setup, dug, at, graph, pending, specs, turns, count, decided, cycles, reported>>
CalculateExpectedTiles(r) == (r[4] - r[1] + 1) * (r[5] - r[2] + 1)
NewPending(c) == [status |-> "not started", expected |-> CalculateExpectedTiles(c.region), completed |-> 0]
Remembered(c) == [id \in DOMAIN pending \cup {nextID} |-> IF id = nextID THEN NewPending(c) ELSE pending[id]]
\* Seeded fault: a command is remembered before it is known to be accepted.
SendAndRemember(result) ==
    /\ at = "executing" /\ todo # <<>> /\ levels = <<>>
    /\ IsSent(spec) /\ ~IsShaft(spec) /\ ~Excavated(spec)
    /\ SendOnWire(spec.region[3])
    /\ nextID' = nextID + 1 /\ todo' = Tail(todo) /\ last' = nextID
    /\ pending' = IF spec.type = "build" THEN pending ELSE Remembered(spec)
    /\ accepted' = IF result = "accepted" THEN Append(accepted, [id |-> nextID, cycle |-> cycles, kept |-> spec.type # "build"])
                   ELSE accepted
    /\ UNCHANGED <<setup, dug, at, graph, specs, levels, turns, count, decided, cycles, reported>>
\* executeDig of one level, executeChop, executeGather, executeBuild
SendCommand(result) ==
    /\ at = "executing" /\ todo # <<>> /\ levels = <<>>
    /\ IsSent(spec) /\ ~IsShaft(spec) /\ ~Excavated(spec)
    /\ SendOnWire(spec.region[3])
    /\ nextID' = nextID + 1 /\ todo' = Tail(todo)
    /\ IF result = "accepted"
       THEN /\ last' = nextID /\ accepted' = Append(accepted, [id |-> nextID, cycle |-> cycles, kept |-> spec.type # "build"])
            /\ pending' = IF spec.type = "build" THEN pending ELSE Remembered(spec)
       ELSE UNCHANGED <<last, accepted, pending>>
    /\ UNCHANGED <<setup, dug, at, graph, specs, levels, turns, count, decided, cycles, reported>>

\* AddTurn: the oldest turn is dropped
AddTurn ==
    /\ at = "executing" /\ todo = <<>> /\ at' = "idle"
    /\ count' = count + 1
    /\ LET all == Append(turns, [number |-> count + 1, id |-> last, cycle |-> cycles])
       IN turns' = IF Len(all) > Window THEN Tail(all) ELSE all
    /\ UNCHANGED <<setup, dug, graph, pending, specs, todo, levels, last, nextID, sent, decided, cycles, accepted, reported>>

Next ==
    \/ DigTile \/ BeginCycle \/ NothingProposed \/ Propose \/ NoDecision \/ Decide
    \/ Crash \/ ModelFails \/ ModelAnswers \/ SkipCommand \/ BeginShaft \/ AddTurn
    \/ \E result \in {"accepted", "refused"} : DigLevel(result) \/ SendCommand(result)

Spec == Init /\ [][Next]_turnVars

-------------------------------------------------------------------------------
\* The history that the next prompt shows is the latest turns, numbered through,
\* and each names the last command the plugin accepted for the model in its
\* cycle, or none; every accepted dig, chop and gather but those of a shaft is
\* pending until it is reported complete, and nothing else is.
HistoryIsTrue ==
    /\ Len(turns) = (IF count < Window THEN count ELSE Window)
    /\ \A i \in DOMAIN turns :
         LET mine == {k \in DOMAIN accepted : accepted[k].cycle = turns[i].cycle}
         IN /\ turns[i].number = count - Len(turns) + i
            /\ turns[i].id \in IF mine = {} THEN {0} ELSE {accepted[k].id : k \in mine}
            /\ \A k \in mine : accepted[k].id <= turns[i].id
    /\ DOMAIN pending \cup reported = {accepted[k].id : k \in {j \in DOMAIN accepted : accepted[j].kept}}
    /\ DOMAIN pending \cap reported = {}
    /\ \A c \in DOMAIN pending : pending[c].status # "completed"

\* A graph shows each overlap of its proposals, once and from both sides.
OverlapsTold(g) ==
    \A i, j \in DOMAIN g.nodes :
        LET a == g.nodes[i]
            b == g.nodes[j]
            Shares(k) == \E v \in a.region.lo[k]..a.region.hi[k] : v \in b.region.lo[k]..b.region.hi[k]
            shared == \A k \in 1..3 : Shares(k)
            told == {k \in DOMAIN g.conflicts[a.name] : g.conflicts[a.name][k] = b.name}
        IN i # j => Cardinality(told) = (IF shared THEN 1 ELSE 0)
\* the levels that a command is about
LevelsOf(c) == IF IsShaft(c) THEN (c.region[3]..c.region[6]) \cup (c.region[6]..c.region[3]) ELSE {c.region[3]}
\* What an answer asks for is sent: in the answer's order, each entry once and as
\* what it says, a shaft once for each of its levels; nothing else is; no region is
\* dug for two entries; and at the end only plain digs where little is left to dig
\* were not sent. (Two regions can still be the same dig: the second level of a
\* plain dig is not sent, and the levels of a shaft are sent from the lowest.)
AnswerIsCarriedOut ==
    /\ \A k \in DOMAIN sent : \E i \in DOMAIN specs : \E z \in LevelsOf(specs[i]) :
          IsSent(specs[i]) /\ sent[k] = [entry |-> i, what |-> OnWire(specs[i], z)]
    /\ \A k, l \in DOMAIN sent : k < l => sent[k].entry <= sent[l].entry /\ sent[k] # sent[l]
    /\ \A k, l \in DOMAIN sent :
          LET c == specs[sent[k].entry]
              d == specs[sent[l].entry]
          IN c.type = "dig" /\ d.type = "dig" /\ c.region = d.region => sent[k].entry = sent[l].entry
    /\ todo = <<>> => \A i \in DOMAIN specs : IsSent(specs[i]) =>
          \/ Again(specs, i) \/ Excavated(specs[i])
          \/ \A z \in LevelsOf(specs[i]) : \E k \in DOMAIN sent : sent[k] = [entry |-> i, what |-> OnWire(specs[i], z)]
\* What the model asks for in a cycle is sent as it says, once and in order; commands
\* of it and of an arbiter are mixed by the graph flow only; and the arbiter of the
\* graph is shown each overlap of proposals, once and from both sides. (What an
\* arbiter decides is sent as it is, whatever it repeats of itself or the model
\* repeats of it.)
CarriedOut ==
    /\ AnswerIsCarriedOut
    /\ setup.flow # "graph" => decided = <<>> \/ sent = <<>>
    /\ OverlapsTold(graph)
================================================================================
