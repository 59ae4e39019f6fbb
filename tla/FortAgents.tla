------------------------------ MODULE FortAgents ------------------------------
(***************************************************************************)
(* The agents of the older program (internal/agents): what they propose for *)
(* the metrics of a fort, the graph of the proposals, and the commands that *)
(* an arbiter's decision becomes.  Ratios are in thousandths.               *)
(***************************************************************************)
EXTENDS Integers, SequencesExt

\* config.AgentConfig: which agents are enabled, and their targets
DefaultTargets == [food |-> 20000, drink |-> 15000, bedrooms |-> 1000, noStrike |-> 20, growth |-> 100]

Box(x1, y1, z1, x2, y2, z2) == [lo |-> <<x1, y1, z1>>, hi |-> <<x2, y2, z2>>]
Proposal(name, type, region, needs, urgency) ==
    [name |-> name, type |-> type, region |-> region, needs |-> needs, urgency |-> urgency]
When(condition, proposal) == IF condition THEN <<proposal>> ELSE <<>>
AtMost(limit, v) == IF v > limit THEN limit ELSE v

\* half at the target, full below what is critical
calculateUrgency(current, target, critical) ==
    IF current >= target THEN 0
    ELSE IF current < critical THEN 1000
    ELSE 500 + AtMost(1000, ((target - current) * 1000) \div (target - critical)) \div 2

FoodSecurity(m, t) ==
    IF m.dwarves = 0 THEN <<>>
    ELSE When(m.food < t.food, Proposal("food", "farm_plot", Box(40, 30, 125, 50, 40, 125), {"access"},
                                        calculateUrgency(m.food, t.food, 5000)))
         \o When(m.drink < t.drink /\ m.age < 30,
                 Proposal("gather", "gather_zone", Box(50, 40, 125, 60, 50, 125), {}, calculateUrgency(m.drink, t.drink, 5000)))

\* how many bedrooms are missing; zones count where there are any
Deficit(m, t) ==
    (m.dwarves * t.bedrooms) \div 1000 - (IF m.bedroomZones = 0 THEN m.bedrooms ELSE m.bedroomZones)
NeedsHousing(m, t) == m.dwarves > 0 /\ Deficit(m, t) > 0
HousingUrgency(m, t) == (Deficit(m, t) * 1000) \div m.dwarves
Housing(m, t) ==
    LET z == IF m.housingZ # 0 THEN m.housingZ ELSE 125
    IN When(NeedsHousing(m, t),
            Proposal("housing", "bedroom_cluster", Box(60, 30, z, 70, 40, z), {"access"}, HousingUrgency(m, t)))
AnalyzeIntent(m, t) ==
    IF ~NeedsHousing(m, t) THEN <<>>
    ELSE <<[quantity |-> Deficit(m, t), urgency |-> HousingUrgency(m, t),
            hint |-> IF Deficit(m, t) >= 10 THEN "bedroom_cluster_10" ELSE IF Deficit(m, t) >= 3 THEN "bedroom_3x3" ELSE ""]>>

\* little activity alone is no reason
Mining(m, t) ==
    When(m.noStrike > t.noStrike,
         Proposal("mining", "mining_shaft", Box(-40, -40, 110, -35, -35, 120), {"stairs"},
                  AtMost(1000, (m.noStrike * 1000) \div (2 * t.noStrike))))
Wealth(m, t) ==
    LET short == AtMost(1000, ((t.growth - m.growth) * 1000) \div t.growth)
    IN When(m.growth < t.growth,
            Proposal("wealth", "workshop_zone", Box(20, 20, 125, 40, 40, 125), {"access"}, IF short < 300 THEN 300 ELSE short))
Defense(m, t) ==
    When(m.enemies > 0, Proposal("defense_seal", "seal_entrance", Box(0, 0, 125, 5, 5, 125), {}, 1000))
    \o When(m.enemies > 3, Proposal("defense_wall", "defensive_wall", Box(10, 10, 125, 15, 15, 125), {}, 1000))

AgentNames == {"FoodSecurity", "Housing", "Mining", "Wealth", "Defense"}
Analyze(agent, m, t) ==
    CASE agent = "FoodSecurity" -> FoodSecurity(m, t)
      [] agent = "Housing" -> Housing(m, t)
      [] agent = "Mining" -> Mining(m, t)
      [] agent = "Wealth" -> Wealth(m, t)
      [] agent = "Defense" -> Defense(m, t)

\* the agents run side by side, what they propose comes in the order they end
Proposals(ends, m, t) == FlattenSeq([i \in DOMAIN ends |-> Analyze(ends[i], m, t)])

-------------------------------------------------------------------------------
(***************************************************************************)
(* ProposalGraph.                                                           *)
(***************************************************************************)
\* Seeded fault: boxes which share a border do not overlap.
BordersAreFree(a, b) == \A i \in 1..3 : a.lo[i] < b.hi[i] /\ b.lo[i] < a.hi[i]
regionsOverlap(a, b) == \A i \in 1..3 : a.lo[i] <= b.hi[i] /\ b.lo[i] <= a.hi[i]

AddNode(nodes, p) == IF \E i \in DOMAIN nodes : nodes[i].name = p.name THEN nodes ELSE Append(nodes, p)
AddConflict(edges, a, b) == [edges EXCEPT ![a] = Append(@, b), ![b] = Append(@, a)]

\* every pair, the first of it in the outer loop
Pairs(n) == FlattenSeq([i \in 1..n |-> [j \in 1..(n - i) |-> <<i, i + j>>]])
DetectSpatialConflicts(nodes) ==
    LET pairs == Pairs(Len(nodes))
        a(k) == nodes[pairs[k][1]]
        b(k) == nodes[pairs[k][2]]
        edges[k \in 0..Len(pairs)] ==
            IF k = 0 THEN [n \in {nodes[i].name : i \in DOMAIN nodes} |-> <<>>]
            ELSE IF regionsOverlap(a(k).region, b(k).region) THEN AddConflict(edges[k - 1], a(k).name, b(k).name)
            ELSE edges[k - 1]
    IN edges[Len(pairs)]
Nodes(proposals) ==
    LET upto[k \in 0..Len(proposals)] == IF k = 0 THEN <<>> ELSE AddNode(upto[k - 1], proposals[k])
    IN upto[Len(proposals)]
assembleProposalGraph(proposals) ==
    [nodes |-> Nodes(proposals), conflicts |-> DetectSpatialConflicts(Nodes(proposals))]

-------------------------------------------------------------------------------
(***************************************************************************)
(* The commands of a decision.                                              *)
(***************************************************************************)
Dig(type, region) == <<[command |-> "dig", type |-> type, region |-> region]>>
Blueprint(name, origin) == <<[command |-> "blueprint", name |-> name, origin |-> origin]>>

\* GraphExecutor: walls are dug too, stockpiles and nodes without a type give nothing
Flat == {"bedroom_cluster", "farm_plot", "gather_zone", "corridor_connector", "workshop_zone", "production_area",
         "seal_entrance", "defensive_wall", "exploratory_tunnel"}
convertNodeToCommands(node) ==
    CASE node.type = "bedroom_cluster" /\ node.blueprint # "" -> Blueprint(node.blueprint, node.region.lo)
      [] node.type \in Flat /\ ~(node.type = "bedroom_cluster" /\ node.blueprint # "") -> Dig("default", node.region)
      [] node.type = "mining_shaft"  -> Dig("downstair", node.region)
      [] node.type = "stair_cluster" -> Dig("updownstair", node.region)
      [] OTHER -> <<>>
Execute(sequence) == FlattenSeq([i \in DOMAIN sequence |-> convertNodeToCommands(sequence[i])])

\* the dig types that a blueprint and an arbiter may name; others are plain digs
ArbiterDigType(word) ==
    CASE word = "channel" -> "channel" [] word = "ramp" -> "ramp" [] word = "updown_stair" -> "updownstair"
      [] word = "down_stair" -> "downstair" [] word = "up_stair" -> "upstair" [] OTHER -> "default"
EntryDigType(word) ==
    CASE word = "h" -> "channel" [] word = "r" -> "ramp" [] word \in {"i", "updownstair"} -> "updownstair"
      [] word \in {"j", "downstair"} -> "downstair" [] word \in {"u", "upstair"} -> "upstair"
      [] OTHER -> ArbiterDigType(word)

Plus(a, b) == [i \in 1..3 |-> a[i] + b[i]]
\* a blueprint that the library has becomes one dig for each of its tiles
ApplyAt(entries, origin) ==
    FlattenSeq([i \in DOMAIN entries |->
        LET at == Plus(origin, entries[i].at) IN Dig(EntryDigType(entries[i].word), [lo |-> at, hi |-> at])])
convertArbiterCommandsToProtocol(commands, library) ==
    FlattenSeq([i \in DOMAIN commands |->
        LET c == commands[i]
        IN CASE c.type = "apply_blueprint" /\ c.blueprint \in DOMAIN library -> ApplyAt(library[c.blueprint], c.anchor)
             [] c.type = "apply_blueprint" /\ c.blueprint \notin DOMAIN library -> Blueprint(c.blueprint, c.anchor)
             [] c.type = "dig" /\ c.region # <<>> -> Dig(ArbiterDigType(c.word), c.region[1])
             [] OTHER -> <<>>])
===============================================================================
