------------------------------- MODULE MCWorldModel -------------------------------
(***************************************************************************)
(* What the programs keep of the world: the alerts, the map overlay, the    *)
(* names of places, hazards and modifications, and what the older program   *)
(* tells the model of its own commands.  They do not meet; the initial      *)
(* state chooses the one that is exercised, the others stand still.         *)
(* MCStructures checks them.                                                *)
(***************************************************************************)
EXTENDS AlertStore, FiniteSets

CONSTANTS FortTiles, Values, TileCap, MaxChanges, MaxPushes, MaxBreaks, None
CONSTANTS Anchors, Tools, MaxCalls, MaxFullStates, MaxGameChanges, MaxRestarts
CONSTANTS HazardTiles, UnitTiles, TileTypes, HazardFlags, Units, MaxTold
CONSTANTS ModTiles, Inside, Seen, MaxSeen
CONSTANTS Setups, Answers, Sequences, Decisions, Library, Walls, Reach, Window

VARIABLE part
VARIABLES map, cache, wanted, up, wire, late, tileCh, applying, overlay, gen, settled, suspect, changes, pushes, breaks
VARIABLES game, known, items, file, stage, anchor, data, loader, content, reported, loaded, exposed, left
VARIABLES layers, lastTold, firstTold, present, messages
VARIABLES baseline, mods, bounds, history
VARIABLES setup, dug, at, graph, pending, specs, todo, levels, last, nextID, turns, count, sent, decided, cycles, accepted, complete

alertState == <<entries, byID>>
tileState  == <<map, cache, wanted, up, wire, late, tileCh, applying, overlay, gen, settled, suspect, changes, pushes, breaks>>
placeState == <<game, known, items, file, stage, anchor, data, loader, content, reported, loaded, exposed, left>>
hazardState == <<layers, lastTold, firstTold, present, messages>>
modState   == <<baseline, mods, bounds, history>>
cycleState == <<setup, dug, at, graph, pending, specs, todo, levels, last, nextID, turns, count, sent, decided, cycles, accepted, complete>>

Sync   == INSTANCE TileSync WITH Tiles <- FortTiles
Naming == INSTANCE Places WITH MaxChanges <- MaxGameChanges
Danger == INSTANCE Hazards WITH OnMap <- UnitTiles
Changed == INSTANCE Modifications
Cycle  == INSTANCE OrchestratorTurn WITH reported <- complete, OnMap <- Reach

ASSUME TilesAssumption  == Sync!NoneAssumption /\ Sync!BoundsAssumption
ASSUME PlacesAssumption == Naming!BoundsAssumption
ASSUME HazardsAssumption == Danger!TilesAssumption
ASSUME ModificationsAssumption == Changed!SeenAssumption
ASSUME CyclesAssumption == Cycle!WindowAssumption /\ Cycle!SetupsAssumption /\ Cycle!MapAssumption /\ Cycle!AnswersAssumption

-------------------------------------------------------------------------------
\* one initial state for the component that stands still
WorldInit ==
    /\ Init
    /\ Sync!Init /\ (part # "tiles" => \A t \in FortTiles : map[t] = CHOOSE v \in Values : TRUE)
    /\ Naming!Init /\ (part # "places" => game = {})
    /\ Danger!Init
    /\ Changed!Init /\ (part # "mods" => \A c \in Inside : baseline[c].type = 0)
    /\ Cycle!Init /\ (part # "cycles" => setup.flow = "direct")

WorldNext ==
    \/ part = "alerts" /\ Next /\ UNCHANGED <<tileState, placeState, hazardState, modState, cycleState>>
    \/ part = "tiles" /\ Sync!Next /\ UNCHANGED <<alertState, placeState, hazardState, modState, cycleState>>
    \/ part = "places" /\ Naming!Next /\ UNCHANGED <<alertState, tileState, hazardState, modState, cycleState>>
    \/ part = "hazards" /\ Danger!Next /\ UNCHANGED <<alertState, tileState, placeState, modState, cycleState>>
    \/ part = "mods" /\ Changed!Next /\ UNCHANGED <<alertState, tileState, placeState, hazardState, cycleState>>
    \/ part = "cycles" /\ Cycle!Next /\ UNCHANGED <<alertState, tileState, placeState, hazardState, modState>>

worldVars == <<part, alertState, tileState, placeState, hazardState, modState, cycleState>>
WorldSpec == WorldInit /\ [][WorldNext /\ UNCHANGED part]_worldVars

-------------------------------------------------------------------------------
\* The overlay is the map but on suspect tiles (TileSync, OnTileUpdate).
GroundedElsewhere == Sync!GroundedElsewhere
\* Names survive restarts but for the races named (Places, name_place).
NamesKeptElsewhere == Naming!NamesKeptElsewhere
\* Updated hazard layers are as the tiles were told (Hazards, UpdateFromTiles).
LayersMatchTold == Danger!LayersMatchTold
\* What is recorded is what the history says (Modifications, DetectModifications).
ModificationsMatchHistory == Changed!ModificationsMatchHistory
\* The chambers are the pieces of what was modified (Modifications, ExtractChambers).
ChambersExact == part = "mods" => Changed!ChambersExact
\* What the model is told of its earlier commands is so (OrchestratorTurn, processCommand).
HistoryIsTrue == Cycle!HistoryIsTrue
\* An answer is sent as it says, one decides, and the arbiter is told of overlaps (OrchestratorTurn, runCycle).
CarriedOut == Cycle!CarriedOut
===================================================================================
