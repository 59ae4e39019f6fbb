------------------------------- MODULE MCStructures -------------------------------
(***************************************************************************)
(* Components that do not meet, checked for safety in one run: the initial  *)
(* state chooses the one that is exercised, the others stand still.         *)
(***************************************************************************)
EXTENDS MCWorldModel, Topology

CONSTANTS Start(_, _), Changes(_, _), ToolInput, ToolValues(_, _), MaxFields, MaxCut
CONSTANTS Phrases, Objects, MaxPhrases

VARIABLES call, sender, kind, msg, changed, step, lacks, bytes, server, plugin
VARIABLES answer, object

worldState  == <<alertState, tileState, placeState, hazardState, modState, cycleState>>
wireState   == <<call, sender, kind, msg, changed, step, lacks, bytes, server, plugin>>
wordState   == <<answer, object>>
allState    == <<part, worldState, topoVars, wireState, wordState>>

Data    == INSTANCE Wire WITH stage <- step, MaxChanges <- MaxFields
Words   == INSTANCE AnswerParser

ASSUME WireAssumption == Data!WireAssumption

\* values, from modules which know no parameters
Fields      == INSTANCE MCWire
Forts       == INSTANCE MCOrchestratorTurn
Spoken      == INSTANCE MCAnswerParser WITH Phrases <- {}, Objects <- {}, MaxPhrases <- 0
MCStart(k, layout)    == Fields!MCStart(k, layout)
MCChanges(f, kd)      == Fields!MCChanges(f, kd)
MCToolInput           == Fields!MCToolInput
MCToolValues(tool, f) == Fields!MCToolValues(tool, f)
MCSetups    == Forts!MCSetups
MCAnswers   == Forts!MCAnswers
MCSequences == Forts!MCSequences
MCDecisions == Forts!MCDecisions
MCLibrary   == Forts!MCLibrary
MCReach     == Forts!MCOnMap
MCWalls     == Forts!MCWalls
MCPhrases   == Spoken!MCPhrases
MCObjects   == Spoken!MCObjects
MCCoords    == (0..2) \X (0..1) \X (0..2)

-------------------------------------------------------------------------------
MCFull == LET Solid(S) == [c \in MCCoords |-> IF c \in S THEN {"floor"} ELSE IF c[1] = 1 THEN {"hidden"} ELSE {"wall"}]
          IN {Solid(S) : S \in {{}, {<<2,1,2>>}, {<<0,0,0>>, <<2,0,0>>}, {<<0,1,1>>, <<2,0,1>>},
                                {<<2,0,0>>, <<2,1,0>>, <<2,0,1>>},
                                {<<0,0,2>>, <<0,1,2>>, <<1,0,2>>, <<1,0,1>>, <<1,0,0>>}}}
             \cup {[c \in MCCoords |-> {"hidden"}],
                   [c \in MCCoords |-> IF c[3] = 1 THEN {"floor", "liquid7"} ELSE {"liquid7"}]}
MCUpdated == {<<0,0,0>>, <<1,0,1>>, <<2,1,2>>, <<2,0,0>>, <<3,0,0>>}
MCFlags == {{"floor", "liquid7"}, {"wall"}, {"hidden", "floor"}}
MCDigs == {[a |-> <<0,0,0>>, b |-> <<0,0,0>>], [a |-> <<1,1,1>>, b |-> <<0,1,1>>], [a |-> <<2,1,2>>, b |-> <<2,0,1>>],
           [a |-> <<0,1,0>>, b |-> <<0,1,2>>]}

MCUnitTiles == {<<0,0,9>>, <<0,0,10>>, <<1,0,10>>}
MCHazardTiles == MCUnitTiles \cup {<<5,0,10>>}
MCUnits == {[id |-> 1, kind |-> "dwarf", at |-> <<0,0,9>>], [id |-> 2, kind |-> "dwarf", at |-> <<0,0,9>>],
            [id |-> 3, kind |-> "enemy", at |-> <<5,0,10>>], [id |-> 4, kind |-> "animal", at |-> <<0,0,10>>],
            [id |-> 5, kind |-> "enemy", at |-> <<1,0,10>>]}

MCInside == {<<1,1,1>>, <<1,2,2>>}
MCModTiles == MCInside \cup {<<9,9,9>>}
MCSeen == {[type |-> 0, shape |-> "none"], [type |-> 1, shape |-> "wall"], [type |-> 2, shape |-> "floor"],
           [type |-> 3, shape |-> "void"], [type |-> 4, shape |-> "floor"], [type |-> 2, shape |-> "void"]}

-------------------------------------------------------------------------------
\* one initial state for a component that stands still
MCInit ==
    /\ part \in {"alerts", "tiles", "places", "map", "hazards", "mods", "wire", "cycles", "words"}
    /\ WorldInit
    /\ TopoInit
    /\ Data!Init /\ (part # "wire" => kind[1] = 8)
    /\ Words!Init /\ (part # "words" => object = Words!NoObject)

MCNext ==
    /\ UNCHANGED part
    /\ \/ /\ WorldNext
          /\ UNCHANGED <<topoVars, wireState, wordState>>
       \/ /\ part = "map" /\ TopoNext
          /\ UNCHANGED <<worldState, wireState, wordState>>
       \/ /\ part = "wire" /\ Data!Next
          /\ UNCHANGED <<worldState, topoVars, wordState>>
       \/ /\ part = "words" /\ Words!Next
          /\ UNCHANGED <<worldState, topoVars, wireState>>

MCSpec == MCInit /\ [][MCNext]_allState

-------------------------------------------------------------------------------
(* The properties of the components, see their modules; those of the store  *)
(* of alerts and of the map are taken from there as they are.              *)
\* Each reader sees what the writer meant (Wire, the two codecs).
ReadersAgree == part = "wire" => Data!ReadersAgree
\* A payload that ends early gives no field a value that was not sent (Wire, the two codecs).
CutIsNotMisread == part = "wire" => Data!CutIsNotMisread
\* The plugin is told what the caller of a tool asked for (Wire, tools_action.go).
ToolReachesPlugin == part = "wire" => Data!ToolReachesPlugin
\* What the prompt teaches is understood (AnswerParser, ParseResponse).
PromptIsUnderstood == part = "words" => Words!PromptIsUnderstood
===================================================================================
