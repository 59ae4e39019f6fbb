--------------------------- MODULE MCOrchestratorTurn ---------------------------
(***************************************************************************)
(* Forts, answers of the models and blueprints for OrchestratorTurn: each   *)
(* flow with agents and without dwarves; digs that repeat, in the same or   *)
(* in other words, cross levels, are dug already or have no region.   *)
(***************************************************************************)
EXTENDS FortAgents

Camp    == [dwarves |-> 7, enemies |-> 4, zones |-> <<"bedroom", "dining", "tomb">>, days |-> 5, clock |-> 3, housingZ |-> 120]
NoFort  == [Camp EXCEPT !.dwarves = 0, !.enemies = 0, !.days = 0]
Thirsty == [DefaultTargets EXCEPT !.drink = 16000]
Setup(flow, agents, f, n) ==
    [flow |-> flow, agents |-> agents, targets |-> Thirsty, zones |-> TRUE, fort |-> f, cycles |-> n]
MCSetups ==
    {Setup("direct", {}, Camp, 3),
     Setup("graph", {"FoodSecurity", "Wealth", "Defense", "Housing"}, Camp, 1),
     Setup("graph", {"Mining", "FoodSecurity"}, NoFort, 2),
     Setup("intent", {"Housing"}, Camp, 2), Setup("intent", {"Housing"}, NoFort, 2)}

Asked(type, dig, region) == [type |-> type, dig |-> dig, region |-> region]
Room  == <<1, 1, 5, 2, 1, 0>>
Shaft == <<1, 1, 6, 1, 1, 5>>
\* the same digs in other words
SameRoom  == <<1, 1, 5, 2, 1, 6>>
OneLevel  == <<1, 1, 5, 1, 1, -1>>
MCAnswers ==
    {<<>>,
     <<Asked("dig", "default", Room), Asked("dig", "stairs", Room), Asked("dig", "smooth", SameRoom)>>,
     <<Asked("dig", "stairs", Shaft), Asked("dig", "updownstairs", OneLevel), Asked("build", "", Room)>>,
     <<Asked("chop", "", <<2, 1, 5, 2, 1, 5>>), Asked("wait", "", <<>>), Asked("gather", "", <<>>)>>,
     <<Asked("dig", "default", <<>>)>>}

Placed(type, blueprint, region) == [type |-> type, blueprint |-> blueprint, region |-> region]
MCSequences == {<<Placed("bedroom_cluster", "b", Box(1, 1, 5, 2, 2, 5)), Placed("", "", Box(0, 0, 0, 0, 0, 0))>>}
MCDecisions == {<<[type |-> "apply_blueprint", blueprint |-> "b", anchor |-> <<1, 1, 5>>, region |-> <<>>, word |-> ""]>>}
MCLibrary   == [b |-> <<[at |-> <<0, 0, 0>>, word |-> "d"], [at |-> <<1, 0, 0>>, word |-> "h"]>>]

MCOnMap == (1..2) \X {1} \X (5..6)
MCWalls == {<<1, 1, 5>>, <<2, 1, 5>>}
=================================================================================
