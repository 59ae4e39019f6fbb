----------------------------- MODULE ActionTools ------------------------------
(***************************************************************************)
(* The MCP tools that send one command.  A tool gets integers of any size, *)
(* names and texts; it refuses some calls itself and turns the others into *)
(* a command through a Send helper of the CommandExecutor.  A name of a    *)
(* tool's vocabulary is its code, any other name is Unknown; an optional   *)
(* argument that was left out is Absent, or the code it defaults to.  Unit, *)
(* order and squad ids stay within TLC's 32 bits, as int32 keeps them.     *)
(***************************************************************************)
EXTENDS CommandWire

Unknown == -2
Absent  == -3
Refused == [type |-> 0]

Int16(n)  == ((n + 32768) % 65536) - 32768
UInt16(n) == n % 65536
Int16s(in, fs) == [f \in fs |-> Int16(in[f])]
Pick(in, fs)   == [f \in fs |-> in[f]]
At(in)    == Int16s(in, ToSet(Tile))
Rect(in)  == Int16s(in, ToSet(Flat))
Spans(r)  == [x1 |-> r.x1, y1 |-> r.y1, z1 |-> r.z, x2 |-> r.x2, y2 |-> r.y2, z2 |-> r.z]

(* The vocabularies, as the codes their names stand for.                   *)
digTypeFromName   == 1..6
buildTypes        == 1..6 \cup 16..36 \cup 48..53 \cup 80..83 \cup 112..118 \cup {128} \cup 144..157
                     \cup 160..166 \cup 176..179
waterPowerOrientations == 0..3 \cup {AnyByte}
bridgeDirections  == 0..4
orderTypes        == 1..12
workOrderFrequencies == 0..4
laborNames        == {0, 1, 2, 4, 6, 7, 30, 45, 46, 47, 48, 49, 60} \cup 10..15 \cup 38..41
materialClasses   == 0..3
qualityTiers      == 0..6 \cup {AnyByte}
stockpileGroups   == {2^g : g \in 0..16} \cup {2^17 - 1}
workDetailModes   == 0..3
itemClasses       == 0..1
bookkeeperPrecisions == 0..4
zoneWireTypes     == 1..18
locationWireTypes == 1..5
farmSeasons       == 0..3 \cup {AnyByte}

-------------------------------------------------------------------------------
(***************************************************************************)
(* The executor's helpers: each fills in the fields of one command.        *)
(***************************************************************************)
Command(t, fields) == fields @@ [type |-> t, id |-> 7] @@ Zero(StructOf[t])

SendDigRegion(r) ==
    Command(1, IF r.z1 > r.z2 THEN [r EXCEPT !.z1 = r.z2, !.z2 = r.z1] ELSE r)
buildDesignation(f)       == Command(2, f)
SendCancelCommand(r)      == Command(3, Spans(r))
SendChopCommand(r)        == Command(4, Spans(r))
SendGatherCommand(r)      == Command(5, Spans(r))
SendZoneCommand(f)        == Command(6, f)
SendUnsuspendCommand(f)   == Command(8, f)
SendWorkOrderCommand(f)   ==
    Command(9, IF f.orderType = OrderTypeByName THEN f ELSE [f EXCEPT !.jobTypeName = <<>>])
SendStockpileCommand(f)   == Command(10, f)
SendSmoothCommand(f)      == Command(11, f)
SendRemoveBuilding(f)     == Command(13, f)
SendQueueJob(f, name)     ==
    Command(14, (CASE f.orderType = OrderTypeByName -> [jobTypeName |-> name]
                   [] f.orderType = OrderTypeCustomReaction -> [reactionCode |-> name]
                   [] OTHER -> <<>>) @@ f)
SendSetLabor(f)           == Command(15, f)
SendAssignZone(f)         == Command(16, f)
SendUnassignZone(f)       == Command(17, f)
SendCreateLocation(f)     == Command(18, f)
SendAssignLodging(f)      == Command(19, f)
SendUnassignLodging(f)    == Command(20, f)
SendRemoveZone(f)         == Command(21, f)
SendBuildFarmPlot(f)      == Command(22, f)
SendSetFarmCrop(f)        == Command(23, f)
SendDesignateBurrow(f)    == Command(24, f)
SendRemoveBurrow(f)       == Command(25, f)
SendAssignBurrow(f)       == Command(26, f)
SendSetAlert(f)           == Command(27, f)
SendLinkBuilding(f)       == Command(28, f)
SendPullLever(f)          == Command(29, f)
SendBuildBridge(f)        == Command(30, f)
SendSetWorkshopProfile(f) == Command(31, f)
SendAssignWorkDetail(f)   == Command(32, f)
SendSetWorkDetailMode(f)  == Command(33, f)
SendCreateWorkDetail(f)   == Command(34, f)
SendBringGoodsToDepot(f)  == Command(35, f)
SendAppointPosition(f)    == Command(36, f)
SendSetBookkeeperPrecision(f) == Command(37, f)
SendCreateSquad(f)        == Command(38, f)
SendAssignSquad(f)        == Command(39, f)
SquadOrderStation == 0
SquadOrderDefendBurrow == 1
SquadOrderCancel  == 2
SendSquadOrderStation(f)      == Command(40, [order |-> SquadOrderStation] @@ f)
SendSquadOrderDefendBurrow(f) == Command(40, [order |-> SquadOrderDefendBurrow] @@ f)
SendSquadOrderCancel(f)       == Command(40, [order |-> SquadOrderCancel] @@ f)
SendCancelOrder(f)        == Command(41, f)
SendEditOrder(f)          == Command(42, f)
SendUnmarkTradeGoods(f)   == Command(43, f)
SendSetDepotTradeFlags(f) == Command(44, f)

-------------------------------------------------------------------------------
(***************************************************************************)
(* The tools, by name.                                                     *)
(***************************************************************************)
\* stairs of the three kinds span levels, every other type is one level
isFlatDigType(dt) == dt \notin {2, 5, 6}
clampFlatDigZ2(dt, z1, z2) == IF isFlatDigType(dt) THEN z1 ELSE z2
designate_dig(in) ==
    IF in.digType \notin digTypeFromName THEN Refused
    ELSE SendDigRegion([digType |-> in.digType] @@
            Int16s([in EXCEPT !.z2 = clampFlatDigZ2(in.digType, in.z1, in.z2)], ToSet(Corners)))
chop(in)   == SendChopCommand(Rect(in))
gather(in) == SendGatherCommand(Rect(in))
cancel_designation(in) == SendCancelCommand(Rect(in))

\* a workshop or furnace is placed by the corner of its 3x3, a depot of its 5x5
Workshop(t) == t \in 16..47 \cup 112..127
Depot(t)    == t \in 128..143
\* mutant: the depot shifted like a workshop
buildWireCoordsOfWorkshop(t, x, y) ==
    LET back == IF Workshop(t) \/ Depot(t) THEN 1 ELSE 0
    IN [x |-> Int16(x - back), y |-> Int16(y - back)]
buildWireCoords(t, x, y) ==
    LET back == IF Workshop(t) THEN 1 ELSE IF Depot(t) THEN 2 ELSE 0
    IN [x |-> Int16(x - back), y |-> Int16(y - back)]
buildFootprintCorner(x, y, width, height) ==
    [x |-> Int16(x - width \div 2), y |-> Int16(y - height \div 2)]
Bridge == "bridge"
build_bridge(in) ==
    LET c == buildFootprintCorner(in.x, in.y, in.width, in.height)
    IN IF in.width \notin 1..31 \/ in.height \notin 1..31 \/ in.direction \notin bridgeDirections THEN Refused
       ELSE SendBuildBridge([x1 |-> c.x, y1 |-> c.y, z |-> Int16(in.z), x2 |-> Int16(c.x + in.width - 1),
                             y2 |-> Int16(c.y + in.height - 1), direction |-> in.direction])
build(in) ==
    LET choices == Pick(in, {"material", "quality", "orientation"})
    IN IF \/ in.material \notin materialClasses \/ in.quality \notin qualityTiers
          \/ in.orientation \notin waterPowerOrientations
       THEN Refused
       ELSE IF in.buildType \notin buildTypes  \* a name of the plugin's own catalogue
       THEN buildDesignation([buildType |-> OrderTypeByName, buildTypeName |-> in.name] @@ At(in) @@ choices)
       ELSE buildDesignation([buildType |-> in.buildType] @@ buildWireCoords(in.buildType, in.x, in.y) @@ At(in) @@ choices)

stockpile(in) == IF in.groupMask \notin stockpileGroups THEN Refused ELSE SendStockpileCommand([groupMask |-> in.groupMask] @@ Rect(in))
order(in) ==
    IF in.frequency \notin workOrderFrequencies THEN Refused
    ELSE SendWorkOrderCommand(
            [orderType |-> IF in.item \notin orderTypes THEN OrderTypeByName ELSE in.item,
             quantity  |-> UInt16(in.count), jobTypeName |-> in.name] @@ Pick(in, {"material", "subtype", "frequency"}))
\* one job of the count; the tool repeats the command until one fails
queue_job(in) ==
    LET f == At(in) @@ Pick(in, {"material", "subtype"})
    IN IF Given(in.reaction) /\ in.item = Absent THEN SendQueueJob([orderType |-> OrderTypeCustomReaction] @@ f, in.reaction)
       ELSE IF Given(in.reaction) \/ in.item = Absent THEN Refused
       ELSE IF in.item \notin orderTypes THEN SendQueueJob([orderType |-> OrderTypeByName] @@ f, in.name)
       ELSE SendQueueJob([orderType |-> in.item] @@ f, <<>>)
cancel_order(in) == SendCancelOrder(Pick(in, {"orderID"}))
edit_order(in) ==
    LET hasAmount    == in.amount # 0
        hasFrequency == in.frequency # Absent
    IN IF \/ ~hasAmount /\ ~hasFrequency
          \/ hasAmount /\ in.amount \notin 1..100
          \/ hasFrequency /\ in.frequency \notin workOrderFrequencies
       THEN Refused
       ELSE SendEditOrder([orderID |-> in.orderID, hasAmount |-> hasAmount, amount |-> UInt16(in.amount),
                hasFrequency |-> hasFrequency, frequency |-> IF hasFrequency THEN in.frequency ELSE 0])
set_labor(in) == IF in.laborID \notin laborNames THEN Refused ELSE SendSetLabor(Pick(in, {"unitID", "laborID", "enable"}))
set_workshop_profile(in) ==
    IF in.min \notin 0..20 \/ in.max \notin 0..20 THEN Refused
    ELSE SendSetWorkshopProfile([minSkillLevel |-> in.min, maxSkillLevel |-> IF in.max > 0 THEN in.max ELSE -1,
            workerUnitID |-> IF in.worker = Absent THEN -1 ELSE in.worker] @@ At(in))

(* A work detail is named by its index, or by a name looked up just now.   *)
resolveWorkDetailIndex(in) == IF in.index # Absent THEN in.index ELSE in.found
assign_work_detail(in) ==
    IF resolveWorkDetailIndex(in) = Unknown THEN Refused
    ELSE SendAssignWorkDetail([detailIndex |-> UInt16(resolveWorkDetailIndex(in))] @@ Pick(in, {"unitID", "add"}))
set_work_detail_mode(in) ==
    IF in.mode \notin workDetailModes \/ resolveWorkDetailIndex(in) = Unknown THEN Refused
    ELSE SendSetWorkDetailMode([detailIndex |-> UInt16(resolveWorkDetailIndex(in)), mode |-> in.mode])
create_work_detail(in) ==
    IF in.mode \notin workDetailModes \cup {Absent} \/ ~(ToSet(in.laborIDs) \subseteq laborNames) THEN Refused
    ELSE SendCreateWorkDetail([mode |-> IF in.mode = Absent THEN 0 ELSE in.mode] @@ Pick(in, {"name", "laborIDs"}))

unsuspend(in)       == SendUnsuspendCommand(At(in))
remove_building(in) == SendRemoveBuilding(At(in))
pull_lever(in)      == SendPullLever(At(in))
link_building(in)   == SendLinkBuilding(Int16s(in, ToSet(LinkEnds)))
smooth(in) == SendSmoothCommand([smoothType |-> IF in.engrave THEN 2 ELSE 1] @@ Rect(in))

bring_goods_to_depot(in) ==
    IF in.maxCount < 1 \/ in.itemClass \notin itemClasses THEN Refused
    ELSE SendBringGoodsToDepot(At(in) @@ Pick(in, {"itemType", "material", "maxCount", "maxTotalValue", "itemClass"}))
unmark_trade_goods(in) ==
    IF in.maxCount < 1 \/ in.itemClass \notin itemClasses THEN Refused
    ELSE SendUnmarkTradeGoods(At(in) @@ Pick(in, {"itemType", "material", "maxCount", "itemClass"}))
set_depot_trade_flags(in) == SendSetDepotTradeFlags(At(in) @@ Pick(in, {"traderRequested", "anyoneCanTrade"}))
appoint_position(in) ==
    IF ~Given(in.positionCode) THEN Refused ELSE SendAppointPosition(Pick(in, {"unitID", "positionCode"}))
set_bookkeeper_precision(in) ==
    IF in.precision \notin bookkeeperPrecisions THEN Refused ELSE SendSetBookkeeperPrecision(Pick(in, {"precision"}))

build_farm_plot(in) == SendBuildFarmPlot(Rect(in))
assign_crop(in) == IF in.season \notin farmSeasons THEN Refused ELSE SendSetFarmCrop(At(in) @@ Pick(in, {"season", "cropName"}))
create_location(in) ==
    IF in.locationType \notin locationWireTypes THEN Refused ELSE SendCreateLocation(At(in) @@ Pick(in, {"locationType", "profession"}))
assign_lodging(in)   == SendAssignLodging(Int16s(in, ToSet(LodgingEnds)))
unassign_lodging(in) == SendUnassignLodging(Int16s(in, ToSet(Bedroom)))
designate_zone(in) == IF in.zoneType \notin zoneWireTypes THEN Refused ELSE SendZoneCommand([zoneType |-> in.zoneType] @@ Rect(in))
assign_zone(in)    == SendAssignZone(At(in) @@ Pick(in, {"unitID"}))
unassign_zone(in)  == SendUnassignZone(At(in) @@ Pick(in, {"unitID"}))
remove_zone(in)    == SendRemoveZone(At(in))
create_squad(in)   == SendCreateSquad(Pick(in, {"positionCode"}))
assign_squad(in)   == SendAssignSquad(Pick(in, {"squadID", "unitID", "add"}))
squad_order(in) ==
    CASE in.order = SquadOrderStation      -> SendSquadOrderStation(At(in) @@ Pick(in, {"squadID"}))
      [] in.order = SquadOrderDefendBurrow -> SendSquadOrderDefendBurrow(Pick(in, {"squadID", "burrowName"}))
      [] in.order = SquadOrderCancel       -> SendSquadOrderCancel(Pick(in, {"squadID"}))
      [] OTHER -> Refused
designate_burrow(in) ==
    SendDesignateBurrow([name |-> in.name] @@
        Int16s([in EXCEPT !.z2 = IF @ = Absent THEN in.z1 ELSE @], ToSet(Corners)))
remove_burrow(in) == SendRemoveBurrow(Pick(in, {"name"}))
InBurrow(in, assign) ==
    IF ~in.allCitizens /\ in.unit = Absent THEN Refused
    ELSE SendAssignBurrow([assign |-> assign, unitID |-> IF in.unit = Absent THEN 0 ELSE in.unit]
                          @@ Pick(in, {"name", "allCitizens"}))
assign_burrow(in)   == InBurrow(in, TRUE)
unassign_burrow(in) == InBurrow(in, FALSE)
set_alert(in)       == SendSetAlert(Pick(in, {"name", "active"}))

-------------------------------------------------------------------------------
(* The tools as they are registered, by name.                              *)
Invoke(tool, in) ==
    CASE tool = "designate_dig" -> designate_dig(in)     [] tool = "chop" -> chop(in)
      [] tool = "gather" -> gather(in)                   [] tool = "cancel_designation" -> cancel_designation(in)
      [] tool = "build" -> build(in)                     [] tool = "build_bridge" -> build_bridge(in)
      [] tool = "stockpile" -> stockpile(in)             [] tool = "order" -> order(in)
      [] tool = "queue_job" -> queue_job(in)             [] tool = "cancel_order" -> cancel_order(in)
      [] tool = "edit_order" -> edit_order(in)           [] tool = "set_labor" -> set_labor(in)
      [] tool = "set_workshop_profile" -> set_workshop_profile(in)
      [] tool = "assign_work_detail" -> assign_work_detail(in)
      [] tool = "set_work_detail_mode" -> set_work_detail_mode(in)
      [] tool = "create_work_detail" -> create_work_detail(in)
      [] tool = "unsuspend" -> unsuspend(in)             [] tool = "remove_building" -> remove_building(in)
      [] tool = "pull_lever" -> pull_lever(in)           [] tool = "link_building" -> link_building(in)
      [] tool = "smooth" -> smooth(in)                   [] tool = "bring_goods_to_depot" -> bring_goods_to_depot(in)
      [] tool = "unmark_trade_goods" -> unmark_trade_goods(in)
      [] tool = "set_depot_trade_flags" -> set_depot_trade_flags(in)
      [] tool = "appoint_position" -> appoint_position(in)
      [] tool = "set_bookkeeper_precision" -> set_bookkeeper_precision(in)
      [] tool = "build_farm_plot" -> build_farm_plot(in) [] tool = "assign_crop" -> assign_crop(in)
      [] tool = "create_location" -> create_location(in) [] tool = "assign_lodging" -> assign_lodging(in)
      [] tool = "unassign_lodging" -> unassign_lodging(in) [] tool = "designate_zone" -> designate_zone(in)
      [] tool = "assign_zone" -> assign_zone(in)         [] tool = "unassign_zone" -> unassign_zone(in)
      [] tool = "remove_zone" -> remove_zone(in)         [] tool = "create_squad" -> create_squad(in)
      [] tool = "assign_squad" -> assign_squad(in)       [] tool = "squad_order" -> squad_order(in)
      [] tool = "designate_burrow" -> designate_burrow(in) [] tool = "remove_burrow" -> remove_burrow(in)
      [] tool = "assign_burrow" -> assign_burrow(in)     [] tool = "unassign_burrow" -> unassign_burrow(in)
      [] tool = "set_alert" -> set_alert(in)
===============================================================================
