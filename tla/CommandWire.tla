------------------------------ MODULE CommandWire -----------------------------
(***************************************************************************)
(* The other commands, about orders, units, burrows, trade and squads, and *)
(* the tables of all 44 by type code.                                      *)
(***************************************************************************)
EXTENDS DesignationWire

(* WorkOrder, CancelOrder, EditOrder, QueueJob *)
WorkOrder    == U8s({"orderType", "frequency"}) @@ U16s({"quantity"}) @@ Texts({"jobTypeName", "material", "subtype"})
WorkOrderEnc == Fields(WorkOrder, <<"orderType", "quantity">>)
                \o When("orderType", {OrderTypeByName}, Text("jobTypeName", 255))
                \o Text("material", 255) \o Fields(WorkOrder, <<"frequency">>) \o Text("subtype", 255)
WorkOrderDec == Fields(WorkOrder, <<"orderType", "quantity">>)
                \o When("orderType", {OrderTypeByName}, Text("jobTypeName", 65535))
                \o LateText("material", 65535) \o Late("frequency", "u8", 0) \o LateText("subtype", 65535)
WorkOrderParse == Need(8) \o Raw("u8", <<"orderType">>) \o Raw("u16", <<"quantity">>)
                \o Only("quantity", 1..100)
                \o When("orderType", {OrderTypeByName}, Ahead(2) \o RawText("jobTypeName", 0))
                \o LaxText("material") \o Lax("frequency", 0) \o LaxText("subtype")
WorkOrderOk(m) == /\ m.orderType = OrderTypeByName => Given(m.jobTypeName)
                  /\ m.frequency <= WorkOrderFrequencyYearly
CancelOrder      == I32s({"orderID"})
CancelOrderEnc   == Fields(CancelOrder, <<"orderID">>)
CancelOrderDec   == Fields(CancelOrder, <<"orderID">>)
CancelOrderParse == Need(9) \o Raw("i32", <<"orderID">>)
CancelOrderOk(m) == m.orderID >= 0
EditOrder      == I32s({"orderID"}) @@ Flags({"hasAmount", "hasFrequency"}) @@ U16s({"amount"}) @@ U8s({"frequency"})
EditOrderEnc   == Fields(EditOrder, <<"orderID", "hasAmount", "amount", "hasFrequency", "frequency">>)
EditOrderDec   == Fields(EditOrder, <<"orderID", "hasAmount", "amount", "hasFrequency", "frequency">>)
EditOrderParse == Need(14) \o Raw("i32", <<"orderID">>) \o Raw("flag", <<"hasAmount">>) \o Raw("u16", <<"amount">>)
                  \o Raw("flag", <<"hasFrequency">>) \o Raw("u8", <<"frequency">>)
                  \o When("hasAmount", {FALSE}, Only("hasFrequency", {TRUE}))
                  \o When("hasAmount", {TRUE}, Only("amount", 1..100))
EditOrderOk(m) == /\ m.orderID >= 0
                  /\ m.hasAmount \/ m.hasFrequency
                  /\ m.hasAmount => m.amount \in 1..100
                  /\ m.hasFrequency => m.frequency <= WorkOrderFrequencyYearly
QueueJob    == I16s(ToSet(Tile)) @@ U8s({"orderType"}) @@ Texts({"jobTypeName", "reactionCode", "material", "subtype"})
QueueJobEnc == Fields(QueueJob, Tile \o <<"orderType">>)
               \o When("orderType", {OrderTypeByName}, Text("jobTypeName", 255))
               \o When("orderType", {OrderTypeCustomReaction}, Text("reactionCode", 255))
               \o Text("material", 255) \o Text("subtype", 255)
QueueJobDec == Fields(QueueJob, Tile \o <<"orderType">>)
               \o When("orderType", {OrderTypeByName}, Text("jobTypeName", 65535))
               \o When("orderType", {OrderTypeCustomReaction}, Text("reactionCode", 65535))
               \o LateText("material", 65535) \o LateText("subtype", 65535)
\* the plugin keeps both names in one variable and tells them apart by the order type
QueueJobParse == Need(12) \o Raw("i16", Tile) \o Raw("u8", <<"orderType">>)
               \o When("orderType", {OrderTypeByName}, Ahead(2) \o RawText("jobTypeName", 0))
               \o When("orderType", {OrderTypeCustomReaction}, Ahead(2) \o RawText("reactionCode", 0))
               \o LaxText("material") \o LaxText("subtype")
QueueJobOk(m) == /\ m.orderType = OrderTypeByName => Given(m.jobTypeName)
                 /\ m.orderType = OrderTypeCustomReaction => Given(m.reactionCode)

-------------------------------------------------------------------------------
(* Pause, SetLabor, SetWorkshopProfile *)
Pause      == U8s({"mode"}) @@ U32s({"ticks"})
PauseEnc   == Fields(Pause, <<"mode", "ticks">>)
PauseDec   == Fields(Pause, <<"mode", "ticks">>)
PauseParse == Need(10) \o Raw("u8", <<"mode">>) \o Raw("u32", <<"ticks">>) \o Only("mode", 0..2)
PauseOk(m) == m.mode <= 2 /\ (m.mode = 2 => m.ticks # 0)
SetLabor      == I32s({"unitID"}) @@ U8s({"laborID"}) @@ Flags({"enable"})
SetLaborEnc   == Fields(SetLabor, <<"unitID", "laborID", "enable">>)
SetLaborDec   == Fields(SetLabor, <<"unitID", "laborID", "enable">>)
SetLaborParse == Need(11) \o Raw("i32", <<"unitID">>) \o Raw("u8", <<"laborID">>) \o Raw("flag", <<"enable">>)
SetLaborOk(m) == m.laborID <= 93
ProfileLimits == <<"minSkillLevel", "maxSkillLevel", "workerUnitID">>
SetWorkshopProfile      == I16s(ToSet(Tile)) @@ I32s(ToSet(ProfileLimits))
SetWorkshopProfileEnc   == Fields(SetWorkshopProfile, Tile \o ProfileLimits)
SetWorkshopProfileDec   == Fields(SetWorkshopProfile, Tile \o ProfileLimits)
SetWorkshopProfileParse == Need(23) \o Raw("i16", Tile) \o Raw("i32", ProfileLimits)
SetWorkshopProfileOk(m) == /\ m.minSkillLevel \in 0..20
                           /\ m.maxSkillLevel = -1 \/ m.maxSkillLevel \in m.minSkillLevel..20

-------------------------------------------------------------------------------
(* DesignateBurrow, RemoveBurrow, AssignBurrow, SetAlert, Blueprint *)
DesignateBurrow      == Texts({"name"}) @@ I16s(ToSet(Corners))
DesignateBurrowEnc   == Text("name", 255) \o Fields(DesignateBurrow, Corners)
DesignateBurrowDec   == Text("name", 65535) \o Fields(DesignateBurrow, Corners)
DesignateBurrowParse == Need(7) \o RawText("name", 12) \o Raw("i16", Corners)
DesignateBurrowOk(m) == Given(m.name) /\ Ordered3(m)
RemoveBurrow      == Texts({"name"})
RemoveBurrowEnc   == Text("name", 255)
RemoveBurrowDec   == Text("name", 65535)
RemoveBurrowParse == Need(7) \o RawText("name", 0)
AssignBurrow      == Texts({"name"}) @@ Flags({"assign", "allCitizens"}) @@ I32s({"unitID"})
AssignBurrowEnc   == Text("name", 255) \o Fields(AssignBurrow, <<"assign", "allCitizens", "unitID">>)
AssignBurrowDec   == Text("name", 65535) \o Fields(AssignBurrow, <<"assign", "allCitizens", "unitID">>)
AssignBurrowParse == Need(7) \o RawText("name", 6) \o Raw("flag", <<"assign", "allCitizens">>) \o Raw("i32", <<"unitID">>)
SetAlert      == Texts({"name"}) @@ Flags({"active"})
SetAlertEnc   == Text("name", 255) \o Fields(SetAlert, <<"active">>)
SetAlertDec   == Text("name", 65535) \o Fields(SetAlert, <<"active">>)
SetAlertParse == Need(7) \o RawText("name", 1) \o Raw("flag", <<"active">>)
NameOk(m)     == Given(m.name)
Origin == <<"originX", "originY", "originZ">>
Blueprint      == Texts({"blueprintName"}) @@ I16s(ToSet(Origin))
BlueprintEnc   == Text("blueprintName", 255) \o Fields(Blueprint, Origin)
BlueprintDec   == Text("blueprintName", 65535) \o Fields(Blueprint, Origin)
BlueprintParse == Need(13) \o RawText("blueprintName", 6) \o Raw("i16", Origin)

(* AssignWorkDetail, SetWorkDetailMode, CreateWorkDetail.  The labour ids  *)
(* are one byte each; only their count is not limited by the encoder.      *)
AssignWorkDetail      == U16s({"detailIndex"}) @@ I32s({"unitID"}) @@ Flags({"add"})
AssignWorkDetailEnc   == Fields(AssignWorkDetail, <<"detailIndex", "unitID", "add">>)
AssignWorkDetailDec   == Fields(AssignWorkDetail, <<"detailIndex", "unitID", "add">>)
AssignWorkDetailParse == Need(12) \o Raw("u16", <<"detailIndex">>) \o Raw("i32", <<"unitID">>) \o Raw("flag", <<"add">>)
SetWorkDetailMode      == U16s({"detailIndex"}) @@ U8s({"mode"})
SetWorkDetailModeEnc   == Fields(SetWorkDetailMode, <<"detailIndex", "mode">>)
SetWorkDetailModeDec   == Fields(SetWorkDetailMode, <<"detailIndex", "mode">>)
SetWorkDetailModeParse == Need(8) \o Raw("u16", <<"detailIndex">>) \o Raw("u8", <<"mode">>)
SetWorkDetailModeOk(m) == m.mode <= 3
CreateWorkDetail      == Texts({"name", "laborIDs"}) @@ U8s({"mode"})
CreateWorkDetailEnc   == Text("name", 255) \o Fields(CreateWorkDetail, <<"mode">>) \o Text("laborIDs", 1000000)
CreateWorkDetailDec   == Text("name", 65535) \o Fields(CreateWorkDetail, <<"mode">>) \o Text("laborIDs", 65535)
CreateWorkDetailParse == Need(7) \o RawText("name", 3) \o Raw("u8", <<"mode">>) \o RawText("laborIDs", 0)
CreateWorkDetailOk(m) == Given(m.name) /\ m.mode <= 3

(* BringGoods, UnmarkTradeGoods, SetDepotTradeFlags *)
Filters == Texts({"itemType", "material"}) @@ I32s({"maxCount"}) @@ U8s({"itemClass"})
BringGoods      == I16s(ToSet(Tile)) @@ Filters @@ [maxTotalValue |-> "i64"]
BringGoodsEnc   == Fields(BringGoods, Tile) \o Text("itemType", 255) \o Text("material", 255)
                   \o Fields(BringGoods, <<"maxCount", "maxTotalValue", "itemClass">>)
BringGoodsDec   == Fields(BringGoods, Tile) \o Text("itemType", 65535) \o Text("material", 65535)
                   \o Fields(BringGoods, <<"maxCount", "maxTotalValue">>) \o Late("itemClass", "u8", 0)
BringGoodsParse == Need(13) \o Raw("i16", Tile) \o RawText("itemType", 2) \o RawText("material", 12)
                   \o Raw("i32", <<"maxCount">>) \o Raw("i64", <<"maxTotalValue">>) \o Lax("itemClass", 0)
BringGoodsOk(m) == m.maxCount >= 1 /\ m.itemClass <= 1
UnmarkTradeGoods      == I16s(ToSet(Tile)) @@ Filters
UnmarkTradeGoodsEnc   == Fields(UnmarkTradeGoods, Tile) \o Text("itemType", 255) \o Text("material", 255)
                         \o Fields(UnmarkTradeGoods, <<"itemClass", "maxCount">>)
UnmarkTradeGoodsDec   == Fields(UnmarkTradeGoods, Tile) \o Text("itemType", 65535) \o Text("material", 65535)
                         \o Fields(UnmarkTradeGoods, <<"itemClass", "maxCount">>)
\* mutant: the tail in BringGoods' order
UnmarkTradeGoodsParseAsBring == Need(13) \o Raw("i16", Tile) \o RawText("itemType", 2) \o RawText("material", 5)
                         \o Raw("i32", <<"maxCount">>) \o Raw("u8", <<"itemClass">>)
UnmarkTradeGoodsParse == Need(13) \o Raw("i16", Tile) \o RawText("itemType", 2) \o RawText("material", 5)
                         \o Raw("u8", <<"itemClass">>) \o Raw("i32", <<"maxCount">>)
UnmarkTradeGoodsOk(m) == m.maxCount >= 1 /\ m.itemClass <= 1
SetDepotTradeFlags      == I16s(ToSet(Tile)) @@ Flags({"traderRequested", "anyoneCanTrade"})
SetDepotTradeFlagsEnc   == Fields(SetDepotTradeFlags, Tile \o <<"traderRequested", "anyoneCanTrade">>)
SetDepotTradeFlagsDec   == Fields(SetDepotTradeFlags, Tile \o <<"traderRequested", "anyoneCanTrade">>)
SetDepotTradeFlagsParse == Need(13) \o Raw("i16", Tile) \o Raw("flag", <<"traderRequested", "anyoneCanTrade">>)

(* AppointPosition, SetBookkeeperPrecision, squads *)
AppointPosition      == I32s({"unitID"}) @@ Texts({"positionCode"})
AppointPositionEnc   == Fields(AppointPosition, <<"unitID">>) \o Text("positionCode", 255)
AppointPositionDec   == Fields(AppointPosition, <<"unitID">>) \o Text("positionCode", 65535)
AppointPositionParse == Need(11) \o Raw("i32", <<"unitID">>) \o RawText("positionCode", 0)
AppointPositionOk(m) == Given(m.positionCode)
SetBookkeeperPrecision      == U8s({"precision"})
SetBookkeeperPrecisionEnc   == Fields(SetBookkeeperPrecision, <<"precision">>)
SetBookkeeperPrecisionDec   == Fields(SetBookkeeperPrecision, <<"precision">>)
SetBookkeeperPrecisionParse == Need(6) \o Raw("u8", <<"precision">>)
SetBookkeeperPrecisionOk(m) == m.precision <= 4
CreateSquad      == Texts({"positionCode"})
CreateSquadEnc   == Text("positionCode", 255)
CreateSquadDec   == Text("positionCode", 65535)
CreateSquadParse == Need(7) \o RawText("positionCode", 0)
AssignSquad      == I32s({"squadID", "unitID"}) @@ Flags({"add"})
AssignSquadEnc   == Fields(AssignSquad, <<"squadID", "unitID", "add">>)
AssignSquadDec   == Fields(AssignSquad, <<"squadID", "unitID", "add">>)
AssignSquadParse == Need(14) \o Raw("i32", <<"squadID", "unitID">>) \o Raw("flag", <<"add">>)
SquadOrder      == I32s({"squadID"}) @@ U8s({"order"}) @@ I16s(ToSet(Tile)) @@ Texts({"burrowName"})
SquadOrderEnc   == Fields(SquadOrder, <<"squadID", "order">> \o Tile) \o Text("burrowName", 255)
SquadOrderDec   == Fields(SquadOrder, <<"squadID", "order">> \o Tile) \o Text("burrowName", 65535)
\* mutant: the size test forgets the length of the name
SquadOrderParseLoose == Need(16) \o Raw("i32", <<"squadID">>) \o Raw("u8", <<"order">>) \o Raw("i16", Tile) \o RawText("burrowName", 0)
SquadOrderParse == Need(18) \o Raw("i32", <<"squadID">>) \o Raw("u8", <<"order">>) \o Raw("i16", Tile) \o RawText("burrowName", 0)
SquadOrderOk(m) == m.order <= 2 /\ (m.order = 1 => Given(m.burrowName))

-------------------------------------------------------------------------------
(***************************************************************************)
(* The three switches, by type code 0x01..0x2C.                            *)
(***************************************************************************)
StructOf == <<Dig, Build, Dig, Region, Region, Zone, Blueprint, Unsuspend, WorkOrder, Stockpile, Smooth, Pause,
    RemoveBuilding, QueueJob, SetLabor, AssignZone, UnassignZone, CreateLocation, AssignLodging, UnassignLodging,
    RemoveZone, FarmPlot, SetFarmCrop, DesignateBurrow, RemoveBurrow, AssignBurrow, SetAlert, LinkBuilding,
    PullLever, BuildBridge, SetWorkshopProfile, AssignWorkDetail, SetWorkDetailMode, CreateWorkDetail, BringGoods,
    AppointPosition, SetBookkeeperPrecision, CreateSquad, AssignSquad, SquadOrder, CancelOrder, EditOrder,
    UnmarkTradeGoods, SetDepotTradeFlags>>
EncodeOf == <<DigEnc, BuildEnc, DigEnc, ChopEnc, ChopEnc, ZoneEnc, BlueprintEnc, UnsuspendEnc, WorkOrderEnc,
    StockpileEnc, SmoothEnc, PauseEnc, RemoveBuildingEnc, QueueJobEnc, SetLaborEnc, AssignZoneEnc, UnassignZoneEnc,
    CreateLocationEnc, AssignLodgingEnc, UnassignLodgingEnc, RemoveZoneEnc, FarmPlotEnc, SetFarmCropEnc,
    DesignateBurrowEnc, RemoveBurrowEnc, AssignBurrowEnc, SetAlertEnc, LinkBuildingEnc, PullLeverEnc, BuildBridgeEnc,
    SetWorkshopProfileEnc, AssignWorkDetailEnc, SetWorkDetailModeEnc, CreateWorkDetailEnc, BringGoodsEnc,
    AppointPositionEnc, SetBookkeeperPrecisionEnc, CreateSquadEnc, AssignSquadEnc, SquadOrderEnc, CancelOrderEnc,
    EditOrderEnc, UnmarkTradeGoodsEnc, SetDepotTradeFlagsEnc>>
DecodeOf == <<DigDec, BuildDec, DigDec, ChopDec, ChopDec, ZoneDec, BlueprintDec, UnsuspendDec, WorkOrderDec,
    StockpileDec, SmoothDec, PauseDec, RemoveBuildingDec, QueueJobDec, SetLaborDec, AssignZoneDec, UnassignZoneDec,
    CreateLocationDec, AssignLodgingDec, UnassignLodgingDec, RemoveZoneDec, FarmPlotDec, SetFarmCropDec,
    DesignateBurrowDec, RemoveBurrowDec, AssignBurrowDec, SetAlertDec, LinkBuildingDec, PullLeverDec, BuildBridgeDec,
    SetWorkshopProfileDec, AssignWorkDetailDec, SetWorkDetailModeDec, CreateWorkDetailDec, BringGoodsDec,
    AppointPositionDec, SetBookkeeperPrecisionDec, CreateSquadDec, AssignSquadDec, SquadOrderDec, CancelOrderDec,
    EditOrderDec, UnmarkTradeGoodsDec, SetDepotTradeFlagsDec>>
ParseOf == <<DigParse, BuildParse, CancelParse, ChopParse, GatherParse, ZoneParse, BlueprintParse, UnsuspendParse,
    WorkOrderParse, StockpileParse, SmoothParse, PauseParse, RemoveBuildingParse, QueueJobParse, SetLaborParse,
    AssignZoneParse, UnassignZoneParse, CreateLocationParse, AssignLodgingParse, UnassignLodgingParse, RemoveZoneParse,
    FarmPlotParse, SetFarmCropParse, DesignateBurrowParse, RemoveBurrowParse, AssignBurrowParse, SetAlertParse,
    LinkBuildingParse, PullLeverParse, BuildBridgeParse, SetWorkshopProfileParse, AssignWorkDetailParse,
    SetWorkDetailModeParse, CreateWorkDetailParse, BringGoodsParse, AppointPositionParse, SetBookkeeperPrecisionParse,
    CreateSquadParse, AssignSquadParse, SquadOrderParse, CancelOrderParse, EditOrderParse, UnmarkTradeGoodsParse,
    SetDepotTradeFlagsParse>>
CommandTypes == DOMAIN StructOf

(* CommandMessage.Validate; the types without a case are not checked.      *)
Validate(m) ==
    CASE m.type \in {1, 3} -> DigOk(m)         [] m.type = 2  -> BuildOk(m)
      [] m.type = 9   -> WorkOrderOk(m)        [] m.type = 12 -> PauseOk(m)
      [] m.type = 14  -> QueueJobOk(m)         [] m.type = 15 -> SetLaborOk(m)
      [] m.type = 22  -> FarmPlotOk(m)         [] m.type = 23 -> SetFarmCropOk(m)
      [] m.type = 24  -> DesignateBurrowOk(m)  [] m.type \in {25, 26, 27} -> NameOk(m)
      [] m.type = 30  -> BuildBridgeOk(m)      [] m.type = 31 -> SetWorkshopProfileOk(m)
      [] m.type = 33  -> SetWorkDetailModeOk(m) [] m.type = 34 -> CreateWorkDetailOk(m)
      [] m.type = 35  -> BringGoodsOk(m)       [] m.type = 36 -> AppointPositionOk(m)
      [] m.type = 37  -> SetBookkeeperPrecisionOk(m) [] m.type = 40 -> SquadOrderOk(m)
      [] m.type = 41  -> CancelOrderOk(m)      [] m.type = 42 -> EditOrderOk(m)
      [] m.type = 43  -> UnmarkTradeGoodsOk(m) [] OTHER -> m.type \in CommandTypes

CommandStruct(t) == Header @@ StructOf[t]
CommandEnc(t)    == HeaderEnc \o EncodeOf[t]
CommandDec(t)    == HeaderDec \o DecodeOf[t]
CommandParse(t)  == HeaderParse \o ParseOf[t]
===============================================================================
