---------------------------- MODULE DesignationWire ---------------------------
(***************************************************************************)
(* The commands that designate, build or change something at a place.  For *)
(* each: its struct, what the server's encoder writes, what the server's   *)
(* decoder reads, what the plugin's executeCommand reads, and what         *)
(* Validate accepts.  XEnc, XDec and XParse are layouts of WireLayout;     *)
(* XOk(m) is Validate's case.                                              *)
(***************************************************************************)
EXTENDS WireLayout

Corners == <<"x1", "y1", "z1", "x2", "y2", "z2">>
Flat    == <<"x1", "y1", "z", "x2", "y2">>
Tile    == <<"x", "y", "z">>
Ordered(m)     == m.x2 >= m.x1 /\ m.y2 >= m.y1
Ordered3(m)    == Ordered(m) /\ m.z2 >= m.z1
Given(text)    == text # <<>>
AnyByte        == 255              \* QualityTierAny, BuildOrientAny, FarmSeasonAll
OrderTypeByName == 0               \* and BuildTypeByName
OrderTypeCustomReaction == 13
WorkOrderFrequencyYearly == 4

Header     == [id |-> "u32", type |-> "u8"]
HeaderEnc  == Fields(Header, <<"id", "type">>)
HeaderDec  == Fields(Header, <<"id", "type">>)
HeaderParse == Need(5) \o Raw("u32", <<"id">>) \o Raw("u8", <<"type">>)

-------------------------------------------------------------------------------
(* Dig, Cancel *)
Region   == I16s(ToSet(Corners))
Dig      == U8s({"digType"}) @@ Region
DigEnc   == Fields(Dig, <<"digType">> \o Corners)
DigDec   == Fields(Dig, <<"digType">> \o Corners)
DigParse == Need(18) \o Raw("u8", <<"digType">>) \o Raw("i16", Corners)
CancelParse == Need(18) \o Skip(1) \o Raw("i16", Corners)   \* the dig type is ignored
DigOk(m) == Ordered3(m)

(* Build *)
Build    == I16s(ToSet(Tile)) @@ U8s({"buildType", "material", "quality", "orientation"}) @@ Texts({"buildTypeName"})
BuildEnc == Fields(Build, Tile \o <<"buildType", "material", "quality", "orientation">>)
            \o When("buildType", {OrderTypeByName}, Text("buildTypeName", 255))
\* mutant: a missing quality means the lowest tier
BuildDecLowest == Fields(Build, Tile \o <<"buildType">>)
            \o Late("material", "u8", 0) \o Late("quality", "u8", 0) \o Late("orientation", "u8", AnyByte)
            \o When("buildType", {OrderTypeByName}, Text("buildTypeName", 65535))
BuildDec == Fields(Build, Tile \o <<"buildType">>)
            \o Late("material", "u8", 0) \o Late("quality", "u8", AnyByte) \o Late("orientation", "u8", AnyByte)
            \o When("buildType", {OrderTypeByName}, Text("buildTypeName", 65535))
BuildParse == Need(12) \o Raw("i16", Tile) \o Raw("u8", <<"buildType">>)
            \o Lax("material", 0) \o Lax("quality", AnyByte) \o Lax("orientation", AnyByte)
            \o When("buildType", {OrderTypeByName}, Need(17) \o RawText("buildTypeName", 0))
IsBuildType(t) == t \in 1..191     \* the ten IsBuildType* ranges side by side
BuildOk(m) ==
    /\ m.buildType = OrderTypeByName \/ IsBuildType(m.buildType)
    /\ m.buildType = OrderTypeByName => Given(m.buildTypeName)
    /\ m.material <= 3
    /\ m.quality \in 0..6 \cup {AnyByte}
    /\ m.orientation \in 0..3 \cup {AnyByte}

(* Chop, Gather *)
ChopEnc     == Fields(Region, Corners)
ChopDec     == Fields(Region, Corners)
ChopParse   == Need(17) \o Raw("i16", Corners)
GatherParse == Need(17) \o Raw("i16", Corners)

(* Zone, RemoveZone, AssignZone, UnassignZone *)
Zone      == I16s(ToSet(Flat)) @@ U8s({"zoneType"})
ZoneEnc   == Fields(Zone, <<"zoneType">> \o Flat)
ZoneDec   == Fields(Zone, <<"zoneType">> \o Flat)
ZoneParse == Need(16) \o Raw("u8", <<"zoneType">>) \o Raw("i16", Flat)
RemoveZone      == I16s(ToSet(Tile))
RemoveZoneEnc   == Fields(RemoveZone, Tile)
RemoveZoneDec   == Fields(RemoveZone, Tile)
RemoveZoneParse == Need(11) \o Raw("i16", Tile)
AssignZone      == I16s(ToSet(Tile)) @@ I32s({"unitID"})
AssignZoneEnc   == Fields(AssignZone, Tile \o <<"unitID">>)
AssignZoneDec   == Fields(AssignZone, Tile \o <<"unitID">>)
AssignZoneParse == Need(15) \o Raw("i16", Tile) \o Raw("i32", <<"unitID">>)
UnassignZone      == I16s(ToSet(Tile)) @@ I32s({"unitID"})
UnassignZoneEnc   == Fields(UnassignZone, Tile \o <<"unitID">>)
UnassignZoneDec   == Fields(UnassignZone, Tile \o <<"unitID">>)
UnassignZoneParse == Need(15) \o Raw("i16", Tile) \o Raw("i32", <<"unitID">>)

(* CreateLocation, AssignLodging, UnassignLodging.  The encoder does not   *)
(* limit the profession, so the length it writes is taken modulo 2^16.     *)
CreateLocation      == I16s(ToSet(Tile)) @@ U8s({"locationType"}) @@ Texts({"profession"})
CreateLocationEnc   == Fields(CreateLocation, Tile \o <<"locationType">>) \o Text("profession", 1000000)
CreateLocationDec   == Fields(CreateLocation, Tile \o <<"locationType">>) \o Text("profession", 65535)
CreateLocationParse == Need(12) \o Raw("i16", Tile) \o Raw("u8", <<"locationType">>) \o LaxText("profession")
LodgingEnds == <<"tavernX", "tavernY", "tavernZ", "bedroomX", "bedroomY", "bedroomZ">>
AssignLodging      == I16s(ToSet(LodgingEnds))
AssignLodgingEnc   == Fields(AssignLodging, LodgingEnds)
AssignLodgingDec   == Fields(AssignLodging, LodgingEnds)
AssignLodgingParse == Need(17) \o Raw("i16", LodgingEnds)
Bedroom == <<"bedroomX", "bedroomY", "bedroomZ">>
UnassignLodging      == I16s(ToSet(Bedroom))
UnassignLodgingEnc   == Fields(UnassignLodging, Bedroom)
UnassignLodgingDec   == Fields(UnassignLodging, Bedroom)
UnassignLodgingParse == Need(11) \o Raw("i16", Bedroom)

(* Unsuspend, RemoveBuilding, PullLever, LinkBuilding *)
Unsuspend      == I16s(ToSet(Tile))
UnsuspendEnc   == Fields(Unsuspend, Tile)
UnsuspendDec   == Fields(Unsuspend, Tile)
UnsuspendParse == Need(11) \o Raw("i16", Tile)
RemoveBuilding      == I16s(ToSet(Tile))
RemoveBuildingEnc   == Fields(RemoveBuilding, Tile)
RemoveBuildingDec   == Fields(RemoveBuilding, Tile)
RemoveBuildingParse == Need(11) \o Raw("i16", Tile)
PullLever      == I16s(ToSet(Tile))
PullLeverEnc   == Fields(PullLever, Tile)
PullLeverDec   == Fields(PullLever, Tile)
PullLeverParse == Need(11) \o Raw("i16", Tile)
LinkEnds == <<"leverX", "leverY", "leverZ", "targetX", "targetY", "targetZ">>
LinkBuilding      == I16s(ToSet(LinkEnds))
LinkBuildingEnc   == Fields(LinkBuilding, LinkEnds)
LinkBuildingDec   == Fields(LinkBuilding, LinkEnds)
LinkBuildingParse == Need(17) \o Raw("i16", LinkEnds)

-------------------------------------------------------------------------------
(* Stockpile, Smooth, FarmPlot, SetFarmCrop, BuildBridge *)
Stockpile      == I16s(ToSet(Flat)) @@ U32s({"groupMask"})
StockpileEnc   == Fields(Stockpile, Flat \o <<"groupMask">>)
StockpileDec   == Fields(Stockpile, Flat \o <<"groupMask">>)
StockpileParse == Need(19) \o Raw("i16", Flat) \o Raw("u32", <<"groupMask">>)
Smooth      == I16s(ToSet(Flat)) @@ U8s({"smoothType"})
SmoothEnc   == Fields(Smooth, <<"smoothType">> \o Flat)
SmoothDec   == Fields(Smooth, <<"smoothType">> \o Flat)
SmoothParse == Need(16) \o Raw("u8", <<"smoothType">>) \o Only("smoothType", {1, 2}) \o Raw("i16", Flat)
FarmPlot      == I16s(ToSet(Flat))
FarmPlotEnc   == Fields(FarmPlot, Flat)
FarmPlotDec   == Fields(FarmPlot, Flat)
FarmPlotParse == Need(15) \o Raw("i16", Flat)
FarmPlotOk(m) == Ordered(m)
SetFarmCrop      == I16s(ToSet(Tile)) @@ U8s({"season"}) @@ Texts({"cropName"})
SetFarmCropEnc   == Fields(SetFarmCrop, Tile \o <<"season">>) \o Text("cropName", 65535)
SetFarmCropDec   == Fields(SetFarmCrop, Tile \o <<"season">>) \o Text("cropName", 65535)
SetFarmCropParse == Need(14) \o Raw("i16", Tile) \o Raw("u8", <<"season">>) \o RawText("cropName", 0)
SetFarmCropOk(m) == m.season \in 0..3 \cup {AnyByte} /\ Given(m.cropName)
BuildBridge      == I16s(ToSet(Flat)) @@ U8s({"direction"})
BuildBridgeEnc   == Fields(BuildBridge, Flat \o <<"direction">>)
BuildBridgeDec   == Fields(BuildBridge, Flat \o <<"direction">>)
BuildBridgeParse == Need(16) \o Raw("i16", Flat) \o Raw("u8", <<"direction">>)
BuildBridgeOk(m) == Ordered(m) /\ m.direction <= 4
===============================================================================
