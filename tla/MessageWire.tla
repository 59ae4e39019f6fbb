------------------------------ MODULE MessageWire -----------------------------
(***************************************************************************)
(* The messages other than commands, and the frame around every message.   *)
(* XEnc and XDec are the server's codec, XSend what the plugin writes,     *)
(* XParse what the plugin reads, XOk(m) the server's Validate.             *)
(***************************************************************************)
EXTENDS CommandWire

ProtocolVersion == 1
FrameLimit      == 104857600    \* server, 100 MB
PluginLimit     == 10485760     \* plugin, 10 MB

Handshake      == U8s({"version"}) @@ U32s({"connectionID"}) @@ Texts({"capabilities"})
HandshakeEnc   == Fields(Handshake, <<"version", "connectionID">>) \o Text("capabilities", 1000000)
HandshakeDec   == Fields(Handshake, <<"version", "connectionID">>) \o Text("capabilities", 65535)
HandshakeSend  == Raw("u8", <<"version">>) \o Raw("u32", <<"connectionID">>) \o ClampedText("capabilities", 0)
HandshakeParse == Need(7) \o Raw("u8", <<"version">>) \o Raw("u32", <<"connectionID">>) \o Only("version", {ProtocolVersion})
HandshakeOk(m) == m.version = ProtocolVersion /\ m.connectionID # 0

TileState    == I16s(ToSet(Tile)) @@ U16s({"tileType"}) @@ U8s({"flags"})
TileStateEnc == Fields(TileState, Tile \o <<"tileType", "flags">>)
TileStateDec == Fields(TileState, Tile \o <<"tileType", "flags">>)
TileStateSend == Raw("i16", Tile) \o Raw("u16", <<"tileType">>) \o Raw("u8", <<"flags">>)

FullState     == U16s({"width", "height", "depth"}) @@ Lists({"tiles"})
Dimensions    == <<"width", "height", "depth">>
FullStateEnc  == Fields(FullState, Dimensions) \o Times("tiles", Dimensions, TileState, TileStateEnc)
FullStateDec  == Fields(FullState, Dimensions) \o Times("tiles", Dimensions, TileState, TileStateDec)
FullStateSend == Raw("u16", Dimensions) \o Times("tiles", Dimensions, TileState, TileStateSend)
FullStateOk(m) == Len(m.tiles) = m.width * m.height * m.depth /\ Len(m.tiles) # 0

TileUpdate     == U32s({"count"}) @@ Lists({"tiles"})
TileUpdateEnc  == Fields(TileUpdate, <<"count">>) \o Times("tiles", <<"count">>, TileState, TileStateEnc)
TileUpdateDec  == Fields(TileUpdate, <<"count">>) \o Times("tiles", <<"count">>, TileState, TileStateDec)
TileUpdateSend == Raw("u32", <<"count">>) \o Times("tiles", <<"count">>, TileState, TileStateSend)
TileUpdateOk(m) == Len(m.tiles) = m.count /\ m.count # 0

ResyncRequest    == U8s({"reason"})
ResyncRequestEnc == Fields(ResyncRequest, <<"reason">>)
ResyncRequestDec == Fields(ResyncRequest, <<"reason">>)
ResyncRequestOk(m) == m.reason <= 4

Heartbeat      == [timestamp |-> "i64", sequence |-> "u8"]
HeartbeatEnc   == Fields(Heartbeat, <<"timestamp", "sequence">>)
HeartbeatDec   == Fields(Heartbeat, <<"timestamp", "sequence">>)
HeartbeatSend  == Raw("i64", <<"timestamp">>) \o Raw("u8", <<"sequence">>)
HeartbeatParse == Need(9) \o Raw("i64", <<"timestamp">>) \o Raw("u8", <<"sequence">>)

ErrorMsg    == U16s({"code"}) @@ Texts({"message"})
ErrorMsgEnc == Fields(ErrorMsg, <<"code">>) \o Text("message", 1000000)
\* the end of the text is computed with 16 bits, 4 + msgLen: past 65531 bytes
\* the slice is out of range; MessageLimit keeps the inputs below that
ErrorMsgDec == Fields(ErrorMsg, <<"code">>) \o Text("message", 65531)

Disconnect    == U8s({"reason"})
DisconnectEnc == Fields(Disconnect, <<"reason">>)
DisconnectDec == Fields(Disconnect, <<"reason">>)
DisconnectOk(m) == m.reason <= 3

-------------------------------------------------------------------------------
(* Entities, with the blocks added later behind a presence byte each.  The *)
(* ids of the dead stand for the Dead flags of the entities.               *)
EntityInfo     == U32s({"id"}) @@ I16s(ToSet(Tile)) @@ U8s({"kind"}) @@ U16s({"subtype"})
EntityInfoEnc  == Fields(EntityInfo, <<"id", "x", "y", "z", "kind", "subtype">>)
EntityInfoDec  == Fields(EntityInfo, <<"id", "x", "y", "z", "kind", "subtype">>)
EntityInfoSend == Raw("u32", <<"id">>) \o Raw("i16", Tile) \o Raw("u8", <<"kind">>) \o Raw("u16", <<"subtype">>)
FortInfo       == U32s({"daysElapsed", "year"}) @@ [createdWealth |-> "i64"] @@ U8s({"season"})
FortInfoEnc    == Fields(FortInfo, <<"daysElapsed", "createdWealth", "season", "year">>)
FortInfoDec    == Fields(FortInfo, <<"daysElapsed", "createdWealth", "season", "year">>)
FortInfoSend   == Raw("u32", <<"daysElapsed">>) \o Raw("i64", <<"createdWealth">>) \o Raw("u8", <<"season">>) \o Raw("u32", <<"year">>)
UnitID         == I32s({"unit"})
Box2           == <<"x1", "y1", "x2", "y2", "z">>
ZoneData       == U32s({"zoneID"}) @@ U8s({"zoneType"}) @@ I16s(ToSet(Box2)) @@ I32s({"owner"}) @@ Lists({"assigned"})
ZoneDataEnc    == Fields(ZoneData, <<"zoneID", "zoneType">> \o Box2 \o <<"owner">>) \o Each("assigned", 2, UnitID, Fields(UnitID, <<"unit">>))
ZoneDataDec    == Fields(ZoneData, <<"zoneID", "zoneType">> \o Box2 \o <<"owner">>) \o Each("assigned", 2, UnitID, Fields(UnitID, <<"unit">>))
ZoneDataSend   == Raw("u32", <<"zoneID">>) \o Raw("u8", <<"zoneType">>) \o Raw("i16", Box2) \o Raw("i32", <<"owner">>)
                  \o Each("assigned", 2, UnitID, Raw("i32", <<"unit">>))
World          == Texts({"saveDir"}) @@ U32s({"id1", "id2"})
WorldEnc       == Text("saveDir", 65535) \o Fields(World, <<"id1", "id2">>)
WorldDec       == Text("saveDir", 65535) \o Fields(World, <<"id1", "id2">>)
WorldSend      == ClampedText("saveDir", 65535) \o Raw("u32", <<"id1", "id2">>)
EntityUpdate   == U32s({"count"}) @@ Lists({"entities", "zones", "deadIDs"})
                  @@ Flags({"hasFortInfo", "hasZones", "hasDeadUnits", "hasWorld"}) @@ FortInfo @@ World
EntityUpdateEnc == Fields(EntityUpdate, <<"count">>) \o Times("entities", <<"count">>, EntityInfo, EntityInfoEnc)
                  \o Present("hasFortInfo", FortInfoEnc) \o Present("hasZones", Each("zones", 4, ZoneData, ZoneDataEnc))
                  \o Present("hasDeadUnits", Each("deadIDs", 4, UnitID, Fields(UnitID, <<"unit">>)))
                  \o Present("hasWorld", WorldEnc)
\* mutant: the blocks read in the order of the struct's fields
EntityUpdateDecByField == Fields(EntityUpdate, <<"count">>) \o Times("entities", <<"count">>, EntityInfo, EntityInfoDec)
                  \o Present("hasFortInfo", FortInfoDec)
                  \o Present("hasDeadUnits", Each("deadIDs", 4, UnitID, Fields(UnitID, <<"unit">>)))
                  \o Present("hasZones", Each("zones", 4, ZoneData, ZoneDataDec)) \o Present("hasWorld", WorldDec)
EntityUpdateDec == Fields(EntityUpdate, <<"count">>) \o Times("entities", <<"count">>, EntityInfo, EntityInfoDec)
                  \o Present("hasFortInfo", FortInfoDec) \o Present("hasZones", Each("zones", 4, ZoneData, ZoneDataDec))
                  \o Present("hasDeadUnits", Each("deadIDs", 4, UnitID, Fields(UnitID, <<"unit">>)))
                  \o Present("hasWorld", WorldDec)
EntityUpdateSend == Raw("u32", <<"count">>) \o Times("entities", <<"count">>, EntityInfo, EntityInfoSend)
                  \o Present("hasFortInfo", FortInfoSend) \o Present("hasZones", Each("zones", 4, ZoneData, ZoneDataSend))
                  \o Present("hasDeadUnits", Each("deadIDs", 4, UnitID, Raw("i32", <<"unit">>)))
                  \o Present("hasWorld", WorldSend)
EntityUpdateOk(m) == Len(m.entities) = m.count

-------------------------------------------------------------------------------
CommandAck     == U32s({"id"}) @@ U8s({"status"}) @@ Texts({"errorMsg"})
CommandAckEnc  == Fields(CommandAck, <<"id", "status">>) \o Text("errorMsg", 65535)
CommandAckDec  == Fields(CommandAck, <<"id", "status">>) \o Text("errorMsg", 65535)
CommandAckSend == Raw("u32", <<"id">>) \o Raw("u8", <<"status">>) \o Text("errorMsg", 1000000)
CommandAckOk(m) == m.status <= 2

Query      == U32s({"queryID"}) @@ Texts({"name", "args"})
QueryEnc   == Fields(Query, <<"queryID">>) \o Text("name", 65535) \o Text("args", 65535)
QueryDec   == Fields(Query, <<"queryID">>) \o Text("name", 65535) \o Text("args", 65535)
QueryParse == Need(8) \o Raw("u32", <<"queryID">>) \o RawText("name", 2) \o RawText("args", 0)
QueryOk(m) == m.queryID # 0 /\ Len(m.name) \in 1..64 /\ Len(m.args) <= 4096

QueryResponse     == U32s({"queryID"}) @@ U8s({"status"}) @@ Texts({"data"})
QueryResponseEnc  == Fields(QueryResponse, <<"queryID", "status">>) \o LongText("data")
QueryResponseDec  == Fields(QueryResponse, <<"queryID", "status">>) \o LongText("data")
QueryResponseSend == Raw("u32", <<"queryID">>) \o Raw("u8", <<"status">>) \o LongText("data")
QueryResponseOk(m) == m.queryID # 0 /\ m.status <= 2

Announcement     == U32s({"id", "gameYear", "gameTick"}) @@ U16s({"typeID"}) @@ U8s({"severity"}) @@ I16s(ToSet(Tile)) @@ Texts({"text"})
AnnouncementEnc  == Fields(Announcement, <<"id", "typeID", "severity">> \o Tile \o <<"gameYear", "gameTick">>) \o Text("text", 65535)
AnnouncementDec  == Fields(Announcement, <<"id", "typeID", "severity">> \o Tile \o <<"gameYear", "gameTick">>) \o Text("text", 65535)
AnnouncementSend == Raw("u32", <<"id">>) \o Raw("u16", <<"typeID">>) \o Raw("u8", <<"severity">>)
                    \o Clamped(Tile) \o Raw("u32", <<"gameYear", "gameTick">>) \o ClampedText("text", 4096)
AnnouncementUpdate     == U32s({"count"}) @@ Lists({"announcements", "repeatCounts"})
AnnouncementUpdateEnc  == Fields(AnnouncementUpdate, <<"count">>) \o Times("announcements", <<"count">>, Announcement, AnnouncementEnc)
                          \o Trailer("repeatCounts", "announcements")
AnnouncementUpdateDec  == Fields(AnnouncementUpdate, <<"count">>) \o Times("announcements", <<"count">>, Announcement, AnnouncementDec)
                          \o Trailer("repeatCounts", "announcements")
AnnouncementUpdateSend == Raw("u32", <<"count">>) \o Times("announcements", <<"count">>, Announcement, AnnouncementSend)
                          \o Trailer("repeatCounts", "announcements")
AnnouncementUpdateOk(m) == /\ Len(m.announcements) = m.count
                           /\ \A i \in DOMAIN m.announcements : Len(m.announcements[i].text) <= 4096

-------------------------------------------------------------------------------
(***************************************************************************)
(* Tables by message type 0x01..0x0D; 9 is the command.  A kind is a       *)
(* message type with, for a command, its command type.                     *)
(***************************************************************************)
MessageStruct == <<Handshake, FullState, TileUpdate, ResyncRequest, Heartbeat, ErrorMsg, Disconnect, EntityUpdate,
                   Header, CommandAck, Query, QueryResponse, AnnouncementUpdate>>
MessageEnc == <<HandshakeEnc, FullStateEnc, TileUpdateEnc, ResyncRequestEnc, HeartbeatEnc, ErrorMsgEnc, DisconnectEnc,
                EntityUpdateEnc, HeaderEnc, CommandAckEnc, QueryEnc, QueryResponseEnc, AnnouncementUpdateEnc>>
MessageDec == <<HandshakeDec, FullStateDec, TileUpdateDec, ResyncRequestDec, HeartbeatDec, ErrorMsgDec, DisconnectDec,
                EntityUpdateDec, HeaderDec, CommandAckDec, QueryDec, QueryResponseDec, AnnouncementUpdateDec>>
PluginSend == (1 :> HandshakeSend) @@ (2 :> FullStateSend) @@ (3 :> TileUpdateSend) @@ (5 :> HeartbeatSend)
              @@ (8 :> EntityUpdateSend) @@ (10 :> CommandAckSend) @@ (12 :> QueryResponseSend) @@ (13 :> AnnouncementUpdateSend)
PluginParse == (1 :> HandshakeParse) @@ (5 :> HeartbeatParse) @@ (11 :> QueryParse)

ServerKinds == {<<t, 0>> : t \in {1, 4, 5, 6, 7, 11}} \cup {<<9, c>> : c \in CommandTypes}
PluginKinds == {<<t, 0>> : t \in DOMAIN PluginSend}

Struct(k) == IF k[1] = 9 THEN CommandStruct(k[2]) ELSE MessageStruct[k[1]]
Enc(k)    == IF k[1] = 9 THEN CommandEnc(k[2]) ELSE MessageEnc[k[1]]
Dec(k)    == IF k[1] = 9 THEN CommandDec(k[2]) ELSE MessageDec[k[1]]
Parse(k)  == IF k[1] = 9 THEN CommandParse(k[2]) ELSE IF k[1] \in DOMAIN PluginParse THEN PluginParse[k[1]] ELSE <<>>

Valid(k, m) ==
    CASE k[1] = 1 -> HandshakeOk(m)      [] k[1] = 2 -> FullStateOk(m)      [] k[1] = 3 -> TileUpdateOk(m)
      [] k[1] = 4 -> ResyncRequestOk(m)  [] k[1] = 7 -> DisconnectOk(m)     [] k[1] = 8 -> EntityUpdateOk(m)
      [] k[1] = 9 -> Validate(m)         [] k[1] = 10 -> CommandAckOk(m)    [] k[1] = 11 -> QueryOk(m)
      [] k[1] = 12 -> QueryResponseOk(m) [] k[1] = 13 -> AnnouncementUpdateOk(m) [] OTHER -> TRUE

(***************************************************************************)
(* SerializeMessage, DeserializeMessage and the plugin's receive_message.  *)
(* A frame is [4: length of all][1: version][1: type][payload].            *)
(***************************************************************************)
Frame(t, payload) == BigEndian(6 + Len(payload), 4) \o <<ProtocolVersion, t>> \o payload

CanSerialize(k, m) == Valid(k, m) /\ Fits(Enc(k), m)

Refusal == [st |-> "refused", at |-> 0, m |-> <<>>]

DeserializeMessage(k, b) ==
    IF Len(b) < 6 THEN Refusal
    ELSE IF Number("u32", b, 1) # Len(b) \/ b[5] # ProtocolVersion \/ b[6] # k[1] THEN Refusal
    ELSE LET r == Read(Dec(k), Struct(k), SubSeq(b, 7, Len(b)))
         IN IF r.st = "ok" /\ ~Valid(k, r.m) THEN Refusal ELSE r

ReceiveMessage(k, b) ==
    IF b[5] # ProtocolVersion \/ Number("u32", b, 1) \notin 6..PluginLimit \/ b[6] # k[1] THEN Refusal
    ELSE Read(Parse(k), Struct(k), SubSeq(b, 7, Len(b)))
===============================================================================
