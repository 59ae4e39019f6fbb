--------------------------------- MODULE Wire ---------------------------------
(***************************************************************************)
(* One message between the two programs: one side fills it in and writes   *)
(* it, as this version or as an older one that lacked the last fields; the *)
(* end of the payload may be missing; both readers read it.  A command may *)
(* be filled in by a call of an MCP tool.                                  *)
(***************************************************************************)
EXTENDS MessageWire, ActionTools

CONSTANTS
    Start(_, _),      \* a valid message of a kind, as a sender fills it in
    Changes(_, _),    \* other values of a field
    ToolInput,        \* by tool, the arguments of a call
    ToolValues(_, _), \* by tool, other values of an argument
    MaxChanges,       \* how many fields are changed
    MaxCut            \* how many bytes may be missing

WireAssumption == MaxChanges \in Nat /\ MaxCut \in Nat

VARIABLES
    call,             \* the tool call [tool, in] the command is for, or NoCall
    sender, kind, msg, changed,
    stage,            \* "call", "compose", "sent", "cut", "read", "readcut", "refused"
    lacks,            \* items at the end of the layout the sender does not know
    bytes,
    server, plugin    \* what each reader makes of the bytes

vars == <<call, sender, kind, msg, changed, stage, lacks, bytes, server, plugin>>

NoCall == [tool |-> "none", in |-> <<>>]
NoKind == <<0, 0>>

Layout == IF sender = "plugin" THEN PluginSend[kind[1]] ELSE Enc(kind)
Body(n) == Write(SubSeq(Layout, 1, Len(Layout) - n), msg)

(***************************************************************************)
(* What an older sender lacks, and what a reader takes instead.            *)
(***************************************************************************)
Later ==
    IF sender = "server"
    THEN CASE kind = <<9, 2>> /\ msg.buildType # OrderTypeByName -> 4   \* material, quality, orientation, name
           [] kind = <<9, 9>>  -> 3                                     \* material, frequency, subtype
           [] kind = <<9, 14>> -> 2                                     \* material, subtype
           [] kind = <<9, 35>> -> 1                                     \* item class
           [] OTHER -> 0
    ELSE CASE kind[1] = 8  -> 4                                         \* calendar, zones, dead, world
           [] kind[1] = 13 -> 1                                         \* repeat counts
           [] OTHER -> 0

Default(f) ==
    IF f \in {"quality", "orientation"} THEN AnyByte
    ELSE IF f = "repeatCounts" THEN [i \in DOMAIN msg.announcements |-> 0]
    ELSE ZeroOf(Struct(kind)[f])

(* The plugin's senders shorten texts and replace positions off the map.   *)
Meant(m) ==
    IF sender = "server" THEN m
    ELSE IF kind[1] = 1 THEN [m EXCEPT !.capabilities = <<>>]
    ELSE IF kind[1] # 13 THEN m
    ELSE [m EXCEPT !.announcements = [i \in DOMAIN @ |->
            [@[i] EXCEPT !.x = OnMap(@), !.y = OnMap(@), !.z = OnMap(@),
                         !.text = IF Len(@) > 4096 THEN SubSeq(@, 1, 4096) ELSE @]]]

Expected ==
    LET told == ToSet(Written(SubSeq(Layout, 1, Len(Layout) - lacks), msg))
    IN [f \in DOMAIN msg |-> IF f \in told THEN Meant(msg)[f] ELSE Default(f)]

(* Fields a reader of the plugin does not use.                             *)
Ignored == CASE kind = <<1, 0>> -> {"connectionID", "capabilities"}
             [] kind = <<9, 3>> -> {"digType"}
             [] kind[1] \in {4, 6, 7} -> DOMAIN msg
             [] OTHER -> {}

(* Ranges the plugin checks and Validate does not.                         *)
PluginStricter ==
    CASE kind = <<9, 9>>  -> msg.quantity \notin 1..100
      [] kind = <<9, 11>> -> msg.smoothType \notin {1, 2}
      [] OTHER -> FALSE

-------------------------------------------------------------------------------
InitMessage ==
    /\ call = NoCall
    /\ \E s \in {"server", "plugin"} :
          /\ sender = s
          /\ kind \in IF s = "server" THEN ServerKinds ELSE PluginKinds
    /\ msg = Start(kind, Layout) /\ stage = "compose"

InitCall ==
    /\ call \in {[tool |-> t, in |-> ToolInput[t]] : t \in DOMAIN ToolInput}
    /\ sender = "server" /\ kind = NoKind /\ msg = <<>> /\ stage = "call"

Init ==
    /\ InitMessage \/ InitCall
    /\ changed = {} /\ lacks = 0 /\ bytes = <<>>
    /\ server = Refusal /\ plugin = Refusal

(* The caller of a tool chooses an argument.                               *)
ChooseArgument(f) ==
    /\ stage = "call" /\ f \notin changed /\ Cardinality(changed) < MaxChanges
    /\ \E v \in ToolValues(call.tool, f) : v # call.in[f] /\ call' = [call EXCEPT !.in[f] = v]
    /\ changed' = changed \cup {f}
    /\ UNCHANGED <<sender, kind, msg, stage, lacks, bytes, server, plugin>>

CallTool ==
    /\ stage = "call"
    /\ LET command == Invoke(call.tool, call.in)
       IN IF command = Refused
          THEN stage' = "refused" /\ UNCHANGED <<kind, msg>>
          ELSE stage' = "compose" /\ kind' = <<9, command.type>> /\ msg' = command
    /\ UNCHANGED <<call, sender, changed, lacks, bytes, server, plugin>>

(* The caller of the encoder sets a field.                                 *)
Change(f) ==
    /\ call = NoCall /\ stage = "compose" /\ f \notin changed /\ Cardinality(changed) < MaxChanges
    /\ \E v \in Changes(f, Struct(kind)[f]) : v # msg[f] /\ msg' = [msg EXCEPT ![f] = v]
    /\ changed' = changed \cup {f}
    /\ UNCHANGED <<call, sender, kind, stage, lacks, bytes, server, plugin>>

(* SerializeMessage validates, encodes and fills in the length; the plugin *)
(* only sends what its callers checked, with one repeat count per report.  *)
May ==
    IF sender = "server" THEN CanSerialize(kind, msg)
    ELSE /\ Valid(kind, Meant(msg))
         /\ kind[1] = 13 => Len(msg.repeatCounts) = Len(msg.announcements)

Serialize(n) ==
    /\ stage = "compose" /\ May /\ (call = NoCall \/ n = 0)
    /\ lacks' = n /\ bytes' = Frame(kind[1], Body(n)) /\ stage' = "sent"
    /\ UNCHANGED <<call, sender, kind, msg, changed, server, plugin>>

RefuseToSend ==
    /\ stage = "compose" /\ ~May
    /\ stage' = "refused"
    /\ UNCHANGED <<call, sender, kind, msg, changed, lacks, bytes, server, plugin>>

(* A payload that ends early, in a frame of the right length.              *)
Shorten(n) ==
    /\ stage = "sent" /\ call = NoCall /\ lacks = 0 /\ n <= Len(bytes) - 6
    /\ bytes' = LET body == SubSeq(bytes, 7, Len(bytes) - n)
                IN Frame(kind[1], body)
    /\ stage' = "cut"
    /\ UNCHANGED <<call, sender, kind, msg, changed, lacks, server, plugin>>

(* The server's decoder also reads what the server wrote (its tests do);   *)
(* the plugin reads what the server wrote.                                 *)
Receive ==
    /\ stage \in {"sent", "cut"}
    /\ server' = DeserializeMessage(kind, bytes)
    /\ plugin' = IF sender = "server" THEN ReceiveMessage(kind, bytes) ELSE plugin
    /\ stage' = IF stage = "sent" THEN "read" ELSE "readcut"
    /\ UNCHANGED <<call, sender, kind, msg, changed, lacks, bytes>>

Next ==
    \/ \E f \in DOMAIN call.in : ChooseArgument(f)
    \/ CallTool
    \/ \E f \in DOMAIN msg : Change(f)
    \/ stage = "compose" /\ \E n \in 0..Later : Serialize(n)
    \/ RefuseToSend
    \/ \E n \in 1..MaxCut : Shorten(n)
    \/ Receive

Spec == Init /\ [][Next]_vars

-------------------------------------------------------------------------------
(* Every byte on the wire is one, and the length field is that of the frame. *)
TypeOK ==
    /\ sender \in {"server", "plugin"} /\ kind \in ServerKinds \cup PluginKinds \cup {NoKind}
    /\ stage \in {"call", "compose", "sent", "cut", "read", "readcut", "refused"}
    /\ kind # NoKind => DOMAIN msg = DOMAIN Struct(kind)
    /\ changed \subseteq DOMAIN msg \cup DOMAIN call.in
    /\ lacks \in 0..4
    /\ \A i \in DOMAIN bytes : bytes[i] \in 0..255
    /\ bytes # <<>> => Number("u32", bytes, 1) = Len(bytes)

(* The plugin reads every command, query, heartbeat and handshake as the   *)
(* server meant it, also one from an older server that lacks the later     *)
(* fields; it refuses nothing the server let through except for the two    *)
(* ranges that only it checks.  The server reads every message of the      *)
(* plugin as the plugin meant it, also one from an older plugin that lacks *)
(* the later blocks, and what it encodes itself it decodes to the same     *)
(* message (serializeCommand and deserializeCommand are two switches).     *)
ReadersAgree ==
    stage = "read" =>
        /\ sender = "server" =>
              IF PluginStricter THEN plugin.st = "refused"
              ELSE plugin.st = "ok" /\ \A f \in DOMAIN msg \ Ignored : plugin.m[f] = Expected[f]
        /\ (sender = "server" => lacks = 0) => server.st = "ok" /\ server.m = Expected

(* The plugin's parser indexes the payload without bounds checks; its size *)
(* tests keep every read inside, wherever the payload ends.  A payload that *)
(* ends early is refused or read with later fields at their defaults; no   *)
(* field gets a value that was not sent.                                   *)
CutIsNotMisread ==
    /\ plugin.st # "fault"
    /\ stage = "readcut" =>
        /\ server.st = "ok" =>
              \A f \in DOMAIN msg : server.m[f] \in {Expected[f], Default(f)}
        /\ plugin.st = "ok" =>
              \A f \in DOMAIN msg \ Ignored : plugin.m[f] \in {Expected[f], Default(f)}

-------------------------------------------------------------------------------
(***************************************************************************)
(* What a call of a tool asks for, in the words of the tool's description. *)
(***************************************************************************)
Coordinates == ToSet(Corners) \cup ToSet(Tile) \cup {"z"} \cup ToSet(LinkEnds) \cup ToSet(LodgingEnds)
InWidth(in) ==
    \A f \in DOMAIN in :
        /\ f \in Coordinates /\ in[f] # Absent => in[f] \in 0..32000
        /\ f \in {"count", "index"} /\ in[f] # Absent => in[f] \in 0..65535

Level(m, z)   == m.z1 = z /\ m.z2 = z
Centred(corner, centre, size) == centre = corner + size \div 2
Side(t)       == IF Workshop(t) THEN 3 ELSE IF Depot(t) THEN 5 ELSE 1
OrElse(v, d)  == IF v = Absent THEN d ELSE v
Stairs        == {2, 5, 6}
Detail(in, m) == m.detailIndex = OrElse(in.index, in.found)

\* arguments whose field does not simply hold their value
Indirect(tool) ==
    CASE tool = "designate_dig"      -> {"z1", "z2"}
      [] tool = "build"              -> {"x", "y", "buildType"}
      [] tool = "edit_order"         -> {"amount", "frequency"}
      [] tool = "create_work_detail" -> {"mode"}
      [] tool = "squad_order"        -> {"x", "y", "z", "burrowName"}
      [] tool = "designate_burrow"   -> {"z2"}
      [] OTHER -> {}

Asked(tool, in, m) ==
    /\ \A f \in (DOMAIN in \cap DOMAIN m) \ Indirect(tool) : m[f] = in[f]
    /\ tool \in {"chop", "gather", "cancel_designation"} => Level(m, in.z)
    /\ tool = "designate_dig" =>
          m.z1..m.z2 = IF in.digType \in Stairs THEN in.z1..in.z2 \cup in.z2..in.z1 ELSE {in.z1}
    /\ tool = "build" =>
          /\ Centred(m.x, in.x, Side(m.buildType)) /\ Centred(m.y, in.y, Side(m.buildType))
          /\ m.buildType = (IF in.buildType = Unknown THEN OrderTypeByName ELSE in.buildType)
          /\ in.buildType = Unknown => m.buildTypeName = in.name
    /\ tool = "build_bridge" =>
          /\ m.x2 - m.x1 + 1 = in.width /\ m.y2 - m.y1 + 1 = in.height
          /\ Centred(m.x1, in.x, in.width) /\ Centred(m.y1, in.y, in.height)
    /\ tool = "order" =>
          /\ m.quantity = in.count
          /\ IF in.item = Unknown THEN m.orderType = 0 /\ m.jobTypeName = in.name ELSE m.orderType = in.item
    /\ tool = "queue_job" =>
          IF Given(in.reaction) THEN m.orderType = 13 /\ m.reactionCode = in.reaction
          ELSE IF in.item = Unknown THEN m.orderType = 0 /\ m.jobTypeName = in.name ELSE m.orderType = in.item
    /\ tool = "edit_order" =>
          /\ m.hasAmount = (in.amount # 0) /\ (m.hasAmount => m.amount = in.amount)
          /\ m.hasFrequency = (in.frequency # Absent) /\ (m.hasFrequency => m.frequency = in.frequency)
    /\ tool = "set_workshop_profile" =>
          /\ m.minSkillLevel = in.min /\ m.maxSkillLevel = IF in.max = 0 THEN -1 ELSE in.max
          /\ m.workerUnitID = OrElse(in.worker, -1)
    /\ tool \in {"assign_work_detail", "set_work_detail_mode"} => Detail(in, m)
    /\ tool = "create_work_detail" => m.mode = OrElse(in.mode, 0)
    /\ tool = "smooth" => m.smoothType = IF in.engrave THEN 2 ELSE 1
    /\ tool = "squad_order" =>
          /\ in.order = SquadOrderStation => m.x = in.x /\ m.y = in.y /\ m.z = in.z
          /\ in.order = SquadOrderDefendBurrow => m.burrowName = in.burrowName
    /\ tool = "designate_burrow" => m.z2 = OrElse(in.z2, in.z1)
    /\ tool \in {"assign_burrow", "unassign_burrow"} =>
          m.assign = (tool = "assign_burrow") /\ (~in.allCitizens => m.unitID = in.unit)

(* The plugin is told to do what the caller of the tool asked for: the     *)
(* tool's units (centre and size, optional arguments, shafts from the top  *)
(* down, names or codes), the executor's helper, the codec and the plugin's *)
(* parser together, for every call whose numbers fit the wire.             *)
ToolReachesPlugin ==
    stage = "read" /\ call # NoCall /\ InWidth(call.in) /\ plugin.st = "ok" => Asked(call.tool, call.in, plugin.m)
===============================================================================
