-------------------------------- MODULE MCWire --------------------------------
(* Every field gets bytes of its own, so that a swapped, widened or shifted *)
(* field is seen; fields with a range of their own start inside it.         *)
EXTENDS MessageWire, ActionTools

Bytes(n) == [i \in 1..n |-> (i * 7) % 256]

Pattern(kd, i) ==
    CASE kd = "u8"  -> i
      [] kd \in {"u16", "i16"} -> 257 * i + 16
      [] kd \in {"u32", "i32", "i64"} -> 16777216 * i + 65536 * (i + 32) + 256 * (i + 64) + i + 96
      [] kd = "flag" -> i % 2 = 0
      [] kd = "text" -> <<i, i + 64, 200>>
      [] kd = "list" -> <<>>

InRange == [mode |-> 1, season |-> 2, minSkillLevel |-> 3, maxSkillLevel |-> 9, quantity |-> 40, amount |-> 40,
            frequency |-> 1, itemClass |-> 1, direction |-> 2, precision |-> 3, smoothType |-> 1, order |-> 1,
            material |-> 2, quality |-> 5, orientation |-> 1, version |-> 1, width |-> 2, height |-> 1, depth |-> 1,
            count |-> 2, status |-> 1, reason |-> 2]

Order(items) == FlattenSeq([i \in DOMAIN items |->
    IF items[i].do = "when" THEN <<items[i].items[1].f>>
    ELSE IF items[i].do = "present" THEN <<items[i].f>> \o [j \in DOMAIN items[i].items |-> items[i].items[j].f]
    ELSE <<items[i].f>>])

\* only the struct tells numbers from strings
Filled(struct, names, n) ==
    [f \in DOMAIN struct |->
        IF f \in DOMAIN InRange /\ struct[f] \in DOMAIN ByteWidth THEN InRange[f]
        ELSE Pattern(struct[f], n + CHOOSE i \in DOMAIN names : names[i] = f)]
ATile(n)   == Filled(TileState, Order(TileStateEnc), n)
AnEntity(n) == Filled(EntityInfo, Order(EntityInfoEnc), n)
AZone(n)   == Filled(ZoneData, Order(ZoneDataEnc), n)
AReport(n) == Filled(Announcement, Order(AnnouncementEnc), n)

Tiles     == <<ATile(1), ATile(20)>>
SomeUnits == <<[unit |-> 305419896], [unit |-> -1]>>
Lists13   == [announcements |-> <<AReport(1), AReport(40)>>, repeatCounts |-> <<7, 0>>]
Lists8    == [entities |-> <<AnEntity(1), AnEntity(30)>>, deadIDs |-> SomeUnits,
              zones |-> <<[AZone(2) EXCEPT !.assigned = SomeUnits], AZone(9)>>]
Presence  == [hasFortInfo |-> TRUE, hasZones |-> TRUE, hasDeadUnits |-> TRUE, hasWorld |-> TRUE]

MCStart(k, layout) ==
    LET m == Filled(Struct(k), Order(layout), 0)
    IN CASE k[1] \in {2, 3} -> [tiles |-> Tiles] @@ m
         [] k[1] = 8  -> Lists8 @@ Presence @@ m
         [] k[1] = 9  -> [type |-> k[2]] @@ m
         [] k[1] = 13 -> Lists13 @@ m
         [] OTHER -> m

Boundary == [buildType |-> {0, 191, 192}, orderType |-> {0, 13}, material |-> {3, 4}, quality |-> {6, 7, 255},
    orientation |-> {3, 4, 255}, laborID |-> {93, 94}, amount |-> {0, 100, 101}, quantity |-> {0, 100, 101},
    minSkillLevel |-> {-1, 20, 21}, maxSkillLevel |-> {-1, 2, 20, 21}, season |-> {3, 4, 255}, mode |-> {0, 2, 3, 4},
    frequency |-> {4, 5}, precision |-> {4, 5}, direction |-> {4, 5}, smoothType |-> {2, 3}, order |-> {0, 2, 3},
    status |-> {0, 2, 3}, count |-> {0, 1, 3}, itemClass |-> {0, 2}, version |-> {2}, type |-> {}, reason |-> {4, 5},
    width |-> {0, 1}, height |-> {0}, depth |-> {2}, saveDir |-> {Bytes(300)},
    tiles |-> {<<>>, <<ATile(3)>>}, entities |-> {<<>>, <<AnEntity(3)>>}, zones |-> {<<>>},
    deadIDs |-> {<<>>, <<[unit |-> 5]>>}, repeatCounts |-> {<<0, 70000>>},
    announcements |-> {<<>>, <<AReport(3)>>, <<[AReport(3) EXCEPT !.x = -30000, !.y = 32001], AReport(9)>>,
        <<[AReport(3) EXCEPT !.text = Bytes(4097)], [AReport(9) EXCEPT !.text = Bytes(4096)]>>}]

MCChanges(f, kd) ==
    IF f \in DOMAIN Boundary /\ kd # "text" THEN Boundary[f]
    ELSE CASE kd = "u8"  -> {0, 255}
           [] kd = "u16" -> {0, 65535}
           [] kd = "i16" -> {-1, 32767}
           [] kd \in {"u32", "i32", "i64"} -> {-1, 0}
           [] kd = "flag" -> {TRUE, FALSE}
           [] kd = "text" -> {<<>>, Bytes(255), Bytes(256)}
           [] OTHER -> {}

-------------------------------------------------------------------------------
\* one call of every tool
T3 == [x |-> 31, y |-> 42, z |-> 53]
R5 == [x1 |-> 11, y1 |-> 22, z |-> 53, x2 |-> 14, y2 |-> 27]
R6 == [x1 |-> 11, y1 |-> 22, z1 |-> 53, x2 |-> 14, y2 |-> 27, z2 |-> 50]
N(i) == <<i, 77, 88>>
Trade == [itemType |-> N(1), material |-> N(2), itemClass |-> 1, maxCount |-> 900]
Lodging == [tavernX |-> 1, tavernY |-> 2, tavernZ |-> 3, bedroomX |-> 4, bedroomY |-> 5, bedroomZ |-> 6]
MCToolInput == [
    designate_dig |-> [digType |-> 2] @@ R6, chop |-> R5, gather |-> R5, cancel_designation |-> R5,
    build |-> [buildType |-> 16, name |-> N(1), material |-> 1, quality |-> AnyByte, orientation |-> AnyByte] @@ T3,
    build_bridge |-> [width |-> 3, height |-> 2, direction |-> 1] @@ T3,
    stockpile |-> [groupMask |-> 131072] @@ R5,
    order |-> [item |-> 4, name |-> N(1), count |-> 3, material |-> N(2), subtype |-> N(3), frequency |-> 0],
    queue_job |-> [item |-> 4, name |-> N(1), reaction |-> <<>>, material |-> N(2), subtype |-> N(3)] @@ T3,
    cancel_order |-> [orderID |-> 70000], edit_order |-> [orderID |-> 70000, amount |-> 12, frequency |-> Absent],
    set_labor |-> [unitID |-> 70001, laborID |-> 10, enable |-> TRUE],
    set_workshop_profile |-> [min |-> 2, max |-> 15, worker |-> Absent] @@ T3,
    assign_work_detail |-> [index |-> Absent, found |-> 300, unitID |-> 70001, add |-> TRUE],
    set_work_detail_mode |-> [index |-> Absent, found |-> 300, mode |-> 2],
    create_work_detail |-> [name |-> N(1), mode |-> Absent, laborIDs |-> <<10, 60>>],
    unsuspend |-> T3, remove_building |-> T3, pull_lever |-> T3,
    link_building |-> [leverX |-> 1, leverY |-> 2, leverZ |-> 3, targetX |-> 4, targetY |-> 5, targetZ |-> 6],
    smooth |-> [engrave |-> FALSE] @@ R5, bring_goods_to_depot |-> [maxTotalValue |-> 5000] @@ Trade @@ T3,
    unmark_trade_goods |-> Trade @@ T3, set_depot_trade_flags |-> [traderRequested |-> TRUE, anyoneCanTrade |-> FALSE] @@ T3,
    appoint_position |-> [unitID |-> 70001, positionCode |-> N(1)], set_bookkeeper_precision |-> [precision |-> 2],
    build_farm_plot |-> R5, assign_crop |-> [season |-> 2, cropName |-> N(1)] @@ T3,
    create_location |-> [locationType |-> 3, profession |-> N(1)] @@ T3, assign_lodging |-> Lodging,
    unassign_lodging |-> [f \in ToSet(Bedroom) |-> Lodging[f]], designate_zone |-> [zoneType |-> 5] @@ R5,
    assign_zone |-> [unitID |-> 70001] @@ T3, unassign_zone |-> [unitID |-> 70001] @@ T3, remove_zone |-> T3,
    create_squad |-> [positionCode |-> N(1)], assign_squad |-> [squadID |-> 8, unitID |-> 70001, add |-> TRUE],
    squad_order |-> [squadID |-> 8, order |-> 0, burrowName |-> N(1)] @@ T3,
    designate_burrow |-> [name |-> N(1)] @@ R6, remove_burrow |-> [name |-> N(1)],
    assign_burrow |-> [name |-> N(1), allCitizens |-> FALSE, unit |-> 70001],
    unassign_burrow |-> [name |-> N(1), allCitizens |-> FALSE, unit |-> 70001],
    set_alert |-> [name |-> N(1), active |-> TRUE]]

\* every code of a vocabulary, and numbers inside and outside their ranges
Vocabulary == [digType |-> digTypeFromName, buildType |-> buildTypes, direction |-> bridgeDirections, item |-> orderTypes,
    laborID |-> laborNames, groupMask |-> stockpileGroups, season |-> farmSeasons, precision |-> bookkeeperPrecisions,
    zoneType |-> zoneWireTypes, locationType |-> locationWireTypes, itemClass |-> itemClasses, order |-> 0..2,
    frequency |-> workOrderFrequencies, mode |-> workDetailModes,
    material |-> materialClasses, quality |-> qualityTiers, orientation |-> waterPowerOrientations]

MCToolValues(tool, f) ==
    CASE f = "item" /\ tool = "queue_job" -> {2, Unknown, Absent}
      [] f \in DOMAIN Vocabulary /\ (f = "material" => tool = "build") -> Vocabulary[f] \cup {Unknown}
      [] f \in {"x", "y", "x1", "x2", "y1", "y2", "z1"} -> {12, 40000}
      [] f = "z2" -> IF tool = "designate_burrow" THEN {60, Absent} ELSE {53, 60}
      [] f = "z" -> {0, -1}
      [] f \in {"width", "height"} -> {0, 1, 4, 31, 32}
      [] f = "count" -> {0, 100, 65537}
      [] f = "index" -> {0, 65537}
      [] f = "found" -> {0, Unknown}
      [] f = "reaction" -> {N(9)}
      [] f = "amount" -> {0, 100, 101}
      [] f \in {"min", "max"} -> {0, 20, 21}
      [] f \in {"unit", "worker"} -> {Absent, 0}
      [] f = "maxCount" -> {0}
      [] f \in {"enable", "add", "engrave", "allCitizens", "active", "traderRequested", "anyoneCanTrade"} -> BOOLEAN
      [] f \in {"name", "positionCode", "cropName", "burrowName"} -> {<<>>}
      [] f = "laborIDs" -> {<<>>, <<3>>, <<4, 0>>}
      [] OTHER -> {}
===============================================================================
