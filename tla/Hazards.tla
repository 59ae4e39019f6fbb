------------------------------- MODULE Hazards -------------------------------
(***************************************************************************)
(* The hazard overlays (internal/hazards): one map of tiles per kind with  *)
(* a running count, built from a full state and then kept up to date by    *)
(* tile updates; creatures are shown anew with every entity update.  The    *)
(* time a hazard was detected at is left out.                              *)
(***************************************************************************)
EXTENDS Integers, FiniteSets

CONSTANTS
    HazardTiles,  \* tiles told about, one of them outside the map
    OnMap,        \* those inside its bounds
    TileTypes,    \* DF tile types
    HazardFlags,  \* flag bytes of tiles
    Units,        \* creatures: [id, kind, at]
    MaxTold       \* bound on the messages

VARIABLES
    layers,  \* by kind: the hazards by tile, and totalCount
    lastTold, \* what was told last of every tile
    firstTold, \* what it was told with when it became what it is, an aquifer or none
    present, \* the creatures of the last entity update
    messages  \* number of them so far

hazardVars == <<layers, lastTold, firstTold, present, messages>>

\* a map has finitely many tiles, and each can be told about
TilesAssumption == IsFiniteSet(OnMap) /\ OnMap \subseteq HazardTiles

TileKinds == {"aquifer", "water", "lava", "caverns"}
UnitKinds == {"enemies", "dwarves"}
Level(c) == c[3]

\* The lowest flag bit: what the wire calls FLAG_HIDDEN.
IsAquifer(tile) == tile.flags % 2 = 1
\* depth, and the flags "flowing" and "north", by ranges of tile types
Liquid(type, first) == [severity |-> IF type < first + 10 THEN 3 ELSE IF type < first + 20 THEN 7 ELSE 5,
                        flags |-> IF type < first + 20 THEN 0 ELSE 9]
IsWater(type) == type \in 90..119
IsLava(type) == type \in 120..149
\* only between the surface and the magma sea
IsCavern(c, type) == Level(c) \in 10..89 /\ type \in 1..89

Detected(kind, c, tile) ==
    CASE kind = "aquifer" -> IsAquifer(tile) [] kind = "water" -> IsWater(tile.type)
      [] kind = "lava" -> IsLava(tile.type)  [] kind = "caverns" -> IsCavern(c, tile.type)
Info(kind, tile) ==
    CASE kind = "aquifer" -> [severity |-> 255, flags |-> tile.flags]
      [] kind = "water" -> Liquid(tile.type, 90) [] kind = "lava" -> Liquid(tile.type, 120)
      [] kind = "caverns" -> [severity |-> 1, flags |-> 0]

Empty == [at |-> <<>>, count |-> 0]
Contains(layer, c) == c \in OnMap /\ c \in DOMAIN layer.at
Add(layer, c, info) ==
    IF c \notin OnMap THEN layer
    ELSE [at |-> [d \in DOMAIN layer.at \cup {c} |-> IF d = c THEN info ELSE layer.at[d]],
          count |-> layer.count + IF c \in DOMAIN layer.at THEN 0 ELSE 1]
Remove(layer, c) ==
    IF c \notin OnMap \/ c \notin DOMAIN layer.at THEN layer
    ELSE [at |-> [d \in DOMAIN layer.at \ {c} |-> layer.at[d]], count |-> layer.count - 1]

-------------------------------------------------------------------------------
\* cleared, then every tile added where it is detected
Built(kind, tiles) ==
    LET there == {c \in OnMap : Detected(kind, c, tiles[c])}
    IN [at |-> [c \in there |-> Info(kind, tiles[c])], count |-> Cardinality(there)]

\* Seeded fault: a liquid that is there already keeps its depth.
UpdatedOnce(kind, layer, c, tile) ==
    IF Detected(kind, c, tile) THEN IF Contains(layer, c) THEN layer ELSE Add(layer, c, Info(kind, tile))
    ELSE IF Contains(layer, c) THEN Remove(layer, c) ELSE layer
\* aquifers and caverns are added once, liquids again with every change
Updated(kind, layer, c, tile) ==
    IF Detected(kind, c, tile)
    THEN IF Contains(layer, c) /\ kind \in {"aquifer", "caverns"} THEN layer ELSE Add(layer, c, Info(kind, tile))
    ELSE IF Contains(layer, c) THEN Remove(layer, c) ELSE layer

LayerOf(unit) == IF unit.kind = "dwarf" THEN "dwarves" ELSE IF unit.kind = "enemy" THEN "enemies" ELSE "none"
Threat(kind) == [severity |-> IF kind = "enemies" THEN 255 ELSE 1, flags |-> 0]
\* cleared, then every creature of the layer added; two on one tile are one hazard
Shown(kind, units) ==
    LET there == {u.at : u \in {v \in units : LayerOf(v) = kind}} \cap OnMap
    IN [at |-> [c \in there |-> Threat(kind)], count |-> Cardinality(there)]

-------------------------------------------------------------------------------
Tiles == [flags : HazardFlags, type : TileTypes]
Hidden == [flags |-> 1, type |-> 0]
Nothing == [c \in HazardTiles |-> [flags |-> 0, type |-> 0]]

Init ==
    /\ layers = [k \in TileKinds \cup UnitKinds |-> Empty]
    /\ lastTold = Nothing /\ firstTold = Nothing /\ present = {} /\ messages = 0

Tell == messages < MaxTold /\ messages' = messages + 1

BuildFromTiles(tiles) ==
    /\ Tell
    /\ layers' = [k \in DOMAIN layers |-> IF k \in TileKinds THEN Built(k, tiles) ELSE layers[k]]
    /\ lastTold' = [c \in HazardTiles |-> IF c \in OnMap THEN tiles[c] ELSE lastTold[c]]
    /\ firstTold' = lastTold'
    /\ UNCHANGED present

UpdateFromTiles(c, tile) ==
    /\ Tell
    /\ layers' = [k \in DOMAIN layers |-> IF k \in TileKinds THEN Updated(k, layers[k], c, tile) ELSE layers[k]]
    /\ lastTold' = [lastTold EXCEPT ![c] = tile]
    /\ firstTold' = [firstTold EXCEPT ![c] = IF IsAquifer(lastTold[c]) /\ IsAquifer(tile) THEN @ ELSE tile]
    /\ UNCHANGED present

BuildFromEntities(units) ==
    /\ Tell
    /\ layers' = [k \in DOMAIN layers |-> IF k \in UnitKinds THEN Shown(k, units) ELSE layers[k]]
    /\ present' = units /\ UNCHANGED <<lastTold, firstTold>>

Next ==
    \/ \E t \in Tiles : BuildFromTiles([c \in OnMap |-> IF Level(c) = 9 THEN Hidden ELSE t])
    \/ \E c \in HazardTiles, t \in Tiles : UpdateFromTiles(c, t)
    \/ \E units \in SUBSET Units : BuildFromEntities(units)

-------------------------------------------------------------------------------
\* Updates change layers in place, add, overwrite and remove, each kind by rules
\* of its own.  After any sequence of them a layer has the tiles, the depths and
\* the flow that building it anew from the tiles last told would give, but an
\* aquifer keeps the flags it was first told with until it is told to be none;
\* the counts are the numbers of tiles, and no creature of an earlier update is
\* left.
LayersMatchTold ==
    /\ \A k \in TileKinds :
         /\ DOMAIN layers[k].at = {c \in OnMap : Detected(k, c, lastTold[c])}
         /\ \A c \in DOMAIN layers[k].at :
              layers[k].at[c] = Info(k, IF k = "aquifer" THEN firstTold[c] ELSE lastTold[c])
    /\ \A k \in UnitKinds : DOMAIN layers[k].at = {u.at : u \in {v \in present : LayerOf(v) = k}} \cap OnMap
    /\ \A k \in DOMAIN layers : layers[k].count = Cardinality(DOMAIN layers[k].at)
===============================================================================
