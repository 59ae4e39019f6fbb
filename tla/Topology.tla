------------------------------ MODULE Topology ------------------------------
(***************************************************************************)
(* The map overlay (internal/topology): three-state tiles packed in bits,  *)
(* kept up to date tile by tile, searched for connected regions and        *)
(* compressed; and what the designate_dig tool makes of it, the hint how a *)
(* new dig could be joined to the space already open                       *)
(* (connectorSuggestion and pendingDigs of internal/mcpserver).            *)
(***************************************************************************)
EXTENDS Integers, Sequences, FiniteSets, SequencesExt, FiniteSetsExt

CONSTANTS
    Width, Height, Depth,
    FullStates,        \* tile flags of whole maps the plugin sends
    UpdatedTiles, TileFlags, \* tiles of updates and their flags
    Callers,           \* goroutines that serve designate_dig
    Digs,              \* rectangles given to designate_dig
    ByteBits,          \* bits of a byte of the overlay, 8 in the code
    MinKnownOpenTiles, \* 20 in the code
    connectorLiveRecheckMaxZSpan, \* 8 in the code
    MaxUpdates         \* bound on the changes and designations

DimensionsAssumption == Width \in Nat /\ Height \in Nat /\ Depth \in Nat
DigsAssumption == \A d \in Digs : \A i \in 1..3 : d.a[i] \in Int /\ d.b[i] \in Int
BytesAssumption == ByteBits \in Nat \ {0}
ASSUME MapAssumption == DimensionsAssumption /\ DigsAssumption /\ BytesAssumption

VARIABLES
    topo,     \* the overlay, its bits and two counters, or Nothing before the first full state
    told,     \* what the overlay was last told of each tile
    retired,  \* overlays replaced while a caller was at work on them
    digs,     \* pendingDigs.rects
    calls,    \* what each caller is at, from the acknowledged dig to its record
    updates   \* number of changes and designations so far

topoVars == <<topo, told, retired, digs, calls, updates>>

Coords == (0..Width - 1) \X (0..Height - 1) \X (0..Depth - 1)
Bit(c) == c[3] * Width * Height + c[2] * Width + c[1]
Size == Width * Height * Depth

\* hidden hides everything; floor goes before wall, void and deep liquid
ClassifyState(flags) ==
    IF "hidden" \in flags THEN "unknown"
    ELSE IF "floor" \in flags THEN "open"
    ELSE IF flags \cap {"wall", "void", "liquid7"} # {} THEN "closed"
    ELSE "unknown"

BuildFromTiles(flags) ==
    LET Of(s) == {Bit(c) : c \in {d \in Coords : ClassifyState(flags[d]) = s}}
    IN [known |-> Of("open") \cup Of("closed"), data |-> Of("open"),
        openTiles |-> Cardinality(Of("open")), closedTiles |-> Cardinality(Of("closed"))]

\* Seeded fault: the counter of the old state is left alone.
SetTileStateCounted(ov, c, s) ==
    IF c \notin Coords THEN ov
    ELSE [known |-> IF s = "unknown" THEN ov.known \ {Bit(c)} ELSE ov.known \cup {Bit(c)},
          data  |-> IF s = "open" THEN ov.data \cup {Bit(c)} ELSE ov.data \ {Bit(c)},
          openTiles   |-> ov.openTiles + IF s = "open" THEN 1 ELSE 0,
          closedTiles |-> ov.closedTiles + IF s = "closed" THEN 1 ELSE 0]
\* coordinates outside the map change nothing
SetTileState(ov, c, s) ==
    LET was(st) == c \in Coords /\ Bit(c) \in ov.known /\ ((Bit(c) \in ov.data) = (st = "open"))
        N(st) == (IF s = st THEN 1 ELSE 0) - (IF was(st) THEN 1 ELSE 0)
    IN IF c \notin Coords THEN ov
       ELSE [known |-> IF s = "unknown" THEN ov.known \ {Bit(c)} ELSE ov.known \cup {Bit(c)},
             data  |-> IF s = "open" THEN ov.data \cup {Bit(c)} ELSE ov.data \ {Bit(c)},
             openTiles |-> ov.openTiles + N("open"), closedTiles |-> ov.closedTiles + N("closed")]

GetTileState(ov, c) ==
    IF c \notin Coords \/ Bit(c) \notin ov.known THEN "unknown"
    ELSE IF Bit(c) \in ov.data THEN "open" ELSE "closed"

\* refused outside the map, and then of no interest to its callers
IsOpen(ov, c) == c \in Coords /\ Bit(c) \in ov.data

Counts(ov) == [open |-> ov.openTiles, closed |-> ov.closedTiles,
               unknown |-> Size - ov.openTiles - ov.closedTiles]

StatsForZ(ov, z) ==
    LET bits == z * Width * Height .. (z + 1) * Width * Height - 1
    IN IF z \notin 0..Depth - 1 THEN [open |-> 0, closed |-> 0, unknown |-> 0]
       ELSE [open |-> Cardinality(bits \cap ov.known \cap ov.data),
             closed |-> Cardinality((bits \cap ov.known) \ ov.data), unknown |-> Cardinality(bits \ ov.known)]
\* from the top down, the range cut to the map
StatsForZRange(ov, zMin, zMax) ==
    LET lo == IF zMin < 0 THEN 0 ELSE zMin
        hi == IF zMax >= Depth THEN Depth - 1 ELSE zMax
    IN IF zMin > zMax \/ lo > hi THEN <<>> ELSE [i \in 1..hi - lo + 1 |-> StatsForZ(ov, hi - i + 1)]

GetOpenTileCount(ov, lo, hi) ==
    Cardinality({c \in Coords : IsOpen(ov, c) /\ \A i \in 1..3 : c[i] \in lo[i]..hi[i]})

-------------------------------------------------------------------------------
(***************************************************************************)
(* Regions: the overlay scanned level by level, row by row, and filled     *)
(* from every open tile not seen before.                                   *)
(***************************************************************************)
\* Seeded fault: the level below is looked at twice, the one above never.
neighborsDown(c) ==
    << <<c[1] - 1, c[2], c[3]>>, <<c[1] + 1, c[2], c[3]>>, <<c[1], c[2] - 1, c[3]>>,
       <<c[1], c[2] + 1, c[3]>>, <<c[1], c[2], c[3] - 1>>, <<c[1], c[2], c[3] - 1>> >>
neighbors(c) ==
    << <<c[1] - 1, c[2], c[3]>>, <<c[1] + 1, c[2], c[3]>>, <<c[1], c[2] - 1, c[3]>>,
       <<c[1], c[2] + 1, c[3]>>, <<c[1], c[2], c[3] - 1>>, <<c[1], c[2], c[3] + 1>> >>

\* one neighbour, then all of a tile, in their order
Take(ov, visited, tiles, n) ==
    IF n \in visited \cup ToSet(tiles) \/ GetTileState(ov, n) # "open" THEN tiles ELSE Append(tiles, n)
Around(ov, visited, tiles, c) ==
    LET n == neighbors(c)
        T(t, i) == Take(ov, visited, t, n[i])
    IN T(T(T(T(T(T(tiles, 1), 2), 3), 4), 5), 6)

\* the k-th tile found is the k-th to leave the queue, which is empty when there
\* is none
Dequeue(ov, visited, tiles, k) == IF k > Len(tiles) THEN tiles ELSE Around(ov, visited, tiles, tiles[k])
floodFill(ov, start, visited) ==
    LET found[k \in 0..Size] == IF k = 0 THEN <<start>> ELSE Dequeue(ov, visited, found[k - 1], k)
    IN found[Size]

\* level by level and row by row, which is the order of the bits
ScanOrder == [i \in 1..Size |-> CHOOSE c \in Coords : Bit(c) = i - 1]

\* a region is the sequence of its tiles, in the order they were found
Visited(regions) == UNION {ToSet(regions[i]) : i \in DOMAIN regions}
Scan(ov, regions, c) ==
    IF c \in Visited(regions) \/ GetTileState(ov, c) # "open" THEN regions
    ELSE Append(regions, floodFill(ov, c, Visited(regions)))
BuildRegionGraph(ov) ==
    LET after[k \in 0..Size] == IF k = 0 THEN <<>> ELSE Scan(ov, after[k - 1], ScanOrder[k])
    IN after[Size]

\* index of the region of a tile, 0 when it has none
RegionAt(regions, c) ==
    IF \E i \in DOMAIN regions : c \in ToSet(regions[i])
    THEN CHOOSE i \in DOMAIN regions : c \in ToSet(regions[i]) ELSE 0
SameRegion(regions, a, b) == RegionAt(regions, a) # 0 /\ RegionAt(regions, a) = RegionAt(regions, b)

Abs(n) == IF n < 0 THEN -n ELSE n
Distance(a, b) == Max({Abs(a[i] - b[i]) : i \in 1..3})

\* the first of the nearest tiles; meaningful only when there is a region
NearestRegion(regions, c) ==
    LET places == UNION {{i} \X (DOMAIN regions[i]) : i \in DOMAIN regions}
        tile(p) == regions[p[1]][p[2]]
        Nearer(p, q) == Distance(tile(p), c) < Distance(tile(q), c)
        Earlier(p, q) == p[1] < q[1] \/ (p[1] = q[1] /\ p[2] < q[2])
    IN tile(CHOOSE p \in places : \A q \in places : ~Nearer(q, p) /\ (Earlier(q, p) => Nearer(p, q)))

-------------------------------------------------------------------------------
(***************************************************************************)
(* Compression: runs of equal bytes, their length as a number of one to    *)
(* three digits of ByteBits - 1 bits, behind a header and, in a filtered   *)
(* mode, the list of levels.  Decompress passes over the header only and   *)
(* reads the levels as runs.                                               *)
(***************************************************************************)
Power[k \in 0..ByteBits] == IF k = 0 THEN 1 ELSE 2 * Power[k - 1]
Digit == Power[ByteBits - 1]
Byte  == Power[ByteBits]
RunLimit == Byte * Byte * Byte - 1      \* 16777215

Bytes(ov) ==
    [i \in 1..(Size + ByteBits - 1) \div ByteBits |->
        MapThenSumSet(LAMBDA j : IF (i - 1) * ByteBits + j \in ov.data THEN Power[j] ELSE 0, 0..ByteBits - 1)]

writeVarint(n) ==
    IF n < Digit THEN <<n>>
    ELSE IF n < Digit * Digit THEN <<((n \div Digit) % Digit) + Digit, n % Digit>>
    ELSE <<((n \div (Digit * Digit)) % Digit) + Digit, ((n \div Digit) % Digit) + Digit, n % Digit>>

\* what is written so far, and the run under way
Emit(n, byte) == Append(writeVarint(n), byte)
AddByte(run, b) ==
    IF run.byte = b /\ run.n < RunLimit THEN [run EXCEPT !.n = @ + 1]
    ELSE [out |-> run.out \o Emit(run.n, run.byte), byte |-> b, n |-> 1]
rleCompress(bytes) ==
    LET after[i \in 1..Len(bytes)] ==
            IF i = 1 THEN [out |-> <<>>, byte |-> bytes[1], n |-> 1] ELSE AddByte(after[i - 1], bytes[i])
        last == after[Len(bytes)]
    IN IF bytes = <<>> THEN <<>> ELSE last.out \o Emit(last.n, last.byte)

\* whole bytes of each level
PerLevel == (Width * Height + ByteBits - 1) \div ByteBits
extractZLevels(bytes, levels) ==
    [i \in 1..Len(levels) * PerLevel |->
        bytes[levels[(i - 1) \div PerLevel + 1] * PerLevel + ((i - 1) % PerLevel) + 1]]

\* levels around a centre, cut to the map
ActiveLevels(centre, radius) ==
    LET lo == Max({centre - radius, 0})
    IN [i \in 1..Min({centre + radius, Depth - 1}) - lo + 1 |-> lo + i - 1]

\* two bytes each
LevelList(levels) ==
    [i \in 1..2 * Len(levels) |->
        IF i % 2 = 1 THEN levels[(i + 1) \div 2] \div Byte ELSE levels[i \div 2] % Byte]

\* what follows the fixed header, for a mode "full" or "active_z_levels"
Compress(ov, mode, centre, radius) ==
    LET levels == ActiveLevels(centre, radius)
    IN IF mode = "full" THEN rleCompress(Bytes(ov))
       ELSE LevelList(levels) \o rleCompress(extractZLevels(Bytes(ov), levels))

\* a number behind a position, and where it ends; nothing when the stream ends
\* inside
readVarint(s, at) ==
    LET more(i) == Len(s) >= at + i /\ s[at + i] >= Digit
        n == IF more(1) THEN IF more(2) THEN 3 ELSE 2 ELSE 1
        value == IF n = 1 THEN s[at + 1]
                 ELSE IF n = 2 THEN (s[at + 1] % Digit) * Digit + s[at + 2]
                 ELSE (s[at + 1] % Digit) * (Digit * Digit) + (s[at + 2] % Digit) * Digit + s[at + 3]
    IN IF Len(s) < at + n THEN <<>> ELSE <<value, at + n>>

\* a run has a length and a byte, so there are fewer runs than bytes
ReadRun(s, r) ==
    LET run == readVarint(s, r.at)
    IN IF r.at = Len(s) THEN r
       ELSE IF run = <<>> \/ run[2] = Len(s) THEN [at |-> Len(s), out |-> <<"error">>]
       ELSE [at |-> run[2] + 1, out |-> r.out \o [i \in 1..run[1] |-> s[run[2] + 1]]]
Decoded(s) ==
    LET after[k \in 0..Len(s)] == IF k = 0 THEN [at |-> 0, out |-> <<>>] ELSE ReadRun(s, after[k - 1])
    IN after[Len(s)].out

Decompress(ov, s) ==
    LET out == Decoded(s)
    IN IF Len(out) # Len(Bytes(ov)) THEN <<"error">> ELSE out

-------------------------------------------------------------------------------
(***************************************************************************)
(* The hint of designate_dig.                                              *)
(***************************************************************************)
\* a rectangle with its corners in order
Ordered(r) == [lo |-> [i \in 1..3 |-> Min({r.a[i], r.b[i]})], hi |-> [i \in 1..3 |-> Max({r.a[i], r.b[i]})]]
Box(lo, hi) == (lo[1]..hi[1]) \X (lo[2]..hi[2]) \X (lo[3]..hi[3])
Tiles(r) == Box(r.lo, r.hi)

Pending(c) == \E i \in DOMAIN digs : c \in Tiles(digs[i])

\* one ring around every level of the rectangle, and its footprint one level
\* above and below
Ring(r) == Box([r.lo EXCEPT ![1] = @ - 1, ![2] = @ - 1], [r.hi EXCEPT ![1] = @ + 1, ![2] = @ + 1]) \ Tiles(r)
Footprints(r) == Box([r.lo EXCEPT ![3] = @ - 1], [r.hi EXCEPT ![3] = r.lo[3] - 1])
                 \cup Box([r.lo EXCEPT ![3] = r.hi[3] + 1], [r.hi EXCEPT ![3] = @ + 1])

\* Seeded fault: only the levels of the rectangle itself are looked at.
RingOnly(ov, r) == \E c \in Ring(r) : GetTileState(ov, c) = "open" \/ Pending(c)
Touches(ov, r) == \E c \in Ring(r) \cup Footprints(r) : GetTileState(ov, c) = "open" \/ Pending(c)

Nothing == [kind |-> "none"]
\* the way to the nearest open tile: a straight line, two legs with a corner, or
\* only the advice to dig stairs
Connector(ov, regions, r) ==
    LET from == <<(r.lo[1] + r.hi[1]) \div 2, (r.lo[2] + r.hi[2]) \div 2, r.lo[3]>>
        to == NearestRegion(regions, from)
        corner == <<to[1], from[2], from[3]>>
        legs == IF from[3] # to[3] THEN <<>>
                ELSE IF from[1] = to[1] \/ from[2] = to[2] THEN << <<from, to>> >>
                ELSE << <<from, corner>>, <<corner, to>> >>
    IN IF Counts(ov).open < Max({MinKnownOpenTiles, Cardinality(Tiles(r))}) THEN Nothing
       ELSE [kind |-> "connect", from |-> from, to |-> to, legs |-> legs]

\* what a map_slice of a level of the rectangle and its ring shows: nothing, when
\* it fails, an open tile inside or beside it, or solid ground all over
LiveWindow(r, z) == {c \in Ring(r) \cup Tiles(r) : c[3] = z}
Slices(r, z) == {[c \in {} |-> "open"], [c \in LiveWindow(r, z) |-> "closed"]}
                \cup {[c \in {d} |-> "open"] : d \in LiveWindow(r, z)}

\* every tile of the slice that can be classified is written to the overlay
Seeded(ov, slice) ==
    LET tiles == SetToSeq(DOMAIN slice)
        after[k \in 0..Len(tiles)] ==
            IF k = 0 THEN ov ELSE SetTileState(after[k - 1], tiles[k], slice[tiles[k]])
    IN after[Len(tiles)]
SawOpen(slice) == \E c \in DOMAIN slice : slice[c] = "open"
Learnt(of, slice) == [c \in Coords |-> IF c \in DOMAIN slice THEN slice[c] ELSE of[c]]

\* a caller goes on with the overlay it was given, also when it is replaced
Current == Len(retired) + 1
OverlayOf(k) == IF k = Current THEN topo ELSE retired[k].topo
ToldOf(k) == IF k = Current THEN told ELSE retired[k].told

-------------------------------------------------------------------------------
(***************************************************************************)
(* A call of designate_dig once the plugin has acknowledged it.  It waits   *)
(* for the plugin once per level, and the connection's goroutine and other  *)
(* callers go on meanwhile.  Beside its locals the call has a history: the  *)
(* tiles open in its overlay at some moment since it began, those open all  *)
(* the time, and those of the digs recorded before.                        *)
(***************************************************************************)
Idle == [stage |-> "idle"]
Working(c) == calls[c].stage \in {"graph", "touch", "slices", "suggest"}
OpenTiles(of) == {c \in Coords : of[c] = "open"}
Recorded == UNION {Tiles(digs[i]) : i \in DOMAIN digs}

\* the calls after the overlay k has come to show of
Witnessed(k, of) ==
    [c \in Callers |->
        IF Working(c) /\ calls[c].on = k
        THEN [calls[c] EXCEPT !.ever = @ \cup OpenTiles(of), !.always = @ \cap OpenTiles(of)] ELSE calls[c]]

\* a server has no overlay until the plugin has sent a whole map
TopoInit == /\ topo = Nothing /\ told = [c \in Coords |-> "unknown"] /\ retired = <<>>
            /\ digs = <<>> /\ calls = [c \in Callers |-> Idle] /\ updates = 0

Count == updates < MaxUpdates /\ updates' = updates + 1

\* OnFullState, of every connection: the overlay is a new one, and the record of
\* the digs stays
FullState(flags) ==
    /\ Count
    /\ topo' = BuildFromTiles(flags)
    /\ told' = [c \in Coords |-> ClassifyState(flags[c])]
    /\ retired' = IF \E c \in Callers : Working(c) /\ calls[c].on = Current
                  THEN Append(retired, [topo |-> topo, told |-> told]) ELSE retired
    /\ UNCHANGED <<digs, calls>>

\* OnTileUpdate, for one tile; updates may name tiles outside this map
TileUpdate(c, flags) ==
    /\ Count /\ topo # Nothing
    /\ topo' = SetTileState(topo, c, ClassifyState(flags))
    /\ told' = [d \in Coords |-> IF d = c THEN ClassifyState(flags) ELSE told[d]]
    /\ calls' = Witnessed(Current, told')
    /\ UNCHANGED <<retired, digs>>

Still == UNCHANGED <<topo, told, retired, digs, updates>>
Finished(c) == [stage |-> "record", rect |-> calls[c].rect, hint |-> Nothing]

\* designate_dig, acknowledged: there may be no overlay yet
Designate(c, d) ==
    /\ calls[c].stage = "idle" /\ Count
    /\ calls' = [calls EXCEPT ![c] =
          IF topo = Nothing THEN [stage |-> "record", rect |-> Ordered(d), hint |-> Nothing]
          ELSE [stage |-> "graph", rect |-> Ordered(d), hint |-> Nothing, on |-> Current,
                regions |-> <<>>, level |-> Ordered(d).lo[3],
                ever |-> OpenTiles(told), always |-> OpenTiles(told), before |-> Recorded]]
    /\ UNCHANGED <<topo, told, retired, digs>>

Graph(c) ==
    LET regions == BuildRegionGraph(OverlayOf(calls[c].on))
    IN /\ calls[c].stage = "graph" /\ Still
       /\ calls' = [calls EXCEPT ![c] =
             IF regions = <<>> THEN Finished(c) ELSE [@ EXCEPT !.stage = "touch", !.regions = regions]]

\* tall shafts are not asked about
Touch(c) ==
    LET r == calls[c].rect
        next == IF r.hi[3] - r.lo[3] + 1 <= connectorLiveRecheckMaxZSpan THEN "slices" ELSE "suggest"
    IN /\ calls[c].stage = "touch" /\ Still
       /\ calls' = [calls EXCEPT ![c] =
             IF Touches(OverlayOf(calls[c].on), r) THEN Finished(c) ELSE [@ EXCEPT !.stage = next]]

\* a map_slice that shows nothing open, or fails: the next level
NextSlice(c, slice) ==
    LET w == calls[c]
    IN /\ ~SawOpen(slice) /\ Still
       /\ calls' = [calls EXCEPT ![c] = IF w.level = w.rect.hi[3] THEN [w EXCEPT !.stage = "suggest"]
                                        ELSE [w EXCEPT !.level = w.level + 1]]

\* one that does, seeds the caller's overlay
SeedFromSlice(c, slice) ==
    LET k == calls[c].on
        ov == Seeded(OverlayOf(k), slice)
        of == Learnt(ToldOf(k), slice)
    IN /\ SawOpen(slice)
       /\ calls' = [Witnessed(k, of) EXCEPT ![c] = Finished(c)]
       /\ IF k = Current THEN topo' = ov /\ told' = of /\ retired' = retired
          ELSE retired' = [retired EXCEPT ![k] = [topo |-> ov, told |-> of]] /\ UNCHANGED <<topo, told>>
       /\ UNCHANGED <<digs, updates>>

Sampled(c) ==
    /\ calls[c].stage = "slices"
    /\ \E slice \in Slices(calls[c].rect, calls[c].level) : NextSlice(c, slice) \/ SeedFromSlice(c, slice)

\* the counters are those of now, the regions those of the graph
Suggest(c) ==
    LET hint == Connector(OverlayOf(calls[c].on), calls[c].regions, calls[c].rect)
    IN /\ calls[c].stage = "suggest" /\ Still
       /\ calls' = [calls EXCEPT ![c] = [@ EXCEPT !.stage = "record", !.hint = hint]]

Record(c) ==
    /\ calls[c].stage = "record"
    /\ digs' = Append(digs, calls[c].rect)
    /\ calls' = [calls EXCEPT ![c] = Idle]
    /\ UNCHANGED <<topo, told, retired, updates>>

TopoNext == \/ \E flags \in FullStates : FullState(flags)
            \/ \E c \in UpdatedTiles, flags \in TileFlags : TileUpdate(c, flags)
            \/ \E c \in Callers, d \in Digs : Designate(c, d)
            \/ \E c \in Callers : Graph(c) \/ Touch(c) \/ Sampled(c) \/ Suggest(c) \/ Record(c)

TopoSpec == TopoInit /\ [][TopoNext]_topoVars

-------------------------------------------------------------------------------
\* Every way of asking gives what the overlay was last told of the tile, however
\* the bits were packed, replaced or counted on the way: single tiles, the
\* running counters, the statistics of levels, and boxes.
TilesAgree ==
    topo # Nothing =>
    LET Of(s) == {c \in Coords : told[c] = s}
        OnLevel(s, z) == Cardinality({c \in Of(s) : c[3] = z})
    IN /\ \A c \in Coords : GetTileState(topo, c) = told[c] /\ (IsOpen(topo, c) <=> told[c] = "open")
       /\ \A s \in {"open", "closed", "unknown"} : Counts(topo)[s] = Cardinality(Of(s))
       /\ \A lo, hi \in -1..Depth :
            LET stats == StatsForZRange(topo, lo, hi)
            IN \A i \in DOMAIN stats, s \in {"open", "closed", "unknown"} :
                 stats[i][s] = OnLevel(s, Min({hi, Depth - 1}) - i + 1)
       /\ \A a, b \in {c \in Coords : c[2] = 0} :
            GetOpenTileCount(topo, a, b) = Cardinality(Of("open") \cap Box(a, b))

\* A compressed copy of the whole map decompresses to the map; it is refused only
\* when so many bytes in a row are equal that their number has a fourth digit.
FullCopyAgrees ==
    topo # Nothing =>
    LET bytes == Bytes(topo)
        long == Digit * Digit * Digit
        copy == Decompress(topo, Compress(topo, "full", 0, 0))
    IN \/ copy = bytes
       \/ /\ copy = <<"error">>
          /\ \E i \in 0..Len(bytes) - long : \A j \in 1..long : bytes[i + j] = bytes[i + 1]

\* A copy of some levels decompresses to the same map or is refused.
LevelCopiesAgree ==
    topo # Nothing =>
    \A centre, radius \in 0..Depth - 1 :
      Decompress(topo, Compress(topo, "active_z_levels", centre, radius)) \in {Bytes(topo), <<"error">>}

CopiesAgree == FullCopyAgrees /\ LevelCopiesAgree

LookupsAgree == TilesAgree /\ CopiesAgree

\* The regions are exactly the connected parts of the open tiles: they cover
\* them, do not meet, and none falls into two parts; and what is asked of the
\* graph follows from that.
RegionsAreComponents ==
    topo # Nothing =>
    LET regions == BuildRegionGraph(topo)
        open == {c \in Coords : told[c] = "open"}
        Step(a, b) == Abs(a[1] - b[1]) + Abs(a[2] - b[2]) + Abs(a[3] - b[3]) = 1
    IN /\ UNION {ToSet(regions[i]) : i \in DOMAIN regions} = open
       /\ \A a, b \in open : Step(a, b) => SameRegion(regions, a, b)
       /\ \A i, j \in DOMAIN regions : i # j => ToSet(regions[i]) \cap ToSet(regions[j]) = {}
       /\ \A i \in DOMAIN regions : \A part \in SUBSET ToSet(regions[i]) :
            part \notin {{}, ToSet(regions[i])}
              => \E a \in part, b \in ToSet(regions[i]) \ part : Step(a, b)

\* A hint names a tile that was open since the call began, and is right of all that
\* stayed as it was meanwhile: no tile that was open all the time is nearer, and
\* none of them, nor a dig recorded before, is beside the new dig, whatever
\* updates, new overlays and other calls came between its tests and its waits.
\* Following it joins the two: every leg is a straight line on one level, the
\* first starts in the dig, the last ends at that tile (connectorSuggestion).
SuggestionConnects ==
    \A w \in Callers :
    LET call == calls[w]
        hint == call.hint
        Line(l) == Cardinality({i \in 1..3 : l[1][i] # l[2][i]}) <= 1
        Beside(c, t) == Abs(c[3] - t[3]) <= 1 /\ (c[3] = t[3] => Distance(c, t) <= 1)
                        /\ (c[3] # t[3] => c[1] = t[1] /\ c[2] = t[2])
    IN call.stage = "record" /\ hint.kind = "connect" =>
       /\ hint.to \in call.ever
       /\ \A c \in call.always : Distance(hint.from, hint.to) <= Distance(hint.from, c)
       /\ \A t \in Tiles(call.rect), c \in call.always \cup call.before :
            ~Beside(c, t) \/ c \in Tiles(call.rect)
       /\ hint.from \in Tiles(call.rect)
       /\ \A i \in DOMAIN hint.legs : Line(hint.legs[i])
       /\ hint.legs # <<>> =>
            /\ hint.legs[1][1] = hint.from /\ Last(hint.legs)[2] = hint.to
            /\ Len(hint.legs) = 2 => hint.legs[1][2] = hint.legs[2][1]
       /\ hint.legs = <<>> => hint.from[3] # hint.to[3]
=============================================================================
