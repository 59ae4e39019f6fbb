---------------------------- MODULE Modifications ----------------------------
(***************************************************************************)
(* What was changed since the full state (internal/modifications): the     *)
(* detector with its baseline per tile, the overlay of recorded            *)
(* modifications with its count and its cached bounding box, and the       *)
(* chambers that are read off it, tiles connected along the axes.          *)
(***************************************************************************)
EXTENDS Integers, Sequences, FiniteSets, SequencesExt, FiniteSetsExt

CONSTANTS
    ModTiles, \* tiles observed, one of them outside the map
    Inside,   \* those within its bounds
    Seen,     \* observations [type, shape] of a tile; a shape is wall, floor, void or none
    MaxSeen   \* bound on the updates of a map

VARIABLES
    baseline, \* by tile: what it is compared with, or Unseen
    mods,     \* the recorded modifications by tile, and totalCount
    bounds,   \* cachedBounds and boundsComputed
    history   \* every observation of every tile since the full state

modVars == <<baseline, mods, bounds, history>>

\* what is observed has a shape or none, and a map has finitely many tiles, each
\* at its x, y and z
SeenAssumption ==
    /\ IsFiniteSet(ModTiles) /\ Inside \subseteq ModTiles
    /\ \A c \in ModTiles : \A i \in 1..3 : c[i] \in Int
    /\ \A s \in Seen : s.shape \in {"wall", "floor", "void", "none"}

Unseen == [type |-> -1, shape |-> "unseen"]

InferModificationTypeFromFlags(old, new) ==
    CASE old = "wall" /\ new = "floor" -> "dug"
      [] new = "void" /\ old \in {"wall", "floor"} -> "channeled"
      [] new = "wall" /\ old \in {"floor", "void"} -> "wall"
      [] old = "void" /\ new = "floor" -> "floor"
      [] OTHER -> "unknown"

\* a box as its corners
Region(tiles) == <<[i \in 1..3 |-> Min({c[i] : c \in tiles})], [i \in 1..3 |-> Max({c[i] : c \in tiles})]>>
Origin == << <<0, 0, 0>>, <<0, 0, 0>> >>

Within(c, box) == \A i \in 1..3 : c[i] \in box[1][i]..box[2][i]

\* the cache is thrown away, and the tile is counted when it is new
Add(c, info) ==
    /\ mods' = [at |-> [d \in DOMAIN mods.at \cup {c} |-> IF d = c THEN info ELSE mods.at[d]],
                count |-> mods.count + IF c \in DOMAIN mods.at THEN 0 ELSE 1]
    /\ bounds' = [bounds EXCEPT !.computed = FALSE]

-------------------------------------------------------------------------------
\* a full state: a new overlay, and a baseline of the map it shows
Baselined(seen) == [c \in ModTiles |-> IF c \in Inside THEN seen ELSE Unseen]
NoBounds == [computed |-> FALSE, box |-> Origin]
Told(seen) == [c \in ModTiles |-> IF c \in Inside THEN <<seen>> ELSE <<>>]

Init ==
    /\ \E s \in Seen : baseline = Baselined(s) /\ history = Told(s)
    /\ mods = [at |-> <<>>, count |-> 0] /\ bounds = NoBounds

InitializeBaseline(seen) ==
    /\ baseline' = Baselined(seen) /\ history' = Told(seen)
    /\ mods' = [at |-> <<>>, count |-> 0] /\ bounds' = NoBounds

Updates == FoldSet(LAMBDA c, n : n + Len(history[c]), 0, ModTiles) - Cardinality(Inside)

\* Seeded fault: a tile once recorded keeps the kind it was recorded with.
DetectOnce(c, seen) ==
    LET base == baseline[c]
        kind == InferModificationTypeFromFlags(IF base.shape = "none" THEN "wall" ELSE base.shape, seen.shape)
    IN /\ Updates < MaxSeen /\ history' = [history EXCEPT ![c] = Append(@, seen)]
       /\ baseline' = IF base.shape \in {"unseen", "none"} THEN [baseline EXCEPT ![c] = seen] ELSE baseline
       /\ IF base = Unseen \/ kind = "unknown" \/ c \notin Inside \/ c \in DOMAIN mods.at THEN UNCHANGED <<mods, bounds>>
          ELSE Add(c, [kind |-> kind, old |-> base.type, new |-> seen.type])
\* The first observation with a shape becomes the baseline, until then the tile
\* passes for solid rock; what is recorded changes only with the tile type.
DetectModifications(c, seen) ==
    LET base == baseline[c]
        kind == InferModificationTypeFromFlags(IF base.shape = "none" THEN "wall" ELSE base.shape, seen.shape)
    IN /\ Updates < MaxSeen /\ history' = [history EXCEPT ![c] = Append(@, seen)]
       /\ baseline' = IF base.shape \in {"unseen", "none"} THEN [baseline EXCEPT ![c] = seen] ELSE baseline
       /\ IF base = Unseen \/ kind = "unknown" \/ c \notin Inside THEN UNCHANGED <<mods, bounds>>
          ELSE IF c \notin DOMAIN mods.at
          THEN Add(c, [kind |-> kind, old |-> base.type, new |-> seen.type])
          ELSE IF mods.at[c].new # seen.type
          THEN Add(c, [mods.at[c] EXCEPT !.kind = kind, !.new = seen.type])
          ELSE UNCHANGED <<mods, bounds>>

\* the box is computed once and kept until the next change
GetBounds ==
    /\ bounds' = IF bounds.computed \/ mods.count = 0 THEN bounds
                 ELSE [computed |-> TRUE, box |-> Region(DOMAIN mods.at)]
    /\ UNCHANGED <<baseline, mods, history>>
\* what it returns
Bounds == IF bounds.computed THEN bounds.box ELSE IF mods.count = 0 THEN Origin ELSE Region(DOMAIN mods.at)

Next ==
    \/ \E s \in Seen : InitializeBaseline(s)
    \/ \E c \in ModTiles, s \in Seen : DetectModifications(c, s)
    \/ GetBounds

-------------------------------------------------------------------------------
Beside(a, b) == \E i \in 1..3 : a[i] - b[i] \in {-1, 1} /\ \A j \in 1..3 \ {i} : a[j] = b[j]

floodFill[search \in Seq(DOMAIN mods.at) \X (SUBSET DOMAIN mods.at)] ==
    LET queue == search[1]
        found == search[2]
        next == {c \in DOMAIN mods.at \ found : Beside(c, Head(queue))}
    IN IF queue = <<>> THEN found
       ELSE floodFill[<<Tail(queue) \o SetToSeq(next), found \cup next>>]

Chambers[left \in SUBSET DOMAIN mods.at] ==
    IF left = {} THEN {}
    ELSE LET c == CHOOSE d \in left : TRUE
             tiles == floodFill[<< <<c>>, {c} >>]
         IN {[tiles |-> tiles, count |-> Cardinality(tiles), box |-> Region(tiles)]} \cup Chambers[left \ tiles]

\* Seeded fault: the box is taken as it was kept, computed or not.
ExtractFromCache == IF mods.count = 0 THEN {} ELSE Chambers[{c \in DOMAIN mods.at : Within(c, bounds.box)}]
\* everything inside the box of all modifications, which is to be everything
ExtractChambers == IF mods.count = 0 THEN {} ELSE Chambers[{c \in DOMAIN mods.at : Within(c, Bounds)}]

-------------------------------------------------------------------------------
\* What the history of a tile says of it: the base is the first observation
\* with a shape (solid rock before that), the kind that of the last
\* observation that differs from it in a telling way.
Kind(h, k) ==
    LET shaped == {i \in 1..k - 1 : h[i].shape # "none"}
    IN InferModificationTypeFromFlags(IF shaped = {} THEN "wall" ELSE h[Min(shaped)].shape, h[k].shape)
Telling(h) == {k \in 2..Len(h) : Kind(h, k) # "unknown"}
OneShape(h) == \A i, j \in DOMAIN h : h[i].type = h[j].type => h[i].shape = h[j].shape

\* What is recorded is what the history of each tile says, whatever came between
\* and however often the tile was seen: no dig is missed when the block was not
\* there in the full state, none is recorded for a change without a shape.
\* The count and the bounding box follow every change.  (A bridge changes the shape of a
\* tile and not its type; then the kind may be the former one.)
ModificationsMatchHistory ==
    /\ mods.count = Cardinality(DOMAIN mods.at)
    /\ mods.count # 0 => Bounds = Region(DOMAIN mods.at)
    /\ DOMAIN mods.at = {c \in Inside : Telling(history[c]) # {}}
    /\ \A c \in DOMAIN mods.at : OneShape(history[c]) =>
         LET k == Max(Telling(history[c]))
         IN mods.at[c].kind = Kind(history[c], k) /\ mods.at[c].new = history[c][k].type

\* The chambers are the whole of what was modified, each in one piece and apart
\* from the others.
ChambersExact ==
    /\ UNION {ch.tiles : ch \in ExtractChambers} = DOMAIN mods.at
    /\ \A ch, dh \in ExtractChambers : ch # dh => \A a \in ch.tiles, b \in dh.tiles : a # b /\ ~Beside(a, b)
    /\ \A ch \in ExtractChambers : \A part \in (SUBSET ch.tiles) \ {{}, ch.tiles} :
         \E a \in part, b \in ch.tiles \ part : Beside(a, b)
===============================================================================
