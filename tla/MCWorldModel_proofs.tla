-------------------------- MODULE MCWorldModel_proofs --------------------------
(***************************************************************************)
(* Proofs about what the programs keep of the world, for every value of the *)
(* constants: the map overlay and the updates on their way to it, the names *)
(* of places and their file, the hazards and the modifications, the turns   *)
(* of the older program, the store of alerts, and last that the composition *)
(* which is model-checked has the properties of each.                       *)
(***************************************************************************)
EXTENDS MCWorldModel, SequenceTheorems, FiniteSetTheorems, WellFoundedInduction, TLAPS

\* The last update of a tile in a queue of deltas, or on the connection.
QueueAgrees(s, t, v) == \A i \in 1..Len(s) : t \in DOMAIN s[i] => s[i][t] = v
LastQueued(s, t, v) ==
  \E i \in 1..Len(s) : /\ t \in DOMAIN s[i] /\ s[i][t] = v
                       /\ \A j \in 1..Len(s) : j > i => t \notin DOMAIN s[j]
WireSkips(s, t) == \A i \in 1..Len(s) : t \notin DOMAIN s[i].tiles
LastOnWire(s, t, v) ==
  \E i \in 1..Len(s) : /\ t \in DOMAIN s[i].tiles /\ s[i].tiles[t] = v
                       /\ \A j \in 1..Len(s) : j > i => t \notin DOMAIN s[j].tiles

\* The value a tile of the overlay will have when all that is under way has been
\* taken in: that of its last update, or what the overlay has or is being given,
\* where the queue says nothing else.
Applies(t)   == applying # None /\ applying.gen = gen /\ t \in DOMAIN applying.tiles
Displayed(t) == IF Applies(t) THEN applying.tiles[t] ELSE overlay[t]
WillBe(t, v) ==
  \/ LastOnWire(wire, t, v)
  \/ WireSkips(wire, t) /\ LastQueued(tileCh, t, v)
  \/ WireSkips(wire, t) /\ QueueAgrees(tileCh, t, v) /\ Displayed(t) = v

\* In a session whose full state has been sent, every tile the plugin has in its
\* cache will be what the cache says, the suspect ones apart.
InStep == up /\ ~wanted
WillBeCached == InStep => \A t \in FortTiles \ suspect : cache[t] # None => WillBe(t, cache[t])

\* Once the full state of the session has been sent, there is an overlay or it is
\* under way; a delta that is applied was taken for this overlay or an earlier one.
FullUnderWay == \E i \in 1..Len(wire) : wire[i].kind = "full"
FullComes ==
  /\ InStep => overlay # None \/ FullUnderWay
  /\ applying # None => applying.gen <= gen

\* A push brings the whole cache up to date.
CacheIsMap == settled => cache = map

IInv == Sync!TypeOK /\ FullComes /\ CacheIsMap /\ WillBeCached

----------------------------------------------------------------------------
\* A delta or frame that joins a queue is the last to name its tiles, and leaves
\* the last update of the others what it was.
LEMMA QueueAppend ==
  ASSUME NEW s \in Seq(Sync!Deltas), NEW d \in Sync!Deltas, NEW t, NEW v
  PROVE  /\ t \in DOMAIN d => LastQueued(Append(s, d), t, d[t])
         /\ t \notin DOMAIN d /\ LastQueued(s, t, v) => LastQueued(Append(s, d), t, v)
         /\ t \notin DOMAIN d /\ QueueAgrees(s, t, v) => QueueAgrees(Append(s, d), t, v)
<1>1. /\ Len(s) \in Nat /\ Len(Append(s, d)) = Len(s) + 1 /\ Append(s, d)[Len(s) + 1] = d
      /\ \A i \in 1..Len(s) : Append(s, d)[i] = s[i]
  BY AppendProperties, LenProperties
<1>2. t \in DOMAIN d => LastQueued(Append(s, d), t, d[t])
  BY <1>1 DEF LastQueued
<1>3. ASSUME t \notin DOMAIN d, LastQueued(s, t, v) PROVE LastQueued(Append(s, d), t, v)
  BY <1>1, <1>3 DEF LastQueued
<1>4. ASSUME t \notin DOMAIN d, QueueAgrees(s, t, v) PROVE QueueAgrees(Append(s, d), t, v)
  BY <1>1, <1>4 DEF QueueAgrees
<1> QED BY <1>2, <1>3, <1>4

\* The same for the frames on the connection.
LEMMA WireAppend ==
  ASSUME NEW s \in Seq(Sync!Frames), NEW f \in Sync!Frames, NEW t, NEW v
  PROVE  /\ t \in DOMAIN f.tiles => LastOnWire(Append(s, f), t, f.tiles[t])
         /\ t \notin DOMAIN f.tiles /\ LastOnWire(s, t, v) => LastOnWire(Append(s, f), t, v)
         /\ t \notin DOMAIN f.tiles /\ WireSkips(s, t) => WireSkips(Append(s, f), t)
<1>1. /\ Len(s) \in Nat /\ Len(Append(s, f)) = Len(s) + 1 /\ Append(s, f)[Len(s) + 1] = f
      /\ \A i \in 1..Len(s) : Append(s, f)[i] = s[i]
  BY AppendProperties, LenProperties
<1>2. t \in DOMAIN f.tiles => LastOnWire(Append(s, f), t, f.tiles[t])
  BY <1>1 DEF LastOnWire
<1>3. ASSUME t \notin DOMAIN f.tiles, LastOnWire(s, t, v) PROVE LastOnWire(Append(s, f), t, v)
  BY <1>1, <1>3 DEF LastOnWire
<1>4. ASSUME t \notin DOMAIN f.tiles, WireSkips(s, t) PROVE WireSkips(Append(s, f), t)
  BY <1>1, <1>4 DEF WireSkips
<1> QED BY <1>2, <1>3, <1>4

\* When the first is taken, the last update of a tile is still in the queue or
\* is what was taken.
LEMMA QueueTail ==
  ASSUME NEW s \in Seq(Sync!Deltas), s # <<>>, NEW t, NEW v
  PROVE  /\ Head(s) \in Sync!Deltas /\ Tail(s) \in Seq(Sync!Deltas)
         /\ LastQueued(s, t, v) => \/ LastQueued(Tail(s), t, v)
                                   \/ /\ t \in DOMAIN Head(s) /\ Head(s)[t] = v
                                      /\ QueueAgrees(Tail(s), t, v)
         /\ QueueAgrees(s, t, v) => /\ QueueAgrees(Tail(s), t, v)
                                    /\ t \in DOMAIN Head(s) => Head(s)[t] = v
<1>1. /\ Head(s) = s[1] /\ Head(s) \in Sync!Deltas /\ Tail(s) \in Seq(Sync!Deltas)
      /\ Len(s) \in Nat /\ Len(s) >= 1 /\ Len(Tail(s)) = Len(s) - 1
      /\ \A i \in 1..Len(Tail(s)) : Tail(s)[i] = s[i + 1]
  BY HeadTailProperties, EmptySeq, LenProperties
<1>2. ASSUME LastQueued(s, t, v)
      PROVE  \/ LastQueued(Tail(s), t, v)
             \/ t \in DOMAIN Head(s) /\ Head(s)[t] = v /\ QueueAgrees(Tail(s), t, v)
  <2>1. PICK i \in 1..Len(s) : /\ t \in DOMAIN s[i] /\ s[i][t] = v
                               /\ \A j \in 1..Len(s) : j > i => t \notin DOMAIN s[j]
    BY <1>2 DEF LastQueued
  <2>2. CASE i = 1 BY <1>1, <2>1, <2>2 DEF QueueAgrees
  <2>3. CASE i > 1
    <3>1. i - 1 \in 1..Len(Tail(s)) /\ Tail(s)[i - 1] = s[i] BY <1>1, <2>3
    <3>2. \A j \in 1..Len(Tail(s)) : j > i - 1 => t \notin DOMAIN Tail(s)[j] BY <1>1, <2>1
    <3> QED BY <2>1, <3>1, <3>2 DEF LastQueued
  <2> QED BY <2>2, <2>3
<1>3. ASSUME QueueAgrees(s, t, v) PROVE QueueAgrees(Tail(s), t, v) /\ (t \in DOMAIN Head(s) => Head(s)[t] = v)
  BY <1>1, <1>3 DEF QueueAgrees
<1> QED BY <1>1, <1>2, <1>3

\* When the first frame is taken, the last update of a tile is still on the
\* connection, or was in that frame.
LEMMA WireTail ==
  ASSUME NEW s \in Seq(Sync!Frames), s # <<>>, NEW t, NEW v
  PROVE  /\ Head(s) \in Sync!Frames /\ Tail(s) \in Seq(Sync!Frames)
         /\ LastOnWire(s, t, v) => \/ LastOnWire(Tail(s), t, v)
                                   \/ /\ t \in DOMAIN Head(s).tiles /\ Head(s).tiles[t] = v
                                      /\ WireSkips(Tail(s), t)
         /\ WireSkips(s, t) => WireSkips(Tail(s), t) /\ t \notin DOMAIN Head(s).tiles
<1>1. /\ Head(s) = s[1] /\ Head(s) \in Sync!Frames /\ Tail(s) \in Seq(Sync!Frames)
      /\ Len(s) \in Nat /\ Len(s) >= 1 /\ Len(Tail(s)) = Len(s) - 1
      /\ \A i \in 1..Len(Tail(s)) : Tail(s)[i] = s[i + 1]
  BY HeadTailProperties, EmptySeq, LenProperties
<1>2. ASSUME LastOnWire(s, t, v)
      PROVE  \/ LastOnWire(Tail(s), t, v)
             \/ t \in DOMAIN Head(s).tiles /\ Head(s).tiles[t] = v /\ WireSkips(Tail(s), t)
  <2>1. PICK i \in 1..Len(s) : /\ t \in DOMAIN s[i].tiles /\ s[i].tiles[t] = v
                               /\ \A j \in 1..Len(s) : j > i => t \notin DOMAIN s[j].tiles
    BY <1>2 DEF LastOnWire
  <2>2. CASE i = 1 BY <1>1, <2>1, <2>2 DEF WireSkips
  <2>3. CASE i > 1
    <3>1. i - 1 \in 1..Len(Tail(s)) /\ Tail(s)[i - 1] = s[i] BY <1>1, <2>3
    <3>2. \A j \in 1..Len(Tail(s)) : j > i - 1 => t \notin DOMAIN Tail(s)[j].tiles BY <1>1, <2>1
    <3> QED BY <2>1, <3>1, <3>2 DEF LastOnWire
  <2> QED BY <2>2, <2>3
<1>3. ASSUME WireSkips(s, t) PROVE WireSkips(Tail(s), t) /\ t \notin DOMAIN Head(s).tiles
  BY <1>1, <1>3 DEF WireSkips
<1> QED BY <1>1, <1>2, <1>3

\* What kinds of frames there are decides which tiles they name.
LEMMA FrameTiles ==
  ASSUME NEW f \in Sync!Frames
  PROVE  /\ f.kind = "full" => f.tiles \in Sync!Map /\ DOMAIN f.tiles = FortTiles
         /\ f.kind = "delta" => f.tiles \in Sync!Deltas /\ DOMAIN f.tiles \subseteq FortTiles
         /\ f.kind \in {"full", "delta"}
<1>1. CASE f \in [kind : {"full"}, tiles : Sync!Map] BY <1>1 DEF Sync!Map
<1>2. CASE f \in [kind : {"delta"}, tiles : Sync!Deltas] BY <1>2 DEF Sync!Deltas
<1> QED BY <1>1, <1>2 DEF Sync!Frames

----------------------------------------------------------------------------
\* TypeOK in two parts: the queues, and the rest.
Queues == wire \in Seq(Sync!Frames) /\ late \in [1..MaxBreaks -> Seq(Sync!Frames)] /\ tileCh \in Seq(Sync!Deltas)
Scalars ==
  /\ map \in Sync!Map /\ cache \in [FortTiles -> Values \cup {None}]
  /\ wanted \in BOOLEAN /\ up \in BOOLEAN /\ settled \in BOOLEAN
  /\ Len(tileCh) <= TileCap
  /\ applying \in [tiles : Sync!Deltas, gen : Nat] \cup {None}
  /\ overlay \in Sync!Map \cup {None} /\ gen \in Nat
  /\ (overlay = None <=> gen = 0)
  /\ suspect \subseteq FortTiles
  /\ changes \in 0..MaxChanges /\ pushes \in 0..MaxPushes /\ breaks \in 0..MaxBreaks

\* TypeOK in parts: the queues, and the rest.
LEMMA TypeParts == Sync!TypeOK <=> Queues /\ Scalars
BY DEF Sync!TypeOK, Queues, Scalars

\* What a push sends is a delta, and what a request is answered with is a map.
LEMMA SentFrames ==
  ASSUME Sync!TypeOK
  PROVE  /\ [t \in Sync!Changed |-> map[t]] \in Sync!Deltas
         /\ [kind |-> "delta", tiles |-> [t \in Sync!Changed |-> map[t]]] \in Sync!Frames
         /\ [kind |-> "full", tiles |-> map] \in Sync!Frames
<1>1. Sync!Changed \subseteq FortTiles /\ map \in Sync!Map BY TypeParts DEF Sync!Changed, Scalars
<1>2. [t \in Sync!Changed |-> map[t]] \in [Sync!Changed -> Values] BY <1>1 DEF Sync!Map
<1>3. [t \in Sync!Changed |-> map[t]] \in Sync!Deltas BY <1>1, <1>2 DEF Sync!Deltas
<1> QED BY <1>1, <1>3 DEF Sync!Frames

\* Every step keeps the types of the connection and the channel.
LEMMA QueuesStep == ASSUME Sync!BoundsAssumption, Sync!TypeOK, [Sync!Next]_(Sync!vars) PROVE Queues'
<1>0. Queues BY TypeParts
<1> USE DEF Queues, Sync!pluginVars, Sync!serverVars, Sync!bounds
<1>1. CASE Sync!Push
  <2>1. wire' = wire \/ wire' = Append(wire, [kind |-> "delta", tiles |-> [t \in Sync!Changed |-> map[t]]])
    BY <1>1 DEF Sync!Push
  <2> QED BY <1>0, <1>1, <2>1, SentFrames, AppendProperties DEF Sync!Push
<1>2. CASE Sync!SendFullState
  BY <1>0, <1>2, SentFrames, AppendProperties DEF Sync!SendFullState
<1>3. CASE Sync!LinkBreaks
  <2>1. PICK k \in 0..Len(wire) : late' = [late EXCEPT ![breaks + 1] = SubSeq(wire, 1, k)]
    BY <1>3 DEF Sync!LinkBreaks
  <2>2. SubSeq(wire, 1, k) \in Seq(Sync!Frames) BY <1>0, SubSeqProperties, LenProperties
  <2> QED BY <1>0, <1>3, <2>1, <2>2, EmptySeq DEF Sync!LinkBreaks
<1>4. CASE Sync!ReceiveFull
  BY <1>0, <1>4, HeadTailProperties DEF Sync!ReceiveFull
<1>5. CASE Sync!ReceiveDelta
  <2>1. Head(wire) \in Sync!Frames /\ Tail(wire) \in Seq(Sync!Frames) BY <1>0, <1>5, HeadTailProperties DEF Sync!ReceiveDelta
  <2>2. Head(wire).tiles \in Sync!Deltas BY <1>5, <2>1, FrameTiles DEF Sync!ReceiveDelta
  <2>3. tileCh' = tileCh \/ tileCh' = Append(tileCh, Head(wire).tiles) BY <1>5 DEF Sync!ReceiveDelta
  <2>4. Append(tileCh, Head(wire).tiles) \in Seq(Sync!Deltas) BY <1>0, <2>2, AppendProperties
  <2> QED BY <1>0, <1>5, <2>1, <2>3, <2>4 DEF Sync!ReceiveDelta
<1>6. CASE Sync!TakeDelta
  BY <1>0, <1>6, HeadTailProperties DEF Sync!TakeDelta
<1>7. CASE Sync!ChangeTile \/ Sync!Reconnect \/ Sync!ApplyDelta \/ UNCHANGED Sync!vars
  BY <1>0, <1>7 DEF Sync!ChangeTile, Sync!Reconnect, Sync!ApplyDelta, Sync!vars
<1>8. ASSUME NEW c \in 1..MaxBreaks, Sync!ReceiveLate(c) PROVE Queues'
  <2> DEFINE f == Head(late[c])
  <2>1. f \in Sync!Frames /\ Tail(late[c]) \in Seq(Sync!Frames)
    BY <1>0, <1>8, HeadTailProperties DEF Sync!ReceiveLate
  <2>2. /\ wire' = wire /\ late' = [late EXCEPT ![c] = Tail(@)]
        /\ \/ tileCh' = tileCh
           \/ f.kind = "delta" /\ tileCh' = Append(tileCh, f.tiles)
    BY <1>8 DEF Sync!ReceiveLate
  <2>3. f.kind = "delta" => Append(tileCh, f.tiles) \in Seq(Sync!Deltas) BY <1>0, <2>1, FrameTiles, AppendProperties
  <2> QED BY <1>0, <2>1, <2>2, <2>3
<1> QED BY <1>1, <1>2, <1>3, <1>4, <1>5, <1>6, <1>7, <1>8 DEF Sync!Next

\* A delta is written into the overlay it finds, and leaves none where there was none.
LEMMA Applied ==
  ASSUME Sync!NoneAssumption, Sync!TypeOK, Sync!ApplyDelta
  PROVE  overlay' \in Sync!Map \cup {None} /\ (overlay' = None <=> overlay = None)
<1>0. applying \in [tiles : Sync!Deltas, gen : Nat] /\ overlay \in Sync!Map \cup {None}
  BY TypeParts DEF Scalars, Sync!ApplyDelta
<1>1. CASE overlay = None \/ applying.gen # gen
  BY <1>0, <1>1 DEF Sync!ApplyDelta
<1>2. CASE overlay # None /\ applying.gen = gen
  <2> DEFINE o == [t \in FortTiles |-> IF t \in DOMAIN applying.tiles THEN applying.tiles[t] ELSE overlay[t]]
  <2>1. PICK S \in SUBSET FortTiles : applying.tiles \in [S -> Values] BY <1>0 DEF Sync!Deltas
  <2>2. overlay \in [FortTiles -> Values] BY <1>0, <1>2 DEF Sync!Map
  <2>3. \A t \in FortTiles : (IF t \in DOMAIN applying.tiles THEN applying.tiles[t] ELSE overlay[t]) \in Values
    BY <2>1, <2>2
  <2>4. o \in Sync!Map BY <2>3 DEF Sync!Map
  <2>5. overlay' = o BY <1>2 DEF Sync!ApplyDelta
  <2> HIDE DEF o
  <2> QED BY <1>2, <2>4, <2>5 DEF Sync!NoneAssumption
<1> QED BY <1>1, <1>2

\* The full state of a session stays under way until it is installed, and what a
\* lost connection brings leaves an overlay where there was one.
LEMMA FullComesStep ==
  ASSUME Sync!NoneAssumption, Sync!TypeOK, FullComes, [Sync!Next]_(Sync!vars)
  PROVE  FullComes'
<1>0. Queues /\ Scalars BY TypeParts
<1>w. wire \in Seq(Sync!Frames) /\ Len(wire) \in Nat /\ gen \in Nat BY <1>0, LenProperties DEF Queues, Scalars
<1> USE DEF Sync!pluginVars, Sync!serverVars, Sync!bounds
<1>1. CASE Sync!Push
  <2> DEFINE f == [kind |-> "delta", tiles |-> [t \in Sync!Changed |-> map[t]]]
  <2>1. wire' = wire \/ wire' = Append(wire, f) BY <1>1 DEF Sync!Push
  <2>2. UNCHANGED <<up, wanted, overlay, gen, applying>> BY <1>1 DEF Sync!Push
  <2>3. FullUnderWay => FullUnderWay'
    <3>1. CASE wire' = wire BY <3>1 DEF FullUnderWay
    <3>2. CASE wire' = Append(wire, f)
      <4>1. Len(wire') = Len(wire) + 1 /\ \A i \in 1..Len(wire) : wire'[i] = wire[i]
        BY <1>w, <3>2, SentFrames, AppendProperties
      <4> QED BY <1>w, <4>1 DEF FullUnderWay
    <3> QED BY <2>1, <3>1, <3>2
  <2> QED BY <2>2, <2>3 DEF FullComes, InStep
<1>2. CASE Sync!SendFullState
  <2> DEFINE f == [kind |-> "full", tiles |-> map]
  <2>1. UNCHANGED <<gen, applying>> /\ wire' = Append(wire, f) BY <1>2 DEF Sync!SendFullState
  <2>2. Len(wire') = Len(wire) + 1 /\ wire'[Len(wire) + 1].kind = "full" BY <1>w, <2>1, SentFrames, AppendProperties
  <2>3. FullUnderWay' BY <1>w, <2>2 DEF FullUnderWay
  <2> QED BY <2>1, <2>3 DEF FullComes
<1>3. CASE Sync!LinkBreaks \/ Sync!Reconnect
  <2>1. ~InStep' /\ UNCHANGED <<gen, applying>> BY <1>3 DEF Sync!LinkBreaks, Sync!Reconnect, InStep
  <2> QED BY <2>1 DEF FullComes
<1>4. CASE Sync!ReceiveFull
  <2>1. Head(wire) \in Sync!Frames BY <1>w, <1>4, HeadTailProperties DEF Sync!ReceiveFull
  <2>2. overlay' # None /\ gen' = gen + 1 /\ applying' = applying
    BY <1>4, <2>1, FrameTiles DEF Sync!ReceiveFull, Sync!NoneAssumption
  <2>3. applying # None => applying.gen \in Nat BY <1>0 DEF Scalars
  <2> QED BY <1>w, <2>2, <2>3 DEF FullComes
<1>5. CASE Sync!ReceiveDelta
  <2>1. /\ wire' = Tail(wire) /\ UNCHANGED <<up, wanted, applying, overlay, gen>>
        /\ wire[1].kind # "full" /\ Len(wire') = Len(wire) - 1 /\ \A i \in 1..Len(wire') : wire'[i] = wire[i + 1]
    BY <1>w, <1>5, HeadTailProperties, EmptySeq DEF Sync!ReceiveDelta
  <2>2. ASSUME FullUnderWay PROVE FullUnderWay'
    <3>1. PICK i \in 1..Len(wire) : wire[i].kind = "full" BY <2>2 DEF FullUnderWay
    <3>2. i - 1 \in 1..Len(wire') /\ wire'[i - 1].kind = "full" BY <1>w, <2>1, <3>1
    <3> QED BY <3>2 DEF FullUnderWay
  <2> QED BY <2>1, <2>2 DEF FullComes, InStep
<1>6. ASSUME NEW c \in 1..MaxBreaks, Sync!ReceiveLate(c) PROVE FullComes'
  <2>1. Head(late[c]) \in Sync!Frames BY <1>0, <1>6, HeadTailProperties DEF Sync!ReceiveLate, Queues
  <2>2. UNCHANGED <<wire, up, wanted, applying>> BY <1>6 DEF Sync!ReceiveLate
  <2>3. \/ UNCHANGED <<overlay, gen>>
        \/ overlay' # None /\ gen' = gen + 1
    BY <1>6, <2>1, FrameTiles DEF Sync!ReceiveLate, Sync!NoneAssumption
  <2>4. applying # None => applying.gen \in Nat BY <1>0 DEF Scalars
  <2> QED BY <1>w, <2>2, <2>3, <2>4 DEF FullComes, FullUnderWay, InStep
<1>7. CASE Sync!TakeDelta
  <2>1. UNCHANGED <<wire, up, wanted, overlay, gen>> /\ applying'.gen = gen BY <1>7 DEF Sync!TakeDelta
  <2> QED BY <1>w, <2>1 DEF FullComes, FullUnderWay, InStep
<1>8. CASE Sync!ApplyDelta
  <2>1. UNCHANGED <<wire, up, wanted, gen>> /\ applying' = None BY <1>8 DEF Sync!ApplyDelta
  <2>2. overlay # None => overlay' # None BY <1>8, Applied
  <2> QED BY <2>1, <2>2 DEF FullComes, FullUnderWay, InStep
<1>9. CASE Sync!ChangeTile \/ UNCHANGED Sync!vars
  <2>1. UNCHANGED <<wire, up, wanted, overlay, gen, applying>> BY <1>9 DEF Sync!ChangeTile, Sync!vars
  <2> QED BY <2>1 DEF FullComes, FullUnderWay, InStep
<1> QED BY <1>1, <1>2, <1>3, <1>4, <1>5, <1>6, <1>7, <1>8, <1>9 DEF Sync!Next

\* The rest of TypeOK.
LEMMA ScalarsStep ==
  ASSUME Sync!NoneAssumption, Sync!BoundsAssumption, Sync!TypeOK, [Sync!Next]_(Sync!vars)
  PROVE  Scalars'
<1>0. Queues /\ Scalars BY TypeParts
<1>b. {TileCap, MaxChanges, MaxPushes, MaxBreaks} \subseteq Nat BY DEF Sync!BoundsAssumption
<1> USE DEF Sync!pluginVars, Sync!serverVars, Sync!bounds
<1>1. CASE Sync!ChangeTile
  <2>1. map' \in Sync!Map BY <1>0, <1>1 DEF Sync!ChangeTile, Sync!Map, Scalars
  <2>2. changes' \in 0..MaxChanges BY <1>0, <1>b, <1>1 DEF Sync!ChangeTile, Scalars
  <2> QED BY <1>0, <1>1, <2>1, <2>2 DEF Sync!ChangeTile, Scalars
<1>2. CASE Sync!Push
  <2>1. map \in [FortTiles -> Values \cup {None}] BY <1>0 DEF Scalars, Sync!Map
  <2> QED BY <1>0, <1>b, <1>2, <2>1 DEF Sync!Push, Scalars
<1>3. CASE Sync!SendFullState
  BY <1>0, <1>3 DEF Sync!SendFullState, Scalars, Sync!Changed
<1>4. CASE Sync!LinkBreaks
  <2>1. breaks' \in 0..MaxBreaks BY <1>0, <1>b, <1>4 DEF Sync!LinkBreaks, Scalars
  <2> QED BY <1>0, <1>4, <2>1 DEF Sync!LinkBreaks, Scalars
<1>5. CASE Sync!Reconnect
  BY <1>0, <1>5 DEF Sync!Reconnect, Scalars
<1>6. CASE Sync!ReceiveFull
  <2>1. /\ Head(wire) \in Sync!Frames /\ Head(wire) = wire[1] /\ 1 \in 1..Len(wire)
    BY <1>0, <1>6, HeadTailProperties, EmptySeq, LenProperties DEF Sync!ReceiveFull, Queues
  <2>2. overlay' \in Sync!Map /\ overlay' # None
    BY <1>6, <2>1, FrameTiles DEF Sync!ReceiveFull, Sync!NoneAssumption
  <2>4. gen' = gen + 1 /\ gen' \in Nat /\ gen' # 0 BY <1>0, <1>6 DEF Sync!ReceiveFull, Scalars
  <2>5. suspect' \subseteq FortTiles
    <3>1. \A k \in DOMAIN tileCh : DOMAIN tileCh[k] \subseteq FortTiles
      BY <1>0 DEF Queues, Sync!Deltas
    <3> QED BY <1>0, <1>6, <3>1 DEF Sync!ReceiveFull, Scalars
  <2> QED BY <1>0, <1>6, <2>2, <2>4, <2>5 DEF Sync!ReceiveFull, Scalars
<1>7. CASE Sync!ReceiveDelta
  <2>1. Head(wire) \in Sync!Frames BY <1>0, <1>7, HeadTailProperties DEF Sync!ReceiveDelta, Queues
  <2>2. Head(wire).tiles \in Sync!Deltas /\ DOMAIN Head(wire).tiles \subseteq FortTiles
    BY <1>7, <2>1, FrameTiles DEF Sync!ReceiveDelta
  <2>3. suspect' \subseteq FortTiles BY <1>0, <1>7, <2>2 DEF Sync!ReceiveDelta, Scalars
  <2>4. Len(tileCh') <= TileCap
    <3>1. CASE tileCh' = tileCh BY <1>0, <3>1 DEF Scalars
    <3>2. CASE Len(tileCh) < TileCap /\ tileCh' = Append(tileCh, Head(wire).tiles)
      <4>1. Len(tileCh') = Len(tileCh) + 1 /\ Len(tileCh) \in Nat
        BY <1>0, <2>2, <3>2, AppendProperties, LenProperties DEF Queues
      <4> QED BY <1>b, <3>2, <4>1
    <3> QED BY <1>7, <3>1, <3>2 DEF Sync!ReceiveDelta
  <2> QED BY <1>0, <1>7, <2>3, <2>4 DEF Sync!ReceiveDelta, Scalars
<1>8. CASE Sync!TakeDelta
  <2>1. Head(tileCh) \in Sync!Deltas /\ Len(tileCh') = Len(tileCh) - 1 /\ Len(tileCh) \in Nat
    BY <1>0, <1>8, HeadTailProperties, LenProperties DEF Sync!TakeDelta, Queues
  <2>2. Len(tileCh') <= TileCap BY <1>0, <1>b, <2>1 DEF Scalars
  <2>3. gen \in Nat BY <1>0 DEF Scalars
  <2>4. applying' \in [tiles : Sync!Deltas, gen : Nat] BY <1>8, <2>1, <2>3 DEF Sync!TakeDelta
  <2> QED BY <1>0, <1>8, <2>2, <2>4 DEF Sync!TakeDelta, Scalars
<1>9. CASE Sync!ApplyDelta
  BY <1>0, <1>9, Applied DEF Sync!ApplyDelta, Scalars
<1>10. CASE UNCHANGED Sync!vars
  BY <1>0, <1>10 DEF Sync!vars, Scalars
<1>11. ASSUME NEW c \in 1..MaxBreaks, Sync!ReceiveLate(c) PROVE Scalars'
  <2> DEFINE f == Head(late[c])
  <2>1. f \in Sync!Frames BY <1>0, <1>11, HeadTailProperties DEF Sync!ReceiveLate, Queues
  <2>2. DOMAIN f.tiles \subseteq FortTiles BY <2>1, FrameTiles
  <2>3. suspect' \subseteq FortTiles BY <1>0, <1>11, <2>2 DEF Sync!ReceiveLate, Scalars
  <2>4. Len(tileCh') <= TileCap
    <3>1. CASE tileCh' = tileCh BY <1>0, <3>1 DEF Scalars
    <3>2. CASE f.kind = "delta" /\ Len(tileCh) < TileCap /\ tileCh' = Append(tileCh, f.tiles)
      <4>1. Len(tileCh') = Len(tileCh) + 1 /\ Len(tileCh) \in Nat
        BY <1>0, <2>1, <3>2, FrameTiles, AppendProperties, LenProperties DEF Queues
      <4> QED BY <1>b, <3>2, <4>1
    <3> QED BY <1>11, <3>1, <3>2 DEF Sync!ReceiveLate
  <2>5. \/ UNCHANGED <<overlay, gen>>
        \/ f.kind = "full" /\ overlay' = f.tiles /\ gen' = gen + 1
    BY <1>11 DEF Sync!ReceiveLate
  <2>6. /\ overlay' \in Sync!Map \cup {None} /\ gen' \in Nat /\ (overlay' = None <=> gen' = 0)
    BY <1>0, <2>1, <2>5, FrameTiles DEF Scalars, Sync!NoneAssumption
  <2> QED BY <1>0, <1>11, <2>3, <2>4, <2>6 DEF Sync!ReceiveLate, Scalars
<1> QED BY <1>1, <1>2, <1>3, <1>4, <1>5, <1>6, <1>7, <1>8, <1>9, <1>10, <1>11 DEF Sync!Next

\* A push brings the cache up to the map, and a change of the map unsettles it.
LEMMA CacheStep == ASSUME CacheIsMap, [Sync!Next]_(Sync!vars) PROVE CacheIsMap'
<1> USE DEF CacheIsMap, Sync!pluginVars, Sync!serverVars, Sync!bounds
<1>1. CASE Sync!ChangeTile \/ Sync!Push \/ UNCHANGED Sync!vars BY <1>1 DEF Sync!ChangeTile, Sync!Push, Sync!vars
<1>2. CASE Sync!SendFullState \/ Sync!LinkBreaks \/ Sync!Reconnect BY <1>2 DEF Sync!SendFullState, Sync!LinkBreaks, Sync!Reconnect
<1>3. CASE Sync!ReceiveFull \/ Sync!ReceiveDelta \/ Sync!TakeDelta \/ Sync!ApplyDelta
  BY <1>3 DEF Sync!ReceiveFull, Sync!ReceiveDelta, Sync!TakeDelta, Sync!ApplyDelta
<1>4. ASSUME NEW c \in 1..MaxBreaks, Sync!ReceiveLate(c) PROVE CacheIsMap' BY <1>4 DEF Sync!ReceiveLate
<1> QED BY <1>1, <1>2, <1>3, <1>4 DEF Sync!Next

\* A full state names every tile: while one is under way, what a tile will be is
\* on the connection.
LEMMA FullNamesAll ==
  ASSUME Sync!TypeOK, FullUnderWay, NEW t \in FortTiles, NEW v, WillBe(t, v)
  PROVE  LastOnWire(wire, t, v)
<1>1. PICK i \in 1..Len(wire) : wire[i].kind = "full" BY DEF FullUnderWay
<1>2. wire[i] \in Sync!Frames BY <1>1, TypeParts DEF Queues
<1>3. t \in DOMAIN wire[i].tiles BY <1>1, <1>2, FrameTiles
<1> QED BY <1>1, <1>3 DEF WillBe, WireSkips

\* What keeps the cache's value of a tile on its way to the overlay.
LEMMA WillBeStep ==
  ASSUME Sync!NoneAssumption, Sync!TypeOK, FullComes, WillBeCached, [Sync!Next]_(Sync!vars)
  PROVE  WillBeCached'
<1>0. Queues /\ Scalars BY TypeParts
<1> SUFFICES ASSUME InStep', NEW t \in FortTiles, t \notin suspect', NEW v, v = cache'[t], v # None
             PROVE  WillBe(t, v)'
  BY DEF WillBeCached
<1>q. wire \in Seq(Sync!Frames) /\ tileCh \in Seq(Sync!Deltas) BY <1>0 DEF Queues
<1>h. InStep /\ t \notin suspect /\ v = cache[t] => WillBe(t, v) BY DEF WillBeCached
<1> USE DEF Sync!pluginVars, Sync!serverVars, Sync!bounds
<1>1. CASE Sync!Push
  <2> DEFINE f == [kind |-> "delta", tiles |-> [x \in Sync!Changed |-> map[x]]]
  <2>1. /\ UNCHANGED <<tileCh, applying, overlay, gen, up, wanted>> /\ v = map[t]
        /\ wire' = IF Sync!Changed = {} THEN wire ELSE Append(wire, f)
        /\ suspect' = suspect \ Sync!Changed
    BY <1>1 DEF Sync!Push
  <2>2. f \in Sync!Frames BY SentFrames
  <2>3. DOMAIN f.tiles = Sync!Changed OBVIOUS
  <2>4. CASE t \in Sync!Changed
    <3>1. wire' = Append(wire, f) /\ f.tiles[t] = v BY <2>1, <2>4
    <3>2. LastOnWire(Append(wire, f), t, f.tiles[t]) BY <1>q, <2>2, <2>3, <2>4, WireAppend
    <3>3. LastOnWire(wire', t, v) BY <3>1, <3>2
    <3> QED BY <3>3 DEF WillBe
  <2>5. CASE t \notin Sync!Changed
    <3>1. InStep /\ t \notin suspect /\ v = cache[t] BY <2>1, <2>5 DEF InStep, Sync!Changed
    <3>2. WillBe(t, v) BY <1>h, <3>1
    <3>3. /\ LastOnWire(wire, t, v) => LastOnWire(wire', t, v)
          /\ WireSkips(wire, t) => WireSkips(wire', t)
      <4> HIDE DEF f
      <4>1. /\ LastOnWire(wire, t, v) => LastOnWire(Append(wire, f), t, v)
            /\ WireSkips(wire, t) => WireSkips(Append(wire, f), t)
        BY <1>q, <2>2, <2>3, <2>5, WireAppend
      <4> QED BY <2>1, <4>1
    <3>4. Displayed(t)' = Displayed(t) BY <2>1 DEF Displayed, Applies
    <3> QED BY <2>1, <3>2, <3>3, <3>4 DEF WillBe
  <2> QED BY <2>4, <2>5
<1>2. CASE Sync!SendFullState
  <2> DEFINE f == [kind |-> "full", tiles |-> map]
  <2>1. f \in Sync!Frames /\ DOMAIN f.tiles = FortTiles BY <1>0, SentFrames DEF Scalars, Sync!Map
  <2>2. wire' = Append(wire, f) /\ f.tiles[t] = v BY <1>2 DEF Sync!SendFullState, Sync!Changed
  <2>3. LastOnWire(Append(wire, f), t, f.tiles[t])
    <3> HIDE DEF f
    <3> QED BY <1>q, <2>1, WireAppend
  <2>4. LastOnWire(wire', t, v) BY <2>2, <2>3
  <2> QED BY <2>4 DEF WillBe
<1>3. CASE Sync!ReceiveFull
  <2>1. /\ wire # <<>> /\ wire' = Tail(wire) /\ overlay' = Head(wire).tiles /\ gen' = gen + 1
        /\ Head(wire).kind = "full" /\ UNCHANGED <<tileCh, applying, cache, up, wanted>>
        /\ t \notin suspect /\ \A k \in DOMAIN tileCh : t \in DOMAIN tileCh[k] => tileCh[k][t] = overlay'[t]
    BY <1>3 DEF Sync!ReceiveFull
  <2>2. Head(wire) = wire[1] /\ 1 \in 1..Len(wire) /\ DOMAIN tileCh = 1..Len(tileCh)
    BY <1>q, <2>1, HeadTailProperties, EmptySeq, LenProperties
  <2>3. FullUnderWay BY <2>1, <2>2 DEF FullUnderWay
  <2>4. WillBe(t, v) BY <1>h, <2>1 DEF InStep
  <2>5. LastOnWire(wire, t, v) BY <2>3, <2>4, FullNamesAll
  <2>6. \/ LastOnWire(Tail(wire), t, v)
        \/ t \in DOMAIN Head(wire).tiles /\ Head(wire).tiles[t] = v /\ WireSkips(Tail(wire), t)
    BY <1>q, <2>1, <2>5, WireTail
  <2>7. CASE LastOnWire(Tail(wire), t, v) BY <2>1, <2>7 DEF WillBe
  <2>8. CASE Head(wire).tiles[t] = v /\ WireSkips(Tail(wire), t)
    <3>1. overlay'[t] = v /\ QueueAgrees(tileCh', t, v) BY <2>1, <2>2, <2>8 DEF QueueAgrees
    <3>2. ~Applies(t)' BY <1>0, <2>1 DEF Applies, FullComes, Scalars
    <3>3. Displayed(t)' = v BY <3>1, <3>2 DEF Displayed
    <3> QED BY <2>1, <2>8, <3>1, <3>3 DEF WillBe
  <2> QED BY <2>6, <2>7, <2>8
<1>4. CASE Sync!ReceiveDelta
  <2>1. /\ wire # <<>> /\ wire' = Tail(wire) /\ UNCHANGED <<cache, up, wanted, applying, overlay, gen>>
        /\ Head(wire).kind = "delta" /\ t \notin suspect
        /\ \/ tileCh' = Append(tileCh, Head(wire).tiles)
           \/ tileCh' = tileCh /\ t \notin DOMAIN Head(wire).tiles
    BY <1>4 DEF Sync!ReceiveDelta
  <2>2. WillBe(t, v) BY <1>h, <2>1 DEF InStep
  <2>3. /\ LastOnWire(wire, t, v) => \/ LastOnWire(wire', t, v)
                                     \/ /\ t \in DOMAIN Head(wire).tiles /\ Head(wire).tiles[t] = v
                                        /\ WireSkips(wire', t)
        /\ WireSkips(wire, t) => WireSkips(wire', t) /\ t \notin DOMAIN Head(wire).tiles
        /\ Head(wire) \in Sync!Frames
    BY <1>q, <2>1, WireTail
  <2>4. Head(wire).tiles \in Sync!Deltas BY <2>1, <2>3, FrameTiles
  <2>5. Displayed(t)' = Displayed(t) BY <2>1 DEF Displayed, Applies
  <2>6. CASE LastOnWire(wire', t, v) BY <2>6 DEF WillBe
  <2>7. CASE t \in DOMAIN Head(wire).tiles /\ Head(wire).tiles[t] = v /\ WireSkips(wire', t)
    <3>1. LastQueued(tileCh', t, v) BY <1>q, <2>1, <2>4, <2>7, QueueAppend
    <3> QED BY <2>7, <3>1 DEF WillBe
  <2>8. CASE WireSkips(wire, t)
    <3>1. /\ LastQueued(tileCh, t, v) => LastQueued(tileCh', t, v)
          /\ QueueAgrees(tileCh, t, v) => QueueAgrees(tileCh', t, v)
      BY <1>q, <2>1, <2>3, <2>4, <2>8, QueueAppend
    <3>2. CASE LastOnWire(wire, t, v) BY <2>3, <2>8, <3>2, <2>6
    <3>3. CASE LastQueued(tileCh, t, v) BY <2>3, <2>8, <3>1, <3>3 DEF WillBe
    <3>4. CASE QueueAgrees(tileCh, t, v) /\ Displayed(t) = v BY <2>3, <2>5, <2>8, <3>1, <3>4 DEF WillBe
    <3> QED BY <2>2, <3>2, <3>3, <3>4 DEF WillBe
  <2> QED BY <2>2, <2>3, <2>6, <2>7, <2>8 DEF WillBe
<1>5. CASE Sync!TakeDelta
  <2>1. /\ tileCh # <<>> /\ tileCh' = Tail(tileCh) /\ applying = None
        /\ applying' = [tiles |-> Head(tileCh), gen |-> gen]
        /\ UNCHANGED <<wire, cache, up, wanted, overlay, gen, suspect>>
    BY <1>5 DEF Sync!TakeDelta
  <2>2. WillBe(t, v) BY <1>h, <2>1 DEF InStep
  <2>3. /\ Head(tileCh) \in Sync!Deltas
        /\ LastQueued(tileCh, t, v) => \/ LastQueued(tileCh', t, v)
                                       \/ /\ t \in DOMAIN Head(tileCh) /\ Head(tileCh)[t] = v
                                          /\ QueueAgrees(tileCh', t, v)
        /\ QueueAgrees(tileCh, t, v) => /\ QueueAgrees(tileCh', t, v)
                                        /\ t \in DOMAIN Head(tileCh) => Head(tileCh)[t] = v
    BY <1>q, <2>1, QueueTail
  <2>4. applying' # None
    <3>1. [tiles |-> Head(tileCh), gen |-> gen] \in [tiles : Sync!Deltas, gen : Nat]
      BY <1>0, <2>3 DEF Scalars
    <3> QED BY <2>1, <3>1 DEF Sync!NoneAssumption
  <2>5. Displayed(t)' = IF t \in DOMAIN Head(tileCh) THEN Head(tileCh)[t] ELSE overlay[t]
    BY <2>1, <2>4 DEF Displayed, Applies
  <2>6. Displayed(t) = overlay[t] BY <2>1 DEF Displayed, Applies
  <2>7. CASE LastOnWire(wire, t, v) BY <2>1, <2>7 DEF WillBe
  <2>8. CASE WireSkips(wire, t) /\ LastQueued(tileCh, t, v)
    BY <2>1, <2>3, <2>5, <2>8 DEF WillBe
  <2>9. CASE WireSkips(wire, t) /\ QueueAgrees(tileCh, t, v) /\ Displayed(t) = v
    <3>0. QueueAgrees(tileCh, t, v) BY <2>9
    <3>1. QueueAgrees(tileCh', t, v) /\ (t \in DOMAIN Head(tileCh) => Head(tileCh)[t] = v)
      BY <1>q, <2>1, <3>0, QueueTail
    <3>2. overlay[t] = v BY <2>6, <2>9
    <3>3. Displayed(t)' = v BY <2>5, <3>1, <3>2
    <3> QED BY <2>1, <2>9, <3>1, <3>3 DEF WillBe
  <2> QED BY <2>2, <2>7, <2>8, <2>9 DEF WillBe
<1>6. CASE Sync!ApplyDelta
  <2>1. UNCHANGED <<wire, tileCh, cache, up, wanted, gen, suspect>> /\ applying # None /\ applying' = None
    BY <1>6 DEF Sync!ApplyDelta
  <2>2. WillBe(t, v) /\ InStep BY <1>h, <2>1 DEF InStep
  <2>3. CASE overlay = None
    <3>1. FullUnderWay BY <2>2, <2>3 DEF FullComes
    <3>2. LastOnWire(wire, t, v) BY <2>2, <3>1, FullNamesAll
    <3> QED BY <2>1, <3>2 DEF WillBe
  <2>4. CASE overlay # None
    <3>1. Displayed(t)' = overlay'[t] BY <2>1 DEF Displayed, Applies
    <3>2. overlay'[t] = Displayed(t) BY <1>6, <2>1, <2>4 DEF Sync!ApplyDelta, Displayed, Applies
    <3> QED BY <2>1, <2>2, <3>1, <3>2 DEF WillBe
  <2> QED BY <2>3, <2>4
<1>7. CASE Sync!LinkBreaks \/ Sync!Reconnect
  BY <1>7 DEF Sync!LinkBreaks, Sync!Reconnect, InStep
<1>8. CASE Sync!ChangeTile \/ UNCHANGED Sync!vars
  <2>1. UNCHANGED <<wire, tileCh, applying, overlay, gen, cache, up, wanted, suspect>>
    BY <1>8 DEF Sync!ChangeTile, Sync!vars
  <2>2. WillBe(t, v) BY <1>h, <2>1 DEF InStep
  <2>3. Displayed(t)' = Displayed(t) BY <2>1 DEF Displayed, Applies
  <2> QED BY <2>1, <2>2, <2>3 DEF WillBe
<1>9. ASSUME NEW c \in 1..MaxBreaks, Sync!ReceiveLate(c) PROVE WillBe(t, v)'
  <2> DEFINE f == Head(late[c])
  <2>1. f \in Sync!Frames BY <1>0, <1>9, HeadTailProperties DEF Sync!ReceiveLate, Queues
  <2>2. UNCHANGED <<wire, up, wanted, applying, cache>> /\ t \notin suspect BY <1>9 DEF Sync!ReceiveLate
  <2>3. WillBe(t, v) /\ InStep BY <1>h, <2>2 DEF InStep
  <2>4. CASE FullUnderWay
    <3>1. LastOnWire(wire, t, v) BY <2>3, <2>4, FullNamesAll
    <3> QED BY <2>2, <3>1 DEF WillBe
  <2>5. CASE UNCHANGED <<tileCh, overlay, gen>>
    <3>1. Displayed(t)' = Displayed(t) BY <2>2, <2>5 DEF Displayed, Applies
    <3> QED BY <2>2, <2>3, <2>5, <3>1 DEF WillBe
  <2>6. CASE ~FullUnderWay /\ ~UNCHANGED <<tileCh, overlay, gen>>
    <3>1. ~Sync!FullAhead BY <2>3, <2>6 DEF Sync!FullAhead, FullUnderWay, InStep
    <3>2. t \in DOMAIN f.tiles => f.tiles[t] = v BY <1>9, <2>2, <2>6, <3>1 DEF Sync!ReceiveLate
    <3>3. \/ f.kind = "full" /\ overlay' = f.tiles /\ gen' = gen + 1 /\ tileCh' = tileCh
          \/ f.kind = "delta" /\ tileCh' = Append(tileCh, f.tiles) /\ UNCHANGED <<overlay, gen>>
      BY <1>9, <2>6 DEF Sync!ReceiveLate
    <3>4. CASE LastOnWire(wire, t, v) BY <2>2, <3>4 DEF WillBe
    <3>5. CASE WireSkips(wire, t) /\ f.kind = "full" /\ overlay' = f.tiles /\ gen' = gen + 1 /\ tileCh' = tileCh
      <4>1. overlay'[t] = v BY <2>1, <3>2, <3>5, FrameTiles
      <4>2. ~Applies(t)' BY <1>0, <2>2, <3>5 DEF Applies, FullComes, Scalars
      <4>3. Displayed(t)' = v BY <4>1, <4>2 DEF Displayed
      <4> QED BY <2>2, <2>3, <3>4, <3>5, <4>3 DEF WillBe
    <3>6. CASE WireSkips(wire, t) /\ f.kind = "delta" /\ tileCh' = Append(tileCh, f.tiles) /\ UNCHANGED <<overlay, gen>>
      <4>1. f.tiles \in Sync!Deltas BY <2>1, <3>6, FrameTiles
      <4>2. Displayed(t)' = Displayed(t) BY <2>2, <3>6 DEF Displayed, Applies
      <4>3. /\ t \in DOMAIN f.tiles => LastQueued(tileCh', t, v)
            /\ t \notin DOMAIN f.tiles /\ LastQueued(tileCh, t, v) => LastQueued(tileCh', t, v)
            /\ t \notin DOMAIN f.tiles /\ QueueAgrees(tileCh, t, v) => QueueAgrees(tileCh', t, v)
        BY <1>q, <3>2, <3>6, <4>1, QueueAppend
      <4> QED BY <2>2, <2>3, <3>4, <3>6, <4>2, <4>3 DEF WillBe
    <3> QED BY <2>3, <3>3, <3>4, <3>5, <3>6 DEF WillBe
  <2> QED BY <2>4, <2>5, <2>6
<1> QED BY <1>1, <1>2, <1>3, <1>4, <1>5, <1>6, <1>7, <1>8, <1>9 DEF Sync!Next

----------------------------------------------------------------------------
\* Nothing is under way at the start.
LEMMA InitIInv == ASSUME Sync!NoneAssumption, Sync!BoundsAssumption, Sync!Init PROVE IInv
<1>1. Queues BY EmptySeq DEF Sync!Init, Queues, Sync!BoundsAssumption
<1>2. Scalars
  <2>1. {TileCap, MaxChanges, MaxPushes, MaxBreaks} \subseteq Nat BY DEF Sync!BoundsAssumption
  <2>2. Len(tileCh) = 0 BY EmptySeq DEF Sync!Init
  <2>3. map \in Sync!Map /\ cache \in [FortTiles -> Values \cup {None}] BY DEF Sync!Init
  <2>4. Len(tileCh) <= TileCap /\ gen \in Nat BY <2>1, <2>2 DEF Sync!Init
  <2>5. changes \in 0..MaxChanges /\ pushes \in 0..MaxPushes /\ breaks \in 0..MaxBreaks
    BY <2>1 DEF Sync!Init
  <2> QED BY <2>3, <2>4, <2>5 DEF Sync!Init, Scalars
<1>3. FullComes BY DEF Sync!Init, FullComes, InStep
<1>4. CacheIsMap /\ WillBeCached BY DEF Sync!Init, CacheIsMap, WillBeCached, InStep
<1> QED BY <1>1, <1>2, <1>3, <1>4, TypeParts DEF IInv

\* Every step keeps the inductive invariant.
LEMMA NextIInv == ASSUME Sync!NoneAssumption, Sync!BoundsAssumption, IInv, [Sync!Next]_(Sync!vars) PROVE IInv'
<1>1. Sync!TypeOK /\ FullComes /\ CacheIsMap /\ WillBeCached BY DEF IInv
<1>2. Queues' /\ Scalars' BY <1>1, QueuesStep, ScalarsStep
<1>3. Sync!TypeOK' BY <1>2 DEF Sync!TypeOK, Queues, Scalars
<1> QED BY <1>1, <1>3, FullComesStep, CacheStep, WillBeStep DEF IInv

\* When all is quiet nothing is on the connection or the channel and no delta is
\* being applied, so what a tile will be is what the overlay has.
LEMMA QuietIsGrounded == ASSUME Sync!NoneAssumption, IInv PROVE Sync!GroundedElsewhere
<1> SUFFICES ASSUME Sync!Quiet, NEW t \in FortTiles \ suspect PROVE overlay[t] = map[t]
  BY DEF Sync!GroundedElsewhere
<1>1. cache = map /\ InStep BY DEF IInv, CacheIsMap, Sync!Quiet, InStep
<1>2. cache[t] # None
  <2>1. map[t] \in Values BY TypeParts DEF IInv, Scalars, Sync!Map
  <2> QED BY <1>1, <2>1 DEF Sync!NoneAssumption
<1>3. WillBe(t, map[t]) BY <1>1, <1>2 DEF IInv, WillBeCached
<1>4. Len(wire) = 0 /\ Len(tileCh) = 0 BY EmptySeq DEF Sync!Quiet
<1>5. Displayed(t) = map[t] BY <1>3, <1>4 DEF WillBe, LastOnWire, LastQueued
<1> QED BY <1>5 DEF Displayed, Applies, Sync!Quiet

\* The inductive invariant, for every value of the constants.
THEOREM Invariant == ASSUME Sync!NoneAssumption, Sync!BoundsAssumption PROVE Sync!Spec => []IInv
<1>1. Sync!Init => IInv BY InitIInv
<1>2. IInv /\ [Sync!Next]_(Sync!vars) => IInv' BY NextIInv
<1> QED BY <1>1, <1>2, PTL DEF Sync!Spec

\* Type correctness of the plugin's cache, the connection, the channel and the
\* overlay.
THEOREM TypeCorrect == ASSUME Sync!NoneAssumption, Sync!BoundsAssumption PROVE Sync!Spec => []Sync!TypeOK
<1>1. IInv => Sync!TypeOK BY DEF IInv
<1> QED BY <1>1, Invariant, PTL

\* Once every update sent has been taken in, the overlay agrees with the fort on
\* every tile that is not suspect.
THEOREM Grounded == ASSUME Sync!NoneAssumption, Sync!BoundsAssumption PROVE Sync!Spec => []Sync!GroundedElsewhere
<1>1. IInv => Sync!GroundedElsewhere BY QuietIsGrounded
<1> QED BY <1>1, Invariant, PTL

----------------------------------------------------------------------------
(* The names of places: memory and file.                                    *)

\* Names that have been reported and that no race has put at risk.
Safe == reported \ exposed

Writing == {t \in Tools : stage[t] \in {"write", "torn"}}

\* Memory and file hold the safe names, unless the file is being written or a
\* write that failed has left it broken.
InMemory == loaded => Safe \subseteq items
OnDisk   == /\ file.is = "whole" => Safe \subseteq file.names
            /\ file.is = "torn" => (\E t \in Tools : stage[t] = "torn") \/ Safe = {}
            /\ file.is = "missing" => reported = {} /\ \A t \in Tools : stage[t] # "torn"

\* What a call is about to write has the safe names, and those which calls under
\* way have put in memory.
CopyHasSafe == \A t \in Writing : Safe \subseteq data[t]
CopyHasNew  == \A t \in Writing : \A u \in Naming!InFlight : anchor[u] \in items \ exposed => anchor[u] \in data[t]

\* So has what a full state has read; the calls under way while it reads are at
\* risk, and so is every call before the first reading of a process.
ReadHasSafe  == loader = "read" => Safe \subseteq content /\ \A t \in Naming!InFlight : anchor[t] \in exposed
EarlyAtRisk  == Naming!InFlight # {} /\ ~loaded => exposed = Anchors

NamesIInv == Naming!TypeOK /\ InMemory /\ OnDisk /\ CopyHasSafe /\ CopyHasNew /\ ReadHasSafe /\ EarlyAtRisk

----------------------------------------------------------------------------
\* A step of a call, of a full state, of the game or of the process keeps every
\* variable in its type and every bound.
LEMMA NamesTypeStep == ASSUME Naming!BoundsAssumption, Naming!TypeOK, [Naming!Next]_(Naming!placeVars) PROVE Naming!TypeOK'
<1> USE DEF Naming!TypeOK, Naming!BoundsAssumption
<1>1. ASSUME NEW what \in {"calls", "full", "changes", "restarts"}, Naming!Use(what)
      PROVE  left' \in [calls : 0..MaxCalls, full : 0..MaxFullStates,
                        changes : 0..MaxGameChanges, restarts : 0..MaxRestarts]
  BY <1>1 DEF Naming!Use
<1>2. ASSUME NEW t \in Tools, NEW a \in Anchors, Naming!NamePlace(t, a) PROVE Naming!TypeOK'
  BY <1>1, <1>2 DEF Naming!NamePlace
<1>3. ASSUME NEW t \in Tools, Naming!Copy(t) PROVE Naming!TypeOK'
  BY <1>3 DEF Naming!Copy
<1>4. ASSUME NEW t \in Tools, Naming!Truncate(t) PROVE Naming!TypeOK'
  BY <1>4 DEF Naming!Truncate
<1>5. ASSUME NEW t \in Tools, Naming!Write(t) PROVE Naming!TypeOK'
  BY <1>5 DEF Naming!Write, Naming!Broken
<1>6. ASSUME NEW t \in Tools, Naming!SaveFails(t) PROVE Naming!TypeOK'
  <2>1. /\ file' \in [is : {"missing", "whole", "torn", "broken"}, names : SUBSET Anchors]
        /\ (file'.is # "whole" => file'.names = {}) /\ exposed' \subseteq Anchors
    <3>1. CASE UNCHANGED <<file, exposed>> BY <3>1
    <3>2. CASE Naming!WriteFails(t) BY <3>2 DEF Naming!WriteFails, Naming!Broken
    <3> QED BY <1>6, <3>1, <3>2 DEF Naming!SaveFails
  <2> QED BY <1>6, <2>1 DEF Naming!SaveFails
<1>7. CASE Naming!FullState BY <1>1, <1>7 DEF Naming!FullState
<1>8. CASE Naming!ReadFile
  <2>1. Naming!AtRisk \subseteq Anchors BY DEF Naming!AtRisk, Naming!InFlight
  <2> QED BY <1>8, <2>1 DEF Naming!ReadFile
<1>9. CASE Naming!Install BY <1>9 DEF Naming!Install
<1>10. CASE Naming!Reconcile BY <1>10 DEF Naming!Reconcile
<1>11. ASSUME NEW a \in Anchors, Naming!GameChanges(a) PROVE Naming!TypeOK'
  BY <1>1, <1>11 DEF Naming!GameChanges
<1>12. CASE Naming!Restart
  <2>1. Naming!AtRisk \subseteq Anchors BY DEF Naming!AtRisk, Naming!InFlight
  <2>2. left' \in [calls : 0..MaxCalls, full : 0..MaxFullStates,
                    changes : 0..MaxGameChanges, restarts : 0..MaxRestarts]
    BY <1>1, <1>12 DEF Naming!Restart
  <2>3. exposed' \subseteq Anchors BY <1>12, <2>1 DEF Naming!Restart
  <2>4. stage' \in [Tools -> {"idle", "set", "write", "torn"}] /\ data' \in [Tools -> SUBSET Anchors]
    BY <1>12 DEF Naming!Restart
  <2>5. /\ game' \subseteq Anchors /\ known' \subseteq Anchors /\ items' \subseteq Anchors
        /\ content' \subseteq Anchors /\ reported' \subseteq Anchors
    BY <1>12 DEF Naming!Restart
  <2>6. /\ loader' = "none" /\ loaded' \in BOOLEAN /\ anchor' \in [Tools -> Anchors]
        /\ file' \in [is : {"missing", "whole", "torn", "broken"}, names : SUBSET Anchors]
        /\ (file'.is # "whole" => file'.names = {})
    BY <1>12 DEF Naming!Restart
  <2> QED BY <2>2, <2>3, <2>4, <2>5, <2>6
<1>13. CASE UNCHANGED Naming!placeVars BY <1>13 DEF Naming!placeVars
<1> QED BY <1>2, <1>3, <1>4, <1>5, <1>6, <1>7, <1>8, <1>9, <1>10, <1>11, <1>12, <1>13 DEF Naming!Next

\* Which races put names at risk: what is safe stays so only if it was safe
\* before or is written now, and what is at risk stays at risk.
LEMMA RiskGrows == ASSUME Naming!TypeOK, [Naming!Next]_(Naming!placeVars) PROVE exposed \subseteq exposed'
<1> USE DEF Naming!TypeOK
<1>1. ASSUME NEW t \in Tools, NEW a \in Anchors, Naming!NamePlace(t, a) PROVE exposed \subseteq exposed'
  BY <1>1 DEF Naming!NamePlace
<1>2. ASSUME NEW t \in Tools, Naming!Copy(t) \/ Naming!Truncate(t) \/ Naming!Write(t) \/ Naming!SaveFails(t) PROVE exposed \subseteq exposed'
  BY <1>2 DEF Naming!Copy, Naming!Truncate, Naming!Write, Naming!SaveFails, Naming!WriteFails
<1>3. CASE Naming!FullState \/ Naming!ReadFile \/ Naming!Install \/ Naming!Reconcile \/ Naming!Restart
  BY <1>3 DEF Naming!FullState, Naming!ReadFile, Naming!Install, Naming!Reconcile, Naming!Restart
<1>4. ASSUME NEW a \in Anchors, Naming!GameChanges(a) PROVE exposed \subseteq exposed'
  BY <1>4 DEF Naming!GameChanges
<1> QED BY <1>1, <1>2, <1>3, <1>4 DEF Naming!Next, Naming!placeVars

\* A new call puts its name in memory; other writers' copies lack it, which is
\* why the name is at risk then.
LEMMA NamePlaceStep ==
  ASSUME NamesIInv, Naming!TypeOK', NEW t \in Tools, NEW a \in Anchors, Naming!NamePlace(t, a) PROVE NamesIInv'
<1> USE DEF NamesIInv, Naming!NamePlace
<1>1. Safe' \subseteq Safe BY DEF Safe, Naming!TypeOK
<1>2. Writing' = Writing BY DEF Writing, Naming!TypeOK
<1>3. Naming!InFlight' = Naming!InFlight \cup {t} BY DEF Naming!InFlight, Naming!TypeOK
<1>4. \A u \in Tools : anchor'[u] = IF u = t THEN a ELSE anchor[u] BY DEF Naming!TypeOK
<1>5. \A u \in Tools : stage'[u] = "torn" <=> stage[u] = "torn" BY DEF Naming!TypeOK
<1>6. exposed \subseteq exposed' BY DEF Naming!TypeOK
<1>7. InMemory' BY <1>1 DEF InMemory
<1>8. OnDisk' BY <1>1, <1>5 DEF OnDisk, Safe
<1>9. CopyHasSafe' BY <1>1, <1>2 DEF CopyHasSafe
<1>10. CopyHasNew'
  <2> SUFFICES ASSUME NEW w \in Writing, NEW u \in Naming!InFlight', anchor'[u] \in items' \ exposed'
               PROVE  anchor'[u] \in data[w]
    BY <1>2 DEF CopyHasNew
  <2>1. anchor'[u] # a BY DEF Writing
  <2>2. u # t /\ anchor'[u] = anchor[u] BY <1>3, <1>4, <2>1 DEF Naming!InFlight
  <2>3. anchor[u] \in items \ exposed BY <1>6, <2>1, <2>2
  <2> QED BY <1>3, <2>2, <2>3 DEF CopyHasNew
<1>11. ReadHasSafe'
  <2> SUFFICES ASSUME loader = "read" PROVE Safe' \subseteq content /\ \A u \in Naming!InFlight' : anchor'[u] \in exposed'
    BY DEF ReadHasSafe
  <2>1. a \in exposed' BY DEF Naming!TypeOK
  <2>2. \A u \in Naming!InFlight : u # t => anchor'[u] \in exposed' BY <1>4, <1>6 DEF ReadHasSafe, Naming!InFlight
  <2> QED BY <1>1, <1>3, <1>4, <2>1, <2>2 DEF ReadHasSafe
<1>12. EarlyAtRisk' BY DEF EarlyAtRisk
<1> QED BY <1>7, <1>8, <1>9, <1>10, <1>11, <1>12

\* The copy of a call is of what is in memory, where the safe names are.
LEMMA CopyStep == ASSUME NamesIInv, Naming!TypeOK', NEW t \in Tools, Naming!Copy(t) PROVE NamesIInv'
<1> USE DEF NamesIInv, Naming!Copy
<1>1. Safe' = Safe /\ Naming!InFlight' = Naming!InFlight BY DEF Safe, Naming!InFlight, Naming!TypeOK
<1>2. Writing' = Writing \cup {t} /\ t \in Naming!InFlight BY DEF Writing, Naming!InFlight, Naming!TypeOK
<1>3. \A u \in Tools : stage'[u] = "torn" <=> stage[u] = "torn" BY DEF Naming!TypeOK
<1>4. data'[t] = items /\ \A u \in Tools : u # t => data'[u] = data[u] BY DEF Naming!TypeOK
<1>5. Safe \subseteq items BY <1>2 DEF InMemory, EarlyAtRisk, Safe, Naming!TypeOK
<1>6. InMemory' BY <1>1 DEF InMemory
<1>7. OnDisk' BY <1>1, <1>3 DEF OnDisk
<1>8. CopyHasSafe' BY <1>1, <1>2, <1>4, <1>5 DEF CopyHasSafe, Writing
<1>9. CopyHasNew' BY <1>1, <1>2, <1>4 DEF CopyHasNew, Writing
<1>10. ReadHasSafe' /\ EarlyAtRisk' BY <1>1 DEF ReadHasSafe, EarlyAtRisk
<1> QED BY <1>6, <1>7, <1>8, <1>9, <1>10

\* While the file is truncated, the one that will write it is at work.
LEMMA TruncateStep == ASSUME NamesIInv, Naming!TypeOK', NEW t \in Tools, Naming!Truncate(t) PROVE NamesIInv'
<1> USE DEF NamesIInv, Naming!Truncate
<1>1. Safe' = Safe /\ Naming!InFlight' = Naming!InFlight /\ Writing' = Writing BY DEF Safe, Naming!InFlight, Writing, Naming!TypeOK
<1>2. stage'[t] = "torn" BY DEF Naming!TypeOK
<1>3. InMemory' BY <1>1 DEF InMemory
<1>4. OnDisk' BY <1>2 DEF OnDisk
<1>5. CopyHasSafe' /\ CopyHasNew' BY <1>1 DEF CopyHasSafe, CopyHasNew
<1>6. ReadHasSafe' /\ EarlyAtRisk' BY <1>1 DEF ReadHasSafe, EarlyAtRisk
<1> QED BY <1>3, <1>4, <1>5, <1>6

\* A call that writes its copy reports its name, which the copy has; where two
\* wrote at once and the file is garbage, every name is at risk.
LEMMA WriteStep == ASSUME NamesIInv, Naming!TypeOK', NEW t \in Tools, Naming!Write(t) PROVE NamesIInv'
<1> USE DEF NamesIInv, Naming!Write
<1>1. Naming!InFlight' = Naming!InFlight \ {t} /\ Writing' = Writing \ {t} /\ t \in Naming!InFlight /\ t \in Writing
  BY DEF Naming!InFlight, Writing, Naming!TypeOK
<1>2. exposed' = exposed \/ exposed' = Anchors OBVIOUS
<1>3. Safe' \subseteq Safe \cup (({anchor[t]} \cap items) \ exposed) /\ (exposed' = Anchors => Safe' = {})
  BY DEF Safe, Naming!TypeOK
<1>4. \A u \in Tools : u # t => stage'[u] = stage[u] /\ data'[u] = data[u] BY DEF Naming!TypeOK
<1>5. InMemory' BY <1>1, <1>3 DEF InMemory, EarlyAtRisk, Safe, Naming!TypeOK
<1>6. \A w \in Writing : Safe' \subseteq data[w] BY <1>1, <1>3 DEF CopyHasSafe, CopyHasNew
<1>7. OnDisk'
  <2>1. CASE file' = [is |-> "whole", names |-> data[t]] BY <1>1, <1>6, <2>1 DEF OnDisk
  <2>2. CASE file' = Naming!Broken /\ exposed' = Anchors BY <1>3, <2>2 DEF OnDisk, Naming!Broken
  <2> QED BY <2>1, <2>2
<1>8. CopyHasSafe' BY <1>1, <1>4, <1>6 DEF CopyHasSafe, Writing
<1>9. CopyHasNew' BY <1>1, <1>2, <1>4 DEF CopyHasNew, Writing, Naming!TypeOK
<1>10. ReadHasSafe' BY <1>1, <1>2, <1>3 DEF ReadHasSafe, Naming!InFlight, Naming!TypeOK
<1>11. EarlyAtRisk' BY <1>1, <1>2 DEF EarlyAtRisk
<1> QED BY <1>5, <1>7, <1>8, <1>9, <1>10, <1>11

\* A call whose save fails leaves memory as it is; the file keeps the safe names,
\* is broken, or has lost some of them where two wrote at once, and then every
\* name is at risk.
LEMMA SaveFailsStep == ASSUME NamesIInv, Naming!TypeOK', NEW t \in Tools, Naming!SaveFails(t) PROVE NamesIInv'
<1> USE DEF NamesIInv, Naming!SaveFails
<1>1. Naming!InFlight' = Naming!InFlight \ {t} /\ Writing' = Writing \ {t} /\ t \in Writing
  BY DEF Naming!InFlight, Writing, Naming!TypeOK
<1>2. exposed' = exposed \/ exposed' = Anchors BY DEF Naming!WriteFails
<1>3. Safe' \subseteq Safe /\ (exposed' = Anchors => Safe' = {}) BY <1>2 DEF Safe, Naming!TypeOK
<1>4. \A u \in Tools : u # t => stage'[u] = stage[u] /\ data'[u] = data[u] BY DEF Naming!TypeOK
<1>5. InMemory' BY <1>3 DEF InMemory
<1>6. OnDisk'
  <2>1. CASE stage[t] = "write" /\ UNCHANGED <<file, exposed>> BY <1>3, <1>4, <2>1 DEF OnDisk
  <2>2. CASE stage[t] = "torn" /\ file.is # "torn" /\ UNCHANGED <<file, exposed>> BY <1>3, <2>2 DEF OnDisk
  <2>3. CASE file' = Naming!Broken BY <2>3 DEF OnDisk, Naming!Broken
  <2>4. CASE file' = [is |-> "whole", names |-> data[t]] BY <1>1, <1>3, <2>4 DEF OnDisk, CopyHasSafe
  <2>5. CASE file'.is = "whole" /\ exposed' = Anchors BY <1>3, <2>5 DEF OnDisk
  <2> QED BY <2>1, <2>2, <2>3, <2>4, <2>5 DEF Naming!WriteFails, Naming!TypeOK
<1>7. CopyHasSafe' BY <1>1, <1>3, <1>4 DEF CopyHasSafe, Writing
<1>8. CopyHasNew' BY <1>1, <1>2, <1>4 DEF CopyHasNew, Writing, Naming!TypeOK
<1>9. ReadHasSafe' /\ EarlyAtRisk' BY <1>1, <1>2, <1>3 DEF ReadHasSafe, EarlyAtRisk, Naming!InFlight, Naming!TypeOK
<1> QED BY <1>5, <1>6, <1>7, <1>8, <1>9

\* Before a full state reads the file, memory and file are as they were.
LEMMA FullStateStep == ASSUME NamesIInv, Naming!TypeOK', Naming!FullState PROVE NamesIInv'
<1> USE DEF NamesIInv, Naming!FullState
<1>1. Safe' = Safe /\ Naming!InFlight' = Naming!InFlight /\ Writing' = Writing BY DEF Safe, Naming!InFlight, Writing
<1> QED BY <1>1 DEF InMemory, OnDisk, CopyHasSafe, CopyHasNew, ReadHasSafe, EarlyAtRisk

\* A whole file has the safe names; the calls under way are put at risk.
LEMMA ReadFileStep == ASSUME NamesIInv, Naming!TypeOK', Naming!ReadFile PROVE NamesIInv'
<1> USE DEF NamesIInv, Naming!ReadFile
<1>1. Safe' \subseteq Safe /\ Naming!InFlight' = Naming!InFlight /\ Writing' = Writing /\ exposed \subseteq exposed'
  BY DEF Safe, Naming!InFlight, Writing
<1>2. loader' = "read" => file.is = "whole" BY DEF Naming!TypeOK
<1>3. InMemory' BY <1>1 DEF InMemory, OnDisk, Safe
<1>4. OnDisk' BY <1>1 DEF OnDisk
<1>5. CopyHasSafe' /\ CopyHasNew' BY <1>1 DEF CopyHasSafe, CopyHasNew
<1>6. ReadHasSafe' BY <1>1, <1>2 DEF ReadHasSafe, OnDisk, Naming!AtRisk
<1>7. EarlyAtRisk' BY <1>1 DEF EarlyAtRisk, Naming!TypeOK
<1> QED BY <1>3, <1>4, <1>5, <1>6, <1>7

\* What was read replaces what is in memory, the safe names included.
LEMMA InstallStep == ASSUME NamesIInv, Naming!TypeOK', Naming!Install PROVE NamesIInv'
<1> USE DEF NamesIInv, Naming!Install
<1>1. Safe' = Safe /\ Naming!InFlight' = Naming!InFlight /\ Writing' = Writing BY DEF Safe, Naming!InFlight, Writing
<1>2. InMemory' BY <1>1 DEF InMemory, ReadHasSafe
<1>3. CopyHasNew' BY <1>1 DEF CopyHasNew, ReadHasSafe
<1> QED BY <1>1, <1>2, <1>3 DEF OnDisk, CopyHasSafe, ReadHasSafe, EarlyAtRisk

\* Names that are reconciled away are no longer among those that must be kept.
LEMMA ReconcileStep == ASSUME NamesIInv, Naming!TypeOK', Naming!Reconcile PROVE NamesIInv'
<1> USE DEF NamesIInv, Naming!Reconcile
<1>1. Safe' = Safe \cap known /\ Naming!InFlight' = Naming!InFlight /\ Writing' = Writing BY DEF Safe, Naming!InFlight, Writing
<1>2. InMemory' BY <1>1 DEF InMemory
<1>3. OnDisk' BY <1>1 DEF OnDisk
<1>4. CopyHasSafe' /\ CopyHasNew' BY <1>1 DEF CopyHasSafe, CopyHasNew
<1> QED BY <1>1, <1>2, <1>3, <1>4 DEF ReadHasSafe, EarlyAtRisk

\* A new process has read nothing yet; the file keeps the safe names, or all are
\* at risk with it.
LEMMA RestartStep == ASSUME NamesIInv, Naming!TypeOK', Naming!Restart PROVE NamesIInv'
<1> USE DEF NamesIInv, Naming!Restart
<1>1. Safe' \subseteq Safe /\ Naming!InFlight' = {} /\ Writing' = {} BY DEF Safe, Naming!InFlight, Writing
<1>2. file.is \in {"torn", "broken"} => Safe' = {} BY DEF Safe, Naming!TypeOK
<1>3. OnDisk' BY <1>1, <1>2 DEF OnDisk
<1> QED BY <1>1, <1>3 DEF InMemory, CopyHasSafe, CopyHasNew, ReadHasSafe, EarlyAtRisk

----------------------------------------------------------------------------
\* For any tiles, calls and bounds: memory, file, copies and what was read hold
\* the names that were reported, through saves that fail, full states, restarts
\* and overlapping calls, the races of NamesKeptElsewhere apart.
THEOREM NamesInvariant == ASSUME Naming!BoundsAssumption PROVE Naming!Spec => []NamesIInv
<1>1. Naming!Init => NamesIInv
  <2> SUFFICES ASSUME Naming!Init PROVE NamesIInv
    OBVIOUS
  <2>1. Naming!TypeOK
    <3>1. (CHOOSE a \in Anchors : TRUE) \in Anchors BY DEF Naming!BoundsAssumption
    <3>2. left \in [calls : 0..MaxCalls, full : 0..MaxFullStates, changes : 0..MaxGameChanges, restarts : 0..MaxRestarts]
      BY DEF Naming!Init, Naming!BoundsAssumption
    <3> QED BY <3>1, <3>2 DEF Naming!Init, Naming!TypeOK
  <2>2. Naming!InFlight = {} /\ Writing = {} /\ Safe = {} BY DEF Naming!Init, Naming!InFlight, Writing, Safe
  <2> QED BY <2>1, <2>2 DEF Naming!Init, NamesIInv, InMemory, OnDisk, CopyHasSafe, CopyHasNew, ReadHasSafe, EarlyAtRisk
<1>2. NamesIInv /\ [Naming!Next]_(Naming!placeVars) => NamesIInv'
  <2> SUFFICES ASSUME NamesIInv, [Naming!Next]_(Naming!placeVars) PROVE NamesIInv'
    OBVIOUS
  <2>1. Naming!TypeOK' BY NamesTypeStep DEF NamesIInv
  <2>2. ASSUME NEW a \in Anchors, Naming!GameChanges(a) PROVE NamesIInv'
    <3>1. Safe' = Safe /\ Naming!InFlight' = Naming!InFlight /\ Writing' = Writing
      BY <2>2 DEF Naming!GameChanges, Safe, Naming!InFlight, Writing
    <3> QED BY <2>1, <2>2, <3>1 DEF Naming!GameChanges, NamesIInv, InMemory, OnDisk, CopyHasSafe, CopyHasNew, ReadHasSafe, EarlyAtRisk
  <2>3. CASE UNCHANGED Naming!placeVars
    <3>1. Safe' = Safe /\ Naming!InFlight' = Naming!InFlight /\ Writing' = Writing
      BY <2>3 DEF Naming!placeVars, Safe, Naming!InFlight, Writing
    <3> QED BY <2>1, <2>3, <3>1 DEF Naming!placeVars, NamesIInv, InMemory, OnDisk, CopyHasSafe, CopyHasNew, ReadHasSafe, EarlyAtRisk
  <2> QED BY <2>1, <2>2, <2>3, NamePlaceStep, CopyStep, TruncateStep, WriteStep, SaveFailsStep, FullStateStep,
             ReadFileStep, InstallStep, ReconcileStep, RestartStep DEF Naming!Next
<1> QED BY <1>1, <1>2, PTL DEF Naming!Spec

\* Type correctness: every set is one of tiles, and every bound is kept.
THEOREM NamesTypeCorrect == ASSUME Naming!BoundsAssumption PROVE Naming!Spec => []Naming!TypeOK
<1>1. NamesIInv => Naming!TypeOK BY DEF NamesIInv
<1> QED BY <1>1, NamesInvariant, PTL

\* A name reported a success is on disk, and in memory once the process has read
\* the file, until its tile is reconciled away, the races named apart.
THEOREM PlacesKeepNames == ASSUME Naming!BoundsAssumption PROVE Naming!Spec => []Naming!NamesKeptElsewhere
<1>1. NamesIInv => Naming!NamesKeptElsewhere
  BY DEF NamesIInv, Naming!TypeOK, InMemory, OnDisk, Safe, Naming!NamesKeptElsewhere
<1> QED BY <1>1, NamesInvariant, PTL

----------------------------------------------------------------------------
(* The hazards.                                                            *)

\* The hazards of a kind among the tiles as they were last told; what their records
\* are made from; a layer that shows these with their content, and counts them.
Hazardous(k, told) == {c \in UnitTiles : Danger!Detected(k, c, told[c])}
Source(k, told, first) == IF k = "aquifer" THEN first ELSE told
Upright(k, layer, told, first) ==
  /\ DOMAIN layer.at = Hazardous(k, told) /\ layer.count = Danger!Cardinality(Hazardous(k, told))
  /\ \A c \in Hazardous(k, told) : layer.at[c] = Danger!Info(k, Source(k, told, first)[c])
\* What a tile was first told with, after it is told anew.
Firsts(told, first, c, tile) ==
  [first EXCEPT ![c] = IF Danger!IsAquifer(told[c]) /\ Danger!IsAquifer(tile) THEN @ ELSE tile]
\* The tiles of the creatures of a layer.
Standing(k, units) == {u.at : u \in {v \in units : Danger!LayerOf(v) = k}} \cap UnitTiles

HazardSpec == Danger!Init /\ [][Danger!Next]_(Danger!hazardVars)
HazardsIInv ==
  /\ DOMAIN layers = Danger!TileKinds \cup Danger!UnitKinds
  /\ lastTold = [c \in HazardTiles |-> lastTold[c]] /\ firstTold = [c \in HazardTiles |-> firstTold[c]]
  /\ \A k \in Danger!TileKinds : Upright(k, layers[k], lastTold, firstTold)
  /\ \A k \in Danger!UnitKinds :
       DOMAIN layers[k].at = Standing(k, present) /\ layers[k].count = Danger!Cardinality(Standing(k, present))

\* A count follows one tile that comes or goes.
LEMMA Counts ==
  ASSUME Danger!TilesAssumption, NEW S \in SUBSET UnitTiles, NEW c
  PROVE  /\ Danger!Cardinality(S \cup {c}) = Danger!Cardinality(S) + IF c \in S THEN 0 ELSE 1
         /\ c \in S => Danger!Cardinality(S \ {c}) = Danger!Cardinality(S) - 1
         /\ Danger!Cardinality(S) \in Nat
<1>1. \A T : (Danger!IsFiniteSet(T) <=> IsFiniteSet(T)) BY DEF Danger!IsFiniteSet, IsFiniteSet
<1>2. \A T : Danger!Cardinality(T) = Cardinality(T) BY DEF Danger!Cardinality, Cardinality
<1>3. IsFiniteSet(S) BY <1>1, FS_Subset DEF Danger!TilesAssumption
<1> QED BY <1>2, <1>3, FS_AddElement, FS_RemoveElement, FS_CardinalityType

\* A tile that is told anew, in place, is as it would be in a layer built anew.
LEMMA UpdatedIsUpright ==
  ASSUME Danger!TilesAssumption, NEW k \in Danger!TileKinds, NEW layer, NEW told, NEW first, NEW c \in HazardTiles, NEW tile,
         told = [d \in HazardTiles |-> told[d]], first = [d \in HazardTiles |-> first[d]],
         Upright(k, layer, told, first)
  PROVE  Upright(k, Danger!Updated(k, layer, c, tile), [told EXCEPT ![c] = tile], Firsts(told, first, c, tile))
<1> DEFINE S == Hazardous(k, told)
           now == [told EXCEPT ![c] = tile]
           old == Source(k, told, first)
           new1 == Source(k, now, Firsts(told, first, c, tile))
           N == Hazardous(k, now)
<1> SUFFICES Upright(k, Danger!Updated(k, layer, c, tile), now, Firsts(told, first, c, tile))
  OBVIOUS
<1>1. /\ now[c] = tile /\ \A d \in HazardTiles : d # c => now[d] = told[d]
      /\ \A d \in HazardTiles : d # c => new1[d] = old[d]
      /\ new1[c] = IF k = "aquifer" /\ Danger!IsAquifer(told[c]) /\ Danger!IsAquifer(tile) THEN old[c] ELSE tile
  BY DEF Source, Firsts
<1>2. UnitTiles \subseteq HazardTiles /\ S \subseteq UnitTiles BY DEF Danger!TilesAssumption, Hazardous
<1>3. /\ DOMAIN layer.at = S /\ layer.count = Danger!Cardinality(S)
      /\ \A d \in S : layer.at[d] = Danger!Info(k, old[d])
  BY DEF Upright
<1> HIDE DEF now, old, new1
<1> SUFFICES /\ DOMAIN Danger!Updated(k, layer, c, tile).at = N
             /\ Danger!Updated(k, layer, c, tile).count = Danger!Cardinality(N)
             /\ \A d \in N : Danger!Updated(k, layer, c, tile).at[d] = Danger!Info(k, new1[d])
  BY DEF Upright, new1
<1>4. N = IF c \in UnitTiles /\ Danger!Detected(k, c, tile) THEN S \cup {c} ELSE S \ {c} BY <1>1, <1>2 DEF Hazardous
<1>5. CASE c \notin UnitTiles
  <2>1. N = S BY <1>2, <1>4, <1>5
  <2>2. Danger!Updated(k, layer, c, tile) = layer BY <1>5 DEF Danger!Updated, Danger!Contains, Danger!Add
  <2>3. \A d \in S : new1[d] = old[d] BY <1>1, <1>2, <1>5
  <2> QED BY <1>3, <2>1, <2>2, <2>3
<1>6. CASE c \in UnitTiles /\ Danger!Detected(k, c, tile)
  <2>1. N = S \cup {c} BY <1>4, <1>6
  <2>2. CASE c \in S /\ k \in {"aquifer", "caverns"}
    <3>1. Danger!Updated(k, layer, c, tile) = layer BY <1>3, <1>6, <2>2 DEF Danger!Updated, Danger!Contains
    <3>2. Danger!Info(k, new1[c]) = Danger!Info(k, old[c])
      <4>1. CASE k = "aquifer" BY <1>1, <1>6, <2>2, <4>1 DEF Hazardous, Danger!Detected
      <4>2. CASE k = "caverns" BY <4>2 DEF Danger!Info
      <4> QED BY <2>2, <4>1, <4>2
    <3>3. N = S BY <2>1, <2>2
    <3>4. \A d \in S : layer.at[d] = Danger!Info(k, new1[d]) BY <1>1, <1>2, <1>3, <3>2
    <3> QED BY <1>3, <3>1, <3>3, <3>4
  <2>3. CASE ~(c \in S /\ k \in {"aquifer", "caverns"})
    <3>1. Danger!Updated(k, layer, c, tile) = Danger!Add(layer, c, Danger!Info(k, tile))
      BY <1>3, <1>6, <2>3 DEF Danger!Updated, Danger!Contains
    <3>5. new1[c] = tile BY <1>1, <1>6, <2>3 DEF Hazardous, Danger!Detected
    <3> DEFINE new == Danger!Add(layer, c, Danger!Info(k, tile))
    <3>2. /\ new.at = [d \in S \cup {c} |-> IF d = c THEN Danger!Info(k, tile) ELSE layer.at[d]]
          /\ new.count = Danger!Cardinality(S) + IF c \in S THEN 0 ELSE 1
      BY <1>3, <1>6 DEF Danger!Add
    <3> HIDE DEF new
    <3>3. new.count = Danger!Cardinality(S \cup {c}) BY <1>2, <3>2, Counts
    <3>4. DOMAIN new.at = S \cup {c} /\ \A d \in S \cup {c} : new.at[d] = Danger!Info(k, new1[d])
      BY <1>1, <1>2, <1>3, <3>2, <3>5
    <3> QED BY <2>1, <3>1, <3>3, <3>4 DEF new
  <2> QED BY <2>2, <2>3
<1>7. CASE c \in UnitTiles /\ ~Danger!Detected(k, c, tile)
  <2>1. N = S \ {c} BY <1>4, <1>7
  <2>2. \A d \in S \ {c} : new1[d] = old[d] BY <1>1, <1>2
  <2>3. CASE c \notin S
    <3>1. Danger!Updated(k, layer, c, tile) = layer BY <1>3, <1>7, <2>3 DEF Danger!Updated, Danger!Contains
    <3> QED BY <1>3, <2>1, <2>2, <2>3, <3>1
  <2>4. CASE c \in S
    <3>1. Danger!Updated(k, layer, c, tile) = Danger!Remove(layer, c)
      BY <1>3, <1>7, <2>4 DEF Danger!Updated, Danger!Contains
    <3> DEFINE new == Danger!Remove(layer, c)
    <3>2. new.at = [d \in S \ {c} |-> layer.at[d]] /\ new.count = Danger!Cardinality(S) - 1
      BY <1>3, <1>7, <2>4 DEF Danger!Remove
    <3> HIDE DEF new
    <3>3. new.count = Danger!Cardinality(S \ {c}) BY <1>2, <2>4, <3>2, Counts
    <3>4. DOMAIN new.at = S \ {c} /\ \A d \in S \ {c} : new.at[d] = Danger!Info(k, new1[d])
      BY <1>3, <2>2, <3>2
    <3> QED BY <2>1, <3>1, <3>3, <3>4 DEF new
  <2> QED BY <2>3, <2>4
<1> QED BY <1>5, <1>6, <1>7

\* A full state builds each layer anew.
LEMMA BuildStep ==
  ASSUME Danger!TilesAssumption, HazardsIInv, NEW tiles, Danger!BuildFromTiles(tiles)
  PROVE  HazardsIInv'
<1> USE DEF Danger!BuildFromTiles
<1>1. UnitTiles \subseteq HazardTiles BY DEF Danger!TilesAssumption
<1>2. DOMAIN layers' = DOMAIN layers BY DEF HazardsIInv
<1>3. lastTold' = [c \in HazardTiles |-> lastTold'[c]] /\ firstTold' = lastTold' OBVIOUS
<1>4. ASSUME NEW k \in Danger!TileKinds PROVE Upright(k, layers'[k], lastTold', firstTold')
  <2>1. layers'[k] = Danger!Built(k, tiles) BY DEF HazardsIInv
  <2>2. \A c \in UnitTiles : lastTold'[c] = tiles[c] BY <1>1
  <2>3. Hazardous(k, lastTold') = {c \in UnitTiles : Danger!Detected(k, c, tiles[c])} BY <2>2 DEF Hazardous
  <2>4. \A c \in Hazardous(k, lastTold') : Danger!Info(k, lastTold'[c]) = Danger!Info(k, tiles[c])
    BY <2>2 DEF Hazardous
  <2>5. Danger!Built(k, tiles) = [at    |-> [c \in Hazardous(k, tiles) |-> Danger!Info(k, tiles[c])],
                                  count |-> Danger!Cardinality(Hazardous(k, tiles))]
    BY DEF Danger!Built, Hazardous
  <2>6. Hazardous(k, lastTold') = Hazardous(k, tiles) BY <2>3 DEF Hazardous
  <2>7. Source(k, lastTold', firstTold') = lastTold' BY <1>3 DEF Source
  <2> QED BY <2>1, <2>4, <2>5, <2>6, <2>7 DEF Upright
<1>5. \A k \in Danger!UnitKinds : layers'[k] = layers[k] BY DEF HazardsIInv, Danger!UnitKinds, Danger!TileKinds
<1> QED BY <1>2, <1>3, <1>4, <1>5 DEF HazardsIInv

\* An update is told of one tile, and each layer hears of it.
LEMMA UpdateStep ==
  ASSUME Danger!TilesAssumption, HazardsIInv, NEW c \in HazardTiles, NEW tile, Danger!UpdateFromTiles(c, tile)
  PROVE  HazardsIInv'
<1> USE DEF Danger!UpdateFromTiles
<1>1. DOMAIN layers' = DOMAIN layers BY DEF HazardsIInv
<1>2. /\ lastTold' = [lastTold EXCEPT ![c] = tile] /\ lastTold' = [d \in HazardTiles |-> lastTold'[d]]
      /\ firstTold' = Firsts(lastTold, firstTold, c, tile) /\ firstTold' = [d \in HazardTiles |-> firstTold'[d]]
  BY DEF HazardsIInv, Firsts
<1>3. ASSUME NEW k \in Danger!TileKinds PROVE Upright(k, layers'[k], lastTold', firstTold')
  <2>1. layers'[k] = Danger!Updated(k, layers[k], c, tile) BY DEF HazardsIInv
  <2>2. /\ Upright(k, layers[k], lastTold, firstTold) /\ lastTold = [d \in HazardTiles |-> lastTold[d]]
        /\ firstTold = [d \in HazardTiles |-> firstTold[d]]
    BY DEF HazardsIInv
  <2>3. Upright(k, Danger!Updated(k, layers[k], c, tile), [lastTold EXCEPT ![c] = tile], Firsts(lastTold, firstTold, c, tile))
    BY <2>2, UpdatedIsUpright
  <2> QED BY <1>2, <2>1, <2>3
<1>4. \A k \in Danger!UnitKinds : layers'[k] = layers[k] BY DEF HazardsIInv, Danger!UnitKinds, Danger!TileKinds
<1> QED BY <1>1, <1>2, <1>3, <1>4 DEF HazardsIInv

\* An entity update shows its creatures, and no earlier one.
LEMMA EntitiesStep == ASSUME HazardsIInv, NEW units, Danger!BuildFromEntities(units) PROVE HazardsIInv'
<1> USE DEF Danger!BuildFromEntities
<1>1. DOMAIN layers' = DOMAIN layers BY DEF HazardsIInv
<1>2. \A k \in Danger!TileKinds : layers'[k] = layers[k] BY DEF HazardsIInv, Danger!UnitKinds, Danger!TileKinds
<1>3. ASSUME NEW k \in Danger!UnitKinds
      PROVE  /\ DOMAIN layers'[k].at = Standing(k, present')
             /\ layers'[k].count = Danger!Cardinality(Standing(k, present'))
  <2>1. layers'[k] = Danger!Shown(k, units) BY DEF HazardsIInv
  <2>2. Danger!Shown(k, units) = [at    |-> [c \in Standing(k, units) |-> Danger!Threat(k)],
                                  count |-> Danger!Cardinality(Standing(k, units))]
    BY DEF Danger!Shown, Standing
  <2>3. present' = units OBVIOUS
  <2> QED BY <2>1, <2>2, <2>3
<1> QED BY <1>1, <1>2, <1>3 DEF HazardsIInv

----------------------------------------------------------------------------
\* For any map, tile types and creatures: every layer is what the tiles last told
\* make it, an aquifer with the flags it was first told with, after any full states
\* and updates.
THEOREM HazardsInvariant == ASSUME Danger!TilesAssumption PROVE HazardSpec => []HazardsIInv
<1>1. Danger!Init => HazardsIInv
  <2> SUFFICES ASSUME Danger!Init PROVE HazardsIInv
    OBVIOUS
  <2>1. \A k \in DOMAIN layers : layers[k] = Danger!Empty BY DEF Danger!Init
  <2>2. DOMAIN layers = Danger!TileKinds \cup Danger!UnitKinds BY DEF Danger!Init
  <2>3. Danger!Cardinality({}) = 0
    <3>1. Danger!Cardinality({}) = Cardinality({}) BY DEF Danger!Cardinality, Cardinality
    <3> QED BY <3>1, FS_EmptySet
  <2>4. ASSUME NEW k \in Danger!TileKinds PROVE Hazardous(k, lastTold) = {}
    <3>1. \A c \in UnitTiles : lastTold[c].flags = 0 /\ lastTold[c].type = 0
      BY DEF Danger!Init, Danger!Nothing, Danger!TilesAssumption
    <3>2. ASSUME NEW c \in UnitTiles PROVE ~Danger!Detected(k, c, lastTold[c])
      <4> DEFINE tile == lastTold[c]
      <4>1. tile.flags = 0 /\ tile.type = 0 BY <3>1
      <4> HIDE DEF tile
      <4>2. ~Danger!IsAquifer(tile) /\ ~Danger!IsWater(tile.type) /\ ~Danger!IsLava(tile.type) /\ ~Danger!IsCavern(c, tile.type)
        BY <4>1 DEF Danger!IsAquifer, Danger!IsWater, Danger!IsLava, Danger!IsCavern
      <4>3. ~Danger!Detected(k, c, tile) BY <4>2 DEF Danger!TileKinds, Danger!Detected
      <4> QED BY <4>3 DEF tile
    <3> QED BY <3>2 DEF Hazardous
  <2>5. \A k : Standing(k, present) = {} BY DEF Danger!Init, Standing
  <2>6. lastTold = [c \in HazardTiles |-> lastTold[c]] /\ firstTold = [c \in HazardTiles |-> firstTold[c]]
    BY DEF Danger!Init, Danger!Nothing
  <2>7. ASSUME NEW k \in Danger!TileKinds PROVE Upright(k, layers[k], lastTold, firstTold)
    <3>1. layers[k].at = <<>> /\ layers[k].count = 0 BY <2>1, <2>2 DEF Danger!Empty
    <3>2. DOMAIN <<>> = {} OBVIOUS
    <3> QED BY <2>3, <2>4, <3>1, <3>2 DEF Upright
  <2>8. ASSUME NEW k \in Danger!UnitKinds
        PROVE  DOMAIN layers[k].at = Standing(k, present) /\ layers[k].count = Danger!Cardinality(Standing(k, present))
    <3>1. layers[k].at = <<>> /\ layers[k].count = 0 BY <2>1, <2>2 DEF Danger!Empty
    <3>2. DOMAIN <<>> = {} OBVIOUS
    <3> QED BY <2>3, <2>5, <3>1, <3>2
  <2> QED BY <2>2, <2>6, <2>7, <2>8 DEF HazardsIInv
<1>2. HazardsIInv /\ [Danger!Next]_(Danger!hazardVars) => HazardsIInv'
  <2> SUFFICES ASSUME HazardsIInv, [Danger!Next]_(Danger!hazardVars) PROVE HazardsIInv'
    OBVIOUS
  <2>1. CASE UNCHANGED Danger!hazardVars BY <2>1 DEF Danger!hazardVars, HazardsIInv
  <2> QED BY <2>1, BuildStep, UpdateStep, EntitiesStep DEF Danger!Next
<1> QED BY <1>1, <1>2, PTL DEF HazardSpec

----------------------------------------------------------------------------
(* The modifications.                                                      *)

Infer(old, new) == Changed!InferModificationTypeFromFlags(old, new)
Shapeless(h, n) == \A j \in 1..n : h[j].shape = "none"
FirstShape(h, i) == i \in 1..Len(h) /\ h[i].shape # "none" /\ Shapeless(h, i - 1)
\* The baseline of a tile has the first shape that was seen of it.
BaseOf(h, b) ==
  IF h = <<>> THEN b = Changed!Unseen
  ELSE /\ b.shape # "unseen"
       /\ \/ Shapeless(h, Len(h)) /\ b.shape = "none"
          \/ \E i : FirstShape(h, i) /\ b.shape = h[i].shape
\* What is recorded of a tile is its last telling observation.
IsMax(k, T) == k \in T /\ \A j \in T : j <= k
RecordOf(h, r) ==
  /\ {"kind", "new"} \subseteq DOMAIN r
  /\ \E k : /\ IsMax(k, Changed!Telling(h)) /\ r.new = h[k].type
            /\ Changed!OneShape(h) => r.kind = Changed!Kind(h, k)

ModSpec == Changed!Init /\ [][Changed!Next]_(Changed!modVars)
ModsIInv ==
  /\ history \in [ModTiles -> Seq(Seen)] /\ baseline = [c \in ModTiles |-> baseline[c]]
  /\ \A c \in ModTiles : BaseOf(history[c], baseline[c])
  /\ DOMAIN mods.at = {c \in Inside : Changed!Telling(history[c]) # {}}
  /\ \A c \in DOMAIN mods.at : RecordOf(history[c], mods.at[c])
  /\ mods.count = Changed!Cardinality(DOMAIN mods.at)
  /\ "computed" \in DOMAIN bounds
  /\ bounds.computed => bounds.box = Changed!Region(DOMAIN mods.at)

\* No change of shape, or none to see, tells nothing.
LEMMA TellsNothing == /\ Infer("wall", "none") = "unknown"
                      /\ \A x \in {"wall", "floor", "void", "none"} : Infer(x, x) = "unknown"
BY DEF Infer, Changed!InferModificationTypeFromFlags

\* The kind of an observation is told by the first shape before it.
LEMMA KindIs ==
  ASSUME NEW h \in Seq(Seen), NEW k \in 1..Len(h)
  PROVE  /\ Shapeless(h, k - 1) => Changed!Kind(h, k) = Infer("wall", h[k].shape)
         /\ \A i : FirstShape(h, i) /\ i < k => Changed!Kind(h, k) = Infer(h[i].shape, h[k].shape)
<1> DEFINE shaped == {i \in 1..k - 1 : h[i].shape # "none"}
<1>0. Len(h) \in Nat BY LenProperties
<1>1. ASSUME Shapeless(h, k - 1) PROVE Changed!Kind(h, k) = Infer("wall", h[k].shape)
  <2>1. shaped = {} BY <1>1 DEF Shapeless
  <2> QED BY <2>1 DEF Changed!Kind, Infer
<1>2. ASSUME NEW i, FirstShape(h, i), i < k PROVE Changed!Kind(h, k) = Infer(h[i].shape, h[k].shape)
  <2>1. i \in shaped /\ \A j \in shaped : i <= j BY <1>0, <1>2 DEF FirstShape, Shapeless
  <2>2. shaped # {} BY <2>1
  <2>3. Changed!Min(shaped) = i
    <3>1. \A j \in shaped : j \in Int BY <1>0
    <3> HIDE DEF shaped
    <3> QED BY <2>1, <3>1 DEF Changed!Min
  <2> QED BY <2>2, <2>3 DEF Changed!Kind, Infer
<1> QED BY <1>1, <1>2

\* One more observation.
LEMMA HistoryAppend ==
  ASSUME NEW h \in Seq(Seen), NEW s \in Seen
  PROVE  /\ Append(h, s) \in Seq(Seen) /\ Len(h) \in Nat /\ Len(Append(h, s)) = Len(h) + 1 /\ Append(h, s) # <<>>
         /\ Append(h, s)[Len(h) + 1] = s /\ \A i \in 1..Len(h) : Append(h, s)[i] = h[i]
         /\ DOMAIN h = 1..Len(h) /\ DOMAIN Append(h, s) = 1..(Len(h) + 1) /\ (h = <<>> <=> Len(h) = 0)
BY AppendProperties, LenProperties, EmptySeq

\* It leaves the first shape what it was, or gives the tile one.
LEMMA BaseStep ==
  ASSUME Changed!SeenAssumption, NEW h \in Seq(Seen), NEW s \in Seen, NEW b, BaseOf(h, b)
  PROVE  BaseOf(Append(h, s), IF b.shape \in {"unseen", "none"} THEN s ELSE b)
<1> DEFINE g == Append(h, s)
           n == Len(h)
<1>1. /\ g # <<>> /\ n \in Nat /\ Len(g) = n + 1 /\ g[n + 1] = s /\ \A i \in 1..n : g[i] = h[i]
      /\ (h = <<>> <=> n = 0)
  BY HistoryAppend
<1>2. s.shape \in {"wall", "floor", "void", "none"} BY DEF Changed!SeenAssumption
<1> SUFFICES BaseOf(g, IF b.shape \in {"unseen", "none"} THEN s ELSE b)
  OBVIOUS
<1> HIDE DEF g
<1>3. CASE Shapeless(h, n)
  <2>1. b.shape \in {"unseen", "none"}
    <3>1. CASE h = <<>> BY <3>1 DEF BaseOf, Changed!Unseen
    <3>2. CASE h # <<>> BY <1>1, <1>3, <3>2 DEF BaseOf, FirstShape, Shapeless
    <3> QED BY <3>1, <3>2
  <2>2. Shapeless(g, n) BY <1>1, <1>3 DEF Shapeless
  <2>3. CASE s.shape = "none"
    <3>1. Shapeless(g, n + 1) BY <1>1, <2>2, <2>3 DEF Shapeless
    <3> QED BY <1>1, <2>1, <2>3, <3>1 DEF BaseOf
  <2>4. CASE s.shape # "none"
    <3>1. FirstShape(g, n + 1) BY <1>1, <2>2, <2>4 DEF FirstShape
    <3> QED BY <1>1, <1>2, <2>1, <3>1 DEF BaseOf
  <2> QED BY <2>3, <2>4
<1>4. CASE ~Shapeless(h, n)
  <2>1. h # <<>> BY <1>1, <1>4 DEF Shapeless
  <2>2. PICK i : FirstShape(h, i) /\ b.shape = h[i].shape BY <1>4, <2>1 DEF BaseOf
  <2>3. FirstShape(g, i) /\ g[i] = h[i] BY <1>1, <2>2 DEF FirstShape, Shapeless
  <2>4. b.shape \notin {"unseen", "none"} BY <2>1, <2>2 DEF BaseOf, FirstShape
  <2> QED BY <1>1, <2>2, <2>3, <2>4 DEF BaseOf
<1> QED BY <1>3, <1>4

\* It is compared with the first shape, and what came before keeps its kind.
LEMMA KindStep ==
  ASSUME NEW h \in Seq(Seen), NEW s \in Seen, NEW b, BaseOf(h, b), h # <<>>
  PROVE  LET g == Append(h, s)
         IN /\ Changed!Kind(g, Len(h) + 1) = Infer(IF b.shape = "none" THEN "wall" ELSE b.shape, s.shape)
            /\ \A k \in 1..Len(h) : Changed!Kind(g, k) = Changed!Kind(h, k)
<1> DEFINE g == Append(h, s)
           n == Len(h)
<1> SUFFICES /\ Changed!Kind(g, n + 1) = Infer(IF b.shape = "none" THEN "wall" ELSE b.shape, s.shape)
             /\ \A k \in 1..n : Changed!Kind(g, k) = Changed!Kind(h, k)
  OBVIOUS
<1>1. /\ g \in Seq(Seen) /\ n \in Nat /\ Len(g) = n + 1 /\ g[n + 1] = s /\ \A i \in 1..n : g[i] = h[i]
  BY HistoryAppend
<1>2. n + 1 \in 1..Len(g) /\ \A k \in 1..n : k \in 1..Len(g) BY <1>1
<1> HIDE DEF g
<1>3. CASE Shapeless(h, n) /\ b.shape = "none"
  <2>1. Shapeless(g, n + 1 - 1) BY <1>1, <1>3 DEF Shapeless
  <2>2. Changed!Kind(g, n + 1) = Infer("wall", s.shape) BY <1>1, <1>2, <2>1, KindIs
  <2>3. ASSUME NEW k \in 1..n PROVE Changed!Kind(g, k) = Changed!Kind(h, k)
    <3>1. Shapeless(h, k - 1) /\ Shapeless(g, k - 1) BY <1>1, <1>3 DEF Shapeless
    <3> QED BY <1>1, <1>2, <3>1, KindIs
  <2> QED BY <1>3, <2>2, <2>3
<1>4. ASSUME NEW i, FirstShape(h, i), b.shape = h[i].shape
      PROVE  /\ Changed!Kind(g, n + 1) = Infer(IF b.shape = "none" THEN "wall" ELSE b.shape, s.shape)
             /\ \A k \in 1..n : Changed!Kind(g, k) = Changed!Kind(h, k)
  <2>1. FirstShape(g, i) /\ g[i] = h[i] /\ i \in 1..n BY <1>1, <1>4 DEF FirstShape, Shapeless
  <2>2. Changed!Kind(g, n + 1) = Infer(b.shape, s.shape) BY <1>1, <1>2, <1>4, <2>1, KindIs
  <2>3. b.shape # "none" BY <1>4 DEF FirstShape
  <2>4. ASSUME NEW k \in 1..n PROVE Changed!Kind(g, k) = Changed!Kind(h, k)
    <3>1. CASE i < k BY <1>1, <1>2, <1>4, <2>1, <3>1, KindIs
    <3>2. CASE ~(i < k)
      <4>1. Shapeless(h, k - 1) /\ Shapeless(g, k - 1) BY <1>1, <1>4, <2>1, <3>2 DEF FirstShape, Shapeless
      <4> QED BY <1>1, <1>2, <4>1, KindIs
    <3> QED BY <3>1, <3>2
  <2> QED BY <2>2, <2>3, <2>4
<1> QED BY <1>3, <1>4 DEF BaseOf

\* A tile seen for the first time tells nothing; later the observation is telling
\* when it gives the tile another kind.
LEMMA TellingStep ==
  ASSUME NEW h \in Seq(Seen), NEW s \in Seen, NEW b, BaseOf(h, b)
  PROVE  LET g == Append(h, s)
             kind == Infer(IF b.shape = "none" THEN "wall" ELSE b.shape, s.shape)
         IN Changed!Telling(g) = IF h = <<>> \/ kind = "unknown" THEN Changed!Telling(h)
                                 ELSE Changed!Telling(h) \cup {Len(h) + 1}
<1> DEFINE g == Append(h, s)
           n == Len(h)
           kind == Infer(IF b.shape = "none" THEN "wall" ELSE b.shape, s.shape)
<1> SUFFICES Changed!Telling(g) = IF h = <<>> \/ kind = "unknown" THEN Changed!Telling(h)
                                  ELSE Changed!Telling(h) \cup {n + 1}
  OBVIOUS
<1>1. n \in Nat /\ Len(g) = n + 1 /\ (h = <<>> <=> n = 0) BY HistoryAppend
<1>2. CASE h = <<>>
  <2>1. 2..Len(g) = {} /\ 2..Len(h) = {} BY <1>1, <1>2
  <2> QED BY <1>2, <2>1 DEF Changed!Telling
<1>3. CASE h # <<>>
  <2>1. Changed!Kind(g, n + 1) = kind /\ \A k \in 1..n : Changed!Kind(g, k) = Changed!Kind(h, k) BY <1>3, KindStep
  <2>2. n >= 1 BY <1>1, <1>3
  <2> HIDE DEF g, kind, n
  <2>3. 2..Len(g) = 2..n \cup {n + 1} /\ \A k \in 2..n : k \in 1..n BY <1>1, <2>2
  <2> QED BY <1>3, <2>1, <2>3 DEF Changed!Telling, n
<1> QED BY <1>2, <1>3

\* A telling observation of the type that is recorded is of the recorded kind,
\* where a type has one shape.
LEMMA SameType ==
  ASSUME Changed!SeenAssumption, NEW h \in Seq(Seen), NEW s \in Seen, NEW b, BaseOf(h, b), h # <<>>,
         NEW k \in Changed!Telling(h), h[k].type = s.type, Changed!OneShape(Append(h, s)),
         Infer(IF b.shape = "none" THEN "wall" ELSE b.shape, s.shape) # "unknown"
  PROVE  Changed!Kind(h, k) = Infer(IF b.shape = "none" THEN "wall" ELSE b.shape, s.shape)
<1>1. /\ Len(h) \in Nat /\ DOMAIN Append(h, s) = 1..(Len(h) + 1) /\ Append(h, s)[Len(h) + 1] = s
      /\ \A i \in 1..Len(h) : Append(h, s)[i] = h[i]
  BY HistoryAppend
<1>2. k \in 1..Len(h) /\ k >= 2 /\ Changed!Kind(h, k) # "unknown" BY <1>1 DEF Changed!Telling
<1>3. h[k].shape = s.shape BY <1>1, <1>2 DEF Changed!OneShape
<1>4. s.shape \in {"wall", "floor", "void", "none"} BY DEF Changed!SeenAssumption
<1>5. CASE Shapeless(h, Len(h))
  <2>1. Shapeless(h, k - 1) /\ h[k].shape = "none" BY <1>1, <1>2, <1>5 DEF Shapeless
  <2> QED BY <1>2, <2>1, KindIs, TellsNothing
<1>6. ASSUME NEW i, FirstShape(h, i), b.shape = h[i].shape
      PROVE  Changed!Kind(h, k) = Infer(IF b.shape = "none" THEN "wall" ELSE b.shape, s.shape)
  <2>1. i \in 1..Len(h) /\ b.shape # "none" BY <1>6 DEF FirstShape
  <2>2. CASE i < k BY <1>2, <1>3, <1>6, <2>1, <2>2, KindIs
  <2>3. CASE i = k BY <1>3, <1>4, <1>6, <2>1, <2>3, TellsNothing
  <2>4. CASE i > k
    <3>1. Shapeless(h, k - 1) /\ h[k].shape = "none" BY <1>1, <1>2, <1>6, <2>1, <2>4 DEF FirstShape, Shapeless
    <3> QED BY <1>2, <3>1, KindIs, TellsNothing
  <2> QED BY <1>1, <1>2, <2>1, <2>2, <2>3, <2>4
<1> QED BY <1>5, <1>6 DEF BaseOf

\* What is recorded of a tile stays its last telling observation.
LEMMA RecordStays ==
  ASSUME NEW h \in Seq(Seen), NEW s \in Seen, NEW b, BaseOf(h, b), NEW r, RecordOf(h, r),
         h = <<>> \/ Infer(IF b.shape = "none" THEN "wall" ELSE b.shape, s.shape) = "unknown"
  PROVE  RecordOf(Append(h, s), r)
<1> DEFINE g == Append(h, s)
<1>1. /\ Len(h) \in Nat /\ DOMAIN h = 1..Len(h) /\ DOMAIN g = 1..(Len(h) + 1) /\ \A i \in 1..Len(h) : g[i] = h[i]
  BY HistoryAppend
<1>2. Changed!Telling(g) = Changed!Telling(h) BY TellingStep
<1>3. PICK k : /\ IsMax(k, Changed!Telling(h)) /\ r.new = h[k].type
               /\ Changed!OneShape(h) => r.kind = Changed!Kind(h, k)
  BY DEF RecordOf
<1>4. k \in 1..Len(h) BY <1>1, <1>3 DEF IsMax, Changed!Telling
<1>5. h # <<>> BY <1>1, <1>4, EmptySeq
<1>6. Changed!Kind(g, k) = Changed!Kind(h, k) BY <1>4, <1>5, KindStep
<1>7. Changed!OneShape(g) => Changed!OneShape(h) BY <1>1 DEF Changed!OneShape
<1> HIDE DEF g
<1>8. RecordOf(g, r) BY <1>1, <1>2, <1>3, <1>4, <1>6, <1>7 DEF RecordOf
<1> QED BY <1>8 DEF g

\* A record of a telling observation is that of the tile from then on.
LEMMA RecordIsNew ==
  ASSUME Changed!SeenAssumption, NEW h \in Seq(Seen), NEW s \in Seen, NEW b, BaseOf(h, b), h # <<>>,
         Infer(IF b.shape = "none" THEN "wall" ELSE b.shape, s.shape) # "unknown",
         NEW r, {"kind", "new"} \subseteq DOMAIN r, r.new = s.type,
         \/ r.kind = Infer(IF b.shape = "none" THEN "wall" ELSE b.shape, s.shape)
         \/ RecordOf(h, r)
  PROVE  RecordOf(Append(h, s), r)
<1> DEFINE g == Append(h, s)
           n == Len(h)
           kind == Infer(IF b.shape = "none" THEN "wall" ELSE b.shape, s.shape)
<1>1. n \in Nat /\ g[n + 1] = s /\ DOMAIN h = 1..n /\ DOMAIN g = 1..(n + 1) /\ \A i \in 1..n : g[i] = h[i]
  BY HistoryAppend
<1>2. Changed!Telling(g) = Changed!Telling(h) \cup {n + 1} BY TellingStep
<1>3. Changed!Kind(g, n + 1) = kind BY KindStep
<1>4. IsMax(n + 1, Changed!Telling(g)) BY <1>1, <1>2 DEF IsMax, Changed!Telling
<1>5. ASSUME Changed!OneShape(g) PROVE r.kind = kind
  <2>1. CASE RecordOf(h, r)
    <3>1. PICK k : /\ IsMax(k, Changed!Telling(h)) /\ r.new = h[k].type
                   /\ Changed!OneShape(h) => r.kind = Changed!Kind(h, k)
      BY <2>1 DEF RecordOf
    <3>2. Changed!OneShape(h) BY <1>1, <1>5 DEF Changed!OneShape
    <3>3. k \in Changed!Telling(h) /\ h[k].type = s.type BY <3>1 DEF IsMax
    <3>4. Changed!Kind(h, k) = kind BY <1>5, <3>3, SameType
    <3> QED BY <3>1, <3>2, <3>4
  <2>2. CASE ~RecordOf(h, r) BY <2>2
  <2> QED BY <2>1, <2>2
<1> HIDE DEF g, n, kind
<1>6. RecordOf(g, r) BY <1>1, <1>3, <1>4, <1>5 DEF RecordOf
<1> QED BY <1>6 DEF g

\* A count follows one tile that is recorded.
LEMMA OneMore ==
  ASSUME Changed!SeenAssumption, NEW S \in SUBSET ModTiles, NEW c
  PROVE  Changed!Cardinality(S \cup {c}) = Changed!Cardinality(S) + IF c \in S THEN 0 ELSE 1
<1>1. \A T : (Changed!IsFiniteSet(T) <=> IsFiniteSet(T)) BY DEF Changed!IsFiniteSet, IsFiniteSet
<1>2. \A T : Changed!Cardinality(T) = Cardinality(T) BY DEF Changed!Cardinality, Cardinality
<1>3. IsFiniteSet(S) BY <1>1, FS_Subset DEF Changed!SeenAssumption
<1>4. Cardinality(S) \in Nat BY <1>3, FS_CardinalityType
<1> QED BY <1>2, <1>3, <1>4, FS_AddElement

\* A record joins the others or takes the place of its tile's; the box is stale.
LEMMA AddStep ==
  ASSUME Changed!SeenAssumption, ModsIInv, NEW c, NEW r, Changed!Add(c, r)
  PROVE  /\ DOMAIN mods'.at = DOMAIN mods.at \cup {c} /\ mods'.at[c] = r
         /\ \A d \in DOMAIN mods.at : d # c => mods'.at[d] = mods.at[d]
         /\ mods'.count = Changed!Cardinality(DOMAIN mods'.at)
         /\ "computed" \in DOMAIN bounds' /\ ~bounds'.computed
<1>1. mods' = [at |-> [d \in DOMAIN mods.at \cup {c} |-> IF d = c THEN r ELSE mods.at[d]],
               count |-> mods.count + IF c \in DOMAIN mods.at THEN 0 ELSE 1]
  BY DEF Changed!Add
<1>2. DOMAIN mods'.at = DOMAIN mods.at \cup {c} BY <1>1
<1>3. mods'.at[c] = r /\ \A d \in DOMAIN mods.at : d # c => mods'.at[d] = mods.at[d] BY <1>1
<1>4. mods'.count = mods.count + IF c \in DOMAIN mods.at THEN 0 ELSE 1 BY <1>1
<1>5. mods'.count = Changed!Cardinality(DOMAIN mods'.at)
  <2>1. DOMAIN mods.at \in SUBSET ModTiles BY DEF ModsIInv, Changed!SeenAssumption
  <2> DEFINE S == DOMAIN mods.at
  <2>2. mods.count = Changed!Cardinality(S) BY DEF ModsIInv
  <2>3. Changed!Cardinality(S \cup {c}) = Changed!Cardinality(S) + IF c \in S THEN 0 ELSE 1 BY <2>1, OneMore
  <2> QED BY <1>2, <1>4, <2>2, <2>3
<1>6. "computed" \in DOMAIN bounds' /\ ~bounds'.computed BY DEF Changed!Add, ModsIInv
<1> QED BY <1>2, <1>3, <1>5, <1>6

\* One observation of one tile, whatever it makes of the record.
LEMMA DetectStep ==
  ASSUME Changed!SeenAssumption, ModsIInv, NEW c \in ModTiles, NEW s \in Seen, Changed!DetectModifications(c, s)
  PROVE  ModsIInv'
<1> DEFINE h == history[c]
           b == baseline[c]
           g == Append(h, s)
           kind == Infer(IF b.shape = "none" THEN "wall" ELSE b.shape, s.shape)
<1>1. history \in [ModTiles -> Seq(Seen)] /\ h \in Seq(Seen) /\ BaseOf(h, b) BY DEF ModsIInv
<1>2. history' = [history EXCEPT ![c] = g]
  BY DEF Changed!DetectModifications
<1>3. history' \in [ModTiles -> Seq(Seen)] /\ history'[c] = g /\ \A d \in ModTiles : d # c => history'[d] = history[d]
  <2>1. g \in Seq(Seen) BY <1>1, HistoryAppend
  <2> HIDE DEF g
  <2> QED BY <1>1, <1>2, <2>1
<1>4. baseline' = IF b.shape \in {"unseen", "none"} THEN [baseline EXCEPT ![c] = s] ELSE baseline
  BY DEF Changed!DetectModifications
<1>5. /\ baseline' = [d \in ModTiles |-> baseline'[d]] /\ \A d \in ModTiles : d # c => baseline'[d] = baseline[d]
      /\ baseline'[c] = IF b.shape \in {"unseen", "none"} THEN s ELSE b
  BY <1>4 DEF ModsIInv
<1>6. \A d \in ModTiles : BaseOf(history'[d], baseline'[d])
  <2>1. BaseOf(g, IF b.shape \in {"unseen", "none"} THEN s ELSE b) BY <1>1, BaseStep
  <2> QED BY <1>3, <1>5, <2>1 DEF ModsIInv
<1>7. Changed!Telling(g) = IF h = <<>> \/ kind = "unknown" THEN Changed!Telling(h)
                           ELSE Changed!Telling(h) \cup {Len(h) + 1}
  BY <1>1, TellingStep
<1>8. b = Changed!Unseen <=> h = <<>> BY <1>1 DEF BaseOf, Changed!Unseen
<1>9. /\ DOMAIN mods.at = {d \in Inside : Changed!Telling(history[d]) # {}} /\ Inside \subseteq ModTiles
      /\ \A d \in DOMAIN mods.at : RecordOf(history[d], mods.at[d])
  BY DEF ModsIInv, Changed!SeenAssumption
<1>10. /\ b = Changed!Unseen \/ kind = "unknown" \/ c \notin Inside => UNCHANGED <<mods, bounds>>
       /\ b # Changed!Unseen /\ kind # "unknown" /\ c \in Inside
            => IF c \notin DOMAIN mods.at
               THEN Changed!Add(c, [kind |-> kind, old |-> b.type, new |-> s.type])
               ELSE IF mods.at[c].new # s.type
               THEN Changed!Add(c, [mods.at[c] EXCEPT !.kind = kind, !.new = s.type])
               ELSE UNCHANGED <<mods, bounds>>
  BY DEF Changed!DetectModifications, Infer
<1>11. CASE h = <<>> \/ kind = "unknown" \/ c \notin Inside
  <2>1. mods' = mods /\ bounds' = bounds BY <1>8, <1>10, <1>11
  <2>2. \A d \in Inside : Changed!Telling(history'[d]) = Changed!Telling(history[d])
    BY <1>3, <1>7, <1>9, <1>11
  <2>3. ASSUME NEW d \in DOMAIN mods.at PROVE RecordOf(history'[d], mods.at[d])
    <3>1. CASE d # c BY <1>3, <1>9, <3>1
    <3>2. CASE d = c
      <4>1. RecordOf(h, mods.at[c]) /\ (h = <<>> \/ kind = "unknown") BY <1>9, <1>11, <3>2
      <4>2. RecordOf(g, mods.at[c]) BY <1>1, <4>1, RecordStays
      <4> QED BY <1>3, <3>2, <4>2
    <3> QED BY <3>1, <3>2
  <2>4. DOMAIN mods.at = {d \in Inside : Changed!Telling(history'[d]) # {}} BY <1>9, <2>2
  <2> HIDE DEF h, b, g, kind
  <2> QED BY <1>3, <1>5, <1>6, <2>1, <2>3, <2>4 DEF ModsIInv
<1>12. CASE h # <<>> /\ kind # "unknown" /\ c \in Inside
  <2>1. Changed!Telling(g) # {} BY <1>7, <1>12
  <2>2. {d \in Inside : Changed!Telling(history'[d]) # {}}
          = {d \in Inside : Changed!Telling(history[d]) # {}} \cup {c}
    BY <1>3, <1>9, <1>12, <2>1
  <2>3. ASSUME NEW r, Changed!Add(c, r), {"kind", "new"} \subseteq DOMAIN r, r.new = s.type, r.kind = kind
        PROVE  ModsIInv'
    <3>1. RecordOf(g, r) BY <1>1, <1>12, <2>3, RecordIsNew
    <3> HIDE DEF h, b, g, kind
    <3>2. /\ DOMAIN mods'.at = DOMAIN mods.at \cup {c} /\ mods'.at[c] = r
          /\ \A d \in DOMAIN mods.at : d # c => mods'.at[d] = mods.at[d]
          /\ mods'.count = Changed!Cardinality(DOMAIN mods'.at)
          /\ "computed" \in DOMAIN bounds' /\ ~bounds'.computed
      BY <2>3, AddStep
    <3>3. DOMAIN mods'.at = {d \in Inside : Changed!Telling(history'[d]) # {}} BY <1>9, <2>2, <3>2
    <3>4. \A d \in DOMAIN mods'.at : RecordOf(history'[d], mods'.at[d]) BY <1>3, <1>9, <3>1, <3>2
    <3> QED BY <1>3, <1>5, <1>6, <3>2, <3>3, <3>4 DEF ModsIInv
  <2>4. CASE c \notin DOMAIN mods.at
    <3> DEFINE r == [kind |-> kind, old |-> b.type, new |-> s.type]
    <3>1. {"kind", "new"} \subseteq DOMAIN r /\ r.new = s.type /\ r.kind = kind OBVIOUS
    <3>2. Changed!Add(c, r) BY <1>8, <1>10, <1>12, <2>4
    <3> HIDE DEF r
    <3> QED BY <2>3, <3>1, <3>2
  <2>5. CASE c \in DOMAIN mods.at /\ mods.at[c].new # s.type
    <3> DEFINE r == [mods.at[c] EXCEPT !.kind = kind, !.new = s.type]
    <3>0. {"kind", "new"} \subseteq DOMAIN mods.at[c] BY <1>9, <2>5 DEF RecordOf
    <3>1. {"kind", "new"} \subseteq DOMAIN r /\ r.new = s.type /\ r.kind = kind BY <3>0
    <3>2. Changed!Add(c, r) BY <1>8, <1>10, <1>12, <2>5
    <3> HIDE DEF r
    <3> QED BY <2>3, <3>1, <3>2
  <2>6. CASE c \in DOMAIN mods.at /\ mods.at[c].new = s.type
    <3>1. mods' = mods /\ bounds' = bounds BY <1>8, <1>10, <1>12, <2>6
    <3>2. {"kind", "new"} \subseteq DOMAIN mods.at[c] /\ RecordOf(h, mods.at[c]) BY <1>9, <2>6 DEF RecordOf
    <3>3. RecordOf(g, mods.at[c]) BY <1>1, <1>12, <2>6, <3>2, RecordIsNew
    <3>4. \A d \in DOMAIN mods.at : RecordOf(history'[d], mods.at[d]) BY <1>3, <1>9, <3>3
    <3>5. DOMAIN mods.at = {d \in Inside : Changed!Telling(history'[d]) # {}} BY <1>9, <2>2, <2>6
    <3> HIDE DEF h, b, g, kind
    <3> QED BY <1>3, <1>5, <1>6, <3>1, <3>4, <3>5 DEF ModsIInv
  <2> QED BY <2>4, <2>5, <2>6
<1> QED BY <1>11, <1>12

\* After a full state every tile of the map has been seen once, and nothing told.
LEMMA FullStateIsNew ==
  ASSUME Changed!SeenAssumption, NEW s \in Seen, NEW base, base = Changed!Baselined(s), NEW told, told = Changed!Told(s)
  PROVE  /\ told \in [ModTiles -> Seq(Seen)] /\ base = [c \in ModTiles |-> base[c]]
         /\ \A c \in ModTiles : BaseOf(told[c], base[c]) /\ Changed!Telling(told[c]) = {}
<1>1. <<>> \in Seq(Seen) /\ Len(<<>>) = 0 /\ <<s>> \in Seq(Seen) /\ Len(<<s>>) = 1 /\ <<s>>[1] = s /\ <<s>> # <<>>
  BY EmptySeq
<1>2. told \in [ModTiles -> Seq(Seen)] BY <1>1 DEF Changed!Told
<1>3. base = [c \in ModTiles |-> base[c]] BY DEF Changed!Baselined
<1>4. ASSUME NEW c \in ModTiles PROVE BaseOf(told[c], base[c]) /\ Changed!Telling(told[c]) = {}
  <2>1. CASE c \notin Inside
    <3>1. told[c] = <<>> /\ base[c] = Changed!Unseen BY <2>1 DEF Changed!Told, Changed!Baselined
    <3> QED BY <1>1, <3>1 DEF BaseOf, Changed!Telling
  <2>2. CASE c \in Inside
    <3>1. told[c] = <<s>> /\ base[c] = s BY <2>2 DEF Changed!Told, Changed!Baselined
    <3>2. Changed!Telling(told[c]) = {} BY <1>1, <3>1 DEF Changed!Telling
    <3> DEFINE h == <<s>>
    <3>3. s.shape \in {"wall", "floor", "void", "none"} BY DEF Changed!SeenAssumption
    <3>4. Len(h) = 1 /\ h[1] = s /\ h # <<>> BY <1>1
    <3> HIDE DEF h
    <3>5. BaseOf(h, s)
      <4>1. CASE s.shape = "none" BY <3>4, <4>1 DEF BaseOf, Shapeless
      <4>2. CASE s.shape # "none"
        <5>1. FirstShape(h, 1) BY <3>4, <4>2 DEF FirstShape, Shapeless
        <5> QED BY <3>3, <3>4, <5>1 DEF BaseOf
      <4> QED BY <4>1, <4>2
    <3> QED BY <3>1, <3>2, <3>5 DEF h
  <2> QED BY <2>1, <2>2
<1> QED BY <1>2, <1>3, <1>4

\* Nothing recorded is nothing counted.
LEMMA CountOfNone == Changed!Cardinality({}) = 0 /\ DOMAIN <<>> = {}
<1>1. Changed!Cardinality({}) = Cardinality({}) BY DEF Changed!Cardinality, Cardinality
<1> QED BY <1>1, FS_EmptySet

----------------------------------------------------------------------------
\* For any map and observations: the records are the last telling observations,
\* the baseline the first shapes, and the box is that of the records or stale.
THEOREM ModificationsInvariant == ASSUME Changed!SeenAssumption PROVE ModSpec => []ModsIInv
<1>1. Changed!Init => ModsIInv
  <2> SUFFICES ASSUME Changed!Init PROVE ModsIInv
    OBVIOUS
  <2>1. PICK s \in Seen : baseline = Changed!Baselined(s) /\ history = Changed!Told(s) BY DEF Changed!Init
  <2>2. /\ history \in [ModTiles -> Seq(Seen)] /\ baseline = [c \in ModTiles |-> baseline[c]]
        /\ \A c \in ModTiles : BaseOf(history[c], baseline[c]) /\ Changed!Telling(history[c]) = {}
    BY <2>1, FullStateIsNew
  <2>3. mods.at = <<>> /\ mods.count = 0 /\ "computed" \in DOMAIN bounds /\ ~bounds.computed
    BY DEF Changed!Init, Changed!NoBounds
  <2>4. Inside \subseteq ModTiles BY DEF Changed!SeenAssumption
  <2> QED BY <2>2, <2>3, <2>4, CountOfNone DEF ModsIInv
<1>2. ModsIInv /\ [Changed!Next]_(Changed!modVars) => ModsIInv'
  <2> SUFFICES ASSUME ModsIInv, [Changed!Next]_(Changed!modVars) PROVE ModsIInv'
    OBVIOUS
  <2>1. ASSUME NEW s \in Seen, Changed!InitializeBaseline(s) PROVE ModsIInv'
    <3>1. baseline' = Changed!Baselined(s) /\ history' = Changed!Told(s) BY <2>1 DEF Changed!InitializeBaseline
    <3>2. /\ history' \in [ModTiles -> Seq(Seen)] /\ baseline' = [c \in ModTiles |-> baseline'[c]]
          /\ \A c \in ModTiles : BaseOf(history'[c], baseline'[c]) /\ Changed!Telling(history'[c]) = {}
      BY <3>1, FullStateIsNew
    <3>3. mods'.at = <<>> /\ mods'.count = 0 /\ "computed" \in DOMAIN bounds' /\ ~bounds'.computed
      BY <2>1 DEF Changed!InitializeBaseline, Changed!NoBounds
    <3>4. Inside \subseteq ModTiles BY DEF Changed!SeenAssumption
    <3> QED BY <3>2, <3>3, <3>4, CountOfNone DEF ModsIInv
  <2>2. CASE Changed!GetBounds
    <3>1. UNCHANGED <<baseline, mods, history>> BY <2>2 DEF Changed!GetBounds
    <3>2. bounds' = bounds \/ bounds' = [computed |-> TRUE, box |-> Changed!Region(DOMAIN mods.at)]
      BY <2>2 DEF Changed!GetBounds
    <3>3. "computed" \in DOMAIN bounds' /\ (bounds'.computed => bounds'.box = Changed!Region(DOMAIN mods.at))
      BY <3>2 DEF ModsIInv
    <3> QED BY <3>1, <3>3 DEF ModsIInv
  <2>3. CASE UNCHANGED Changed!modVars BY <2>3 DEF Changed!modVars, ModsIInv
  <2> QED BY <2>1, <2>2, <2>3, DetectStep DEF Changed!Next
<1> QED BY <1>1, <1>2, PTL DEF ModSpec

\* What is recorded, counted and boxed is what the history of every tile says.
THEOREM RecordsMatchHistory == ASSUME Changed!SeenAssumption PROVE ModSpec => []Changed!ModificationsMatchHistory
<1>1. ModsIInv => Changed!ModificationsMatchHistory
  <2> SUFFICES ASSUME ModsIInv PROVE Changed!ModificationsMatchHistory
    OBVIOUS
  <2>1. mods.count = Changed!Cardinality(DOMAIN mods.at) BY DEF ModsIInv
  <2>2. mods.count # 0 => Changed!Bounds = Changed!Region(DOMAIN mods.at) BY DEF ModsIInv, Changed!Bounds
  <2>3. DOMAIN mods.at = {c \in Inside : Changed!Telling(history[c]) # {}} BY DEF ModsIInv
  <2>4. ASSUME NEW c \in DOMAIN mods.at, Changed!OneShape(history[c])
        PROVE  LET k == Changed!Max(Changed!Telling(history[c]))
               IN mods.at[c].kind = Changed!Kind(history[c], k) /\ mods.at[c].new = history[c][k].type
    <3> DEFINE T == Changed!Telling(history[c])
    <3>1. PICK k : /\ IsMax(k, T) /\ mods.at[c].new = history[c][k].type
                   /\ mods.at[c].kind = Changed!Kind(history[c], k)
      BY <2>4 DEF ModsIInv, RecordOf
    <3>2. T \subseteq Int BY DEF Changed!Telling
    <3> HIDE DEF T
    <3>3. Changed!Max(T) = k
      <4>1. k \in T /\ \A j \in T : k >= j BY <3>1, <3>2 DEF IsMax
      <4>2. \A i \in T : (\A j \in T : i >= j) => i = k BY <3>2, <4>1
      <4> QED BY <4>1, <4>2 DEF Changed!Max
    <3> QED BY <3>1, <3>3 DEF T
  <2> QED BY <2>1, <2>2, <2>3, <2>4 DEF Changed!ModificationsMatchHistory
<1> QED BY <1>1, ModificationsInvariant, PTL

----------------------------------------------------------------------------
(* What the older program tells the model of its own commands.             *)

\* A turn that names this command tells the truth about that cycle: it is the
\* last one accepted in it, or none is.
Of(c) == {k \in DOMAIN accepted : accepted[k].cycle = c}
IsLast(id, c) ==
  /\ IF Of(c) = {} THEN id = 0 ELSE \E k \in Of(c) : accepted[k].id = id
  /\ \A k \in Of(c) : accepted[k].id <= id

CycleTypes ==
  /\ cycles \in Nat /\ count \in Nat /\ last \in Nat /\ nextID \in Nat \ {0}
  /\ accepted \in Seq([id : Nat, cycle : Nat, kept : BOOLEAN])
  /\ turns \in Seq([number : Nat, id : Nat, cycle : Nat])
\* Ids are given once; what is accepted belongs to this cycle or an earlier one.
IdsAreNew == \A k \in DOMAIN accepted : accepted[k].id < nextID /\ accepted[k].cycle <= cycles
\* The command that the turn of this cycle would name now.
LastOfThis == IsLast(last, cycles)
\* A turn is of an earlier cycle, or of one that is over.
TurnsAreTrue ==
  \A i \in DOMAIN turns : /\ IsLast(turns[i].id, turns[i].cycle)
                          /\ turns[i].cycle <= cycles /\ (turns[i].cycle = cycles => at = "idle")
WindowIsFull ==
  /\ Len(turns) = (IF count < Window THEN count ELSE Window)
  /\ \A i \in DOMAIN turns : turns[i].number = count - Len(turns) + i
Kept == {accepted[k].id : k \in {j \in DOMAIN accepted : accepted[j].kept}}
PendingIsKept ==
  /\ DOMAIN pending \cup complete = Kept
  /\ DOMAIN pending \cap complete = {}
  /\ \A c \in DOMAIN pending : "status" \in DOMAIN pending[c] /\ pending[c].status # "completed"

CyclesIInv == CycleTypes /\ IdsAreNew /\ LastOfThis /\ TurnsAreTrue /\ WindowIsFull /\ PendingIsKept

\* What is neither an answer, a report nor a turn leaves it all as it was.
LEMMA QuietStep ==
  ASSUME CyclesIInv, UNCHANGED <<pending, last, nextID, turns, count, cycles, accepted, complete>>,
         at = "idle" => at' = "idle"
  PROVE  CyclesIInv'
<1> USE DEF CyclesIInv
<1>1. \A id, c : IsLast(id, c)' <=> IsLast(id, c) BY DEF IsLast, Of
<1>2. TurnsAreTrue' BY <1>1 DEF TurnsAreTrue
<1>3. LastOfThis' BY <1>1 DEF LastOfThis
<1> QED BY <1>2, <1>3 DEF CycleTypes, IdsAreNew, WindowIsFull, PendingIsKept, Kept

\* The records of what was accepted and of the turns, by their places.
LEMMA Records ==
  ASSUME CycleTypes
  PROVE  /\ Len(accepted) \in Nat /\ DOMAIN accepted = 1..Len(accepted)
         /\ \A k \in DOMAIN accepted : accepted[k] \in [id : Nat, cycle : Nat, kept : BOOLEAN]
         /\ Len(turns) \in Nat /\ DOMAIN turns = 1..Len(turns)
         /\ \A i \in DOMAIN turns : turns[i] \in [number : Nat, id : Nat, cycle : Nat]
BY LenProperties, ElementOfSeq DEF CycleTypes

\* The feedback that begins a cycle takes what is reported out of what is pending.
LEMMA BeginCycleStep == ASSUME CyclesIInv, Cycle!BeginCycle PROVE CyclesIInv'
<1> USE DEF CyclesIInv, Cycle!BeginCycle
<1>1. \A id, c : IsLast(id, c)' <=> IsLast(id, c) BY DEF IsLast, Of
<1>2. CycleTypes' /\ cycles' = cycles + 1 BY DEF CycleTypes
<1>3. IdsAreNew' BY <1>2, Records DEF IdsAreNew, CycleTypes
<1>4. LastOfThis'
  <2>1. Of(cycles') = {} BY <1>2, Records DEF IdsAreNew, Of, CycleTypes
  <2> QED BY <1>1, <2>1 DEF LastOfThis, IsLast
<1>5. TurnsAreTrue' BY <1>1, <1>2, Records DEF TurnsAreTrue, CycleTypes
<1>6. WindowIsFull' BY DEF WindowIsFull
<1>7. PendingIsKept'
  <2> DEFINE done == Cycle!Cardinality(dug)
             Done == Cycle!Finished(done)
  <2>0. PICK overdue \in SUBSET DOMAIN pending :
          pending' = [d \in DOMAIN pending \ Done |-> Cycle!Progress(pending[d], done, d \in overdue)]
    OBVIOUS
  <2>1. /\ DOMAIN pending' = DOMAIN pending \ Done /\ complete' = complete \cup Done
        /\ Done = {c \in DOMAIN pending : done >= pending[c].expected}
    BY <2>0 DEF Cycle!Finished
  <2> HIDE DEF Done, done
  <2>2. ASSUME NEW c \in DOMAIN pending' PROVE "status" \in DOMAIN pending'[c] /\ pending'[c].status # "completed"
    <3>2. ~(done >= pending[c].expected) BY <2>1, <2>2
    <3>3. pending'[c] = Cycle!Progress(pending[c], done, c \in overdue) BY <2>0, <2>1, <2>2
    <3>4. "status" \in DOMAIN pending[c] /\ pending[c].status # "completed" BY <2>1, <2>2 DEF PendingIsKept
    <3> QED BY <3>2, <3>3, <3>4 DEF Cycle!Progress
  <2>3. Kept' = Kept BY DEF Kept
  <2> QED BY <2>1, <2>2, <2>3 DEF PendingIsKept
<1> QED BY <1>2, <1>3, <1>4, <1>5, <1>6, <1>7

\* A command gets the next id; one that is accepted is the last of this cycle, and
\* leaves what the turns say of other cycles as it was.
LEMMA Accepting ==
  ASSUME CyclesIInv, NEW kept \in BOOLEAN, cycles' = cycles, nextID' = nextID + 1, last' = nextID,
         accepted' = Append(accepted, [id |-> nextID, cycle |-> cycles, kept |-> kept])
  PROVE  /\ accepted' \in Seq([id : Nat, cycle : Nat, kept : BOOLEAN])
         /\ IdsAreNew' /\ LastOfThis'
         /\ \A id, c : c # cycles => (IsLast(id, c)' <=> IsLast(id, c))
         /\ Kept' = IF kept THEN Kept \cup {nextID} ELSE Kept
<1> DEFINE N == Len(accepted) + 1
           r == [id |-> nextID, cycle |-> cycles, kept |-> kept]
<1>0. CycleTypes /\ IdsAreNew BY DEF CyclesIInv
<1>1. r \in [id : Nat, cycle : Nat, kept : BOOLEAN] BY <1>0 DEF CycleTypes
<1>2. /\ accepted' \in Seq([id : Nat, cycle : Nat, kept : BOOLEAN])
      /\ Len(accepted') = N /\ accepted'[N] = r /\ \A k \in 1..Len(accepted) : accepted'[k] = accepted[k]
  BY <1>0, <1>1, AppendProperties DEF CycleTypes
<1>3. N \in Nat \ {0} /\ N \notin DOMAIN accepted /\ DOMAIN accepted' = DOMAIN accepted \cup {N}
  BY <1>0, <1>2, Records, LenProperties
<1>4. accepted'[N] = r /\ \A k \in DOMAIN accepted : accepted'[k] = accepted[k] BY <1>0, <1>2, Records
<1>5. IdsAreNew' BY <1>0, <1>3, <1>4, Records DEF IdsAreNew, CycleTypes
<1>6. \A c : Of(c)' = IF c = cycles THEN Of(c) \cup {N} ELSE Of(c) BY <1>3, <1>4 DEF Of
<1>7. LastOfThis'
  <2>1. N \in Of(cycles)' /\ accepted'[N].id = nextID BY <1>4, <1>6
  <2>2. \A k \in Of(cycles)' : accepted'[k].id <= nextID
    BY <1>0, <1>4, <1>6, Records DEF IdsAreNew, CycleTypes, Of
  <2> QED BY <2>1, <2>2 DEF LastOfThis, IsLast
<1>8. ASSUME NEW id, NEW c, c # cycles PROVE IsLast(id, c)' <=> IsLast(id, c)
  <2>1. Of(c)' = Of(c) /\ \A k \in Of(c) : accepted'[k] = accepted[k] BY <1>4, <1>6, <1>8 DEF Of
  <2> QED BY <2>1 DEF IsLast
<1>9. Kept' = IF kept THEN Kept \cup {nextID} ELSE Kept BY <1>3, <1>4 DEF Kept
<1> QED BY <1>2, <1>5, <1>7, <1>8, <1>9

\* A command that is not accepted only takes its id with it.
LEMMA Refusing ==
  ASSUME CyclesIInv, nextID' = nextID + 1,
         UNCHANGED <<at, pending, last, turns, count, cycles, accepted, complete>>
  PROVE  CyclesIInv'
<1> USE DEF CyclesIInv
<1>1. \A id, c : IsLast(id, c)' <=> IsLast(id, c) BY DEF IsLast, Of
<1>2. TurnsAreTrue' BY <1>1 DEF TurnsAreTrue
<1>3. LastOfThis' BY <1>1 DEF LastOfThis
<1>4. CycleTypes' BY DEF CycleTypes
<1>5. IdsAreNew' BY Records DEF IdsAreNew, CycleTypes
<1> QED BY <1>2, <1>3, <1>4, <1>5 DEF WindowIsFull, PendingIsKept, Kept

\* While commands are sent the turns are all of earlier cycles.
LEMMA TurnsStay ==
  ASSUME CyclesIInv, at = "executing", UNCHANGED <<turns, count, cycles>>,
         \A id, c : c # cycles => (IsLast(id, c)' <=> IsLast(id, c))
  PROVE  TurnsAreTrue' /\ WindowIsFull'
BY DEF CyclesIInv, TurnsAreTrue, WindowIsFull

\* The levels of a shaft are accepted and not remembered.
LEMMA DigLevelStep == ASSUME CyclesIInv, NEW result, Cycle!DigLevel(result) PROVE CyclesIInv'
<1> USE DEF Cycle!DigLevel
<1>1. CASE result # "accepted" BY <1>1, Refusing
<1>2. CASE result = "accepted"
  <2>1. accepted' = Append(accepted, [id |-> nextID, cycle |-> cycles, kept |-> FALSE]) BY <1>2
  <2>2. /\ accepted' \in Seq([id : Nat, cycle : Nat, kept : BOOLEAN]) /\ IdsAreNew' /\ LastOfThis'
        /\ \A id, c : c # cycles => (IsLast(id, c)' <=> IsLast(id, c))
        /\ Kept' = Kept
    BY <1>2, <2>1, Accepting
  <2>3. TurnsAreTrue' /\ WindowIsFull' BY <2>2, TurnsStay
  <2>4. CycleTypes' BY <1>2, <2>2 DEF CyclesIInv, CycleTypes
  <2>5. PendingIsKept' BY <2>2 DEF CyclesIInv, PendingIsKept
  <2> QED BY <2>2, <2>3, <2>4, <2>5 DEF CyclesIInv
<1> QED BY <1>1, <1>2

\* What is accepted and no building is pending from then on.
LEMMA SendCommandStep == ASSUME CyclesIInv, NEW result, Cycle!SendCommand(result) PROVE CyclesIInv'
<1> USE DEF Cycle!SendCommand
<1>1. CASE result # "accepted" BY <1>1, Refusing
<1>2. CASE result = "accepted"
  <2> DEFINE kept == Cycle!spec.type # "build"
  <2>1. kept \in BOOLEAN /\ accepted' = Append(accepted, [id |-> nextID, cycle |-> cycles, kept |-> kept]) BY <1>2
  <2>2. /\ accepted' \in Seq([id : Nat, cycle : Nat, kept : BOOLEAN]) /\ IdsAreNew' /\ LastOfThis'
        /\ \A id, c : c # cycles => (IsLast(id, c)' <=> IsLast(id, c))
        /\ Kept' = IF kept THEN Kept \cup {nextID} ELSE Kept
    BY <1>2, <2>1, Accepting
  <2>3. TurnsAreTrue' /\ WindowIsFull' BY <2>2, TurnsStay
  <2>4. CycleTypes' BY <1>2, <2>2 DEF CyclesIInv, CycleTypes
  <2>5. nextID \notin Kept BY Records DEF CyclesIInv, IdsAreNew, CycleTypes, Kept
  <2>6. PendingIsKept'
    <3>1. PendingIsKept BY DEF CyclesIInv
    <3>2. CASE ~kept BY <1>2, <2>2, <3>1, <3>2 DEF PendingIsKept
    <3>3. CASE kept
      <4>1. pending' = Cycle!Remembered(Cycle!spec) BY <1>2, <3>3
      <4>2. DOMAIN pending' = DOMAIN pending \cup {nextID} BY <4>1 DEF Cycle!Remembered
      <4>3. \A c \in DOMAIN pending : c # nextID => pending'[c] = pending[c] BY <4>1 DEF Cycle!Remembered
      <4>4. "status" \in DOMAIN pending'[nextID] /\ pending'[nextID].status # "completed"
        BY <4>1 DEF Cycle!Remembered, Cycle!NewPending
      <4>5. nextID \notin DOMAIN pending \cup complete BY <2>5, <3>1 DEF PendingIsKept
      <4> QED BY <2>2, <3>1, <3>3, <4>2, <4>3, <4>4, <4>5 DEF PendingIsKept
    <3> QED BY <3>2, <3>3
  <2> QED BY <2>2, <2>3, <2>4, <2>6 DEF CyclesIInv
<1> QED BY <1>1, <1>2

\* A window of w elements, after one is appended: all but the last come from
\* the window before, moved by one place where it was full.
Slid(s, r, w) == IF Len(Append(s, r)) > w THEN Tail(Append(s, r)) ELSE Append(s, r)
SlidRight(t, s, r, w) ==
  /\ Len(s) + 1 - Len(t) \in Nat /\ Len(t) = (IF Len(s) < w THEN Len(s) + 1 ELSE w)
  /\ \A i \in 1..Len(t) : t[i] = IF i = Len(t) THEN r ELSE s[i + (Len(s) + 1 - Len(t))]
\* The window keeps its size, its order and its latest elements.
LEMMA Slide ==
  ASSUME NEW T, NEW s \in Seq(T), NEW r \in T, NEW w \in Nat \ {0}, Len(s) <= w
  PROVE  Slid(s, r, w) \in Seq(T) /\ SlidRight(Slid(s, r, w), s, r, w)
<1> USE DEF SlidRight
<1> DEFINE t == Slid(s, r, w)
           all == Append(s, r)
           n == Len(s)
<1> SUFFICES t \in Seq(T) /\ SlidRight(t, s, r, w)
  OBVIOUS
<1>1. /\ all \in Seq(T) /\ all # <<>> /\ Len(all) = n + 1 /\ all[n + 1] = r /\ \A i \in 1..n : all[i] = s[i]
      /\ n \in Nat
  BY AppendProperties, LenProperties
<1>2. Tail(all) \in Seq(T) /\ Len(Tail(all)) = n /\ \A i \in 1..n : Tail(all)[i] = all[i + 1]
  BY <1>1, HeadTailProperties
<1>3. t = IF Len(all) > w THEN Tail(all) ELSE all BY DEF Slid
<1> HIDE DEF all, t
<1>4. CASE n + 1 > w
  <2>1. n = w /\ t = Tail(all) BY <1>1, <1>3, <1>4
  <2>2. Len(t) = n /\ n + 1 - Len(t) = 1 BY <1>1, <1>2, <2>1
  <2>3. ASSUME NEW i \in 1..n PROVE t[i] = IF i = n THEN r ELSE s[i + 1]
    <3>1. t[i] = all[i + 1] BY <1>2, <2>1
    <3>2. CASE i = n BY <1>1, <3>1, <3>2
    <3>3. CASE i # n
      <4>1. i + 1 \in 1..n BY <1>1, <3>3
      <4> QED BY <1>1, <3>1, <3>3, <4>1
    <3> QED BY <3>2, <3>3
  <2>4. \A i \in 1..Len(t) : t[i] = IF i = Len(t) THEN r ELSE s[i + (n + 1 - Len(t))] BY <2>2, <2>3
  <2>5. t \in Seq(T) /\ n + 1 - Len(t) \in Nat /\ Len(t) = (IF n < w THEN n + 1 ELSE w) BY <1>1, <1>2, <2>1, <2>2
  <2> QED BY <2>4, <2>5
<1>5. CASE ~(n + 1 > w)
  <2>1. t = all BY <1>1, <1>3, <1>5
  <2> QED BY <1>1, <1>5, <2>1
<1> QED BY <1>4, <1>5

\* The turn of this cycle names its last command; the oldest makes room.
LEMMA AddTurnStep == ASSUME CyclesIInv, Cycle!WindowAssumption, Cycle!AddTurn PROVE CyclesIInv'
<1> DEFINE T == [number : Nat, id : Nat, cycle : Nat]
           r == [number |-> count + 1, id |-> last, cycle |-> cycles]
           d == Len(turns) + 1 - Len(turns')
<1>0. CycleTypes /\ TurnsAreTrue /\ WindowIsFull /\ LastOfThis /\ Window \in Nat \ {0}
  BY DEF CyclesIInv, Cycle!WindowAssumption
<1>1. r \in T /\ turns \in Seq(T) /\ Len(turns) \in Nat /\ Len(turns) <= Window
  BY <1>0, Records DEF CycleTypes, WindowIsFull
<1>2. turns' = Slid(turns, r, Window) BY DEF Cycle!AddTurn, Slid
<1>3. /\ turns' \in Seq(T) /\ d \in Nat
      /\ Len(turns') = (IF Len(turns) < Window THEN Len(turns) + 1 ELSE Window)
      /\ \A i \in 1..Len(turns') : turns'[i] = IF i = Len(turns') THEN r ELSE turns[i + d]
  <2> HIDE DEF r, T
  <2>1. Window \in Nat \ {0} BY <1>0
  <2>2. turns' \in Seq(T) /\ SlidRight(turns', turns, r, Window) BY <1>1, <1>2, <2>1, Slide
  <2> QED BY <2>2 DEF SlidRight
<1>4. DOMAIN turns' = 1..Len(turns') /\ DOMAIN turns = 1..Len(turns) /\ Len(turns') \in Nat
  BY <1>1, <1>3, LenProperties
<1>5. \A id, c : IsLast(id, c)' <=> IsLast(id, c) BY DEF Cycle!AddTurn, IsLast, Of
<1>6. count' = count + 1 /\ cycles' = cycles /\ at' = "idle" /\ last' = last BY DEF Cycle!AddTurn
<1>7. ASSUME NEW i \in DOMAIN turns'
      PROVE  /\ IsLast(turns'[i].id, turns'[i].cycle) /\ turns'[i].cycle <= cycles
             /\ turns'[i].number = count + 1 - Len(turns') + i
  <2>1. CASE i = Len(turns')
    <3>1. turns'[i] = r BY <1>3, <1>4, <1>7, <2>1
    <3>2. turns'[i].number = count + 1 /\ turns'[i].id = last /\ turns'[i].cycle = cycles BY <3>1
    <3> HIDE DEF r, T, d
    <3> QED BY <1>0, <1>4, <2>1, <3>2 DEF CycleTypes, LastOfThis
  <2>2. CASE i # Len(turns')
    <3>0. turns'[i] = turns[i + d] BY <1>3, <1>4, <1>7, <2>2
    <3>3. i + d \in 1..Len(turns)
      <4> HIDE DEF r, T
      <4> QED BY <1>1, <1>3, <1>4, <1>7, <2>2
    <3>1. i + d \in DOMAIN turns BY <1>4, <3>3
    <3>4. IsLast(turns[i + d].id, turns[i + d].cycle) /\ turns[i + d].cycle <= cycles BY <1>0, <3>1 DEF TurnsAreTrue
    <3>5. count - Len(turns) + (i + d) = count + 1 - Len(turns') + i
      <4> HIDE DEF r, T
      <4> QED BY <1>0, <1>1, <1>4, <1>7 DEF CycleTypes
    <3>2. turns[i + d].number = count - Len(turns) + (i + d) BY <1>0, <3>1 DEF WindowIsFull
    <3> QED BY <3>0, <3>2, <3>4, <3>5
  <2> QED BY <2>1, <2>2
<1>8. TurnsAreTrue' BY <1>5, <1>6, <1>7 DEF TurnsAreTrue
<1>9. WindowIsFull'
  <2>1. Len(turns') = IF count + 1 < Window THEN count + 1 ELSE Window BY <1>0, <1>3 DEF WindowIsFull, CycleTypes
  <2> HIDE DEF r, T, d
  <2>2. \A i \in DOMAIN turns' : turns'[i].number = count' - Len(turns') + i
    <3> SUFFICES ASSUME NEW i \in DOMAIN turns' PROVE turns'[i].number = count' - Len(turns') + i
      OBVIOUS
    <3>1. turns'[i].number = count + 1 - Len(turns') + i BY <1>7
    <3> QED BY <1>0, <1>4, <1>6, <3>1 DEF CycleTypes
  <2> QED BY <1>6, <2>1, <2>2 DEF WindowIsFull
<1>10. LastOfThis' BY <1>0, <1>5, <1>6 DEF LastOfThis
<1>11. CycleTypes'
  <2>1. turns' \in Seq([number : Nat, id : Nat, cycle : Nat]) BY <1>3
  <2>2. UNCHANGED <<nextID, accepted>> BY DEF Cycle!AddTurn
  <2> HIDE DEF r, T, d
  <2>3. count' \in Nat /\ cycles' \in Nat /\ last' \in Nat BY <1>0, <1>6 DEF CycleTypes
  <2>4. nextID' \in Nat \ {0} /\ accepted' \in Seq([id : Nat, cycle : Nat, kept : BOOLEAN]) BY <1>0, <2>2 DEF CycleTypes
  <2> QED BY <2>1, <2>3, <2>4 DEF CycleTypes
<1> QED BY <1>8, <1>9, <1>10, <1>11 DEF Cycle!AddTurn, CyclesIInv, IdsAreNew, PendingIsKept, Kept

----------------------------------------------------------------------------
\* For any answers, agents and window: ids are new, the turns are true, and what
\* is pending is what was accepted and is not yet reported, in every cycle.
THEOREM CyclesInvariant == ASSUME Cycle!WindowAssumption PROVE Cycle!Spec => []CyclesIInv
<1>1. Cycle!Init => CyclesIInv
  <2> SUFFICES ASSUME Cycle!Init PROVE CyclesIInv
    OBVIOUS
  <2>1. accepted = <<>> /\ turns = <<>> /\ pending = <<>> /\ DOMAIN <<>> = {} /\ Len(<<>>) = 0
    BY DEF Cycle!Init
  <2>2. CycleTypes BY <2>1, EmptySeq DEF Cycle!Init, CycleTypes
  <2>3. WindowIsFull BY <2>1 DEF Cycle!Init, WindowIsFull, Cycle!WindowAssumption
  <2> QED BY <2>1, <2>2, <2>3
      DEF Cycle!Init, CyclesIInv, IdsAreNew, LastOfThis, IsLast, Of, TurnsAreTrue, PendingIsKept, Kept
<1>2. CyclesIInv /\ [Cycle!Next]_(Cycle!turnVars) => CyclesIInv'
  <2> SUFFICES ASSUME CyclesIInv, [Cycle!Next]_(Cycle!turnVars) PROVE CyclesIInv'
    OBVIOUS
  <2>1. CASE Cycle!DigTile BY <2>1, QuietStep DEF Cycle!DigTile
  <2>2. CASE Cycle!NothingProposed BY <2>2, QuietStep DEF Cycle!NothingProposed
  <2>3. CASE Cycle!Propose BY <2>3, QuietStep DEF Cycle!Propose
  <2>4. CASE Cycle!NoDecision BY <2>4, QuietStep DEF Cycle!NoDecision
  <2>5. CASE Cycle!Decide BY <2>5, QuietStep DEF Cycle!Decide
  <2>6. CASE Cycle!Crash BY <2>6, QuietStep DEF Cycle!Crash
  <2>7. CASE Cycle!ModelFails BY <2>7, QuietStep DEF Cycle!ModelFails
  <2>8. CASE Cycle!ModelAnswers BY <2>8, QuietStep DEF Cycle!ModelAnswers
  <2>9. CASE Cycle!SkipCommand BY <2>9, QuietStep DEF Cycle!SkipCommand
  <2>10. CASE Cycle!BeginShaft BY <2>10, QuietStep DEF Cycle!BeginShaft
  <2>11. CASE UNCHANGED Cycle!turnVars BY <2>11, QuietStep DEF Cycle!turnVars
  <2> QED BY <2>1, <2>2, <2>3, <2>4, <2>5, <2>6, <2>7, <2>8, <2>9, <2>10, <2>11,
             BeginCycleStep, DigLevelStep, SendCommandStep, AddTurnStep DEF Cycle!Next
<1> QED BY <1>1, <1>2, PTL DEF Cycle!Spec

\* What the next prompt says of earlier turns and commands is so.
THEOREM TurnsAreTold == ASSUME Cycle!WindowAssumption PROVE Cycle!Spec => []Cycle!HistoryIsTrue
<1>1. CyclesIInv => Cycle!HistoryIsTrue
  <2> SUFFICES ASSUME CyclesIInv PROVE Cycle!HistoryIsTrue
    OBVIOUS
  <2>1. ASSUME NEW i \in DOMAIN turns
        PROVE  /\ turns[i].id \in IF Of(turns[i].cycle) = {} THEN {0} ELSE {accepted[k].id : k \in Of(turns[i].cycle)}
               /\ \A k \in Of(turns[i].cycle) : accepted[k].id <= turns[i].id
    BY <2>1 DEF CyclesIInv, TurnsAreTrue, IsLast
  <2> QED BY <2>1 DEF CyclesIInv, WindowIsFull, PendingIsKept, Kept, Of, Cycle!HistoryIsTrue
<1> QED BY <1>1, CyclesInvariant, PTL

----------------------------------------------------------------------------
(* Recursion over the elements of a sequence.                              *)

\* What holds of m and passes from each number to the next holds up to n.
LEMMA Upward ==
  ASSUME NEW m \in Nat, NEW n \in Nat, NEW S, m \in S, \A i \in m + 1..n : i - 1 \in S => i \in S
  PROVE  m..n \subseteq S
<1> DEFINE Bad == {i \in m..n : i \notin S}
<1>1. SUFFICES ASSUME Bad # {} PROVE FALSE
  OBVIOUS
<1>2. Bad \in SUBSET Nat OBVIOUS
<1>3. PICK R : IsWellFoundedOn(R, Nat) /\ \A x, y \in Nat : y < x => <<y, x>> \in R
  <2>1. \A x, y \in Nat : y < x => <<y, x>> \in OpToRel(<, Nat) BY DEF OpToRel
  <2> QED BY <2>1, NatLessThanWellFounded
<1>4. PICK i \in Bad : \A k \in Bad : ~(<<k, i>> \in R) BY <1>1, <1>2, <1>3, WFMin
<1>5. i \in m..n /\ i \notin S /\ i # m OBVIOUS
<1>6. i - 1 \in m..n /\ i \in m + 1..n /\ i - 1 \notin S BY <1>5
<1>7. i - 1 \in Bad /\ i - 1 < i /\ i \in Nat /\ i - 1 \in Nat BY <1>5, <1>6
<1> QED BY <1>3, <1>4, <1>7

\* g makes a value of V from the one before; f starts with b and goes on with g.
Steps(g, m, n, V) == g \in [(m + 1..n) \X V -> V]
Recurs(f, b, g, m, n, V) == f \in [m..n -> V] /\ \A i \in m..n : f[i] = IF i = m THEN b ELSE g[<<i, f[i - 1]>>]
\* Such a recursion is one of a function.
LEMMA Recursion ==
  ASSUME NEW m \in Nat, NEW n \in Nat, NEW V, NEW b \in V, NEW g, Steps(g, m, n, V)
  PROVE  \E f : Recurs(f, b, g, m, n, V)
<1> USE DEF Steps, Recurs
<1> DEFINE Is(f, k) == f \in [m..k -> V] /\ \A i \in m..k : f[i] = IF i = m THEN b ELSE g[<<i, f[i - 1]>>]
           S == {k \in Nat : \E f : Is(f, k)}
<1>1. m \in S
  <2> DEFINE f == [i \in m..m |-> b]
  <2>1. Is(f, m) OBVIOUS
  <2> QED BY <2>1
<1>2. ASSUME NEW k \in m + 1..n, k - 1 \in S PROVE k \in S
  <2>1. PICK f : Is(f, k - 1) BY <1>2
  <2> DEFINE h == [i \in m..k |-> IF i = k THEN g[<<k, f[k - 1]>>] ELSE f[i]]
  <2>2. k - 1 \in m..k - 1 /\ k \in Nat /\ k # m /\ k - 1 # k OBVIOUS
  <2>3. f[k - 1] \in V /\ g[<<k, f[k - 1]>>] \in V BY <2>1, <2>2
  <2>4. \A i \in m..k : i # k => i \in m..k - 1 OBVIOUS
  <2>5. h \in [m..k -> V] BY <2>1, <2>3, <2>4
  <2>6. ASSUME NEW i \in m..k PROVE h[i] = IF i = m THEN b ELSE g[<<i, h[i - 1]>>]
    <3>1. CASE i = k
      <4>1. h[i] = g[<<k, f[k - 1]>>] /\ h[k - 1] = f[k - 1] BY <2>2, <3>1
      <4> QED BY <2>2, <3>1, <4>1
    <3>2. CASE i # k
      <4>1. i \in m..k - 1 /\ h[i] = f[i] BY <2>4, <3>2
      <4>2. i # m => i - 1 \in m..k /\ i - 1 # k BY <4>1
      <4>3. i # m => h[i - 1] = f[i - 1] BY <4>2
      <4> QED BY <2>1, <4>1, <4>3
    <3> QED BY <3>1, <3>2
  <2> HIDE DEF h
  <2>7. Is(h, k) BY <2>5, <2>6
  <2> QED BY <2>2, <2>7
<1>3. m..n \subseteq S
  <2> HIDE DEF S
  <2> QED BY <1>1, <1>2, Upward
<1>4. CASE m <= n
  <2>1. n \in S BY <1>3, <1>4
  <2> QED BY <2>1
<1>5. CASE ~(m <= n)
  <2>1. m..n = {} BY <1>5
  <2> DEFINE f == [i \in {} |-> b]
  <2>2. f \in [m..n -> V] /\ \A i \in m..n : f[i] = IF i = m THEN b ELSE g[<<i, f[i - 1]>>] BY <2>1
  <2> QED BY <2>2
<1> QED BY <1>4, <1>5

\* The elements of the first n sequences are those of all, in their order.
Joined(all, ss, n) ==
  /\ \A k \in DOMAIN all : \E i \in 1..n : \E a \in DOMAIN ss[i] : all[k] = ss[i][a]
  /\ \A i \in 1..n : \A a \in DOMAIN ss[i] : \E k \in DOMAIN all : all[k] = ss[i][a]
  /\ \A k, l \in DOMAIN all : k < l =>
       \E i, j \in 1..n : \E a \in DOMAIN ss[i], b \in DOMAIN ss[j] :
         (i < j \/ (i = j /\ a < b)) /\ all[k] = ss[i][a] /\ all[l] = ss[j][b]

\* One more sequence comes after those before.
LEMMA JoinedStep ==
  ASSUME NEW T, NEW all \in Seq(T), NEW n \in Nat, NEW ss, ss[n + 1] \in Seq(T), Joined(all, ss, n)
  PROVE  all \o ss[n + 1] \in Seq(T) /\ Joined(all \o ss[n + 1], ss, n + 1)
<1> DEFINE s == ss[n + 1]
           both == all \o s
           N == Len(all)
<1>1. /\ both \in Seq(T) /\ Len(both) = N + Len(s) /\ N \in Nat /\ Len(s) \in Nat
      /\ \A i \in 1..N + Len(s) : both[i] = IF i <= N THEN all[i] ELSE s[i - N]
      /\ DOMAIN all = 1..N /\ DOMAIN s = 1..Len(s) /\ DOMAIN both = 1..N + Len(s)
  BY ConcatProperties, LenProperties
<1> SUFFICES both \in Seq(T) /\ Joined(both, ss, n + 1)
  OBVIOUS
<1>2. 1..n + 1 = 1..n \cup {n + 1} OBVIOUS
<1> HIDE DEF both, N
<1>3. \A k \in DOMAIN both : \/ k \in DOMAIN all /\ both[k] = all[k]
                             \/ k \notin DOMAIN all /\ k - N \in DOMAIN s /\ both[k] = s[k - N]
  BY <1>1
<1>4. \A k \in DOMAIN all : k \in DOMAIN both /\ both[k] = all[k] BY <1>1
<1>5. \A a \in DOMAIN s : a + N \in DOMAIN both /\ both[a + N] = s[a]
  <2> SUFFICES ASSUME NEW a \in DOMAIN s PROVE a + N \in DOMAIN both /\ both[a + N] = s[a]
    OBVIOUS
  <2>1. a \in 1..Len(s) BY <1>1
  <2>2. a + N \in 1..N + Len(s) /\ ~(a + N <= N) /\ a + N - N = a BY <1>1, <2>1
  <2> QED BY <1>1, <2>2
<1>6. \A k \in DOMAIN both : \E i \in 1..n + 1 : \E a \in DOMAIN ss[i] : both[k] = ss[i][a]
  BY <1>2, <1>3 DEF Joined
<1>7. ASSUME NEW i \in 1..n + 1, NEW a \in DOMAIN ss[i] PROVE \E k \in DOMAIN both : both[k] = ss[i][a]
  <2>1. CASE i \in 1..n
    <3>1. PICK k \in DOMAIN all : all[k] = ss[i][a] BY <2>1 DEF Joined
    <3> QED BY <1>4, <3>1
  <2>2. CASE i = n + 1 BY <1>5, <2>2
  <2> QED BY <1>2, <2>1, <2>2
<1>8. ASSUME NEW k \in DOMAIN both, NEW l \in DOMAIN both, k < l
      PROVE  \E i, j \in 1..n + 1 : \E a \in DOMAIN ss[i], b \in DOMAIN ss[j] :
               (i < j \/ (i = j /\ a < b)) /\ both[k] = ss[i][a] /\ both[l] = ss[j][b]
  <2>1. CASE l \in DOMAIN all
    <3>1. k \in DOMAIN all BY <1>1, <1>8, <2>1
    <3>2. PICK i \in 1..n, j \in 1..n : \E a \in DOMAIN ss[i], b \in DOMAIN ss[j] :
            (i < j \/ (i = j /\ a < b)) /\ all[k] = ss[i][a] /\ all[l] = ss[j][b]
      BY <1>8, <2>1, <3>1 DEF Joined
    <3> QED BY <1>2, <1>4, <2>1, <3>1, <3>2
  <2>2. CASE l \notin DOMAIN all /\ k \in DOMAIN all
    <3>1. l - N \in DOMAIN ss[n + 1] /\ both[l] = ss[n + 1][l - N] BY <1>3, <2>2
    <3>2. PICK i \in 1..n : \E a \in DOMAIN ss[i] : both[k] = ss[i][a] BY <1>4, <2>2 DEF Joined
    <3>3. i \in 1..n + 1 /\ n + 1 \in 1..n + 1 /\ i < n + 1 OBVIOUS
    <3>4. PICK a \in DOMAIN ss[i] : both[k] = ss[i][a] BY <3>2
    <3> DEFINE b == l - N
    <3>5. b \in DOMAIN ss[n + 1] /\ both[l] = ss[n + 1][b] BY <3>1
    <3> HIDE DEF b
    <3> QED BY <3>3, <3>4, <3>5
  <2>3. CASE l \notin DOMAIN all /\ k \notin DOMAIN all
    <3>1. /\ l - N \in DOMAIN ss[n + 1] /\ both[l] = ss[n + 1][l - N]
          /\ k - N \in DOMAIN ss[n + 1] /\ both[k] = ss[n + 1][k - N]
      BY <1>3, <2>3
    <3>2. k - N < l - N BY <1>1, <1>8
    <3>3. n + 1 \in 1..n + 1 OBVIOUS
    <3> QED BY <3>1, <3>2, <3>3
  <2> QED BY <2>1, <2>2, <2>3
<1> QED BY <1>1, <1>6, <1>7, <1>8 DEF Joined

\* FlattenSeq joins its sequences.
LEMMA FlattenIs ==
  ASSUME NEW T, NEW ss \in Seq(Seq(T))
  PROVE  Cycle!FlattenSeq(ss) \in Seq(T) /\ Joined(Cycle!FlattenSeq(ss), ss, Len(ss))
<1> DEFINE N == Len(ss)
           Flattens(f) == f = [i \in 1..N |-> IF i = 1 THEN ss[i] ELSE f[i - 1] \o ss[i]]
<1>0. N \in Nat /\ DOMAIN ss = 1..N /\ \A i \in 1..N : ss[i] \in Seq(T) BY LenProperties, ElementOfSeq
<1>1. CASE N = 0
  <2>1. ss = <<>> BY <1>1, EmptySeq
  <2>2. Cycle!FlattenSeq(ss) = <<>> BY <1>1, <2>1 DEF Cycle!FlattenSeq
  <2> QED BY <1>1, <2>2, EmptySeq DEF Joined
<1>2. CASE N # 0
  <2>0. N \in Nat /\ 1 \in 1..N /\ N \in 1..N BY <1>0, <1>2
  <2>1. \E f : Flattens(f)
    <3> DEFINE g == [p \in (1 + 1..N) \X Seq(T) |-> p[2] \o ss[p[1]]]
    <3>1. \A i \in 1..N : \A v \in Seq(T) : v \o ss[i] \in Seq(T) BY <1>0, ConcatProperties
    <3>2. g \in [(1 + 1..N) \X Seq(T) -> Seq(T)] BY <2>0, <3>1
    <3>3. ss[1] \in Seq(T) BY <1>0, <2>0
    <3>4. ASSUME NEW i \in 1 + 1..N, NEW v \in Seq(T) PROVE g[<<i, v>>] = v \o ss[i]
      <4>1. <<i, v>> \in (1 + 1..N) \X Seq(T) OBVIOUS
      <4> QED BY <4>1
    <3> HIDE DEF g, N
    <3>7. PICK f : Recurs(f, ss[1], g, 1, N, Seq(T))
      <4>1. Steps(g, 1, N, Seq(T)) BY <3>2 DEF Steps
      <4>2. 1 \in Nat /\ N \in Nat BY <2>0
      <4> QED BY <3>3, <4>1, <4>2, Recursion
    <3>5. f \in [1..N -> Seq(T)] /\ \A i \in 1..N : f[i] = IF i = 1 THEN ss[1] ELSE g[<<i, f[i - 1]>>]
      BY <3>7 DEF Recurs
    <3>6. \A i \in 1..N : f[i] = IF i = 1 THEN ss[i] ELSE f[i - 1] \o ss[i]
      <4> SUFFICES ASSUME NEW i \in 1..N PROVE f[i] = IF i = 1 THEN ss[i] ELSE f[i - 1] \o ss[i]
        OBVIOUS
      <4>1. f[i] = IF i = 1 THEN ss[1] ELSE g[<<i, f[i - 1]>>] BY <3>5
      <4>2. CASE i = 1 BY <4>1, <4>2
      <4>3. CASE i # 1
        <5>1. i \in 1 + 1..N /\ i - 1 \in 1..N BY <2>0, <4>3
        <5> QED BY <3>4, <3>5, <4>1, <4>3, <5>1
      <4> QED BY <4>2, <4>3
    <3>8. f = [i \in 1..N |-> f[i]] BY <3>5
    <3>9. Flattens(f)
      <4> DEFINE F(i) == IF i = 1 THEN ss[i] ELSE f[i - 1] \o ss[i]
      <4>1. \A i \in 1..N : f[i] = F(i) BY <3>6
      <4> HIDE DEF F
      <4>2. f = [i \in 1..N |-> F(i)] BY <3>8, <4>1
      <4> QED BY <4>2 DEF F
    <3> QED BY <3>9
  <2> DEFINE f == CHOOSE h : Flattens(h)
  <2>2. Cycle!FlattenSeq(ss) = f[N] BY <1>2 DEF Cycle!FlattenSeq
  <2>3. Flattens(f) BY <2>1
  <2> HIDE DEF f
  <2>4. \A i \in 1..N : f[i] = IF i = 1 THEN ss[i] ELSE f[i - 1] \o ss[i] BY <2>3
  <2> DEFINE S == {i \in 1..N : f[i] \in Seq(T) /\ Joined(f[i], ss, i)}
  <2>5. 1 \in S
    <3>1. f[1] = ss[1] /\ ss[1] \in Seq(T) BY <1>0, <2>0, <2>4
    <3>2. 1..1 = {1} OBVIOUS
    <3>3. DOMAIN ss[1] = 1..Len(ss[1]) BY <3>1, LenProperties
    <3>4. Joined(ss[1], ss, 1) BY <3>2, <3>3 DEF Joined
    <3> QED BY <2>0, <3>1, <3>4
  <2>6. ASSUME NEW i \in 1 + 1..N, i - 1 \in S PROVE i \in S
    <3> HIDE DEF N
    <3>1. i \in 1..N /\ i # 1 /\ i - 1 \in Nat /\ i - 1 + 1 = i BY <2>0
    <3>2. f[i] = f[i - 1] \o ss[i] /\ ss[i] \in Seq(T) BY <1>0, <2>4, <3>1
    <3> DEFINE j == i - 1
               all == f[i - 1]
    <3>3. all \in Seq(T) /\ Joined(all, ss, j) /\ j \in Nat /\ j + 1 = i BY <2>6, <3>1
    <3> HIDE DEF j, all
    <3>4. all \o ss[j + 1] \in Seq(T) /\ Joined(all \o ss[j + 1], ss, j + 1) BY <3>2, <3>3, JoinedStep
    <3> QED BY <3>1, <3>2, <3>3, <3>4 DEF all
  <2>7. N \in S
    <3> HIDE DEF S, N
    <3>1. 1..N \subseteq S BY <2>0, <2>5, <2>6, Upward
    <3> QED BY <2>0, <3>1
  <2> QED BY <2>2, <2>7
<1> QED BY <1>1, <1>2


----------------------------------------------------------------------------
(* What a cycle sends, and who decides in it.                              *)

\* What executeCommands goes through are places of the answer in their order,
\* each but those that repeat an earlier one.
InOrder(s) == \A i, j \in DOMAIN s : i < j => s[i] < s[j]
LEMMA DedupedIs ==
  ASSUME NEW a \in Seq(Cycle!Asked)
  PROVE  /\ Cycle!Deduped(a) \in Seq(Nat) /\ InOrder(Cycle!Deduped(a))
         /\ \A k \in DOMAIN Cycle!Deduped(a) : Cycle!Deduped(a)[k] \in DOMAIN a /\ ~Cycle!Again(a, Cycle!Deduped(a)[k])
         /\ \A i \in DOMAIN a : Cycle!Again(a, i) \/ \E k \in DOMAIN Cycle!Deduped(a) : Cycle!Deduped(a)[k] = i
<1> DEFINE ss == [i \in DOMAIN a |-> IF Cycle!Again(a, i) THEN <<>> ELSE <<i>>]
           d == Cycle!Deduped(a)
<1>1. Len(a) \in Nat /\ DOMAIN a = 1..Len(a) BY LenProperties
<1>2. d = Cycle!FlattenSeq(ss) BY DEF Cycle!Deduped
<1>3. \A i \in 1..Len(a) : ss[i] = (IF Cycle!Again(a, i) THEN <<>> ELSE <<i>>) /\ ss[i] \in Seq(Nat)
  BY <1>1, EmptySeq
<1>4. ss \in Seq(Seq(Nat)) /\ Len(ss) = Len(a)
  <2>1. ss \in [1..Len(a) -> Seq(Nat)] BY <1>1, <1>3
  <2>2. DOMAIN ss = 1..Len(a) BY <1>1
  <2> HIDE DEF ss
  <2>3. ss \in Seq(Seq(Nat)) BY <1>1, <2>1 DEF Seq
  <2> QED BY <1>1, <2>2, <2>3, LenProperties
<1> HIDE DEF ss, d
<1>5. \A i \in 1..Len(a) : \A p \in DOMAIN ss[i] : p = 1 /\ ~Cycle!Again(a, i) /\ ss[i][p] = i
  <2> SUFFICES ASSUME NEW i \in 1..Len(a), NEW p \in DOMAIN ss[i] PROVE p = 1 /\ ~Cycle!Again(a, i) /\ ss[i][p] = i
    OBVIOUS
  <2>1. CASE Cycle!Again(a, i)
    <3>1. ss[i] = <<>> BY <1>3, <2>1
    <3> QED BY <3>1
  <2>2. CASE ~Cycle!Again(a, i)
    <3>1. ss[i] = <<i>> BY <1>3, <2>2
    <3> QED BY <2>2, <3>1
  <2> QED BY <2>1, <2>2
<1>6. d \in Seq(Nat) /\ Joined(d, ss, Len(a)) BY <1>2, <1>4, FlattenIs
<1>7. InOrder(d)
  <2> SUFFICES ASSUME NEW k \in DOMAIN d, NEW l \in DOMAIN d, k < l PROVE d[k] < d[l]
    BY DEF InOrder
  <2>1. PICK i \in 1..Len(a), j \in 1..Len(a) : \E p \in DOMAIN ss[i], q \in DOMAIN ss[j] :
          (i < j \/ (i = j /\ p < q)) /\ d[k] = ss[i][p] /\ d[l] = ss[j][q]
    BY <1>6 DEF Joined
  <2> QED BY <1>5, <2>1
<1>8. \A k \in DOMAIN d : d[k] \in DOMAIN a /\ ~Cycle!Again(a, d[k])
  <2> SUFFICES ASSUME NEW k \in DOMAIN d PROVE d[k] \in DOMAIN a /\ ~Cycle!Again(a, d[k])
    OBVIOUS
  <2>1. PICK i \in 1..Len(a) : \E p \in DOMAIN ss[i] : d[k] = ss[i][p] BY <1>6 DEF Joined
  <2> QED BY <1>1, <1>5, <2>1
<1>9. ASSUME NEW i \in DOMAIN a, ~Cycle!Again(a, i) PROVE \E k \in DOMAIN d : d[k] = i
  <2>1. i \in 1..Len(a) /\ ss[i] = <<i>> BY <1>1, <1>3, <1>9
  <2>2. 1 \in DOMAIN ss[i] /\ ss[i][1] = i BY <2>1
  <2> QED BY <1>6, <2>1, <2>2 DEF Joined
<1> QED BY <1>6, <1>7, <1>8, <1>9 DEF d

\* What a command of an answer is sent as.
SentAs(a, i, z) == [entry |-> i, what |-> Cycle!OnWire(a[i], z)]
Entries == {SentAs(a, i, z) : a \in Seq(Cycle!Asked), i \in Nat, z \in Int}
WasSent(s, a, i, z) == \E k \in DOMAIN s : s[k] = SentAs(a, i, z)
TodoTypes ==
  /\ specs \in Seq(Cycle!Asked) /\ todo \in Seq(Nat)
  /\ levels \in Seq(Int) /\ sent \in Seq(Entries)
TodoIsRead ==
  /\ InOrder(todo)
  /\ \A i \in DOMAIN todo : todo[i] \in DOMAIN specs /\ ~Cycle!Again(specs, todo[i])
\* The levels left of the shaft at the head; the others were sent.
LevelsAreLeft ==
  /\ \A i, j \in DOMAIN levels : i < j => levels[i] # levels[j]
  /\ levels # <<>> =>
       /\ todo # <<>> /\ Cycle!IsSent(Cycle!spec)
       /\ \A l \in DOMAIN levels : levels[l] \in Cycle!LevelsOf(Cycle!spec)
       /\ \A z \in Cycle!LevelsOf(Cycle!spec) :
            (\E l \in DOMAIN levels : levels[l] = z) \/ WasSent(sent, specs, todo[1], z)
SentIsAsked ==
  \A k \in DOMAIN sent : \E i \in DOMAIN specs : \E z \in Cycle!LevelsOf(specs[i]) :
     sent[k] = SentAs(specs, i, z) /\ Cycle!IsSent(specs[i]) /\ ~Cycle!Again(specs, i)
SentInOrder == \A k, l \in DOMAIN sent : k < l => sent[k].entry <= sent[l].entry /\ sent[k] # sent[l]
\* What was sent comes before the list, but for the shaft at its head.
SentBefore ==
  \A k \in DOMAIN sent, i \in DOMAIN todo :
     \/ sent[k].entry < todo[i]
     \/ i = 1 /\ levels # <<>> /\ sent[k].entry = todo[i] /\ \A l \in DOMAIN levels : levels[l] # sent[k].what.z
\* What is not on the list any more was sent, if it is ever.
IsDone(i) ==
  \/ Cycle!Again(specs, i) \/ Cycle!Excavated(specs[i])
  \/ \E k \in DOMAIN todo : todo[k] = i
  \/ \A z \in Cycle!LevelsOf(specs[i]) : WasSent(sent, specs, i, z)
NoneForgotten == \A i \in DOMAIN specs : Cycle!IsSent(specs[i]) => IsDone(i)
ListIsRead ==
  /\ at # "executing" => todo = <<>> /\ levels = <<>>
  /\ at \notin {"idle", "executing"} => sent = <<>> /\ specs = <<>>
\* The arbiter or the model gives commands, but in the graph flow.
OneDecides == setup.flow # "graph" => decided = <<>> \/ (sent = <<>> /\ at = "idle")
SentIInv ==
  /\ TodoTypes /\ TodoIsRead /\ LevelsAreLeft /\ SentIsAsked /\ SentInOrder /\ SentBefore
  /\ NoneForgotten /\ ListIsRead /\ OneDecides

LEMMA SentAsIs ==
  \A a, i, z : SentAs(a, i, z).entry = i /\ SentAs(a, i, z).what.z = z
<1> QED BY DEF SentAs, Cycle!OnWire

\* What little is left to dig does not get more.
LEMMA ExcavatedStays ==
  ASSUME Cycle!MapAssumption, dug \subseteq dug', NEW c, Cycle!Excavated(c)
  PROVE  Cycle!Excavated(c)'
<1> DEFINE here == Cycle!Area(c.region, c.region[3]) \cap Reach
           undug(D) == here \cap (Walls \ D)
<1>1. IsFiniteSet(Reach) BY DEF Cycle!MapAssumption, Cycle!IsFiniteSet, IsFiniteSet
<1>2. IsFiniteSet(here) /\ Cardinality(here) \in Nat BY <1>1, FS_Subset, FS_CardinalityType
<1>3. undug(dug') \subseteq undug(dug) /\ IsFiniteSet(undug(dug)) BY <1>2, FS_Subset
<1>4. /\ Cardinality(undug(dug')) \in Nat /\ Cardinality(undug(dug)) \in Nat
      /\ Cardinality(undug(dug')) <= Cardinality(undug(dug))
  BY <1>3, FS_Subset, FS_CardinalityType
<1>5. \A S : Cycle!Cardinality(S) = Cardinality(S) BY DEF Cycle!Cardinality, Cardinality, Cycle!IsFiniteSet, IsFiniteSet
<1>6. /\ c.type = "dig" /\ Cycle!mapDigType(c.dig) = "default" /\ here # {}
      /\ 5 * Cardinality(undug(dug)) < Cardinality(here)
  BY <1>5 DEF Cycle!Excavated
<1>7. 5 * Cardinality(undug(dug')) < Cardinality(here)
  <2> HIDE DEF here, undug
  <2> QED BY <1>2, <1>4, <1>6
<1> QED BY <1>5, <1>6, <1>7 DEF Cycle!Excavated

\* The steps which touch neither the answer nor what was sent of it.
LEMMA SentStays ==
  ASSUME SentIInv, Cycle!MapAssumption, UNCHANGED <<specs, todo, levels, sent>>, dug \subseteq dug',
         at' # "executing" => todo = <<>> /\ levels = <<>>,
         at' \notin {"idle", "executing"} => sent = <<>> /\ specs = <<>>, OneDecides'
  PROVE  SentIInv'
<1>1. TodoTypes' /\ TodoIsRead' BY DEF SentIInv, TodoTypes, TodoIsRead
<1>2. LevelsAreLeft' BY DEF SentIInv, LevelsAreLeft, Cycle!spec
<1>3. SentIsAsked' /\ SentInOrder' /\ SentBefore' BY DEF SentIInv, SentIsAsked, SentInOrder, SentBefore
<1>4. NoneForgotten'
  <2> SUFFICES ASSUME NEW i \in DOMAIN specs', Cycle!IsSent(specs'[i]) PROVE IsDone(i)'
    BY DEF NoneForgotten
  <2>1. IsDone(i) BY DEF SentIInv, NoneForgotten
  <2>2. CASE Cycle!Excavated(specs[i])
    <3>1. Cycle!Excavated(specs[i])' BY <2>2, ExcavatedStays DEF Cycle!Excavated
    <3> QED BY <3>1 DEF IsDone
  <2> QED BY <2>1, <2>2 DEF IsDone
<1>5. ListIsRead' BY DEF SentIInv, ListIsRead
<1> QED BY <1>1, <1>2, <1>3, <1>4, <1>5 DEF SentIInv

\* One of the steps before the model answers, or after the list is done.
LEMMA SentOfTurns ==
  ASSUME SentIInv, Cycle!MapAssumption,
         \/ Cycle!BeginCycle \/ Cycle!NothingProposed \/ Cycle!Propose \/ Cycle!NoDecision \/ Cycle!Decide
         \/ Cycle!Crash \/ Cycle!ModelFails \/ Cycle!AddTurn \/ Cycle!DigTile \/ UNCHANGED cycleState
  PROVE  SentIInv'
<1> USE DEF SentIInv, ListIsRead, OneDecides
<1>1. CASE Cycle!BeginCycle
  <2>1. /\ todo = <<>> /\ levels = <<>> /\ todo' = <<>> /\ levels' = <<>> /\ sent' = <<>> /\ specs' = <<>>
        /\ decided' = <<>> /\ setup' = setup /\ at' \in {"model", "agents"}
    BY <1>1 DEF Cycle!BeginCycle
  <2>2. TodoTypes' BY <2>1, EmptySeq DEF TodoTypes
  <2>3. DOMAIN todo' = {} /\ DOMAIN levels' = {} /\ DOMAIN sent' = {} /\ DOMAIN specs' = {} BY <2>1
  <2>4. TodoIsRead' /\ LevelsAreLeft' BY <2>1, <2>3 DEF TodoIsRead, InOrder, LevelsAreLeft
  <2>5. SentIsAsked' /\ SentInOrder' /\ SentBefore' /\ NoneForgotten'
    BY <2>3 DEF SentIsAsked, SentInOrder, SentBefore, NoneForgotten
  <2>6. ListIsRead' /\ OneDecides' BY <2>1
  <2> QED BY <2>2, <2>4, <2>5, <2>6
<1>2. CASE Cycle!NothingProposed \/ Cycle!NoDecision \/ Cycle!ModelFails \/ Cycle!Crash \/ Cycle!Propose
  <2>1. /\ UNCHANGED <<setup, dug, specs, todo, levels, sent, decided>>
        /\ \/ at = "agents" /\ at' \in {"idle", "model", "arbiter"}
           \/ at = "arbiter" /\ at' = "model"
           \/ at = "model" /\ at' \in {"idle", "crashed"}
    BY <1>2 DEF Cycle!NothingProposed, Cycle!NoDecision, Cycle!ModelFails, Cycle!Crash, Cycle!Propose
  <2>2. OneDecides' BY <2>1
  <2> QED BY <2>1, <2>2, SentStays
<1>3. CASE Cycle!Decide
  <2>1. /\ UNCHANGED <<setup, dug, specs, todo, levels, sent>> /\ at = "arbiter"
        /\ \/ setup.flow = "graph" /\ at' = "model"
           \/ setup.flow = "intent" /\ at' = "idle"
    BY <1>3 DEF Cycle!Decide
  <2>2. OneDecides' BY <2>1
  <2> QED BY <2>1, <2>2, SentStays
<1>4. CASE Cycle!AddTurn
  <2>1. /\ UNCHANGED <<setup, dug, specs, todo, levels, sent, decided>> /\ at' = "idle" /\ todo = <<>> /\ at = "executing"
        /\ levels = <<>>
    BY <1>4 DEF Cycle!AddTurn, LevelsAreLeft
  <2>2. OneDecides' BY <2>1
  <2> QED BY <2>1, <2>2, SentStays
<1>5. CASE Cycle!DigTile \/ UNCHANGED cycleState
  <2>1. UNCHANGED <<setup, at, specs, todo, levels, sent, decided>> /\ dug \subseteq dug'
    BY <1>5 DEF Cycle!DigTile, cycleState
  <2>2. OneDecides' BY <2>1
  <2> QED BY <2>1, <2>2, SentStays
<1> QED BY <1>1, <1>2, <1>3, <1>4, <1>5

\* The answer of the model is what is gone through, and nothing was sent before it.
LEMMA SentOfAnswer ==
  ASSUME Cycle!AnswersAssumption, SentIInv, Cycle!ModelAnswers
  PROVE  SentIInv'
<1>1. PICK a \in Answers : specs' = a /\ todo' = Cycle!Deduped(a) BY DEF Cycle!ModelAnswers
<1>2. UNCHANGED <<setup, levels, sent, decided>> /\ at = "model" /\ at' = "executing" BY DEF Cycle!ModelAnswers
<1>3. levels = <<>> /\ sent = <<>> /\ DOMAIN levels' = {} /\ DOMAIN sent' = {}
  BY <1>2 DEF SentIInv, ListIsRead
<1>4. a \in Seq(Cycle!Asked) BY DEF Cycle!AnswersAssumption
<1>5. /\ todo' \in Seq(Nat) /\ InOrder(todo')
      /\ \A k \in DOMAIN todo' : todo'[k] \in DOMAIN specs' /\ ~Cycle!Again(specs', todo'[k])
      /\ \A i \in DOMAIN specs' : Cycle!Again(specs', i) \/ \E k \in DOMAIN todo' : todo'[k] = i
  BY <1>1, <1>4, DedupedIs
<1>6. TodoTypes' BY <1>1, <1>2, <1>4, <1>5 DEF SentIInv, TodoTypes
<1>7. TodoIsRead' BY <1>5 DEF TodoIsRead
<1>8. LevelsAreLeft' BY <1>2, <1>3 DEF LevelsAreLeft
<1>9. SentIsAsked' /\ SentInOrder' /\ SentBefore' BY <1>3 DEF SentIsAsked, SentInOrder, SentBefore
<1>10. NoneForgotten' BY <1>5 DEF NoneForgotten, IsDone
<1>11. ListIsRead' /\ OneDecides' BY <1>2, <1>3 DEF SentIInv, ListIsRead, OneDecides
<1> QED BY <1>6, <1>7, <1>8, <1>9, <1>10, <1>11 DEF SentIInv

\* The head of the list is done with, and what was sent comes before the rest.
LEMMA TailOfTodo ==
  ASSUME SentIInv, todo # <<>>
  PROVE  /\ Tail(todo) \in Seq(Nat) /\ InOrder(Tail(todo))
         /\ \A i \in DOMAIN Tail(todo) :
              i \in Nat \ {0} /\ i + 1 \in DOMAIN todo /\ Tail(todo)[i] = todo[i + 1] /\ todo[1] < Tail(todo)[i]
         /\ 1 \in DOMAIN todo /\ todo[1] \in Nat /\ todo[1] \in DOMAIN specs /\ Cycle!spec \in Cycle!Asked
         /\ ~Cycle!Again(specs, todo[1])
         /\ \A i \in DOMAIN todo : todo[i] = todo[1] \/ \E k \in DOMAIN Tail(todo) : Tail(todo)[k] = todo[i]
<1>1. todo \in Seq(Nat) /\ specs \in Seq(Cycle!Asked) BY DEF SentIInv, TodoTypes
<1>2. Len(todo) \in Nat /\ Len(todo) # 0 BY <1>1, LenProperties, EmptySeq
<1>3. /\ Tail(todo) \in Seq(Nat) /\ Len(Tail(todo)) = Len(todo) - 1
      /\ \A i \in 1..Len(Tail(todo)) : Tail(todo)[i] = todo[i + 1]
  BY <1>1, HeadTailProperties
<1>4. DOMAIN todo = 1..Len(todo) /\ DOMAIN Tail(todo) = 1..Len(todo) - 1 BY <1>1, <1>3, LenProperties
<1>5. 1 \in DOMAIN todo /\ todo[1] \in Nat BY <1>1, <1>2, <1>4, ElementOfSeq
<1>6. todo[1] \in DOMAIN specs /\ ~Cycle!Again(specs, todo[1]) BY <1>5 DEF SentIInv, TodoIsRead
<1>7. Cycle!spec \in Cycle!Asked
  <2>1. DOMAIN specs = 1..Len(specs) BY <1>1, LenProperties
  <2> QED BY <1>1, <1>6, <2>1, ElementOfSeq DEF Cycle!spec
<1>8. \A i \in DOMAIN Tail(todo) :
        i \in Nat \ {0} /\ i + 1 \in DOMAIN todo /\ Tail(todo)[i] = todo[i + 1] /\ todo[1] < Tail(todo)[i]
  <2> SUFFICES ASSUME NEW i \in DOMAIN Tail(todo)
               PROVE  i \in Nat \ {0} /\ i + 1 \in DOMAIN todo /\ Tail(todo)[i] = todo[i + 1] /\ todo[1] < Tail(todo)[i]
    OBVIOUS
  <2>1. i \in Nat \ {0} /\ i + 1 \in DOMAIN todo /\ Tail(todo)[i] = todo[i + 1] /\ 1 < i + 1 BY <1>2, <1>3, <1>4
  <2> QED BY <1>5, <2>1 DEF SentIInv, TodoIsRead, InOrder
<1>9. InOrder(Tail(todo))
  <2> SUFFICES ASSUME NEW i \in DOMAIN Tail(todo), NEW j \in DOMAIN Tail(todo), i < j PROVE Tail(todo)[i] < Tail(todo)[j]
    BY DEF InOrder
  <2>1. i + 1 \in DOMAIN todo /\ j + 1 \in DOMAIN todo /\ i + 1 < j + 1 BY <1>8
  <2> QED BY <1>8, <2>1 DEF SentIInv, TodoIsRead, InOrder
<1>10. ASSUME NEW i \in DOMAIN todo, todo[i] # todo[1] PROVE \E k \in DOMAIN Tail(todo) : Tail(todo)[k] = todo[i]
  <2>1. i \in 1..Len(todo) /\ i # 1 BY <1>4, <1>10
  <2>2. i - 1 \in DOMAIN Tail(todo) /\ i - 1 + 1 = i BY <1>2, <1>4, <2>1
  <2> QED BY <1>8, <2>2
<1> QED BY <1>3, <1>5, <1>6, <1>7, <1>8, <1>9, <1>10

\* The rest of the list is read as the list was.
LEMMA TailIsRead ==
  ASSUME SentIInv, todo # <<>>, todo' = Tail(todo), specs' = specs
  PROVE  todo' \in Seq(Nat) /\ TodoIsRead'
<1>1. \A i \in DOMAIN todo' : i + 1 \in DOMAIN todo /\ todo'[i] = todo[i + 1] BY TailOfTodo
<1>2. \A i \in DOMAIN todo' : todo'[i] \in DOMAIN specs' /\ ~Cycle!Again(specs', todo'[i])
  BY <1>1 DEF SentIInv, TodoIsRead
<1> QED BY <1>2, TailOfTodo DEF TodoIsRead

\* A command that is passed over is none to be sent, or dug already.
LEMMA SentOfSkip ==
  ASSUME SentIInv, Cycle!SkipCommand
  PROVE  SentIInv'
<1>1. /\ todo # <<>> /\ levels = <<>> /\ todo' = Tail(todo) /\ at = "executing"
      /\ Cycle!IsSent(Cycle!spec) => Cycle!Excavated(Cycle!spec)
      /\ UNCHANGED <<setup, dug, at, specs, levels, sent, decided>>
  BY DEF Cycle!SkipCommand
<1>2. todo' \in Seq(Nat) /\ TodoIsRead' BY <1>1, TailIsRead
<1>3. TodoTypes' BY <1>1, <1>2 DEF SentIInv, TodoTypes
<1>4. LevelsAreLeft' BY <1>1 DEF LevelsAreLeft
<1>5. SentIsAsked' /\ SentInOrder' BY <1>1 DEF SentIInv, SentIsAsked, SentInOrder
<1>6. SentBefore'
  <2> SUFFICES ASSUME NEW k \in DOMAIN sent', NEW i \in DOMAIN todo' PROVE sent'[k].entry < todo'[i]
    BY DEF SentBefore
  <2>1. i + 1 \in DOMAIN todo /\ todo'[i] = todo[i + 1] BY <1>1, TailOfTodo
  <2> QED BY <1>1, <2>1 DEF SentIInv, SentBefore
<1>7. NoneForgotten'
  <2> SUFFICES ASSUME NEW i \in DOMAIN specs', Cycle!IsSent(specs'[i]) PROVE IsDone(i)'
    BY DEF NoneForgotten
  <2>1. IsDone(i) BY <1>1 DEF SentIInv, NoneForgotten
  <2>2. CASE \E k \in DOMAIN todo : todo[k] = i
    <3>1. i = todo[1] \/ \E k \in DOMAIN todo' : todo'[k] = i BY <1>1, <2>2, TailOfTodo
    <3>2. CASE i = todo[1]
      <4>1. Cycle!Excavated(specs[i]) BY <1>1, <3>2 DEF Cycle!spec
      <4>2. Cycle!Excavated(specs[i])' BY <1>1, <4>1 DEF Cycle!Excavated
      <4> QED BY <4>2 DEF IsDone
    <3> QED BY <3>1, <3>2 DEF IsDone
  <2>3. CASE Cycle!Excavated(specs[i])
    <3>1. Cycle!Excavated(specs[i])' BY <1>1, <2>3 DEF Cycle!Excavated
    <3> QED BY <3>1 DEF IsDone
  <2> QED BY <1>1, <2>1, <2>2, <2>3 DEF IsDone
<1>8. ListIsRead' /\ OneDecides' BY <1>1 DEF SentIInv, ListIsRead, OneDecides
<1> QED BY <1>2, <1>3, <1>4, <1>5, <1>6, <1>7, <1>8 DEF SentIInv

\* The ends of a shaft are numbers, its levels those between them.
LEMMA EndsAre ==
  ASSUME NEW x \in Int, NEW y \in Int
  PROVE  /\ Cycle!Max({x, y}) \in {x, y} /\ Cycle!Min({x, y}) \in {x, y}
         /\ Cycle!Max({x, y}) >= x /\ Cycle!Max({x, y}) >= y /\ Cycle!Min({x, y}) <= x /\ Cycle!Min({x, y}) <= y
<1>1. \E m \in {x, y} : \A v \in {x, y} : m >= v OBVIOUS
<1>2. \E m \in {x, y} : \A v \in {x, y} : m <= v OBVIOUS
<1>3. Cycle!Max({x, y}) \in {x, y} /\ \A v \in {x, y} : Cycle!Max({x, y}) >= v BY <1>1 DEF Cycle!Max
<1>4. Cycle!Min({x, y}) \in {x, y} /\ \A v \in {x, y} : Cycle!Min({x, y}) <= v BY <1>2 DEF Cycle!Min
<1> QED BY <1>3, <1>4

\* The levels of a command are numbers.
LEMMA LevelsAreInts ==
  ASSUME NEW c \in Cycle!Asked, Cycle!IsSent(c)
  PROVE  Cycle!LevelsOf(c) \subseteq Int /\ c.region[3] \in Int /\ c.region[6] \in Int
<1>1. c.region \in [1..6 -> Int] BY DEF Cycle!Asked, Cycle!IsSent
<1>2. c.region[3] \in Int /\ c.region[6] \in Int BY <1>1
<1> QED BY <1>2 DEF Cycle!LevelsOf

\* The levels of a shaft are different, and none of it was sent.
LEMMA SentOfShaft ==
  ASSUME SentIInv, Cycle!BeginShaft
  PROVE  SentIInv'
<1> DEFINE x == Cycle!spec.region[3]
           y == Cycle!spec.region[6]
           lo == Cycle!Min({x, y})
           hi == Cycle!Max({x, y})
<1>1. /\ todo # <<>> /\ levels = <<>> /\ at = "executing" /\ Cycle!IsSent(Cycle!spec) /\ Cycle!IsShaft(Cycle!spec)
      /\ UNCHANGED <<setup, dug, at, specs, todo, sent, decided>>
      /\ levels' = [i \in 1..(hi - lo + 1) |-> lo + i - 1]
  BY DEF Cycle!BeginShaft
<1>2. Cycle!spec \in Cycle!Asked /\ x \in Int /\ y \in Int
  <2>1. Cycle!spec \in Cycle!Asked BY <1>1, TailOfTodo
  <2> QED BY <1>1, <2>1, LevelsAreInts
<1>3. Cycle!LevelsOf(Cycle!spec) = (x..y) \cup (y..x) BY <1>1 DEF Cycle!LevelsOf
<1> HIDE DEF x, y
<1>4. lo \in {x, y} /\ hi \in {x, y} /\ hi >= x /\ hi >= y /\ lo <= x /\ lo <= y BY <1>2, EndsAre
<1> HIDE DEF lo, hi
<1>5. lo \in Int /\ hi \in Int /\ hi - lo + 1 \in Nat BY <1>2, <1>4
<1>6. Cycle!LevelsOf(Cycle!spec) = lo..hi BY <1>2, <1>3, <1>4
<1>7. levels' \in Seq(Int) /\ DOMAIN levels' = 1..(hi - lo + 1) /\ \A l \in DOMAIN levels' : levels'[l] = lo + l - 1
  <2>1. levels' \in [1..(hi - lo + 1) -> Int] BY <1>1, <1>5
  <2> QED BY <1>1, <1>5, <2>1
<1>8. LevelsAreLeft'
  <2>1. \A i, j \in DOMAIN levels' : i < j => levels'[i] # levels'[j] BY <1>5, <1>7
  <2>2. \A l \in DOMAIN levels' : levels'[l] \in Cycle!LevelsOf(Cycle!spec) BY <1>5, <1>6, <1>7
  <2>3. ASSUME NEW z \in Cycle!LevelsOf(Cycle!spec) PROVE \E l \in DOMAIN levels' : levels'[l] = z
    <3>1. z \in lo..hi BY <1>6
    <3>2. z - lo + 1 \in DOMAIN levels' BY <1>5, <1>7, <3>1
    <3>3. levels'[z - lo + 1] = z BY <1>5, <1>7, <3>1, <3>2
    <3> QED BY <3>2, <3>3
  <2>4. Cycle!spec' = Cycle!spec BY <1>1 DEF Cycle!spec
  <2> QED BY <1>1, <2>1, <2>2, <2>3, <2>4 DEF LevelsAreLeft
<1>9. TodoTypes' /\ TodoIsRead' BY <1>1, <1>7 DEF SentIInv, TodoTypes, TodoIsRead
<1>10. SentIsAsked' /\ SentInOrder' BY <1>1 DEF SentIInv, SentIsAsked, SentInOrder
<1>11. SentBefore' BY <1>1 DEF SentIInv, SentBefore
<1>12. NoneForgotten' BY <1>1 DEF SentIInv, NoneForgotten, IsDone, Cycle!Excavated
<1>13. ListIsRead' /\ OneDecides' BY <1>1 DEF SentIInv, ListIsRead, OneDecides
<1> QED BY <1>8, <1>9, <1>10, <1>11, <1>12, <1>13 DEF SentIInv

\* One more command is sent, or a level of it, which was not sent before.
LEMMA OneMoreSent ==
  ASSUME SentIInv, todo # <<>>, Cycle!IsSent(Cycle!spec), specs' = specs, NEW z \in Cycle!LevelsOf(Cycle!spec),
         Cycle!SendOnWire(z), levels # <<>> => levels[1] = z
  PROVE  /\ sent' \in Seq(Entries) /\ SentIsAsked' /\ SentInOrder'
         /\ \A k \in DOMAIN sent : k \in DOMAIN sent' /\ sent'[k] = sent[k]
         /\ \E k \in DOMAIN sent' : sent'[k] = SentAs(specs, todo[1], z)
         /\ \A k \in DOMAIN sent' : \/ k \in DOMAIN sent /\ sent'[k] = sent[k]
                                    \/ sent'[k].entry = todo[1] /\ sent'[k].what.z = z
<1> DEFINE new == SentAs(specs, todo[1], z)
<1>1. /\ 1 \in DOMAIN todo /\ todo[1] \in Nat /\ todo[1] \in DOMAIN specs /\ Cycle!spec \in Cycle!Asked
      /\ ~Cycle!Again(specs, todo[1])
  BY TailOfTodo
<1>2. z \in Int BY <1>1, LevelsAreInts
<1>3. specs \in Seq(Cycle!Asked) /\ sent \in Seq(Entries) BY DEF SentIInv, TodoTypes
<1>4. new \in Entries BY <1>1, <1>2, <1>3 DEF Entries
<1>5. sent' = Append(sent, new) BY DEF Cycle!SendOnWire, SentAs, Cycle!spec
<1>6. new.entry = todo[1] /\ new.what.z = z BY SentAsIs
<1> HIDE DEF new
<1>7. /\ sent' \in Seq(Entries) /\ Len(sent) \in Nat
      /\ DOMAIN sent = 1..Len(sent) /\ DOMAIN sent' = 1..Len(sent) + 1
      /\ \A k \in 1..Len(sent) : sent'[k] = sent[k]
      /\ sent'[Len(sent) + 1] = new
  BY <1>3, <1>4, <1>5, AppendProperties, LenProperties
<1>8. \A k \in DOMAIN sent : sent[k].entry <= new.entry /\ sent[k] # new
  <2> SUFFICES ASSUME NEW k \in DOMAIN sent PROVE sent[k].entry <= new.entry /\ sent[k] # new
    OBVIOUS
  <2>1. CASE sent[k].entry < todo[1]
    <3>1. sent[k].entry \in Nat
      <4>1. PICK i \in DOMAIN specs : sent[k].entry = i BY SentAsIs DEF SentIInv, SentIsAsked
      <4>2. DOMAIN specs = 1..Len(specs) /\ Len(specs) \in Nat BY <1>3, LenProperties
      <4> QED BY <4>1, <4>2
    <3>2. sent[k].entry # todo[1] /\ sent[k].entry <= todo[1] BY <1>1, <2>1, <3>1
    <3> QED BY <1>6, <3>2
  <2>2. CASE ~(sent[k].entry < todo[1])
    <3>1. levels # <<>> /\ sent[k].entry = todo[1] /\ \A l \in DOMAIN levels : levels[l] # sent[k].what.z
      BY <1>1, <2>2 DEF SentIInv, SentBefore
    <3>2. levels \in Seq(Int) BY DEF SentIInv, TodoTypes
    <3>3. 1 \in DOMAIN levels BY <3>1, <3>2, EmptySeq, LenProperties
    <3>4. sent[k].what.z # z BY <3>1, <3>3
    <3> QED BY <1>1, <1>6, <3>1, <3>4
  <2> QED BY <2>1, <2>2
<1>9. SentInOrder'
  <2> SUFFICES ASSUME NEW k \in DOMAIN sent', NEW l \in DOMAIN sent', k < l
               PROVE  sent'[k].entry <= sent'[l].entry /\ sent'[k] # sent'[l]
    BY DEF SentInOrder
  <2>1. k \in DOMAIN sent /\ sent'[k] = sent[k] BY <1>7
  <2>2. CASE l \in DOMAIN sent
    <3>1. sent'[l] = sent[l] BY <1>7, <2>2
    <3> QED BY <2>1, <2>2, <3>1 DEF SentIInv, SentInOrder
  <2>3. CASE l \notin DOMAIN sent
    <3>1. sent'[l] = new BY <1>7, <2>3
    <3> QED BY <1>8, <2>1, <3>1
  <2> QED BY <2>2, <2>3
<1>10. SentIsAsked'
  <2> SUFFICES ASSUME NEW k \in DOMAIN sent'
               PROVE  \E i \in DOMAIN specs' : \E w \in Cycle!LevelsOf(specs'[i]) :
                        sent'[k] = SentAs(specs', i, w) /\ Cycle!IsSent(specs'[i]) /\ ~Cycle!Again(specs', i)
    BY DEF SentIsAsked
  <2>1. CASE k \in DOMAIN sent
    <3>1. sent'[k] = sent[k] BY <1>7, <2>1
    <3> QED BY <2>1, <3>1 DEF SentIInv, SentIsAsked
  <2>2. CASE k \notin DOMAIN sent
    <3>1. sent'[k] = SentAs(specs, todo[1], z) BY <1>7, <2>2 DEF new
    <3> QED BY <1>1, <3>1 DEF Cycle!spec
  <2> QED BY <2>1, <2>2
<1>11. \A k \in DOMAIN sent' : (k \in DOMAIN sent /\ sent'[k] = sent[k]) \/ sent'[k] = new BY <1>7
<1>12. \E k \in DOMAIN sent' : sent'[k] = SentAs(specs, todo[1], z)
  <2>1. Len(sent) + 1 \in DOMAIN sent' BY <1>7
  <2> QED BY <1>7, <2>1 DEF new
<1> QED BY <1>6, <1>7, <1>9, <1>10, <1>11, <1>12

\* What was sent stays sent.
LEMMA StaysDone ==
  ASSUME SentIInv, UNCHANGED <<specs, dug>>, NEW i, IsDone(i), ~\E k \in DOMAIN todo : todo[k] = i,
         \A k \in DOMAIN sent : k \in DOMAIN sent' /\ sent'[k] = sent[k]
  PROVE  IsDone(i)'
<1>1. CASE Cycle!Excavated(specs[i])
  <2>1. Cycle!Excavated(specs[i])' BY <1>1 DEF Cycle!Excavated
  <2> QED BY <2>1 DEF IsDone
<1>2. CASE \A z \in Cycle!LevelsOf(specs[i]) : WasSent(sent, specs, i, z)
  <2>1. \A z \in Cycle!LevelsOf(specs'[i]) : WasSent(sent', specs', i, z) BY <1>2 DEF WasSent
  <2> QED BY <2>1 DEF IsDone
<1>3. CASE Cycle!Again(specs, i) BY <1>3 DEF IsDone
<1> QED BY <1>1, <1>2, <1>3 DEF IsDone

\* When the head of the list was sent, with all its levels, it is taken from it.
LEMMA HeadIsSent ==
  ASSUME SentIInv, UNCHANGED <<specs, dug>>, todo # <<>>, todo' = Tail(todo),
         \A k \in DOMAIN sent : k \in DOMAIN sent' /\ sent'[k] = sent[k],
         \A z \in Cycle!LevelsOf(Cycle!spec) : WasSent(sent', specs, todo[1], z),
         \A k \in DOMAIN sent' : (k \in DOMAIN sent /\ sent'[k] = sent[k]) \/ sent'[k].entry = todo[1]
  PROVE  NoneForgotten' /\ SentBefore'
<1>1. NoneForgotten'
  <2> SUFFICES ASSUME NEW i \in DOMAIN specs', Cycle!IsSent(specs'[i]) PROVE IsDone(i)'
    BY DEF NoneForgotten
  <2>1. IsDone(i) BY DEF SentIInv, NoneForgotten
  <2>2. CASE i = todo[1]
    <3>1. \A z \in Cycle!LevelsOf(specs'[i]) : WasSent(sent', specs', i, z) BY <2>2 DEF Cycle!spec
    <3> QED BY <3>1 DEF IsDone
  <2>3. CASE i # todo[1] /\ \E k \in DOMAIN todo : todo[k] = i
    <3>1. \E k \in DOMAIN todo' : todo'[k] = i BY <2>3, TailOfTodo
    <3> QED BY <3>1 DEF IsDone
  <2> QED BY <2>1, <2>2, <2>3, StaysDone
<1>2. SentBefore'
  <2> SUFFICES ASSUME NEW k \in DOMAIN sent', NEW i \in DOMAIN todo' PROVE sent'[k].entry < todo'[i]
    BY DEF SentBefore
  <2>1. i + 1 \in DOMAIN todo /\ i + 1 # 1 /\ todo'[i] = todo[i + 1] /\ todo[1] < todo'[i]
    <3>1. i \in Nat \ {0} /\ i + 1 \in DOMAIN todo /\ todo'[i] = todo[i + 1] /\ todo[1] < todo'[i] BY TailOfTodo
    <3> QED BY <3>1
  <2>2. CASE sent'[k].entry = todo[1] BY <2>1, <2>2
  <2>3. CASE k \in DOMAIN sent /\ sent'[k] = sent[k] BY <2>1, <2>3 DEF SentIInv, SentBefore
  <2> QED BY <2>2, <2>3
<1> QED BY <1>1, <1>2

\* A level of the shaft at the head is sent and taken from the levels.
LEMMA SentOfLevel ==
  ASSUME NEW result, SentIInv, Cycle!DigLevel(result)
  PROVE  SentIInv'
<1>1. /\ levels # <<>> /\ at = "executing" /\ UNCHANGED <<setup, dug, at, specs, decided>>
      /\ Cycle!SendOnWire(levels[1])
      /\ levels' = Tail(levels) /\ todo' = IF Len(levels) = 1 THEN Tail(todo) ELSE todo
  BY DEF Cycle!DigLevel
<1>2. /\ todo # <<>> /\ Cycle!IsSent(Cycle!spec) /\ \A l \in DOMAIN levels : levels[l] \in Cycle!LevelsOf(Cycle!spec)
      /\ \A w \in Cycle!LevelsOf(Cycle!spec) :
           (\E l \in DOMAIN levels : levels[l] = w) \/ WasSent(sent, specs, todo[1], w)
  BY <1>1 DEF SentIInv, LevelsAreLeft
<1>3. levels \in Seq(Int) /\ Len(levels) \in Nat \ {0} /\ DOMAIN levels = 1..Len(levels) /\ 1 \in DOMAIN levels
  <2>1. levels \in Seq(Int) BY DEF SentIInv, TodoTypes
  <2> QED BY <1>1, <2>1, EmptySeq, LenProperties
<1>4. /\ levels' \in Seq(Int) /\ Len(levels') = Len(levels) - 1 /\ DOMAIN levels' = 1..Len(levels) - 1
      /\ \A l \in DOMAIN levels' : l + 1 \in DOMAIN levels /\ 1 < l + 1 /\ levels'[l] = levels[l + 1]
  <2>1. /\ levels' \in Seq(Int) /\ Len(levels') = Len(levels) - 1
        /\ \A l \in 1..Len(levels') : levels'[l] = levels[l + 1]
    BY <1>1, <1>3, HeadTailProperties
  <2>2. DOMAIN levels' = 1..Len(levels) - 1 BY <2>1, LenProperties
  <2> QED BY <1>3, <2>1, <2>2
<1> DEFINE z == levels[1]
<1>5. z \in Cycle!LevelsOf(Cycle!spec) BY <1>2, <1>3
<1>6. \A l \in DOMAIN levels' : levels'[l] # z
  <2> SUFFICES ASSUME NEW l \in DOMAIN levels' PROVE levels'[l] # z
    OBVIOUS
  <2>1. l + 1 \in DOMAIN levels /\ 1 < l + 1 /\ levels'[l] = levels[l + 1] BY <1>4
  <2>2. levels[1] # levels[l + 1] BY <1>3, <2>1 DEF SentIInv, LevelsAreLeft
  <2> QED BY <2>1, <2>2
<1>7. \A l \in DOMAIN levels : levels[l] = z \/ \E m \in DOMAIN levels' : levels'[m] = levels[l]
  <2> SUFFICES ASSUME NEW l \in DOMAIN levels, l # 1 PROVE \E m \in DOMAIN levels' : levels'[m] = levels[l]
    OBVIOUS
  <2>1. l - 1 \in DOMAIN levels' /\ l - 1 + 1 = l BY <1>3, <1>4
  <2> QED BY <1>4, <2>1
<1>8. Cycle!SendOnWire(z) /\ (levels # <<>> => levels[1] = z) BY <1>1
<1> HIDE DEF z
<1>9. /\ sent' \in Seq(Entries) /\ SentIsAsked' /\ SentInOrder'
      /\ \A k \in DOMAIN sent : k \in DOMAIN sent' /\ sent'[k] = sent[k]
      /\ \E k \in DOMAIN sent' : sent'[k] = SentAs(specs, todo[1], z)
      /\ \A k \in DOMAIN sent' : \/ k \in DOMAIN sent /\ sent'[k] = sent[k]
                                 \/ sent'[k].entry = todo[1] /\ sent'[k].what.z = z
  BY <1>1, <1>2, <1>5, <1>8, OneMoreSent
<1>10. \A w \in Cycle!LevelsOf(Cycle!spec) :
         (\E l \in DOMAIN levels' : levels'[l] = w) \/ WasSent(sent', specs, todo[1], w)
  <2> SUFFICES ASSUME NEW w \in Cycle!LevelsOf(Cycle!spec)
               PROVE  (\E l \in DOMAIN levels' : levels'[l] = w) \/ WasSent(sent', specs, todo[1], w)
    OBVIOUS
  <2>1. CASE w = z BY <1>9, <2>1 DEF WasSent
  <2>2. CASE WasSent(sent, specs, todo[1], w) BY <1>9, <2>2 DEF WasSent
  <2>3. CASE w # z /\ \E l \in DOMAIN levels : levels[l] = w BY <1>7, <2>3
  <2> QED BY <1>2, <2>1, <2>2, <2>3
<1>11. CASE Len(levels) = 1
  <2>1. todo' = Tail(todo) /\ DOMAIN levels' = {} /\ levels' = <<>>
    <3>1. todo' = Tail(todo) /\ DOMAIN levels' = {} /\ Len(levels') = 0 BY <1>1, <1>4, <1>11
    <3> QED BY <1>4, <3>1, EmptySeq
  <2>2. todo' \in Seq(Nat) /\ TodoIsRead' BY <1>1, <1>2, <2>1, TailIsRead
  <2>3. TodoTypes' BY <1>1, <1>4, <1>9, <2>2 DEF SentIInv, TodoTypes
  <2>4. LevelsAreLeft' BY <2>1 DEF LevelsAreLeft
  <2>5. \A w \in Cycle!LevelsOf(Cycle!spec) : WasSent(sent', specs, todo[1], w) BY <1>10, <2>1
  <2>6. NoneForgotten' /\ SentBefore' BY <1>1, <1>2, <1>9, <2>1, <2>5, HeadIsSent
  <2>7. ListIsRead' /\ OneDecides' BY <1>1 DEF SentIInv, ListIsRead, OneDecides
  <2> QED BY <1>9, <2>2, <2>3, <2>4, <2>6, <2>7 DEF SentIInv
<1>12. CASE Len(levels) # 1
  <2>1. todo' = todo /\ levels' # <<>> /\ Cycle!spec' = Cycle!spec
    <3>1. todo' = todo BY <1>1, <1>12
    <3>2. Len(levels') # 0 BY <1>3, <1>4, <1>12
    <3> QED BY <1>1, <3>1, <3>2 DEF Cycle!spec
  <2>2. TodoTypes' /\ TodoIsRead' BY <1>1, <1>4, <1>9, <2>1 DEF SentIInv, TodoTypes, TodoIsRead
  <2>3. LevelsAreLeft'
    <3>1. ASSUME NEW i \in DOMAIN levels', NEW j \in DOMAIN levels', i < j PROVE levels'[i] # levels'[j]
      <4>1. i + 1 < j + 1 BY <1>3, <1>4, <3>1
      <4> QED BY <1>4, <4>1 DEF SentIInv, LevelsAreLeft
    <3>2. \A l \in DOMAIN levels' : levels'[l] \in Cycle!LevelsOf(Cycle!spec) BY <1>2, <1>4
    <3>3. todo' # <<>> /\ Cycle!IsSent(Cycle!spec') BY <1>2, <2>1
    <3> QED BY <1>1, <1>10, <2>1, <3>1, <3>2, <3>3 DEF LevelsAreLeft
  <2>4. SentBefore'
    <3> SUFFICES ASSUME NEW k \in DOMAIN sent', NEW i \in DOMAIN todo', ~(sent'[k].entry < todo'[i])
                 PROVE  /\ i = 1 /\ levels' # <<>> /\ sent'[k].entry = todo'[i]
                        /\ \A l \in DOMAIN levels' : levels'[l] # sent'[k].what.z
      BY DEF SentBefore
    <3>1. CASE k \in DOMAIN sent /\ sent'[k] = sent[k]
      <4>1. i = 1 /\ sent[k].entry = todo[i] /\ \A l \in DOMAIN levels : levels[l] # sent[k].what.z
        BY <2>1, <3>1 DEF SentIInv, SentBefore
      <4>2. \A l \in DOMAIN levels' : levels'[l] # sent[k].what.z BY <1>4, <4>1
      <4> QED BY <2>1, <3>1, <4>1, <4>2
    <3>2. CASE sent'[k].entry = todo[1] /\ sent'[k].what.z = z
      <4>1. i = 1
        <5>1. i = 1 \/ todo[1] < todo[i]
          <6>1. todo \in Seq(Nat) BY DEF SentIInv, TodoTypes
          <6>2. i \in 1..Len(todo) /\ Len(todo) \in Nat /\ 1 \in DOMAIN todo BY <1>2, <2>1, <6>1, LenProperties, TailOfTodo
          <6> QED BY <2>1, <6>2 DEF SentIInv, TodoIsRead, InOrder
        <5> QED BY <2>1, <3>2, <5>1
      <4> QED BY <1>6, <2>1, <3>2, <4>1
    <3> QED BY <1>9, <3>1, <3>2
  <2>5. NoneForgotten'
    <3> SUFFICES ASSUME NEW i \in DOMAIN specs', Cycle!IsSent(specs'[i]) PROVE IsDone(i)'
      BY DEF NoneForgotten
    <3>1. IsDone(i) BY <1>1 DEF SentIInv, NoneForgotten
    <3>2. CASE \E k \in DOMAIN todo : todo[k] = i BY <2>1, <3>2 DEF IsDone
    <3>3. CASE ~\E k \in DOMAIN todo : todo[k] = i BY <1>1, <1>9, <3>1, <3>3, StaysDone
    <3> QED BY <3>2, <3>3
  <2>6. ListIsRead' /\ OneDecides' BY <1>1 DEF SentIInv, ListIsRead, OneDecides
  <2> QED BY <1>9, <2>2, <2>3, <2>4, <2>5, <2>6 DEF SentIInv
<1> QED BY <1>11, <1>12

\* A command that is not a shaft is sent and taken from the list.
LEMMA SentOfCommand ==
  ASSUME NEW result, SentIInv, Cycle!SendCommand(result)
  PROVE  SentIInv'
<1> DEFINE z == Cycle!spec.region[3]
<1>1. /\ todo # <<>> /\ levels = <<>> /\ at = "executing" /\ Cycle!IsSent(Cycle!spec) /\ ~Cycle!IsShaft(Cycle!spec)
      /\ UNCHANGED <<setup, dug, at, specs, levels, decided>> /\ todo' = Tail(todo) /\ Cycle!SendOnWire(z)
  BY DEF Cycle!SendCommand
<1>2. Cycle!LevelsOf(Cycle!spec) = {z} BY <1>1 DEF Cycle!LevelsOf
<1> HIDE DEF z
<1>3. /\ sent' \in Seq(Entries) /\ SentIsAsked' /\ SentInOrder'
      /\ \A k \in DOMAIN sent : k \in DOMAIN sent' /\ sent'[k] = sent[k]
      /\ \E k \in DOMAIN sent' : sent'[k] = SentAs(specs, todo[1], z)
      /\ \A k \in DOMAIN sent' : \/ k \in DOMAIN sent /\ sent'[k] = sent[k]
                                 \/ sent'[k].entry = todo[1] /\ sent'[k].what.z = z
  <2>1. z \in Cycle!LevelsOf(Cycle!spec) /\ specs' = specs /\ (levels # <<>> => levels[1] = z) BY <1>1, <1>2
  <2> QED BY <1>1, <2>1, OneMoreSent
<1>4. \A w \in Cycle!LevelsOf(Cycle!spec) : WasSent(sent', specs, todo[1], w) BY <1>2, <1>3 DEF WasSent
<1>5. NoneForgotten' /\ SentBefore' BY <1>1, <1>3, <1>4, HeadIsSent
<1>6. todo' \in Seq(Nat) /\ TodoIsRead' BY <1>1, TailIsRead
<1>7. TodoTypes' BY <1>1, <1>3, <1>6 DEF SentIInv, TodoTypes
<1>8. LevelsAreLeft' BY <1>1 DEF LevelsAreLeft
<1>9. ListIsRead' /\ OneDecides' BY <1>1 DEF SentIInv, ListIsRead, OneDecides
<1> QED BY <1>3, <1>5, <1>6, <1>7, <1>8, <1>9 DEF SentIInv

\* What is sent and who decides, in every state of the cycles.
THEOREM SentInvariant ==
  ASSUME Cycle!AnswersAssumption, Cycle!MapAssumption PROVE Cycle!Spec => []SentIInv
<1>1. Cycle!Init => SentIInv
  <2> SUFFICES ASSUME Cycle!Init PROVE SentIInv
    OBVIOUS
  <2>1. /\ specs = <<>> /\ todo = <<>> /\ levels = <<>> /\ sent = <<>> /\ decided = <<>> /\ at = "idle"
        /\ DOMAIN specs = {} /\ DOMAIN todo = {} /\ DOMAIN levels = {} /\ DOMAIN sent = {}
    BY DEF Cycle!Init
  <2>2. TodoTypes BY <2>1, EmptySeq DEF TodoTypes
  <2>3. TodoIsRead /\ LevelsAreLeft BY <2>1 DEF TodoIsRead, InOrder, LevelsAreLeft
  <2>4. SentIsAsked /\ SentInOrder /\ SentBefore /\ NoneForgotten
    BY <2>1 DEF SentIsAsked, SentInOrder, SentBefore, NoneForgotten
  <2>5. ListIsRead /\ OneDecides BY <2>1 DEF ListIsRead, OneDecides
  <2> QED BY <2>2, <2>3, <2>4, <2>5 DEF SentIInv
<1>2. SentIInv /\ [Cycle!Next]_cycleState => SentIInv'
  <2> SUFFICES ASSUME SentIInv, [Cycle!Next]_cycleState PROVE SentIInv'
    OBVIOUS
  <2>1. CASE Cycle!ModelAnswers BY <2>1, SentOfAnswer
  <2>2. CASE Cycle!SkipCommand BY <2>2, SentOfSkip
  <2>3. CASE Cycle!BeginShaft BY <2>3, SentOfShaft
  <2>4. ASSUME NEW result \in {"accepted", "refused"}, Cycle!DigLevel(result) PROVE SentIInv' BY <2>4, SentOfLevel
  <2>5. ASSUME NEW result \in {"accepted", "refused"}, Cycle!SendCommand(result) PROVE SentIInv' BY <2>5, SentOfCommand
  <2> QED BY <2>1, <2>2, <2>3, <2>4, <2>5, SentOfTurns DEF Cycle!Next
<1> QED BY <1>1, <1>2, PTL DEF Cycle!Spec, Cycle!turnVars, cycleState

----------------------------------------------------------------------------
(* The graph of the proposals.                                             *)

\* A proposal has a box whose ends are numbers in their order.
IsBoxed(p) == \A k \in 1..3 : p.region.lo[k] \in Int /\ p.region.hi[k] \in Int /\ p.region.lo[k] <= p.region.hi[k]
AreBoxed(s) == \E T : s \in Seq(T) /\ \A p \in T : IsBoxed(p)

\* A proposal that is made or not.
LEMMA WhenIs ==
  ASSUME NEW c, NEW p, IsBoxed(p)
  PROVE  Cycle!When(c, p) \in Seq({p})
<1>1. CASE c BY <1>1 DEF Cycle!When
<1>2. CASE ~c BY <1>2, EmptySeq DEF Cycle!When
<1> QED BY <1>1, <1>2

\* Two proposals, each of them made or not.
LEMMA BothAreBoxed ==
  ASSUME NEW c, NEW p, IsBoxed(p), NEW d, NEW q, IsBoxed(q)
  PROVE  AreBoxed(Cycle!When(c, p)) /\ AreBoxed(Cycle!When(c, p) \o Cycle!When(d, q))
<1> DEFINE T == {p, q}
<1>1. Cycle!When(c, p) \in Seq({p}) /\ Cycle!When(d, q) \in Seq({q}) BY WhenIs
<1>2. Cycle!When(c, p) \in Seq(T) /\ Cycle!When(d, q) \in Seq(T) BY <1>1
<1>3. \A r \in T : IsBoxed(r) OBVIOUS
<1> HIDE DEF T
<1>4. Cycle!When(c, p) \o Cycle!When(d, q) \in Seq(T) BY <1>2, ConcatProperties
<1> QED BY <1>2, <1>3, <1>4 DEF AreBoxed

\* The boxes of the agents.
LEMMA BoxIs ==
  ASSUME NEW x1 \in Int, NEW y1 \in Int, NEW z1 \in Int, NEW x2 \in Int, NEW y2 \in Int, NEW z2 \in Int,
         x1 <= x2, y1 <= y2, z1 <= z2, NEW n, NEW t, NEW s, NEW u
  PROVE  IsBoxed(Cycle!Proposal(n, t, Cycle!Box(x1, y1, z1, x2, y2, z2), s, u))
<1> DEFINE p == Cycle!Proposal(n, t, Cycle!Box(x1, y1, z1, x2, y2, z2), s, u)
<1>1. p.region.lo = <<x1, y1, z1>> /\ p.region.hi = <<x2, y2, z2>> BY DEF Cycle!Proposal, Cycle!Box
<1> HIDE DEF p
<1>2. ASSUME NEW k \in 1..3 PROVE p.region.lo[k] \in Int /\ p.region.hi[k] \in Int /\ p.region.lo[k] <= p.region.hi[k]
  <2>1. k \in {1, 2, 3} OBVIOUS
  <2> QED BY <1>1, <2>1
<1>3. IsBoxed(p) BY <1>2 DEF IsBoxed
<1> QED BY <1>3 DEF p

\* What any agent proposes.
LEMMA AnalyzeIsBoxed ==
  ASSUME NEW agent \in Cycle!AgentNames, NEW m, m.housingZ \in Int, NEW t
  PROVE  AreBoxed(Cycle!Analyze(agent, m, t))
<1>1. AreBoxed(<<>>)
  <2> DEFINE T == {}
  <2>1. <<>> \in Seq(T) BY EmptySeq
  <2>2. \A p \in T : IsBoxed(p) OBVIOUS
  <2> HIDE DEF T
  <2> QED BY <2>1, <2>2 DEF AreBoxed
<1>2. AreBoxed(Cycle!FoodSecurity(m, t))
  <2> DEFINE p == Cycle!Proposal("food", "farm_plot", Cycle!Box(40, 30, 125, 50, 40, 125), {"access"},
                                 Cycle!calculateUrgency(m.food, t.food, 5000))
             q == Cycle!Proposal("gather", "gather_zone", Cycle!Box(50, 40, 125, 60, 50, 125), {},
                                 Cycle!calculateUrgency(m.drink, t.drink, 5000))
  <2>1. IsBoxed(p) /\ IsBoxed(q) BY BoxIs
  <2>2. Cycle!FoodSecurity(m, t) =
          IF m.dwarves = 0 THEN <<>>
          ELSE Cycle!When(m.food < t.food, p) \o Cycle!When(m.drink < t.drink /\ m.age < 30, q)
    BY DEF Cycle!FoodSecurity
  <2> HIDE DEF p, q
  <2>3. AreBoxed(Cycle!When(m.food < t.food, p) \o Cycle!When(m.drink < t.drink /\ m.age < 30, q))
    BY <2>1, BothAreBoxed
  <2> QED BY <1>1, <2>2, <2>3
<1>3. AreBoxed(Cycle!Housing(m, t))
  <2> DEFINE z == IF m.housingZ # 0 THEN m.housingZ ELSE 125
             p == Cycle!Proposal("housing", "bedroom_cluster", Cycle!Box(60, 30, z, 70, 40, z), {"access"},
                                 Cycle!HousingUrgency(m, t))
  <2>1. z \in Int OBVIOUS
  <2>2. IsBoxed(p)
    <3> HIDE DEF z
    <3> QED BY <2>1, BoxIs
  <2>3. Cycle!Housing(m, t) = Cycle!When(Cycle!NeedsHousing(m, t), p) BY DEF Cycle!Housing
  <2> HIDE DEF p
  <2> QED BY <2>2, <2>3, BothAreBoxed
<1>4. AreBoxed(Cycle!Mining(m, t))
  <2> DEFINE p == Cycle!Proposal("mining", "mining_shaft", Cycle!Box(-40, -40, 110, -35, -35, 120), {"stairs"},
                                 Cycle!AtMost(1000, (m.noStrike * 1000) \div (2 * t.noStrike)))
  <2>1. IsBoxed(p) BY BoxIs
  <2>2. Cycle!Mining(m, t) = Cycle!When(m.noStrike > t.noStrike, p) BY DEF Cycle!Mining
  <2> HIDE DEF p
  <2> QED BY <2>1, <2>2, BothAreBoxed
<1>5. AreBoxed(Cycle!Wealth(m, t))
  <2> DEFINE short == Cycle!AtMost(1000, ((t.growth - m.growth) * 1000) \div t.growth)
             p == Cycle!Proposal("wealth", "workshop_zone", Cycle!Box(20, 20, 125, 40, 40, 125), {"access"},
                                 IF short < 300 THEN 300 ELSE short)
  <2>1. IsBoxed(p)
    <3> HIDE DEF short
    <3> QED BY BoxIs
  <2>2. Cycle!Wealth(m, t) = Cycle!When(m.growth < t.growth, p) BY DEF Cycle!Wealth
  <2> HIDE DEF p
  <2> QED BY <2>1, <2>2, BothAreBoxed
<1>6. AreBoxed(Cycle!Defense(m, t))
  <2> DEFINE p == Cycle!Proposal("defense_seal", "seal_entrance", Cycle!Box(0, 0, 125, 5, 5, 125), {}, 1000)
             q == Cycle!Proposal("defense_wall", "defensive_wall", Cycle!Box(10, 10, 125, 15, 15, 125), {}, 1000)
  <2>1. IsBoxed(p) /\ IsBoxed(q) BY BoxIs
  <2>2. Cycle!Defense(m, t) = Cycle!When(m.enemies > 0, p) \o Cycle!When(m.enemies > 3, q) BY DEF Cycle!Defense
  <2> HIDE DEF p, q
  <2> QED BY <2>1, <2>2, BothAreBoxed
<1> QED BY <1>2, <1>3, <1>4, <1>5, <1>6 DEF Cycle!Analyze, Cycle!AgentNames

\* What the agents propose together, in any order.
LEMMA ProposalsAreBoxed ==
  ASSUME NEW n \in Nat, NEW ends \in [1..n -> Cycle!AgentNames], NEW m, m.housingZ \in Int, NEW t
  PROVE  AreBoxed(Cycle!Proposals(ends, m, t))
<1> DEFINE ss == [i \in DOMAIN ends |-> Cycle!Analyze(ends[i], m, t)]
           T(i) == CHOOSE S : ss[i] \in Seq(S) /\ \A p \in S : IsBoxed(p)
           All == UNION {T(i) : i \in 1..n}
<1>1. DOMAIN ss = 1..n /\ \A i \in 1..n : ss[i] = Cycle!Analyze(ends[i], m, t) OBVIOUS
<1>2. ASSUME NEW i \in 1..n PROVE ss[i] \in Seq(T(i)) /\ \A p \in T(i) : IsBoxed(p)
  <2>1. AreBoxed(ss[i])
    <3>1. ends[i] \in Cycle!AgentNames OBVIOUS
    <3> HIDE DEF ss
    <3> QED BY <1>1, <3>1, AnalyzeIsBoxed
  <2> HIDE DEF ss
  <2>2. \E S : ss[i] \in Seq(S) /\ \A p \in S : IsBoxed(p) BY <2>1 DEF AreBoxed
  <2> QED BY <2>2, Zenon
<1> HIDE DEF T
<1>3. \A p \in All : IsBoxed(p) BY <1>2
<1>4. \A i \in 1..n : ss[i] \in Seq(All)
  <2> SUFFICES ASSUME NEW i \in 1..n PROVE ss[i] \in Seq(All)
    OBVIOUS
  <2> HIDE DEF ss
  <2>1. T(i) \subseteq All OBVIOUS
  <2> HIDE DEF All
  <2>2. ss[i] \in Seq(T(i)) BY <1>2
  <2> QED BY <2>1, <2>2
<1>5. ss \in Seq(Seq(All))
  <2>1. ss = [i \in 1..n |-> ss[i]] OBVIOUS
  <2> HIDE DEF ss, All
  <2>2. ss \in [1..n -> Seq(All)] BY <1>4, <2>1
  <2> QED BY <2>2
<1> HIDE DEF All
<1>6. Cycle!FlattenSeq(ss) \in Seq(All) BY <1>5, FlattenIs
<1> QED BY <1>3, <1>6 DEF AreBoxed, Cycle!Proposals

\* Names of proposals tell them apart.
NamesDiffer(s) == \A i, j \in DOMAIN s : i # j => s[i].name # s[j].name

\* A proposal is added unless its name is there.
LEMMA AddNodeIs ==
  ASSUME NEW T, NEW v \in Seq(T), NamesDiffer(v), NEW p \in T
  PROVE  Cycle!AddNode(v, p) \in Seq(T) /\ NamesDiffer(Cycle!AddNode(v, p))
<1>1. CASE \E i \in DOMAIN v : v[i].name = p.name BY <1>1 DEF Cycle!AddNode
<1>2. CASE ~\E i \in DOMAIN v : v[i].name = p.name
  <2> DEFINE w == Append(v, p)
  <2>1. Cycle!AddNode(v, p) = w BY <1>2 DEF Cycle!AddNode
  <2>2. /\ w \in Seq(T) /\ Len(v) \in Nat /\ DOMAIN v = 1..Len(v) /\ DOMAIN w = 1..Len(v) + 1
        /\ \A i \in 1..Len(v) : w[i] = v[i]
        /\ w[Len(v) + 1] = p
    BY AppendProperties, LenProperties
  <2> HIDE DEF w
  <2>3. NamesDiffer(w)
    <3> SUFFICES ASSUME NEW i \in DOMAIN w, NEW j \in DOMAIN w, i # j PROVE w[i].name # w[j].name
      BY DEF NamesDiffer
    <3>1. \A k \in DOMAIN w : \/ k \in DOMAIN v /\ w[k] = v[k]
                              \/ k = Len(v) + 1 /\ w[k] = p
      BY <2>2
    <3>2. CASE i \in DOMAIN v /\ w[i] = v[i] /\ j \in DOMAIN v /\ w[j] = v[j] BY <3>2 DEF NamesDiffer
    <3>3. CASE i \in DOMAIN v /\ w[i] = v[i] /\ j = Len(v) + 1 /\ w[j] = p BY <1>2, <3>3
    <3>4. CASE i = Len(v) + 1 /\ w[i] = p /\ j \in DOMAIN v /\ w[j] = v[j] BY <1>2, <3>4
    <3> QED BY <3>1, <3>2, <3>3, <3>4
  <2> QED BY <2>1, <2>2, <2>3
<1> QED BY <1>1, <1>2

\* The nodes are proposals, each name once.
LEMMA NodesAre ==
  ASSUME NEW T, NEW ps \in Seq(T)
  PROVE  Cycle!Nodes(ps) \in Seq(T) /\ NamesDiffer(Cycle!Nodes(ps))
<1> DEFINE N == Len(ps)
           Adds(f) == f = [k \in 0..N |-> IF k = 0 THEN <<>> ELSE Cycle!AddNode(f[k - 1], ps[k])]
           V == {v \in Seq(T) : NamesDiffer(v)}
<1>1. N \in Nat /\ \A k \in 1..N : ps[k] \in T BY LenProperties, ElementOfSeq
<1>2. <<>> \in V BY EmptySeq DEF NamesDiffer
<1>3. \A k \in 1..N : \A v \in V : Cycle!AddNode(v, ps[k]) \in V BY <1>1, AddNodeIs
<1>4. \E f : Adds(f)
  <2> DEFINE g == [p \in (0 + 1..N) \X V |-> Cycle!AddNode(p[2], ps[p[1]])]
  <2>1. 0 + 1 = 1 OBVIOUS
  <2>2. g \in [(0 + 1..N) \X V -> V] BY <1>3, <2>1
  <2>3. ASSUME NEW k \in 1..N, NEW v \in V PROVE g[<<k, v>>] = Cycle!AddNode(v, ps[k])
    <3>1. <<k, v>> \in (0 + 1..N) \X V BY <2>1
    <3> QED BY <3>1
  <2> HIDE DEF g, N, V
  <2>4. PICK f : Recurs(f, <<>>, g, 0, N, V)
    <3>1. Steps(g, 0, N, V) BY <2>2 DEF Steps
    <3>2. 0 \in Nat /\ N \in Nat BY <1>1
    <3> QED BY <1>2, <3>1, <3>2, Recursion
  <2>5. f \in [0..N -> V] /\ \A k \in 0..N : f[k] = IF k = 0 THEN <<>> ELSE g[<<k, f[k - 1]>>]
    BY <2>4 DEF Recurs
  <2>6. \A k \in 0..N : f[k] = IF k = 0 THEN <<>> ELSE Cycle!AddNode(f[k - 1], ps[k])
    <3> SUFFICES ASSUME NEW k \in 0..N PROVE f[k] = IF k = 0 THEN <<>> ELSE Cycle!AddNode(f[k - 1], ps[k])
      OBVIOUS
    <3>1. CASE k = 0 BY <2>5, <3>1
    <3>2. CASE k # 0
      <4>1. k \in 1..N /\ k - 1 \in 0..N BY <1>1, <3>2
      <4> QED BY <2>3, <2>5, <3>2, <4>1
    <3> QED BY <3>1, <3>2
  <2>7. f = [k \in 0..N |-> f[k]] BY <2>5
  <2> QED BY <2>6, <2>7
<1> DEFINE f == CHOOSE h : Adds(h)
<1>5. Cycle!Nodes(ps) = f[N] BY DEF Cycle!Nodes
<1>6. Adds(f) BY <1>4
<1> HIDE DEF f
<1>7. \A k \in 0..N : f[k] = IF k = 0 THEN <<>> ELSE Cycle!AddNode(f[k - 1], ps[k]) BY <1>6
<1> DEFINE S == {k \in 0..N : f[k] \in V}
<1> HIDE DEF N, V
<1>8. 0 \in S BY <1>1, <1>2, <1>7
<1>9. ASSUME NEW k \in 0 + 1..N, k - 1 \in S PROVE k \in S
  <2>1. k \in 1..N /\ k \in 0..N /\ k # 0 BY <1>1
  <2> QED BY <1>3, <1>7, <1>9, <2>1
<1>10. N \in S
  <2> HIDE DEF S
  <2>1. 0..N \subseteq S BY <1>1, <1>8, <1>9, Upward
  <2> QED BY <1>1, <2>1
<1>11. f[N] \in V BY <1>10
<1> QED BY <1>5, <1>11 DEF V

\* A list of each pair of numbers up to n once, the smaller first.
PairsOnce(P, n) ==
  /\ P \in Seq((1..n) \X (1..n))
  /\ \A k \in DOMAIN P : P[k][1] < P[k][2]
  /\ \A i, j \in 1..n : i < j => \E k \in DOMAIN P : P[k] = <<i, j>>
  /\ \A k, l \in DOMAIN P : k < l => P[k] # P[l]
\* The list which the detection goes through is one of them.
LEMMA PairsAre ==
  ASSUME NEW n \in Nat
  PROVE  PairsOnce(Cycle!Pairs(n), n)
<1> DEFINE ss == [i \in 1..n |-> [j \in 1..(n - i) |-> <<i, i + j>>]]
           T == (1..n) \X (1..n)
           P == Cycle!Pairs(n)
<1>1. P = Cycle!FlattenSeq(ss) BY DEF Cycle!Pairs
<1>2. ASSUME NEW i \in 1..n
      PROVE  /\ ss[i] \in Seq(T) /\ DOMAIN ss[i] = 1..(n - i)
             /\ \A a \in 1..(n - i) : ss[i][a] = <<i, i + a>>
  <2>1. n - i \in Nat /\ \A a \in 1..(n - i) : i + a \in 1..n OBVIOUS
  <2>2. ss[i] = [j \in 1..(n - i) |-> <<i, i + j>>] OBVIOUS
  <2>3. ss[i] \in [1..(n - i) -> T] BY <2>1, <2>2
  <2> HIDE DEF ss, T
  <2>4. ss[i] \in Seq(T)
    <3> DEFINE m == n - i
               s == ss[i]
    <3>1. m \in Nat /\ s \in [1..m -> T] BY <2>1, <2>3
    <3> HIDE DEF m, s
    <3>2. s \in Seq(T) BY <3>1
    <3> QED BY <3>2 DEF s
  <2> QED BY <2>2, <2>4
<1>3. ss \in Seq(Seq(T)) /\ Len(ss) = n
  <2>1. ss = [i \in 1..n |-> ss[i]] OBVIOUS
  <2> HIDE DEF ss, T
  <2>2. ss \in [1..n -> Seq(T)] BY <1>2, <2>1
  <2> QED BY <2>1, <2>2
<1> SUFFICES PairsOnce(P, n)
  OBVIOUS
<1> HIDE DEF ss, P
<1>4. P \in Seq(T) /\ Joined(P, ss, n)
  <2> HIDE DEF T
  <2> QED BY <1>1, <1>3, FlattenIs
<1>5. ASSUME NEW k \in DOMAIN P PROVE P[k][1] < P[k][2]
  <2>1. PICK i \in 1..n : \E a \in DOMAIN ss[i] : P[k] = ss[i][a] BY <1>4 DEF Joined
  <2>2. PICK a \in 1..(n - i) : P[k] = <<i, i + a>> BY <1>2, <2>1
  <2> QED BY <2>2
<1>6. ASSUME NEW i \in 1..n, NEW j \in 1..n, i < j PROVE \E k \in DOMAIN P : P[k] = <<i, j>>
  <2>1. j - i \in 1..(n - i) /\ i + (j - i) = j BY <1>6
  <2>2. j - i \in DOMAIN ss[i] /\ ss[i][j - i] = <<i, j>> BY <1>2, <2>1
  <2>3. \E k \in DOMAIN P : P[k] = ss[i][j - i] BY <1>4, <2>2 DEF Joined
  <2> QED BY <2>2, <2>3
<1>7. ASSUME NEW k \in DOMAIN P, NEW l \in DOMAIN P, k < l PROVE P[k] # P[l]
  <2>1. PICK i \in 1..n, j \in 1..n : \E a \in DOMAIN ss[i], b \in DOMAIN ss[j] :
          (i < j \/ (i = j /\ a < b)) /\ P[k] = ss[i][a] /\ P[l] = ss[j][b]
    BY <1>4, <1>7 DEF Joined
  <2>2. PICK a \in DOMAIN ss[i], b \in DOMAIN ss[j] :
          (i < j \/ (i = j /\ a < b)) /\ P[k] = ss[i][a] /\ P[l] = ss[j][b]
    BY <2>1
  <2>3. a \in 1..(n - i) /\ ss[i][a] = <<i, i + a>> BY <1>2
  <2>4. b \in 1..(n - j) /\ ss[j][b] = <<j, j + b>> BY <1>2
  <2>5. P[k] = <<i, i + a>> /\ P[l] = <<j, j + b>> BY <2>2, <2>3, <2>4
  <2>6. i # j \/ i + a # j + b
    <3>1. i \in Int /\ j \in Int /\ a \in Int /\ b \in Int BY <2>3, <2>4
    <3> HIDE DEF P, ss
    <3> QED BY <2>2, <3>1
  <2>7. <<i, i + a>> # <<j, j + b>> BY <2>6, Zenon
  <2> QED BY <2>5, <2>7, Zenon
<1> QED BY <1>4, <1>5, <1>6, <1>7 DEF PairsOnce

\* Where b is named among the conflicts of a.
Told(e, a, b) == {q \in DOMAIN e[a] : e[a][q] = b}

\* The conflicts f are e and one more, told to both and to nobody else.
TellsBoth(f, e, N, x, y) ==
  /\ f \in [N -> Seq(N)]
  /\ \A a, b \in N : <<a, b>> \in {<<x, y>>, <<y, x>>} => Told(f, a, b) = Told(e, a, b) \cup {Len(e[a]) + 1}
  /\ \A a, b \in N : <<a, b>> \notin {<<x, y>>, <<y, x>>} => Told(f, a, b) = Told(e, a, b)
\* A conflict is added so.
LEMMA AddConflictIs ==
  ASSUME NEW N, NEW e \in [N -> Seq(N)], NEW x \in N, NEW y \in N, x # y
  PROVE  TellsBoth(Cycle!AddConflict(e, x, y), e, N, x, y)
<1> DEFINE f == Cycle!AddConflict(e, x, y)
<1>1. \A a \in N : f[a] = IF a = x THEN Append(e[a], y) ELSE IF a = y THEN Append(e[a], x) ELSE e[a]
  BY DEF Cycle!AddConflict
<1>2. \A a \in N : f[a] \in Seq(N)
  <2> SUFFICES ASSUME NEW a \in N PROVE f[a] \in Seq(N)
    OBVIOUS
  <2>1. e[a] \in Seq(N) OBVIOUS
  <2>2. Append(e[a], x) \in Seq(N) /\ Append(e[a], y) \in Seq(N) BY <2>1, AppendProperties
  <2> QED BY <1>1, <2>1, <2>2
<1>3. f \in [N -> Seq(N)]
  <2>1. f = [a \in N |-> f[a]] BY DEF Cycle!AddConflict
  <2> QED BY <1>2, <2>1
<1> SUFFICES TellsBoth(f, e, N, x, y)
  OBVIOUS
<1> HIDE DEF f
<1> DEFINE TellsOf(a, b, c) == /\ b = c => Told(f, a, b) = Told(e, a, b) \cup {Len(e[a]) + 1}
                               /\ b # c => Told(f, a, b) = Told(e, a, b)
<1>4. ASSUME NEW a \in N, NEW c \in N, f[a] = Append(e[a], c)
      PROVE  \A b \in N : TellsOf(a, b, c)
  <2> DEFINE s == e[a]
             w == f[a]
  <2>1. s \in Seq(N) /\ w = Append(s, c) BY <1>4
  <2> HIDE DEF s, w
  <2>2. /\ Len(s) \in Nat /\ DOMAIN s = 1..Len(s) /\ DOMAIN w = 1..Len(s) + 1
        /\ \A q \in 1..Len(s) : w[q] = s[q]
        /\ w[Len(s) + 1] = c
    BY <2>1, AppendProperties, LenProperties
  <2>3. DOMAIN w = DOMAIN s \cup {Len(s) + 1} BY <2>2
  <2>4. ASSUME NEW b \in N
        PROVE  /\ b = c => {q \in DOMAIN w : w[q] = b} = {q \in DOMAIN s : s[q] = b} \cup {Len(s) + 1}
               /\ b # c => {q \in DOMAIN w : w[q] = b} = {q \in DOMAIN s : s[q] = b}
    BY <2>2, <2>3
  <2> QED BY <2>4 DEF Told, s, w
<1>5. ASSUME NEW a \in N, NEW b \in N
      PROVE  Told(f, a, b) = IF <<a, b>> \in {<<x, y>>, <<y, x>>} THEN Told(e, a, b) \cup {Len(e[a]) + 1} ELSE Told(e, a, b)
  <2>1. CASE a = x
    <3>1. f[a] = Append(e[a], y) BY <1>1, <2>1
    <3>2. TellsOf(a, b, y)
      <4> HIDE DEF TellsOf
      <4> QED BY <1>4, <3>1
    <3>3. <<a, b>> \in {<<x, y>>, <<y, x>>} <=> b = y BY <2>1
    <3> QED BY <3>2, <3>3, Zenon
  <2>2. CASE a = y
    <3>1. f[a] = Append(e[a], x) BY <1>1, <2>2
    <3>2. TellsOf(a, b, x)
      <4> HIDE DEF TellsOf
      <4> QED BY <1>4, <3>1
    <3>3. <<a, b>> \in {<<x, y>>, <<y, x>>} <=> b = x BY <2>2
    <3> QED BY <3>2, <3>3, Zenon
  <2>3. CASE a # x /\ a # y
    <3>1. f[a] = e[a] BY <1>1, <2>3
    <3> QED BY <2>3, <3>1 DEF Told
  <2> QED BY <2>1, <2>2, <2>3
<1> QED BY <1>3, <1>5 DEF TellsBoth

\* Among the first k pairs of P is that of i and j, and their boxes overlap.
Listed(nodes, P, k, i, j) ==
  /\ Cycle!regionsOverlap(nodes[i].region, nodes[j].region)
  /\ \E p \in 1..k : P[p] \in {<<i, j>>, <<j, i>>}
\* Each overlap among the first k pairs is told once and from both sides.
ToldOnce(nodes, P, k, e) ==
  \A i, j \in DOMAIN nodes : i # j =>
    /\ Listed(nodes, P, k, i, j) => \E q : Told(e, nodes[i].name, nodes[j].name) = {q}
    /\ ~Listed(nodes, P, k, i, j) => Told(e, nodes[i].name, nodes[j].name) = {}

\* The conflicts after the pair k, when e are those before.
AfterPair(nodes, P, k, e) ==
  IF Cycle!regionsOverlap(nodes[P[k][1]].region, nodes[P[k][2]].region)
  THEN Cycle!AddConflict(e, nodes[P[k][1]].name, nodes[P[k][2]].name) ELSE e
\* The step from one pair to the next.
LEMMA NextPairIs ==
  ASSUME NEW T, NEW nodes \in Seq(T), NamesDiffer(nodes), NEW P, PairsOnce(P, Len(nodes)),
         NEW N, \A i \in DOMAIN nodes : nodes[i].name \in N,
         NEW k \in DOMAIN P, NEW e \in [N -> Seq(N)]
  PROVE  /\ AfterPair(nodes, P, k, e) \in [N -> Seq(N)]
         /\ ToldOnce(nodes, P, k - 1, e) => ToldOnce(nodes, P, k, AfterPair(nodes, P, k, e))
<1> DEFINE f == AfterPair(nodes, P, k, e)
<1>0. P \in Seq((DOMAIN nodes) \X (DOMAIN nodes)) /\ P[k] \in (DOMAIN nodes) \X (DOMAIN nodes)
  <2>1. P \in Seq((DOMAIN nodes) \X (DOMAIN nodes)) BY LenProperties DEF PairsOnce
  <2> QED BY <2>1, LenProperties, ElementOfSeq
<1>1. Len(P) \in Nat /\ DOMAIN P = 1..Len(P) /\ k \in 1..Len(P) /\ DOMAIN nodes \subseteq Int BY <1>0, LenProperties
<1> SUFFICES f \in [N -> Seq(N)] /\ (ToldOnce(nodes, P, k - 1, e) => ToldOnce(nodes, P, k, f))
  OBVIOUS
<1> HIDE DEF f
<1>2. PICK u \in DOMAIN nodes, v \in DOMAIN nodes : P[k] = <<u, v>> /\ u < v
  <2> DEFINE p == P[k]
             D == DOMAIN nodes
  <2>0. p \in D \X D BY <1>0
  <2> HIDE DEF p, D
  <2>1. p = <<p[1], p[2]>> /\ p[1] \in D /\ p[2] \in D BY <2>0
  <2> USE DEF p, D
  <2>2. P[k][1] < P[k][2] BY DEF PairsOnce
  <2> QED BY <2>1, <2>2
<1>3. 1..k = 1..(k - 1) \cup {k} BY <1>1
<1>4. ASSUME NEW i \in DOMAIN nodes, NEW j \in DOMAIN nodes, <<i, j>> \notin {<<u, v>>, <<v, u>>}
      PROVE  Listed(nodes, P, k, i, j) <=> Listed(nodes, P, k - 1, i, j)
  <2>1. P[k] \notin {<<i, j>>, <<j, i>>} BY <1>2, <1>4
  <2>2. (\E p \in 1..k : P[p] \in {<<i, j>>, <<j, i>>}) <=> \E p \in 1..(k - 1) : P[p] \in {<<i, j>>, <<j, i>>}
    BY <1>3, <2>1
  <2> QED BY <2>2 DEF Listed
<1>5. CASE ~Cycle!regionsOverlap(nodes[u].region, nodes[v].region)
  <2>1. f = e BY <1>2, <1>5 DEF f, AfterPair
  <2>2. ~Cycle!regionsOverlap(nodes[v].region, nodes[u].region) BY <1>5 DEF Cycle!regionsOverlap
  <2>3. \A i, j \in DOMAIN nodes : Listed(nodes, P, k, i, j) <=> Listed(nodes, P, k - 1, i, j)
    BY <1>4, <1>5, <2>2 DEF Listed
  <2> QED BY <2>1, <2>3 DEF ToldOnce
<1>6. CASE Cycle!regionsOverlap(nodes[u].region, nodes[v].region)
  <2> DEFINE x == nodes[u].name
             y == nodes[v].name
  <2>1. x \in N /\ y \in N /\ x # y BY <1>2 DEF NamesDiffer
  <2>2. f = Cycle!AddConflict(e, x, y) BY <1>2, <1>6 DEF f, AfterPair
  <2> HIDE DEF x, y
  <2>3. /\ f \in [N -> Seq(N)]
        /\ \A a, b \in N : <<a, b>> \in {<<x, y>>, <<y, x>>} => Told(f, a, b) = Told(e, a, b) \cup {Len(e[a]) + 1}
        /\ \A a, b \in N : <<a, b>> \notin {<<x, y>>, <<y, x>>} => Told(f, a, b) = Told(e, a, b)
    <3>1. TellsBoth(f, e, N, x, y) BY <2>1, <2>2, AddConflictIs
    <3> QED BY <3>1 DEF TellsBoth
  <2>4. ASSUME NEW i \in DOMAIN nodes, NEW j \in DOMAIN nodes, i # j, ToldOnce(nodes, P, k - 1, e)
        PROVE  /\ Listed(nodes, P, k, i, j) => \E q : Told(f, nodes[i].name, nodes[j].name) = {q}
               /\ ~Listed(nodes, P, k, i, j) => Told(f, nodes[i].name, nodes[j].name) = {}
    <3> DEFINE a == nodes[i].name
               b == nodes[j].name
    <3>1. a \in N /\ b \in N OBVIOUS
    <3>2. CASE <<i, j>> \in {<<u, v>>, <<v, u>>}
      <4>1. <<a, b>> \in {<<x, y>>, <<y, x>>} BY <3>2 DEF x, y
      <4>2. Listed(nodes, P, k, i, j)
        <5>1. Cycle!regionsOverlap(nodes[i].region, nodes[j].region) BY <1>6, <3>2 DEF Cycle!regionsOverlap
        <5>2. P[k] \in {<<i, j>>, <<j, i>>} /\ k \in 1..k BY <1>1, <1>2, <3>2
        <5> QED BY <5>1, <5>2 DEF Listed
      <4>3. ~Listed(nodes, P, k - 1, i, j)
        <5> SUFFICES ASSUME NEW p \in 1..(k - 1), P[p] \in {<<i, j>>, <<j, i>>} PROVE FALSE
          BY DEF Listed
        <5>1. p \in DOMAIN P /\ p < k BY <1>1
        <5>2. P[p] # P[k] /\ P[p][1] < P[p][2] BY <5>1 DEF PairsOnce
        <5>3. P[p] = <<v, u>> BY <1>2, <3>2, <5>2
        <5> QED BY <1>1, <1>2, <5>2, <5>3
      <4>4. Told(e, a, b) = {} BY <2>4, <4>3 DEF ToldOnce
      <4>5. Told(f, a, b) = Told(e, a, b) \cup {Len(e[a]) + 1} BY <2>3, <3>1, <4>1
      <4>6. Told(f, a, b) = {Len(e[a]) + 1} BY <4>4, <4>5
      <4> QED BY <4>2, <4>6
    <3>3. CASE <<i, j>> \notin {<<u, v>>, <<v, u>>}
      <4>1. <<a, b>> \notin {<<x, y>>, <<y, x>>} BY <3>3 DEF NamesDiffer, x, y
      <4>2. Told(f, a, b) = Told(e, a, b) BY <2>3, <3>1, <4>1
      <4>3. Listed(nodes, P, k, i, j) <=> Listed(nodes, P, k - 1, i, j) BY <1>4, <3>3
      <4>4. /\ Listed(nodes, P, k - 1, i, j) => \E q : Told(e, a, b) = {q}
            /\ ~Listed(nodes, P, k - 1, i, j) => Told(e, a, b) = {}
        BY <2>4 DEF ToldOnce
      <4> QED BY <4>2, <4>3, <4>4
    <3> QED BY <3>2, <3>3
  <2> QED BY <2>3, <2>4 DEF ToldOnce
<1> QED BY <1>5, <1>6

\* The conflicts of proposals whose names differ.
LEMMA ConflictsAre ==
  ASSUME NEW T, NEW nodes \in Seq(T), NamesDiffer(nodes)
  PROVE  \A i, j \in DOMAIN nodes : i # j =>
           LET told == Told(Cycle!DetectSpatialConflicts(nodes), nodes[i].name, nodes[j].name)
           IN IF Cycle!regionsOverlap(nodes[i].region, nodes[j].region) THEN \E q : told = {q} ELSE told = {}
<1> DEFINE P == Cycle!Pairs(Len(nodes))
           K == Len(P)
           N == {nodes[i].name : i \in DOMAIN nodes}
           b0 == [n \in N |-> <<>>]
           Detects(f) == f = [k \in 0..K |-> IF k = 0 THEN b0 ELSE AfterPair(nodes, P, k, f[k - 1])]
           V == [N -> Seq(N)]
<1>1. Len(nodes) \in Nat /\ DOMAIN nodes = 1..Len(nodes) BY LenProperties
<1>2. PairsOnce(P, Len(nodes)) BY <1>1, PairsAre
<1>3. K \in Nat /\ DOMAIN P = 1..K
  <2> HIDE DEF P
  <2> QED BY <1>2, LenProperties DEF PairsOnce
<1>4. Cycle!DetectSpatialConflicts(nodes) = (CHOOSE h : Detects(h))[K]
  BY DEF Cycle!DetectSpatialConflicts, AfterPair
<1>5. \A i \in DOMAIN nodes : nodes[i].name \in N OBVIOUS
<1>6. b0 \in V /\ ToldOnce(nodes, P, 0, b0)
  <2>1. b0 \in V BY EmptySeq
  <2>2. ASSUME NEW i \in DOMAIN nodes, NEW j \in DOMAIN nodes
        PROVE  ~Listed(nodes, P, 0, i, j) /\ Told(b0, nodes[i].name, nodes[j].name) = {}
    <3>1. 1..0 = {} OBVIOUS
    <3>2. ~Listed(nodes, P, 0, i, j) BY <3>1 DEF Listed
    <3>3. b0[nodes[i].name] = <<>> BY <1>5
    <3>4. DOMAIN b0[nodes[i].name] = {} BY <3>3
    <3> QED BY <3>2, <3>4 DEF Told
  <2> QED BY <2>1, <2>2 DEF ToldOnce
<1> HIDE DEF P, K, N, b0
<1>7. \A k \in 1..K : \A e \in V :
        AfterPair(nodes, P, k, e) \in V /\ (ToldOnce(nodes, P, k - 1, e) => ToldOnce(nodes, P, k, AfterPair(nodes, P, k, e)))
  BY <1>2, <1>3, <1>5, NextPairIs
<1>8. \E f : Detects(f)
  <2> DEFINE g == [p \in (0 + 1..K) \X V |-> AfterPair(nodes, P, p[1], p[2])]
  <2>1. 0 + 1 = 1 OBVIOUS
  <2> HIDE DEF V
  <2>2. g \in [(0 + 1..K) \X V -> V] BY <1>7, <2>1
  <2>3. ASSUME NEW k \in 1..K, NEW e \in V PROVE g[<<k, e>>] = AfterPair(nodes, P, k, e)
    <3>1. <<k, e>> \in (0 + 1..K) \X V BY <2>1
    <3> QED BY <3>1
  <2> HIDE DEF g
  <2>4. PICK f : Recurs(f, b0, g, 0, K, V)
    <3>1. Steps(g, 0, K, V) BY <2>2 DEF Steps
    <3>2. 0 \in Nat /\ K \in Nat BY <1>3
    <3> QED BY <1>6, <3>1, <3>2, Recursion
  <2>5. f \in [0..K -> V] /\ \A k \in 0..K : f[k] = IF k = 0 THEN b0 ELSE g[<<k, f[k - 1]>>]
    BY <2>4 DEF Recurs
  <2>6. \A k \in 0..K : f[k] = IF k = 0 THEN b0 ELSE AfterPair(nodes, P, k, f[k - 1])
    <3> SUFFICES ASSUME NEW k \in 0..K PROVE f[k] = IF k = 0 THEN b0 ELSE AfterPair(nodes, P, k, f[k - 1])
      OBVIOUS
    <3>1. CASE k = 0 BY <2>5, <3>1
    <3>2. CASE k # 0
      <4>1. k \in 1..K /\ k - 1 \in 0..K BY <1>3, <3>2
      <4> QED BY <2>3, <2>5, <3>2, <4>1
    <3> QED BY <3>1, <3>2
  <2>7. f = [k \in 0..K |-> f[k]] BY <2>5
  <2> QED BY <2>6, <2>7
<1> DEFINE f == CHOOSE h : Detects(h)
<1>9. Detects(f) BY <1>8
<1> HIDE DEF f
<1>10. \A k \in 0..K : f[k] = IF k = 0 THEN b0 ELSE AfterPair(nodes, P, k, f[k - 1]) BY <1>9
<1> DEFINE S == {k \in 0..K : f[k] \in V /\ ToldOnce(nodes, P, k, f[k])}
<1> HIDE DEF V
<1>11. 0 \in S BY <1>3, <1>6, <1>10
<1>12. ASSUME NEW k \in 0 + 1..K, k - 1 \in S PROVE k \in S
  <2>1. k \in 1..K /\ k \in 0..K /\ k # 0 BY <1>3
  <2> QED BY <1>7, <1>10, <1>12, <2>1
<1>13. ToldOnce(nodes, P, K, f[K])
  <2> HIDE DEF S
  <2>1. 0..K \subseteq S BY <1>3, <1>11, <1>12, Upward
  <2>2. K \in S BY <1>3, <2>1
  <2> QED BY <2>2 DEF S
<1>14. ASSUME NEW i \in DOMAIN nodes, NEW j \in DOMAIN nodes, i # j
       PROVE  Listed(nodes, P, K, i, j) <=> Cycle!regionsOverlap(nodes[i].region, nodes[j].region)
  <2>1. \E p \in 1..K : P[p] \in {<<i, j>>, <<j, i>>}
    <3>1. CASE i < j BY <1>1, <1>2, <1>3, <3>1 DEF PairsOnce
    <3>2. CASE j < i BY <1>1, <1>2, <1>3, <3>2 DEF PairsOnce
    <3> QED BY <1>1, <1>14, <3>1, <3>2
  <2> QED BY <2>1 DEF Listed
<1>15. Cycle!DetectSpatialConflicts(nodes) = f[K] BY <1>4 DEF f
<1> SUFFICES ASSUME NEW i \in DOMAIN nodes, NEW j \in DOMAIN nodes, i # j
             PROVE  IF Cycle!regionsOverlap(nodes[i].region, nodes[j].region)
                    THEN \E q : Told(f[K], nodes[i].name, nodes[j].name) = {q}
                    ELSE Told(f[K], nodes[i].name, nodes[j].name) = {}
  BY <1>15
<1>16. /\ Listed(nodes, P, K, i, j) => \E q : Told(f[K], nodes[i].name, nodes[j].name) = {q}
       /\ ~Listed(nodes, P, K, i, j) => Told(f[K], nodes[i].name, nodes[j].name) = {}
  BY <1>13 DEF ToldOnce
<1> QED BY <1>14, <1>16

\* The graph of boxed proposals shows each overlap once and from both sides.
LEMMA AssembledIsTold ==
  ASSUME NEW ps, AreBoxed(ps)
  PROVE  Cycle!OverlapsTold(Cycle!assembleProposalGraph(ps))
<1> DEFINE nodes == Cycle!Nodes(ps)
           e == Cycle!DetectSpatialConflicts(nodes)
           g == Cycle!assembleProposalGraph(ps)
<1>1. PICK T : ps \in Seq(T) /\ \A p \in T : IsBoxed(p) BY DEF AreBoxed
<1>2. nodes \in Seq(T) /\ NamesDiffer(nodes) BY <1>1, NodesAre
<1>3. g.nodes = nodes /\ g.conflicts = e BY DEF Cycle!assembleProposalGraph
<1> SUFFICES Cycle!OverlapsTold(g)
  OBVIOUS
<1> HIDE DEF nodes, g
<1>4. \A i \in DOMAIN nodes : IsBoxed(nodes[i]) BY <1>1, <1>2, LenProperties, ElementOfSeq
<1>5. \A i, j \in DOMAIN nodes : i # j =>
        IF Cycle!regionsOverlap(nodes[i].region, nodes[j].region)
        THEN \E q : Told(e, nodes[i].name, nodes[j].name) = {q}
        ELSE Told(e, nodes[i].name, nodes[j].name) = {}
  BY <1>2, ConflictsAre
<1> HIDE DEF e
<1> DEFINE Shared(a, b) == \A k \in 1..3 : \E v \in a.region.lo[k]..a.region.hi[k] : v \in b.region.lo[k]..b.region.hi[k]
<1>6. ASSUME NEW a, NEW b, IsBoxed(a), IsBoxed(b) PROVE Cycle!regionsOverlap(a.region, b.region) <=> Shared(a, b)
  <2>1. ASSUME NEW k \in 1..3
        PROVE  (a.region.lo[k] <= b.region.hi[k] /\ b.region.lo[k] <= a.region.hi[k])
               <=> \E v \in a.region.lo[k]..a.region.hi[k] : v \in b.region.lo[k]..b.region.hi[k]
    <3>1. ASSUME NEW l \in Int, NEW h \in Int, NEW m \in Int, NEW n \in Int, l <= h, m <= n
          PROVE  (l <= n /\ m <= h) <=> \E v \in l..h : v \in m..n
      <4>1. l <= n /\ m <= h => \E v \in l..h : v \in m..n
        <5>1. CASE l <= m
          <6>1. m <= h => m \in l..h /\ m \in m..n BY <3>1, <5>1
          <6> QED BY <6>1
        <5>2. CASE ~(l <= m)
          <6>1. l <= n => l \in l..h /\ l \in m..n BY <3>1, <5>2
          <6> QED BY <6>1
        <5> QED BY <5>1, <5>2
      <4> QED BY <4>1
    <3>2. /\ a.region.lo[k] \in Int /\ a.region.hi[k] \in Int /\ a.region.lo[k] <= a.region.hi[k]
          /\ b.region.lo[k] \in Int /\ b.region.hi[k] \in Int /\ b.region.lo[k] <= b.region.hi[k]
      BY <1>6 DEF IsBoxed
    <3> QED BY <3>1, <3>2
  <2> QED BY <2>1 DEF Cycle!regionsOverlap
<1>7. ASSUME NEW i \in DOMAIN nodes, NEW j \in DOMAIN nodes, i # j
      PROVE  Cycle!Cardinality(Told(e, nodes[i].name, nodes[j].name)) = IF Shared(nodes[i], nodes[j]) THEN 1 ELSE 0
  <2> HIDE DEF Shared
  <2>1. Cycle!regionsOverlap(nodes[i].region, nodes[j].region) <=> Shared(nodes[i], nodes[j]) BY <1>4, <1>6
  <2>2. \A S : Cycle!Cardinality(S) = Cardinality(S) BY DEF Cycle!Cardinality, Cardinality, Cycle!IsFiniteSet, IsFiniteSet
  <2>3. CASE Shared(nodes[i], nodes[j])
    <3>1. PICK q : Told(e, nodes[i].name, nodes[j].name) = {q} BY <1>5, <1>7, <2>1, <2>3
    <3>2. Cardinality({q}) = 1 BY FS_Singleton
    <3> QED BY <2>2, <2>3, <3>1, <3>2
  <2>4. CASE ~Shared(nodes[i], nodes[j])
    <3>1. Told(e, nodes[i].name, nodes[j].name) = {} BY <1>5, <1>7, <2>1, <2>4
    <3>2. Cardinality({}) = 0 BY FS_EmptySet
    <3> QED BY <2>2, <2>4, <3>1, <3>2
  <2> QED BY <2>3, <2>4
<1> QED BY <1>3, <1>7 DEF Cycle!OverlapsTold, Told

\* Nobody's graph shows nothing.
LEMMA NoGraphIsTold == Cycle!OverlapsTold(Cycle!NoGraph)
<1>1. DOMAIN Cycle!NoGraph.nodes = {} BY DEF Cycle!NoGraph
<1> QED BY <1>1 DEF Cycle!OverlapsTold

\* The loop is set up as it can be; the graph is that of the proposals.
GraphIInv == setup \in Setups /\ Cycle!OverlapsTold(graph)

\* What a proposer leaves in the graph.
LEMMA ProposeIsTold ==
  ASSUME Cycle!SetupsAssumption, GraphIInv, Cycle!Propose
  PROVE  Cycle!OverlapsTold(graph')
<1>1. CASE graph' = graph BY <1>1 DEF GraphIInv
<1>2. CASE graph' # graph
  <2>1. PICK ends \in [1..Cycle!Cardinality(setup.agents) -> setup.agents] :
          graph' = Cycle!assembleProposalGraph(Cycle!Proposals(ends, Cycle!computeFortMetrics, setup.targets))
    BY <1>2 DEF Cycle!Propose
  <2>2. setup.agents \subseteq Cycle!AgentNames /\ setup.fort.housingZ \in Int BY DEF GraphIInv, Cycle!SetupsAssumption
  <2>3. Cycle!Cardinality(setup.agents) \in Nat
    <3>1. IsFiniteSet(Cycle!AgentNames)
      <4>1. \A S, x : IsFiniteSet(S) => IsFiniteSet(S \cup {x}) BY FS_AddElement
      <4>2. IsFiniteSet({} \cup {"FoodSecurity"} \cup {"Housing"} \cup {"Mining"} \cup {"Wealth"} \cup {"Defense"})
        BY <4>1, FS_EmptySet
      <4>3. Cycle!AgentNames = {} \cup {"FoodSecurity"} \cup {"Housing"} \cup {"Mining"} \cup {"Wealth"} \cup {"Defense"}
        BY DEF Cycle!AgentNames
      <4> QED BY <4>2, <4>3
    <3>2. IsFiniteSet(setup.agents) BY <2>2, <3>1, FS_Subset
    <3>3. Cardinality(setup.agents) \in Nat BY <3>2, FS_CardinalityType
    <3> QED BY <3>3 DEF Cycle!Cardinality, Cardinality, Cycle!IsFiniteSet, IsFiniteSet
  <2> DEFINE n == Cycle!Cardinality(setup.agents)
             m == Cycle!computeFortMetrics
             ps == Cycle!Proposals(ends, m, setup.targets)
  <2>4. n \in Nat /\ ends \in [1..n -> Cycle!AgentNames]
    <3>1. ends \in [1..n -> setup.agents] BY <2>1
    <3> HIDE DEF n
    <3>2. n \in Nat BY <2>3 DEF n
    <3> QED BY <2>2, <3>1, <3>2
  <2>5. m.housingZ \in Int BY <2>2 DEF Cycle!computeFortMetrics, Cycle!fort
  <2> HIDE DEF n, m
  <2>6. AreBoxed(ps) BY <2>4, <2>5, ProposalsAreBoxed
  <2>7. graph' = Cycle!assembleProposalGraph(ps) BY <2>1 DEF m
  <2> HIDE DEF ps
  <2> QED BY <2>6, <2>7, AssembledIsTold
<1> QED BY <1>1, <1>2

\* The graph of every state of the cycles.
THEOREM GraphInvariant == ASSUME Cycle!SetupsAssumption PROVE Cycle!Spec => []GraphIInv
<1>1. Cycle!Init => GraphIInv BY NoGraphIsTold DEF Cycle!Init, GraphIInv
<1>2. GraphIInv /\ [Cycle!Next]_cycleState => GraphIInv'
  <2> SUFFICES ASSUME GraphIInv, [Cycle!Next]_cycleState PROVE GraphIInv'
    OBVIOUS
  <2>1. setup' = setup
    BY DEF cycleState, Cycle!Next, Cycle!DigTile, Cycle!BeginCycle, Cycle!NothingProposed, Cycle!Propose, Cycle!NoDecision,
           Cycle!Decide, Cycle!Crash, Cycle!ModelFails, Cycle!ModelAnswers, Cycle!SkipCommand, Cycle!BeginShaft,
           Cycle!AddTurn, Cycle!DigLevel, Cycle!SendCommand
  <2>2. Cycle!OverlapsTold(graph')
    <3>1. CASE Cycle!Propose BY <3>1, ProposeIsTold
    <3>2. CASE ~Cycle!Propose
      <4>1. graph' \in {graph, Cycle!NoGraph}
        BY <3>2 DEF cycleState, Cycle!Next, Cycle!DigTile, Cycle!BeginCycle, Cycle!NothingProposed, Cycle!NoDecision,
           Cycle!Decide, Cycle!Crash, Cycle!ModelFails, Cycle!ModelAnswers, Cycle!SkipCommand, Cycle!BeginShaft,
           Cycle!AddTurn, Cycle!DigLevel, Cycle!SendCommand
      <4> QED BY <4>1, NoGraphIsTold DEF GraphIInv
    <3> QED BY <3>1, <3>2
  <2> QED BY <2>1, <2>2 DEF GraphIInv
<1> QED BY <1>1, <1>2, PTL DEF Cycle!Spec, Cycle!turnVars, cycleState

\* In a cycle the model's answer is sent as it says, one decides, and overlaps are told (OrchestratorTurn, CarriedOut).
THEOREM CyclesCarryOut ==
  ASSUME Cycle!SetupsAssumption, Cycle!MapAssumption, Cycle!AnswersAssumption PROVE Cycle!Spec => []Cycle!CarriedOut
<1>1. SentIInv /\ GraphIInv => Cycle!CarriedOut
  <2> SUFFICES ASSUME SentIInv, GraphIInv PROVE Cycle!CarriedOut
    OBVIOUS
  <2>1. \A k \in DOMAIN sent : \E i \in DOMAIN specs : \E z \in Cycle!LevelsOf(specs[i]) :
          Cycle!IsSent(specs[i]) /\ sent[k] = [entry |-> i, what |-> Cycle!OnWire(specs[i], z)]
    BY DEF SentIInv, SentIsAsked, SentAs
  <2>2. \A k, l \in DOMAIN sent : k < l => sent[k].entry <= sent[l].entry /\ sent[k] # sent[l]
    BY DEF SentIInv, SentInOrder
  <2>3. ASSUME NEW k \in DOMAIN sent, NEW l \in DOMAIN sent,
               specs[sent[k].entry].type = "dig", specs[sent[l].entry].type = "dig",
               specs[sent[k].entry].region = specs[sent[l].entry].region
        PROVE  sent[k].entry = sent[l].entry
    <3>1. PICK i \in DOMAIN specs : sent[k].entry = i /\ ~Cycle!Again(specs, i) BY SentAsIs DEF SentIInv, SentIsAsked
    <3>2. PICK j \in DOMAIN specs : sent[l].entry = j /\ ~Cycle!Again(specs, j) BY SentAsIs DEF SentIInv, SentIsAsked
    <3>3. i \in Nat \ {0} /\ j \in Nat \ {0}
      <4>1. specs \in Seq(Cycle!Asked) BY DEF SentIInv, TodoTypes
      <4> QED BY <4>1, LenProperties
    <3>4. Cycle!DedupeKey(specs[i]) = Cycle!DedupeKey(specs[j]) BY <2>3, <3>1, <3>2 DEF Cycle!DedupeKey
    <3>5. ~(i < j)
      <4>1. i < j => i \in 1..(j - 1) BY <3>3
      <4> QED BY <2>3, <3>2, <3>4, <4>1 DEF Cycle!Again
    <3>6. ~(j < i)
      <4>1. j < i => j \in 1..(i - 1) BY <3>3
      <4> QED BY <2>3, <3>1, <3>4, <4>1 DEF Cycle!Again
    <3> QED BY <3>1, <3>2, <3>3, <3>5, <3>6
  <2>4. ASSUME todo = <<>>, NEW i \in DOMAIN specs, Cycle!IsSent(specs[i])
        PROVE  \/ Cycle!Again(specs, i) \/ Cycle!Excavated(specs[i])
               \/ \A z \in Cycle!LevelsOf(specs[i]) :
                    \E k \in DOMAIN sent : sent[k] = [entry |-> i, what |-> Cycle!OnWire(specs[i], z)]
    <3>1. IsDone(i) /\ DOMAIN todo = {} BY <2>4 DEF SentIInv, NoneForgotten
    <3> QED BY <3>1 DEF IsDone, WasSent, SentAs
  <2>5. Cycle!AnswerIsCarriedOut BY <2>1, <2>2, <2>3, <2>4 DEF Cycle!AnswerIsCarriedOut
  <2>6. setup.flow # "graph" => decided = <<>> \/ sent = <<>> BY DEF SentIInv, OneDecides
  <2>7. Cycle!OverlapsTold(graph) BY DEF GraphIInv
  <2> QED BY <2>5, <2>6, <2>7 DEF Cycle!CarriedOut
<1> QED BY <1>1, SentInvariant, GraphInvariant, PTL

----------------------------------------------------------------------------
(* The chambers that are read off what was modified.                       *)

\* The tiles of D beside h that are not found yet.
Nexts(D, found, h) == {c \in D \ found : Changed!Beside(c, h)}

\* The fill with its queue and what it found: its result X keeps what is found
\* and has all that is beside the queue or beside what it adds.
Covers(X, D, queue, found) ==
  /\ X \subseteq D /\ found \subseteq X
  /\ \A a \in D : a \in X \ found \/ (\E i \in 1..Len(queue) : queue[i] = a)
                  => \A c \in D : Changed!Beside(c, a) => c \in X
\* The least such result.
Filled(D, queue, found) == {d \in D : \A X \in SUBSET D : Covers(X, D, queue, found) => d \in X}

\* The instance counts as the library does.
LEMMA ChangedCounts == \A S : (Changed!IsFiniteSet(S) <=> IsFiniteSet(S)) /\ Changed!Cardinality(S) = Cardinality(S)
BY DEF Changed!IsFiniteSet, IsFiniteSet, Changed!Cardinality, Cardinality

\* A sequence with each element of a set once.
ListsAll(s, S) == s \in Seq(S) /\ Len(s) = Cardinality(S) /\ \A x \in S : \E i \in 1..Len(s) : s[i] = x
\* A finite set is put in such a sequence.
LEMMA SetToSeqIs == ASSUME NEW S, IsFiniteSet(S) PROVE ListsAll(Changed!SetToSeq(S), S)
<1> DEFINE n == Cardinality(S)
           s == Changed!SetToSeq(S)
<1>1. n \in Nat /\ ExistsBijection(1..n, S) BY FS_CardinalityType
<1> HIDE DEF n
<1>2. PICK b \in [1..n -> S] : IsInjective(b)
  BY <1>1 DEF ExistsBijection, Bijection, Injection
<1>3. s = CHOOSE f \in [1..n -> S] : IsInjective(f)
  BY ChangedCounts DEF Changed!SetToSeq, Changed!IsInjective, IsInjective, n
<1> HIDE DEF s
<1>4. s \in [1..n -> S] /\ IsInjective(s) BY <1>2, <1>3, Zenon
<1>5. s \in Injection(1..n, S) BY <1>4 DEF Injection
<1>6. Cardinality(1..n) = n
  <2>1. Cardinality(1..n) = IF 1 > n THEN 0 ELSE n - 1 + 1 BY <1>1, FS_Interval
  <2> QED BY <1>1, <2>1
<1>7. s \in Surjection(1..n, S) BY <1>5, <1>6, FS_Injection DEF n
<1>8. \A x \in S : \E i \in 1..n : s[i] = x BY <1>7 DEF Surjection
<1>9. s \in Seq(S) /\ Len(s) = n BY <1>1, <1>4
<1> SUFFICES ListsAll(s, S)
  BY DEF s
<1> QED BY <1>8, <1>9 DEF ListsAll, n

\* A step of the fill: the queue loses its head and takes in what is beside it.
Later(D, queue, found) == Tail(queue) \o Changed!SetToSeq(Nexts(D, found, Head(queue)))
Larger(D, queue, found) == found \cup Nexts(D, found, Head(queue))
Rest(D, queue, found) == Len(queue) + Cardinality(D \ found)
\* It changes no result, and one tile less is to be seen.
LEMMA FillStep ==
  ASSUME NEW D, IsFiniteSet(D), NEW queue \in Seq(D), queue # <<>>, NEW found \in SUBSET D
  PROVE  /\ Later(D, queue, found) \in Seq(D) /\ Larger(D, queue, found) \in SUBSET D
         /\ \A X : Covers(X, D, queue, found) <=> Covers(X, D, Later(D, queue, found), Larger(D, queue, found))
         /\ Rest(D, Later(D, queue, found), Larger(D, queue, found)) = Rest(D, queue, found) - 1
         /\ Rest(D, queue, found) \in Nat
<1> DEFINE h == Head(queue)
           t == Tail(queue)
           n == Nexts(D, found, h)
           s == Changed!SetToSeq(n)
           r == t \o s
           F == found \cup n
<1>1. /\ h \in D /\ t \in Seq(D) /\ Len(queue) \in Nat /\ Len(t) = Len(queue) - 1 /\ Len(queue) >= 1
      /\ h = queue[1] /\ \A i \in 1..Len(t) : t[i] = queue[i + 1]
  BY HeadTailProperties, LenProperties, EmptySeq
<1>2. n \subseteq D /\ n \cap found = {} BY DEF Nexts
<1>3. IsFiniteSet(n) BY <1>2, FS_Subset
<1>4. s \in Seq(n) /\ Len(s) = Cardinality(n) /\ \A x \in n : \E i \in 1..Len(s) : s[i] = x
  BY <1>3, SetToSeqIs DEF ListsAll
<1>5. /\ Cardinality(n) \in Nat /\ IsFiniteSet(D \ found) /\ Cardinality(D \ found) \in Nat
      /\ Cardinality(D \ F) = Cardinality(D \ found) - Cardinality(n)
  <2>1. IsFiniteSet(D \ found) BY FS_Subset
  <2>2. (D \ found) \cap n = n /\ D \ F = (D \ found) \ n BY <1>2
  <2>3. Cardinality((D \ found) \ n) = Cardinality(D \ found) - Cardinality((D \ found) \cap n) BY <2>1, FS_Difference
  <2> QED BY <1>3, <2>1, <2>2, <2>3, FS_CardinalityType
<1>6. \A a \in D : a \in n <=> a \notin found /\ Changed!Beside(a, h) BY DEF Nexts
<1> SUFFICES /\ r \in Seq(D) /\ F \in SUBSET D
             /\ \A X : Covers(X, D, queue, found) <=> Covers(X, D, r, F)
             /\ Rest(D, r, F) = Rest(D, queue, found) - 1
             /\ Rest(D, queue, found) \in Nat
  BY DEF Later, Larger
<1> HIDE DEF h, t, n, s, r, F
<1>7. s \in Seq(D) /\ Len(s) \in Nat /\ \A i \in 1..Len(s) : s[i] \in n
  <2>1. s \in Seq(D) BY <1>2, <1>4, SeqMonotonic
  <2> QED BY <1>4, <2>1, LenProperties, ElementOfSeq
<1>8. /\ r \in Seq(D) /\ Len(r) = Len(t) + Len(s)
      /\ \A i \in 1..Len(t) + Len(s) : r[i] = IF i <= Len(t) THEN t[i] ELSE s[i - Len(t)]
  BY <1>1, <1>7, ConcatProperties DEF r
<1>9. ASSUME NEW a
      PROVE  (\E i \in 1..Len(r) : r[i] = a) <=> a \in n \/ (\E i \in 1..Len(t) : t[i] = a)
  <2>1. Len(t) \in Nat /\ Len(s) \in Nat BY <1>1, <1>7
  <2>2. ASSUME NEW i \in 1..Len(r), r[i] = a PROVE a \in n \/ (\E j \in 1..Len(t) : t[j] = a)
    <3>1. CASE i <= Len(t)
      <4>1. i \in 1..Len(t) /\ t[i] = a BY <1>8, <2>1, <2>2, <3>1
      <4> QED BY <4>1
    <3>2. CASE ~(i <= Len(t))
      <4>1. i - Len(t) \in 1..Len(s) /\ s[i - Len(t)] = a BY <1>8, <2>1, <2>2, <3>2
      <4> QED BY <1>7, <4>1
    <3> QED BY <3>1, <3>2
  <2>3. ASSUME NEW i \in 1..Len(t), t[i] = a PROVE \E j \in 1..Len(r) : r[j] = a
    <3>1. i \in 1..Len(r) /\ i \in 1..Len(t) + Len(s) /\ i <= Len(t) BY <1>8, <2>1
    <3> QED BY <1>8, <2>3, <3>1
  <2>4. ASSUME a \in n PROVE \E j \in 1..Len(r) : r[j] = a
    <3>1. PICK i \in 1..Len(s) : s[i] = a BY <1>4, <2>4
    <3>2. Len(t) + i \in 1..Len(r) /\ Len(t) + i \in 1..Len(t) + Len(s) /\ ~(Len(t) + i <= Len(t)) /\ Len(t) + i - Len(t) = i
      BY <1>8, <2>1
    <3> QED BY <1>8, <3>1, <3>2
  <2> QED BY <2>2, <2>3, <2>4
<1>10. ASSUME NEW a
       PROVE  (\E i \in 1..Len(queue) : queue[i] = a) <=> a = h \/ (\E i \in 1..Len(t) : t[i] = a)
  <2>1. ASSUME NEW i \in 1..Len(queue), queue[i] = a PROVE a = h \/ (\E j \in 1..Len(t) : t[j] = a)
    <3>1. CASE i = 1 BY <1>1, <2>1, <3>1
    <3>2. CASE i # 1
      <4>1. i - 1 \in 1..Len(t) /\ i - 1 + 1 = i BY <1>1, <3>2
      <4>2. t[i - 1] = a BY <1>1, <2>1, <4>1
      <4> QED BY <4>1, <4>2
    <3> QED BY <3>1, <3>2
  <2>2. ASSUME NEW i \in 1..Len(t), t[i] = a PROVE \E j \in 1..Len(queue) : queue[j] = a
    <3>1. i + 1 \in 1..Len(queue) /\ queue[i + 1] = a BY <1>1, <2>2
    <3> QED BY <3>1
  <2>3. a = h => \E j \in 1..Len(queue) : queue[j] = a
    <3>1. 1 \in 1..Len(queue) BY <1>1
    <3> QED BY <1>1, <3>1
  <2> QED BY <2>1, <2>2, <2>3
<1>11. ASSUME NEW X PROVE Covers(X, D, queue, found) <=> Covers(X, D, r, F)
  <2> DEFINE On(a) == \E i \in 1..Len(t) : t[i] = a
             Open(a) == \A c \in D : Changed!Beside(c, a) => c \in X
  <2>1. Covers(X, D, queue, found) <=>
          /\ X \subseteq D /\ found \subseteq X
          /\ \A a \in D : a \in X \ found \/ a = h \/ On(a) => Open(a)
    BY <1>10 DEF Covers
  <2>2. Covers(X, D, r, F) <=>
          /\ X \subseteq D /\ F \subseteq X
          /\ \A a \in D : a \in X \ F \/ a \in n \/ On(a) => Open(a)
    BY <1>9 DEF Covers
  <2>3. Open(h) <=> \A c \in D : Changed!Beside(c, h) => c \in X OBVIOUS
  <2> HIDE DEF On, Open
  <2>4. ASSUME X \subseteq D, found \subseteq X, \A a \in D : a \in X \ found \/ a = h \/ On(a) => Open(a)
        PROVE  F \subseteq X /\ \A a \in D : a \in X \ F \/ a \in n \/ On(a) => Open(a)
    <3>1. n \subseteq X BY <1>1, <1>2, <1>6, <2>3, <2>4
    <3>2. F \subseteq X BY <2>4, <3>1 DEF F
    <3>3. \A a \in D : a \in X \ F \/ a \in n => a \in X \ found BY <1>2, <3>1 DEF F
    <3> QED BY <2>4, <3>2, <3>3
  <2>5. ASSUME X \subseteq D, F \subseteq X, \A a \in D : a \in X \ F \/ a \in n \/ On(a) => Open(a)
        PROVE  found \subseteq X /\ \A a \in D : a \in X \ found \/ a = h \/ On(a) => Open(a)
    <3>1. Open(h) BY <1>6, <2>3, <2>5 DEF F
    <3>2. found \subseteq X BY <2>5 DEF F
    <3>3. \A a \in D : a \in X \ found => a \in X \ F \/ a \in n BY DEF F
    <3> QED BY <2>5, <3>1, <3>2, <3>3
  <2> QED BY <2>1, <2>2, <2>4, <2>5
<1>12. Rest(D, r, F) = Rest(D, queue, found) - 1 BY <1>1, <1>4, <1>5, <1>8 DEF Rest
<1>13. Rest(D, queue, found) \in Nat BY <1>1, <1>5 DEF Rest
<1>14. F \in SUBSET D BY <1>2 DEF F
<1> QED BY <1>8, <1>11, <1>12, <1>13, <1>14

\* What the fill is defined by.
Searches(D) == Seq(D) \X (SUBSET D)
Fills(f, D) ==
  f = [s \in Searches(D) |->
         IF s[1] = <<>> THEN s[2] ELSE f[<<Later(D, s[1], s[2]), Larger(D, s[1], s[2])>>]]
\* With an empty queue the result is what is found.
LEMMA FillEnds == ASSUME NEW D, NEW found \in SUBSET D PROVE Filled(D, <<>>, found) = found
<1>1. Len(<<>>) = 0 /\ 1..0 = {} BY EmptySeq
<1>2. Covers(found, D, <<>>, found) BY <1>1 DEF Covers
<1>3. \A X \in SUBSET D : Covers(X, D, <<>>, found) => found \subseteq X BY DEF Covers
<1> QED BY <1>2, <1>3 DEF Filled

\* The fill has one value, the least result.
LEMMA FillIs ==
  ASSUME NEW D, IsFiniteSet(D)
  PROVE  /\ \E f : Fills(f, D)
         /\ \A f : Fills(f, D) => \A queue \in Seq(D), found \in SUBSET D : f[<<queue, found>>] = Filled(D, queue, found)
<1>1. ASSUME NEW queue \in Seq(D), queue # <<>>, NEW found \in SUBSET D
      PROVE  /\ Later(D, queue, found) \in Seq(D) /\ Larger(D, queue, found) \in SUBSET D
             /\ Filled(D, Later(D, queue, found), Larger(D, queue, found)) = Filled(D, queue, found)
             /\ Rest(D, Later(D, queue, found), Larger(D, queue, found)) = Rest(D, queue, found) - 1
  <2>1. \A X : Covers(X, D, queue, found) <=> Covers(X, D, Later(D, queue, found), Larger(D, queue, found))
    BY <1>1, FillStep
  <2>2. Filled(D, Later(D, queue, found), Larger(D, queue, found)) = Filled(D, queue, found) BY <2>1 DEF Filled
  <2> QED BY <1>1, <2>2, FillStep
<1>2. \E f : Fills(f, D)
  <2> DEFINE g == [s \in Searches(D) |-> Filled(D, s[1], s[2])]
  <2>1. ASSUME NEW queue \in Seq(D), NEW found \in SUBSET D
        PROVE  g[<<queue, found>>] = IF queue = <<>> THEN found ELSE g[<<Later(D, queue, found), Larger(D, queue, found)>>]
    <3>1. CASE queue = <<>>
      <4>1. g[<<queue, found>>] = Filled(D, queue, found) BY DEF Searches
      <4> QED BY <3>1, <4>1, FillEnds
    <3>2. CASE queue # <<>>
      <4>1. g[<<queue, found>>] = Filled(D, queue, found) BY DEF Searches
      <4>2. Later(D, queue, found) \in Seq(D) /\ Larger(D, queue, found) \in SUBSET D BY <1>1, <3>2
      <4>3. g[<<Later(D, queue, found), Larger(D, queue, found)>>] = Filled(D, Later(D, queue, found), Larger(D, queue, found))
        BY <4>2 DEF Searches
      <4> HIDE DEF g
      <4> QED BY <1>1, <3>2, <4>1, <4>3
    <3> QED BY <3>1, <3>2
  <2>2. g = [s \in Searches(D) |-> g[s]] OBVIOUS
  <2> HIDE DEF g
  <2>3. ASSUME NEW s \in Searches(D)
        PROVE  g[s] = IF s[1] = <<>> THEN s[2] ELSE g[<<Later(D, s[1], s[2]), Larger(D, s[1], s[2])>>]
    <3>1. s[1] \in Seq(D) /\ s[2] \in SUBSET D /\ s = <<s[1], s[2]>> BY DEF Searches
    <3> QED BY <2>1, <3>1
  <2>4. g = [s \in Searches(D) |->
               IF s[1] = <<>> THEN s[2] ELSE g[<<Later(D, s[1], s[2]), Larger(D, s[1], s[2])>>]]
    BY <2>2, <2>3
  <2> QED BY <2>4 DEF Fills
<1>3. ASSUME NEW f, Fills(f, D), NEW queue \in Seq(D), NEW found \in SUBSET D
      PROVE  f[<<queue, found>>] = Filled(D, queue, found)
  <2>1. \A q \in Seq(D), F \in SUBSET D : f[<<q, F>>] = IF q = <<>> THEN F ELSE f[<<Later(D, q, F), Larger(D, q, F)>>]
    <3> SUFFICES ASSUME NEW q \in Seq(D), NEW F \in SUBSET D
                 PROVE  f[<<q, F>>] = IF q = <<>> THEN F ELSE f[<<Later(D, q, F), Larger(D, q, F)>>]
      OBVIOUS
    <3>1. <<q, F>> \in Searches(D) /\ <<q, F>>[1] = q /\ <<q, F>>[2] = F BY DEF Searches
    <3> QED BY <1>3, <3>1 DEF Fills
  <2>2. ASSUME NEW q \in Seq(D), NEW F \in SUBSET D PROVE Rest(D, q, F) \in Nat /\ (q # <<>> => Rest(D, q, F) >= 1)
    <3>1. Len(q) \in Nat /\ (q # <<>> => Len(q) >= 1) BY LenProperties, EmptySeq
    <3>2. Cardinality(D \ F) \in Nat BY FS_Subset, FS_CardinalityType
    <3> QED BY <3>1, <3>2 DEF Rest
  <2> DEFINE S == {k \in Nat : \A q \in Seq(D), F \in SUBSET D : Rest(D, q, F) = k => f[<<q, F>>] = Filled(D, q, F)}
             m == Rest(D, queue, found)
  <2>3. ASSUME NEW q \in Seq(D), NEW F \in SUBSET D, q # <<>> => Rest(D, q, F) - 1 \in S
        PROVE  f[<<q, F>>] = Filled(D, q, F)
    <3>1. CASE q = <<>> BY <2>1, <3>1, FillEnds
    <3>2. CASE q # <<>>
      <4>1. /\ Later(D, q, F) \in Seq(D) /\ Larger(D, q, F) \in SUBSET D
            /\ Filled(D, Later(D, q, F), Larger(D, q, F)) = Filled(D, q, F)
            /\ Rest(D, Later(D, q, F), Larger(D, q, F)) = Rest(D, q, F) - 1
        BY <1>1, <3>2
      <4>2. f[<<Later(D, q, F), Larger(D, q, F)>>] = Filled(D, Later(D, q, F), Larger(D, q, F)) BY <2>3, <3>2, <4>1
      <4>3. f[<<q, F>>] = f[<<Later(D, q, F), Larger(D, q, F)>>] BY <2>1, <3>2
      <4> QED BY <4>1, <4>2, <4>3
    <3> QED BY <3>1, <3>2
  <2>4. 0 \in S
    <3> SUFFICES ASSUME NEW q \in Seq(D), NEW F \in SUBSET D, Rest(D, q, F) = 0 PROVE f[<<q, F>>] = Filled(D, q, F)
      OBVIOUS
    <3>1. q = <<>> BY <2>2
    <3> QED BY <2>3, <3>1
  <2>5. ASSUME NEW k \in 0 + 1..m, k - 1 \in S PROVE k \in S
    <3> HIDE DEF m
    <3>1. k \in Nat BY <2>2
    <3> SUFFICES ASSUME NEW q \in Seq(D), NEW F \in SUBSET D, Rest(D, q, F) = k PROVE f[<<q, F>>] = Filled(D, q, F)
      BY <3>1
    <3> QED BY <2>3, <2>5
  <2>6. m \in Nat BY <2>2
  <2> HIDE DEF S, m
  <2>7. 0..m \subseteq S BY <2>4, <2>5, <2>6, Upward
  <2>8. m \in S BY <2>6, <2>7
  <2> QED BY <2>8 DEF S, m
<1> QED BY <1>2, <1>3

\* Of a set of tiles: it has whatever of D is beside it.
Closed(X, D) == \A a \in X, c \in D : Changed!Beside(c, a) => c \in X
\* The fill from one tile.
Piece(D, c) == Filled(D, <<c>>, {c})
IsPlaced(D) == \A a \in D : \A i \in 1..3 : a[i] \in Int
\* It is the least closed set with the tile.
LEMMA PieceIs ==
  ASSUME NEW D, NEW c \in D
  PROVE  /\ Piece(D, c) \subseteq D /\ c \in Piece(D, c) /\ Closed(Piece(D, c), D)
         /\ \A X \in SUBSET D : c \in X /\ Closed(X, D) => Piece(D, c) \subseteq X
<1>1. ASSUME NEW X \in SUBSET D PROVE Covers(X, D, <<c>>, {c}) <=> c \in X /\ Closed(X, D)
  <2>1. \A a : (\E i \in 1..Len(<<c>>) : <<c>>[i] = a) <=> a = c
    <3>1. Len(<<c>>) = 1 /\ <<c>>[1] = c /\ 1..1 = {1} OBVIOUS
    <3> QED BY <3>1
  <2>2. Covers(X, D, <<c>>, {c}) <=>
          c \in X /\ \A a \in D : a \in X \ {c} \/ a = c => \A d \in D : Changed!Beside(d, a) => d \in X
    BY <2>1 DEF Covers
  <2> QED BY <2>2 DEF Closed
<1>2. \A d : d \in Piece(D, c) <=> d \in D /\ \A X \in SUBSET D : c \in X /\ Closed(X, D) => d \in X
  BY <1>1 DEF Piece, Filled
<1>3. Closed(Piece(D, c), D)
  <2> SUFFICES ASSUME NEW a \in Piece(D, c), NEW d \in D, Changed!Beside(d, a) PROVE d \in Piece(D, c)
    BY DEF Closed
  <2>1. ASSUME NEW X \in SUBSET D, c \in X, Closed(X, D) PROVE d \in X
    <3>1. a \in X BY <1>2, <2>1
    <3> QED BY <2>1, <3>1 DEF Closed
  <2> QED BY <1>2, <2>1
<1> QED BY <1>2, <1>3

\* What is beside a tile has that tile beside it.
LEMMA BesideBoth ==
  ASSUME NEW D, IsPlaced(D), NEW a \in D, NEW c \in D, Changed!Beside(a, c)
  PROVE  Changed!Beside(c, a)
<1>1. PICK i \in 1..3 : a[i] - c[i] \in {-1, 1} /\ \A j \in 1..3 \ {i} : a[j] = c[j] BY DEF Changed!Beside
<1>2. a[i] \in Int /\ c[i] \in Int BY DEF IsPlaced
<1>3. c[i] - a[i] \in {-1, 1} BY <1>1, <1>2
<1>4. \A j \in 1..3 \ {i} : c[j] = a[j] BY <1>1
<1> QED BY <1>3, <1>4 DEF Changed!Beside

\* Two tiles of a piece have the same piece.
LEMMA SamePiece ==
  ASSUME NEW D, IsPlaced(D), NEW c \in D, NEW d \in Piece(D, c)
  PROVE  d \in D /\ Piece(D, d) = Piece(D, c)
<1>1. d \in D BY PieceIs
<1> DEFINE P == Piece(D, c)
           Q == Piece(D, d)
<1>2. P \subseteq D /\ c \in P /\ d \in P /\ Closed(P, D) /\ \A X \in SUBSET D : c \in X /\ Closed(X, D) => P \subseteq X
  BY PieceIs
<1>3. Q \subseteq D /\ d \in Q /\ Closed(Q, D) /\ \A X \in SUBSET D : d \in X /\ Closed(X, D) => Q \subseteq X
  BY <1>1, PieceIs
<1> SUFFICES P = Q
  BY <1>1
<1> HIDE DEF P, Q
<1>4. Q \subseteq P BY <1>2, <1>3
<1>5. c \in Q
  <2> SUFFICES ASSUME c \notin Q PROVE FALSE
    OBVIOUS
  <2> DEFINE X == P \ Q
  <2>1. Closed(X, D)
    <3> SUFFICES ASSUME NEW a \in X, NEW b \in D, Changed!Beside(b, a) PROVE b \in X
      BY DEF Closed
    <3>1. a \in D /\ b \in P BY <1>2 DEF Closed
    <3>2. Changed!Beside(a, b) BY <3>1, BesideBoth
    <3>3. b \notin Q BY <1>3, <3>1, <3>2 DEF Closed
    <3> QED BY <3>1, <3>3
  <2>2. X \in SUBSET D /\ c \in X BY <1>2
  <2>3. P \subseteq X BY <1>2, <2>1, <2>2
  <2> QED BY <1>2, <1>3, <2>3
<1>6. P \subseteq Q BY <1>2, <1>3, <1>5
<1> QED BY <1>4, <1>6

\* What the chambers of what is unread are defined by.
ChamberOf(tiles) == [tiles |-> tiles, count |-> Changed!Cardinality(tiles), box |-> Changed!Region(tiles)]
AnyOf(unread) == CHOOSE d \in unread : TRUE
Gathers(g, D) ==
  g = [unread \in SUBSET D |-> IF unread = {} THEN {}
                               ELSE {ChamberOf(Piece(D, AnyOf(unread)))} \cup g[unread \ Piece(D, AnyOf(unread))]]
ChambersOf(D, unread) == {ChamberOf(Piece(D, d)) : d \in unread}

\* The chamber of one tile and those of the tiles outside it are those of all.
LEMMA OneChamberLess ==
  ASSUME NEW D, IsPlaced(D), NEW unread \in SUBSET D, unread # {}
  PROVE  /\ AnyOf(unread) \in unread /\ AnyOf(unread) \in Piece(D, AnyOf(unread))
         /\ ChambersOf(D, unread) = {ChamberOf(Piece(D, AnyOf(unread)))} \cup ChambersOf(D, unread \ Piece(D, AnyOf(unread)))
<1> DEFINE c == AnyOf(unread)
           P == Piece(D, c)
<1>1. c \in unread
  <2>1. \E d : d \in unread OBVIOUS
  <2> QED BY <2>1, Zenon DEF AnyOf
<1>2. c \in P BY <1>1, PieceIs
<1>3. \A d \in unread : d \in P => Piece(D, d) = P BY <1>1, SamePiece
<1> SUFFICES c \in unread /\ c \in P /\ ChambersOf(D, unread) = {ChamberOf(P)} \cup ChambersOf(D, unread \ P)
  OBVIOUS
<1>4. ASSUME NEW x
      PROVE  x \in ChambersOf(D, unread) <=> x = ChamberOf(P) \/ x \in ChambersOf(D, unread \ P)
  <2>1. ASSUME NEW d \in unread, x = ChamberOf(Piece(D, d)) PROVE x = ChamberOf(P) \/ x \in ChambersOf(D, unread \ P)
    <3>1. CASE d \in P
      <4>1. Piece(D, d) = P BY <1>3, <3>1
      <4> QED BY <2>1, <4>1
    <3>2. CASE d \notin P BY <2>1, <3>2 DEF ChambersOf
    <3> QED BY <3>1, <3>2
  <2>2. ChamberOf(P) \in ChambersOf(D, unread) BY <1>1 DEF ChambersOf
  <2>3. ChambersOf(D, unread \ P) \subseteq ChambersOf(D, unread) BY DEF ChambersOf
  <2>4. x \in ChambersOf(D, unread) <=> \E d \in unread : x = ChamberOf(Piece(D, d)) BY DEF ChambersOf
  <2> QED BY <2>1, <2>2, <2>3, <2>4
<1> HIDE DEF c, P
<1>5. ChambersOf(D, unread) = {ChamberOf(P)} \cup ChambersOf(D, unread \ P) BY <1>4
<1> QED BY <1>1, <1>2, <1>5

\* The chambers of what is unread have one value, those of its tiles.
LEMMA ChambersAre ==
  ASSUME NEW D, IsFiniteSet(D), IsPlaced(D)
  PROVE  /\ \E g : Gathers(g, D)
         /\ \A g : Gathers(g, D) => \A unread \in SUBSET D : g[unread] = ChambersOf(D, unread)
<1>0. ChambersOf(D, {}) = {} BY DEF ChambersOf
<1>1. \E g : Gathers(g, D)
  <2> DEFINE g == [unread \in SUBSET D |-> ChambersOf(D, unread)]
  <2>1. ASSUME NEW unread \in SUBSET D
        PROVE  g[unread] = IF unread = {} THEN {}
                           ELSE {ChamberOf(Piece(D, AnyOf(unread)))} \cup g[unread \ Piece(D, AnyOf(unread))]
    <3>1. g[unread] = ChambersOf(D, unread) OBVIOUS
    <3>2. g[unread \ Piece(D, AnyOf(unread))] = ChambersOf(D, unread \ Piece(D, AnyOf(unread))) OBVIOUS
    <3> HIDE DEF g
    <3>3. CASE unread = {} BY <1>0, <3>1, <3>3
    <3>4. CASE unread # {} BY <3>1, <3>2, <3>4, OneChamberLess
    <3> QED BY <3>3, <3>4
  <2>2. g = [unread \in SUBSET D |-> g[unread]] OBVIOUS
  <2> HIDE DEF g
  <2>3. g = [unread \in SUBSET D |-> IF unread = {} THEN {}
                                     ELSE {ChamberOf(Piece(D, AnyOf(unread)))} \cup g[unread \ Piece(D, AnyOf(unread))]]
    BY <2>1, <2>2
  <2> QED BY <2>3 DEF Gathers
<1>2. ASSUME NEW g, Gathers(g, D), NEW unread \in SUBSET D PROVE g[unread] = ChambersOf(D, unread)
  <2>1. \A L \in SUBSET D : g[L] = IF L = {} THEN {} ELSE {ChamberOf(Piece(D, AnyOf(L)))} \cup g[L \ Piece(D, AnyOf(L))]
    BY <1>2 DEF Gathers
  <2>2. ASSUME NEW L \in SUBSET D PROVE IsFiniteSet(L) /\ Cardinality(L) \in Nat
    BY FS_Subset, FS_CardinalityType
  <2> DEFINE S == {k \in Nat : \A L \in SUBSET D : Cardinality(L) <= k => g[L] = ChambersOf(D, L)}
             m == Cardinality(unread)
  <2>3. 0 \in S
    <3> SUFFICES ASSUME NEW L \in SUBSET D, Cardinality(L) <= 0 PROVE g[L] = ChambersOf(D, L)
      OBVIOUS
    <3>1. Cardinality(L) = 0 /\ IsFiniteSet(L) BY <2>2
    <3>2. L = {} BY <3>1, FS_EmptySet
    <3> QED BY <1>0, <2>1, <3>2
  <2>4. ASSUME NEW k \in 0 + 1..m, k - 1 \in S PROVE k \in S
    <3> HIDE DEF m
    <3>1. k \in Nat /\ m \in Nat BY <2>2 DEF m
    <3> SUFFICES ASSUME NEW L \in SUBSET D, Cardinality(L) <= k PROVE g[L] = ChambersOf(D, L)
      BY <3>1
    <3>2. CASE L = {} BY <1>0, <2>1, <3>2
    <3>3. CASE L # {}
      <4> DEFINE c == AnyOf(L)
                 M == L \ Piece(D, c)
      <4>1. /\ c \in L /\ c \in Piece(D, c)
            /\ ChambersOf(D, L) = {ChamberOf(Piece(D, c))} \cup ChambersOf(D, M)
        BY <3>3, OneChamberLess
      <4>2. g[L] = {ChamberOf(Piece(D, c))} \cup g[M] BY <2>1, <3>3
      <4> HIDE DEF c
      <4>3. Cardinality(M) <= k - 1
        <5>1. M \in SUBSET L /\ M # L /\ M \in SUBSET D BY <4>1
        <5> HIDE DEF M
        <5>2. Cardinality(M) <= Cardinality(L) /\ Cardinality(M) # Cardinality(L) BY <2>2, <5>1, FS_Subset
        <5>3. Cardinality(M) \in Nat /\ Cardinality(L) \in Nat BY <2>2, <5>1
        <5> QED BY <3>1, <5>2, <5>3
      <4>4. g[M] = ChambersOf(D, M)
        <5>1. M \in SUBSET D OBVIOUS
        <5> HIDE DEF M
        <5> QED BY <2>4, <4>3, <5>1
      <4> QED BY <4>1, <4>2, <4>4
    <3> QED BY <3>2, <3>3
  <2>5. m \in Nat /\ m <= m BY <2>2
  <2> HIDE DEF S
  <2>6. m \in S
    <3> HIDE DEF m
    <3>1. 0..m \subseteq S BY <2>3, <2>4, <2>5, Upward
    <3> QED BY <2>5, <3>1
  <2> QED BY <2>5, <2>6 DEF S
<1> QED BY <1>1, <1>2

\* The chambers of all tiles are the whole, in pieces, apart from one another.
ExactOf(D, chambers) ==
  /\ UNION {ch.tiles : ch \in chambers} = D
  /\ \A ch, dh \in chambers : ch # dh => \A a \in ch.tiles, b \in dh.tiles : a # b /\ ~Changed!Beside(a, b)
  /\ \A ch \in chambers : \A some \in (SUBSET ch.tiles) \ {{}, ch.tiles} :
       \E a \in some, b \in ch.tiles \ some : Changed!Beside(a, b)
\* The pieces of the modified tiles are such chambers.
LEMMA ChambersAreExact == ASSUME NEW D, IsPlaced(D) PROVE ExactOf(D, ChambersOf(D, D))
<1> DEFINE chambers == ChambersOf(D, D)
<1>1. ASSUME NEW ch \in chambers PROVE \E d \in D : ch = ChamberOf(Piece(D, d)) /\ ch.tiles = Piece(D, d)
  BY DEF ChambersOf, ChamberOf
<1>2. ASSUME NEW d \in D PROVE \E ch \in chambers : ch.tiles = Piece(D, d)
  <2>1. ChamberOf(Piece(D, d)) \in chambers /\ ChamberOf(Piece(D, d)).tiles = Piece(D, d) BY DEF ChambersOf, ChamberOf
  <2> QED BY <2>1
<1> SUFFICES ExactOf(D, chambers)
  OBVIOUS
<1> HIDE DEF chambers
<1>3. UNION {ch.tiles : ch \in chambers} = D
  <2>1. ASSUME NEW a \in D PROVE a \in UNION {ch.tiles : ch \in chambers}
    <3>1. a \in Piece(D, a) BY PieceIs
    <3>2. \E ch \in chambers : a \in ch.tiles BY <1>2, <3>1
    <3> QED BY <3>2
  <2>2. ASSUME NEW ch \in chambers PROVE ch.tiles \subseteq D
    <3>1. PICK d \in D : ch.tiles = Piece(D, d) BY <1>1
    <3> QED BY <3>1, PieceIs
  <2> QED BY <2>1, <2>2
<1>4. ASSUME NEW ch \in chambers, NEW dh \in chambers, NEW a \in ch.tiles, NEW b \in dh.tiles,
             a = b \/ Changed!Beside(a, b)
      PROVE  ch = dh
  <2>1. PICK c \in D : ch = ChamberOf(Piece(D, c)) /\ ch.tiles = Piece(D, c) BY <1>1
  <2>2. PICK d \in D : dh = ChamberOf(Piece(D, d)) /\ dh.tiles = Piece(D, d) BY <1>1
  <2>3. a \in D /\ Piece(D, a) = Piece(D, c) BY <2>1, SamePiece
  <2>4. b \in D /\ Piece(D, b) = Piece(D, d) BY <2>2, SamePiece
  <2>5. a \in Piece(D, b)
    <3>1. b \in Piece(D, b) /\ Closed(Piece(D, b), D) BY <2>4, PieceIs
    <3> QED BY <1>4, <2>3, <3>1 DEF Closed
  <2>6. Piece(D, a) = Piece(D, b) BY <2>4, <2>5, SamePiece
  <2> QED BY <2>1, <2>2, <2>3, <2>4, <2>6
<1>5. ASSUME NEW ch \in chambers, NEW some \in SUBSET ch.tiles, some # {}, some # ch.tiles
      PROVE  \E a \in some, b \in ch.tiles \ some : Changed!Beside(a, b)
  <2>1. PICK c \in D : ch.tiles = Piece(D, c) BY <1>1
  <2> DEFINE P == Piece(D, c)
  <2>2. P \subseteq D /\ c \in P /\ Closed(P, D) /\ \A X \in SUBSET D : c \in X /\ Closed(X, D) => P \subseteq X
    BY PieceIs
  <2>3. ch.tiles = P BY <2>1
  <2> HIDE DEF P
  <2> SUFFICES ASSUME \A a \in some, b \in P \ some : ~Changed!Beside(a, b) PROVE FALSE
    BY <2>3
  <2>4. \A a \in some, b \in P \ some : ~Changed!Beside(b, a)
    <3> SUFFICES ASSUME NEW a \in some, NEW b \in P \ some, Changed!Beside(b, a) PROVE FALSE
      OBVIOUS
    <3>1. a \in D /\ b \in D BY <2>2, <2>3
    <3>2. Changed!Beside(a, b) BY <3>1, BesideBoth
    <3> QED BY <3>2
  <2>5. Closed(some, D) /\ Closed(P \ some, D) BY <2>2, <2>3, <2>4 DEF Closed
  <2>6. CASE c \in some
    <3>1. P \subseteq some BY <2>2, <2>3, <2>5, <2>6
    <3> QED BY <1>5, <2>3, <3>1
  <2>7. CASE c \notin some
    <3>1. P \ some \in SUBSET D /\ c \in P \ some BY <2>2, <2>7
    <3>2. P \subseteq P \ some BY <2>2, <2>5, <3>1
    <3> QED BY <1>5, <2>3, <3>2
  <2> QED BY <2>6, <2>7
<1>6. \A ch, dh \in chambers : ch # dh => \A a \in ch.tiles, b \in dh.tiles : a # b /\ ~Changed!Beside(a, b)
  BY <1>4, Zenon
<1>7. \A ch \in chambers : \A some \in (SUBSET ch.tiles) \ {{}, ch.tiles} :
        \E a \in some, b \in ch.tiles \ some : Changed!Beside(a, b)
  <2> SUFFICES ASSUME NEW ch \in chambers, NEW some \in (SUBSET ch.tiles) \ {{}, ch.tiles}
               PROVE  \E a \in some, b \in ch.tiles \ some : Changed!Beside(a, b)
    OBVIOUS
  <2> DEFINE all == ch.tiles
  <2>2. some \in (SUBSET all) \ {{}, all} OBVIOUS
  <2> HIDE DEF all
  <2>3. some \in SUBSET all /\ some # {} /\ some # all BY <2>2, Zenon
  <2>1. some \in SUBSET ch.tiles /\ some # {} /\ some # ch.tiles BY <2>3 DEF all
  <2> QED BY <1>5, <2>1, Zenon
<1> QED BY <1>3, <1>6, <1>7, Zenon DEF ExactOf

\* A set of numbers with a least and a greatest.
HasEnds(V) == (\E x \in V : \A y \in V : x <= y) /\ (\E x \in V : \A y \in V : x >= y)
\* A finite set of numbers is one.
LEMMA FiniteEnds == ASSUME NEW W \in SUBSET Int, IsFiniteSet(W), W # {} PROVE HasEnds(W)
<1>1. ASSUME NEW V \in SUBSET W PROVE IsFiniteSet(V) /\ Cardinality(V) \in Nat
  BY FS_Subset, FS_CardinalityType
<1> DEFINE S == {k \in Nat : \A V \in SUBSET W : V # {} /\ Cardinality(V) <= k => HasEnds(V)}
           m == Cardinality(W)
<1>2. m \in Nat /\ m <= m /\ W \in SUBSET W BY <1>1
<1>3. 0 \in S
  <2> SUFFICES ASSUME NEW V \in SUBSET W, V # {}, Cardinality(V) <= 0 PROVE FALSE
    OBVIOUS
  <2>1. Cardinality(V) = 0 /\ IsFiniteSet(V) BY <1>1
  <2> QED BY <2>1, FS_EmptySet
<1>4. ASSUME NEW k \in 0 + 1..m, k - 1 \in S PROVE k \in S
  <2> HIDE DEF m
  <2>1. k \in Nat BY <1>2
  <2> SUFFICES ASSUME NEW V \in SUBSET W, V # {}, Cardinality(V) <= k PROVE HasEnds(V)
    BY <2>1
  <2>2. PICK x \in V : TRUE OBVIOUS
  <2> DEFINE U == V \ {x}
  <2>3. x \in Int /\ U \subseteq Int /\ V = U \cup {x} /\ U \in SUBSET W BY <2>2
  <2>4. Cardinality(U) = Cardinality(V) - 1
    <3>1. IsFiniteSet(V) BY <1>1
    <3> QED BY <2>2, <3>1, FS_RemoveElement
  <2>5. Cardinality(U) <= k - 1 BY <1>1, <2>1, <2>4
  <2> HIDE DEF U
  <2>6. CASE U = {}
    <3>1. \A y \in V : y = x BY <2>3, <2>6
    <3> QED BY <2>2, <2>3, <3>1 DEF HasEnds
  <2>7. CASE U # {}
    <3>1. HasEnds(U) BY <1>4, <2>3, <2>5, <2>7
    <3>2. PICK low \in U : \A y \in U : low <= y BY <3>1 DEF HasEnds
    <3>3. PICK high \in U : \A y \in U : high >= y BY <3>1 DEF HasEnds
    <3>4. low \in Int /\ high \in Int /\ low \in V /\ high \in V BY <2>3, <3>2, <3>3
    <3>5. \A y \in V : y = x \/ (y \in U /\ y \in Int) BY <2>3
    <3>6. \E z \in V : \A y \in V : z <= y
      <4>1. CASE x <= low
        <5>1. \A y \in V : x <= y BY <2>3, <3>2, <3>4, <3>5, <4>1
        <5> QED BY <2>2, <5>1
      <4>2. CASE ~(x <= low)
        <5>1. \A y \in V : low <= y BY <2>3, <3>2, <3>4, <3>5, <4>2
        <5> QED BY <3>4, <5>1
      <4> QED BY <4>1, <4>2
    <3>7. \E z \in V : \A y \in V : z >= y
      <4>1. CASE x >= high
        <5>1. \A y \in V : x >= y BY <2>3, <3>3, <3>4, <3>5, <4>1
        <5> QED BY <2>2, <5>1
      <4>2. CASE ~(x >= high)
        <5>1. \A y \in V : high >= y BY <2>3, <3>3, <3>4, <3>5, <4>2
        <5> QED BY <3>4, <5>1
      <4> QED BY <4>1, <4>2
    <3> QED BY <3>6, <3>7 DEF HasEnds
  <2> QED BY <2>6, <2>7
<1> HIDE DEF S
<1>5. m \in S
  <2> HIDE DEF m
  <2>1. 0..m \subseteq S BY <1>2, <1>3, <1>4, Upward
  <2> QED BY <1>2, <2>1
<1> QED BY <1>2, <1>5 DEF S

\* What the fill of a chamber is in the module.
LEMMA ModuleFills == Changed!floodFill = CHOOSE f : Fills(f, DOMAIN mods.at)
BY DEF Changed!floodFill, Fills, Searches, Later, Larger, Nexts
\* And what the gathering of the chambers is.
LEMMA ModuleGathers ==
  Changed!Chambers = CHOOSE g : g = [unread \in SUBSET DOMAIN mods.at |->
    IF unread = {} THEN {}
    ELSE {ChamberOf(Changed!floodFill[<< <<AnyOf(unread)>>, {AnyOf(unread)} >>])}
           \cup g[unread \ Changed!floodFill[<< <<AnyOf(unread)>>, {AnyOf(unread)} >>]]]
BY DEF Changed!Chambers, ChamberOf, AnyOf

\* A box has the tiles it is of.
LEMMA RegionHasAll ==
  ASSUME NEW D, IsFiniteSet(D), IsPlaced(D), NEW c \in D
  PROVE  Changed!Within(c, Changed!Region(D))
<1> SUFFICES ASSUME NEW i \in 1..3 PROVE c[i] \in Changed!Region(D)[1][i]..Changed!Region(D)[2][i]
  BY DEF Changed!Within
<1> DEFINE V == {d[i] : d \in D}
<1>1. Changed!Region(D)[1][i] = Changed!Min(V) /\ Changed!Region(D)[2][i] = Changed!Max(V) BY DEF Changed!Region
<1>2. V \subseteq Int /\ c[i] \in V BY DEF IsPlaced
<1>3. IsFiniteSet(V)
  <2> DEFINE f == [d \in D |-> d[i]]
  <2>1. f \in Surjection(D, V) BY DEF Surjection
  <2> QED BY <2>1, FS_Surjection
<1> HIDE DEF V
<1>4. PICK low \in V : \A v \in V : low <= v BY <1>2, <1>3, FiniteEnds DEF HasEnds
<1>5. PICK high \in V : \A v \in V : high >= v BY <1>2, <1>3, FiniteEnds DEF HasEnds
<1>6. Changed!Min(V) = low
  <2>1. \A v \in V : (\A w \in V : v <= w) => v = low BY <1>2, <1>4
  <2> QED BY <1>4, <2>1 DEF Changed!Min
<1>7. Changed!Max(V) = high
  <2>1. \A v \in V : (\A w \in V : v >= w) => v = high BY <1>2, <1>5
  <2> QED BY <1>5, <2>1 DEF Changed!Max
<1>8. low \in Int /\ high \in Int /\ c[i] \in Int /\ low <= c[i] /\ c[i] <= high BY <1>2, <1>4, <1>5
<1> QED BY <1>1, <1>6, <1>7, <1>8

\* So the chambers that are extracted are those of all that is recorded.
LEMMA ExtractedAre == ASSUME Changed!SeenAssumption, ModsIInv PROVE Changed!ChambersExact
<1> DEFINE D == DOMAIN mods.at
<1>1. D \subseteq ModTiles /\ IsFiniteSet(D) /\ IsPlaced(D)
  <2>1. D \subseteq ModTiles BY DEF ModsIInv, Changed!SeenAssumption
  <2>2. IsFiniteSet(ModTiles) BY ChangedCounts DEF Changed!SeenAssumption
  <2>3. \A c \in ModTiles : \A i \in 1..3 : c[i] \in Int BY DEF Changed!SeenAssumption
  <2> HIDE DEF D
  <2> QED BY <2>1, <2>2, <2>3, FS_Subset DEF IsPlaced
<1>2. mods.count = Cardinality(D) BY ChangedCounts DEF ModsIInv
<1>3. mods.count # 0 => Changed!Bounds = Changed!Region(D) BY DEF ModsIInv, Changed!Bounds
<1>4. Fills(Changed!floodFill, D)
  <2> DEFINE fill == Changed!floodFill
  <2>1. \E f : Fills(f, D) BY <1>1, FillIs
  <2>2. fill = CHOOSE f : Fills(f, D) BY ModuleFills
  <2> HIDE DEF fill, D
  <2>3. Fills(fill, D) BY <2>1, <2>2, Zenon
  <2> QED BY <2>3 DEF fill
<1>5. ASSUME NEW c \in D PROVE Changed!floodFill[<< <<c>>, {c} >>] = Piece(D, c)
  <2> DEFINE fill == Changed!floodFill
  <2>1. Fills(fill, D) BY <1>4
  <2> HIDE DEF fill, D
  <2>2. <<c>> \in Seq(D) /\ {c} \in SUBSET D OBVIOUS
  <2>3. fill[<< <<c>>, {c} >>] = Filled(D, <<c>>, {c}) BY <1>1, <2>1, <2>2, FillIs
  <2> QED BY <2>3 DEF fill, Piece
<1>6. \A unread \in SUBSET D : Changed!Chambers[unread] = ChambersOf(D, unread)
  <2> DEFINE gather == Changed!Chambers
             fill == Changed!floodFill
             Made(g) == g = [unread \in SUBSET D |-> IF unread = {} THEN {}
                                                     ELSE {ChamberOf(fill[<< <<AnyOf(unread)>>, {AnyOf(unread)} >>])}
                                      \cup g[unread \ fill[<< <<AnyOf(unread)>>, {AnyOf(unread)} >>]]]
  <2>1. gather = CHOOSE g : Made(g) BY ModuleGathers
  <2>2. \A c \in D : fill[<< <<c>>, {c} >>] = Piece(D, c) BY <1>5
  <2> HIDE DEF gather, fill, D
  <2>3. \A unread \in SUBSET D : unread # {} => AnyOf(unread) \in D
    <3> SUFFICES ASSUME NEW unread \in SUBSET D, unread # {} PROVE AnyOf(unread) \in D
      OBVIOUS
    <3>1. AnyOf(unread) \in unread BY <1>1, OneChamberLess
    <3> QED BY <3>1
  <2>4. \A g : Made(g) <=> Gathers(g, D) BY <2>2, <2>3 DEF Gathers
  <2>5. \E g : Made(g)
    <3>1. \E g : Gathers(g, D) BY <1>1, ChambersAre
    <3> QED BY <2>4, <3>1
  <2> HIDE DEF Made
  <2>6. Made(gather) BY <2>1, <2>5, Zenon
  <2>7. \A unread \in SUBSET D : gather[unread] = ChambersOf(D, unread) BY <1>1, <2>4, <2>6, ChambersAre
  <2> QED BY <2>7 DEF gather
<1>7. Changed!ExtractChambers = ChambersOf(D, D)
  <2>1. CASE mods.count = 0
    <3>1. D = {}
      <4> HIDE DEF D
      <4> QED BY <1>1, <1>2, <2>1, FS_EmptySet
    <3>2. ChambersOf(D, D) = {} BY <3>1 DEF ChambersOf
    <3> QED BY <2>1, <3>2 DEF Changed!ExtractChambers
  <2>2. CASE mods.count # 0
    <3>1. \A c \in D : Changed!Within(c, Changed!Bounds)
      <4>1. Changed!Bounds = Changed!Region(D) BY <1>3, <2>2
      <4> HIDE DEF D
      <4>2. \A c \in D : Changed!Within(c, Changed!Region(D)) BY <1>1, RegionHasAll
      <4> QED BY <4>1, <4>2
    <3>2. {c \in D : Changed!Within(c, Changed!Bounds)} = D BY <3>1
    <3>3. Changed!ExtractChambers = Changed!Chambers[D] BY <2>2, <3>2 DEF Changed!ExtractChambers
    <3>4. Changed!Chambers[D] = ChambersOf(D, D) BY <1>6
    <3> QED BY <3>3, <3>4
  <2> QED BY <2>1, <2>2
<1>8. ExactOf(D, Changed!ExtractChambers)
  <2> HIDE DEF D
  <2> QED BY <1>1, <1>7, ChambersAreExact
<1> QED BY <1>8 DEF ExactOf, Changed!ChambersExact

\* At any time the chambers are the connected pieces of what is recorded.
THEOREM ChambersArePieces == ASSUME Changed!SeenAssumption PROVE ModSpec => []Changed!ChambersExact
BY ExtractedAre, ModificationsInvariant, PTL

----------------------------------------------------------------------------
(* The store of alerts: its index is exact for every set of report ids,     *)
(* every capacity and every bound on repeat counts.                         *)

\* Types and index of the store.
StoreIInv == TypeOK /\ IndexConsistent

\* An empty store has an empty index.
LEMMA StoreInit == Init => StoreIInv
BY CapacityAssumption DEF CapacityAssumption, Init, StoreIInv, TypeOK, IndexConsistent

\* A repeat or a dismissal rewrites one entry in place.
LEMMA RewriteStep ==
  ASSUME StoreIInv, NEW id \in ReportIds, NEW n \in Repeats, Bump(id, n) \/ Dismiss(id)
  PROVE  StoreIInv'
<1> DEFINE p == byID[id]
<1>1. p \in 1..Len(entries) /\ p \in DOMAIN entries /\ entries[p] \in Alerts
  BY DEF StoreIInv, TypeOK, Bump, Dismiss, Known
<1>2. PICK a \in Alerts : entries' = [entries EXCEPT ![p] = a] /\ a.id = entries[p].id
  <2>1. CASE Bump(id, n)
    <3>1. [entries[p] EXCEPT !.repeatCount = n, !.dismissed = FALSE] \in Alerts
      BY <1>1 DEF Alerts
    <3>2. entries' = [entries EXCEPT ![p] =
                        [entries[p] EXCEPT !.repeatCount = n, !.dismissed = FALSE]]
      BY <1>1, <2>1 DEF Bump, Alerts, StoreIInv, TypeOK
    <3> QED BY <1>1, <3>1, <3>2 DEF Alerts
  <2>2. CASE Dismiss(id)
    <3>1. [entries[p] EXCEPT !.dismissed = TRUE] \in Alerts
      BY <1>1 DEF Alerts
    <3>2. entries' = [entries EXCEPT ![p] = [entries[p] EXCEPT !.dismissed = TRUE]]
      BY <1>1, <2>2 DEF Dismiss
    <3> QED BY <1>1, <3>1, <3>2 DEF Alerts
  <2> QED BY <2>1, <2>2
<1>3. byID' = byID
  BY DEF Bump, Dismiss
<1>4. entries' \in Seq(Alerts) /\ Len(entries') = Len(entries)
  BY <1>1, <1>2 DEF StoreIInv, TypeOK
<1>5. \A q \in DOMAIN entries : entries'[q].id = entries[q].id
  BY <1>1, <1>2 DEF StoreIInv, TypeOK
<1>6. DOMAIN entries' = DOMAIN entries
  BY <1>1, <1>2
<1> HIDE DEF p
<1> QED BY <1>3, <1>4, <1>5, <1>6 DEF StoreIInv, TypeOK, IndexConsistent

\* A new alert goes behind the others, or, in a full ring, behind all but the
\* oldest, whose index entry goes with it while the rest move down by one.
LEMMA InsertStep ==
  ASSUME StoreIInv, NEW id \in ReportIds, NEW n \in Repeats, Insert(id, n)
  PROVE  StoreIInv'
<1> DEFINE a == [id |-> id, repeatCount |-> n, dismissed |-> FALSE]
<1>1. a \in Alerts
  BY DEF Alerts
<1>2. id \notin DOMAIN byID
  BY DEF Insert, Known
<1>3. CASE ~Full
  <2>1. entries' = Append(entries, a)
    BY <1>3 DEF Insert
  <2>2. byID' = [i \in DOMAIN byID \cup {id} |-> IF i = id THEN Len(entries) + 1 ELSE byID[i]]
    BY <1>3 DEF Insert
  <2>3. Len(entries) + 1 <= Capacity
    BY <1>3, CapacityAssumption DEF CapacityAssumption, Full, StoreIInv, TypeOK
  <2>4. TypeOK'
    BY <1>1, <2>1, <2>2, <2>3 DEF StoreIInv, TypeOK
  <2>5. IndexConsistent'
    BY <1>1, <1>2, <2>1, <2>2 DEF StoreIInv, TypeOK, IndexConsistent
  <2> QED BY <2>4, <2>5 DEF StoreIInv
<1>4. CASE Full
  <2> DEFINE old == entries[1].id
             kept == Tail(entries)
  <2>1. Len(entries) \in Nat \ {0} /\ Len(entries) = Capacity
    BY <1>4, CapacityAssumption DEF CapacityAssumption, Full, StoreIInv, TypeOK
  <2>2. kept \in Seq(Alerts) /\ Len(kept) = Len(entries) - 1
    BY <2>1 DEF StoreIInv, TypeOK
  <2>3. \A q \in 1..Len(kept) : kept[q] = entries[q + 1]
    BY <2>1 DEF StoreIInv, TypeOK
  <2>4. entries' = Append(kept, a)
    BY <1>4 DEF Insert
  <2>5. byID' = [i \in (DOMAIN byID \ {old}) \cup {id} |->
                   IF i = id THEN Len(kept) + 1 ELSE byID[i] - 1]
    BY <1>2, <1>4 DEF Insert, Shifted
  <2>6. \A i \in DOMAIN byID \ {old} : byID[i] \in 2..Len(entries)
    BY <2>1 DEF StoreIInv, TypeOK, IndexConsistent
  <2>7. TypeOK'
    <3>1. entries' \in Seq(Alerts) /\ Len(entries') = Len(entries)
      BY <1>1, <2>1, <2>2, <2>4
    <3>2. DOMAIN byID' \subseteq ReportIds
      BY <2>5 DEF StoreIInv, TypeOK
    <3>3. \A i \in DOMAIN byID' : byID'[i] \in 1..Len(entries')
      BY <2>1, <2>2, <2>5, <2>6, <3>1
    <3>4. byID' \in [DOMAIN byID' -> 1..Len(entries')]
      BY <2>5, <3>3
    <3> QED BY <2>1, <3>1, <3>2, <3>4 DEF TypeOK
  <2>8. IndexConsistent'
    <3>1. Len(entries') = Len(kept) + 1 /\ entries'[Len(kept) + 1].id = id
      BY <1>1, <2>2, <2>4
    <3>2. \A q \in 1..Len(kept) : entries'[q] = entries[q + 1]
      BY <2>2, <2>3, <2>4
    <3>3. \A i \in DOMAIN byID' : entries'[byID'[i]].id = i
      <4> SUFFICES ASSUME NEW i \in DOMAIN byID' PROVE entries'[byID'[i]].id = i
        OBVIOUS
      <4>1. CASE i = id
        BY <2>5, <3>1, <4>1
      <4>2. CASE i # id
        <5>1. i \in DOMAIN byID \ {old} /\ byID'[i] = byID[i] - 1
          BY <2>5, <4>2
        <5>2. byID[i] - 1 \in 1..Len(kept)
          BY <2>1, <2>2, <2>6, <5>1
        <5>3. entries'[byID[i] - 1] = entries[byID[i]]
          BY <2>1, <2>6, <3>2, <5>1, <5>2
        <5> QED BY <5>1, <5>3 DEF StoreIInv, IndexConsistent
      <4> QED BY <4>1, <4>2
    <3>4. \A q \in DOMAIN entries' : entries'[q].id \in DOMAIN byID' /\ byID'[entries'[q].id] = q
      <4> SUFFICES ASSUME NEW q \in 1..(Len(kept) + 1)
                   PROVE entries'[q].id \in DOMAIN byID' /\ byID'[entries'[q].id] = q
        <5>1. DOMAIN entries' = 1..Len(entries')
          BY <2>7 DEF TypeOK
        <5>2. Len(entries') = Len(kept) + 1
          BY <3>1
        <5> QED BY <5>1, <5>2
      <4>1. CASE q = Len(kept) + 1
        BY <2>5, <3>1, <4>1
      <4>2. CASE q # Len(kept) + 1
        <5>1. q \in 1..Len(kept) /\ q + 1 \in DOMAIN entries
          BY <2>1, <2>2, <4>2 DEF StoreIInv, TypeOK
        <5>2. entries[q + 1].id \in DOMAIN byID /\ byID[entries[q + 1].id] = q + 1
          BY <5>1 DEF StoreIInv, IndexConsistent
        <5>3. byID[old] = 1 /\ old \in DOMAIN byID
          BY <2>1 DEF StoreIInv, IndexConsistent, TypeOK
        <5>4. entries[q + 1].id # old /\ entries[q + 1].id # id
          BY <1>2, <5>1, <5>2, <5>3
        <5>5. entries'[q].id = entries[q + 1].id
          BY <3>2, <5>1
        <5>6. entries[q + 1].id \in (DOMAIN byID \ {old}) \cup {id}
          BY <5>2, <5>4
        <5>7. byID'[entries[q + 1].id] = byID[entries[q + 1].id] - 1
          BY <2>5, <5>4, <5>6
        <5>8. byID[entries[q + 1].id] - 1 = q
          BY <2>2, <5>2
        <5>9. DOMAIN byID' = (DOMAIN byID \ {old}) \cup {id}
          BY <2>5
        <5> QED BY <5>5, <5>6, <5>7, <5>8, <5>9
      <4> QED BY <2>2, <4>1, <4>2
    <3> QED BY <3>3, <3>4 DEF IndexConsistent
  <2> QED BY <2>7, <2>8 DEF StoreIInv
<1> QED BY <1>3, <1>4

\* Marking every entry dismissed moves none of them.
LEMMA DismissAllStep == StoreIInv /\ DismissAll => StoreIInv'
<1> SUFFICES ASSUME StoreIInv, DismissAll PROVE StoreIInv'
    OBVIOUS
<1>1. entries' = [p \in 1..Len(entries) |-> [entries[p] EXCEPT !.dismissed = TRUE]]
  BY DEF DismissAll, StoreIInv, TypeOK
<1>2. \A p \in 1..Len(entries) : entries[p] \in Alerts
  BY DEF StoreIInv, TypeOK
<1>3. \A p \in 1..Len(entries) : entries'[p] \in Alerts /\ entries'[p].id = entries[p].id
  BY <1>1, <1>2 DEF Alerts
<1>4. Len(entries) \in Nat
  BY DEF StoreIInv, TypeOK
<1>5. entries' \in Seq(Alerts) /\ Len(entries') = Len(entries) /\ DOMAIN entries' = DOMAIN entries
  BY <1>1, <1>3, <1>4 DEF StoreIInv, TypeOK
<1>6. byID' = byID
  BY DEF DismissAll
<1>7. TypeOK'
  BY <1>5, <1>6 DEF StoreIInv, TypeOK
<1>8. DOMAIN entries = 1..Len(entries)
  BY DEF StoreIInv, TypeOK
<1>9. IndexConsistent'
  <2>1. \A id \in DOMAIN byID' : entries'[byID'[id]].id = id
    BY <1>3, <1>6 DEF StoreIInv, TypeOK, IndexConsistent
  <2>2. \A p \in DOMAIN entries' : entries'[p].id \in DOMAIN byID' /\ byID'[entries'[p].id] = p
    BY <1>3, <1>5, <1>6, <1>8 DEF StoreIInv, IndexConsistent
  <2> QED BY <2>1, <2>2 DEF IndexConsistent
<1> QED BY <1>7, <1>9 DEF StoreIInv

\* Every method of the store preserves type and index.
LEMMA StoreStep == StoreIInv /\ [Next]_vars => StoreIInv'
<1> SUFFICES ASSUME StoreIInv, [Next]_vars PROVE StoreIInv'
    OBVIOUS
<1>1. ASSUME NEW id \in ReportIds, NEW n \in Repeats, Add(id, n) PROVE StoreIInv'
  <2>1. CASE Duplicate(id, n)
    BY <2>1 DEF Duplicate, vars, StoreIInv, TypeOK, IndexConsistent
  <2> QED BY <1>1, <2>1, RewriteStep, InsertStep DEF Add
<1>2. ASSUME NEW id \in ReportIds, Dismiss(id) PROVE StoreIInv'
  <2>1. 0 \in Repeats
    BY MaxRepeatAssumption DEF MaxRepeatAssumption, Repeats
  <2> QED BY <1>2, <2>1, RewriteStep
<1>3. CASE DismissAll
  BY <1>3, DismissAllStep
<1>4. CASE Reset
  BY <1>4, CapacityAssumption DEF CapacityAssumption, Reset, StoreIInv, TypeOK, IndexConsistent
<1>5. CASE UNCHANGED vars
  BY <1>5 DEF vars, StoreIInv, TypeOK, IndexConsistent
<1> QED BY <1>1, <1>2, <1>3, <1>4, <1>5 DEF Next

\* In every reachable state the store is well typed and its index is exact.
THEOREM StoreCorrect == Spec => []StoreIInv
BY StoreInit, StoreStep, PTL DEF Spec

\* AlertStore.byID finds every alert at its place in the ring, and nothing else.
THEOREM IndexExact == Spec => []IndexConsistent
BY StoreCorrect, PTL DEF StoreIInv

\* Where an alert that is stored before and after an insertion stands.
LEMMA InsertKeeps ==
  ASSUME StoreIInv, NEW id \in ReportIds, NEW n \in Repeats, Insert(id, n),
         NEW i \in DOMAIN byID \cap DOMAIN byID'
  PROVE  entries'[byID'[i]] = entries[byID[i]]
<1> DEFINE a == [id |-> id, repeatCount |-> n, dismissed |-> FALSE]
<1>1. a \in Alerts
  BY DEF Alerts
<1>2. i # id /\ byID[i] \in 1..Len(entries)
  BY DEF Insert, Known, StoreIInv, TypeOK
<1>3. CASE ~Full
  <2>1. entries' = Append(entries, a) /\ byID'[i] = byID[i]
    BY <1>2, <1>3 DEF Insert
  <2> QED BY <1>1, <1>2, <2>1 DEF StoreIInv, TypeOK
<1>4. CASE Full
  <2> DEFINE kept == Tail(entries)
  <2>1. Len(entries) \in Nat \ {0}
    BY <1>4, CapacityAssumption DEF CapacityAssumption, Full, StoreIInv, TypeOK
  <2>2. kept \in Seq(Alerts) /\ Len(kept) = Len(entries) - 1
    BY <2>1 DEF StoreIInv, TypeOK
  <2>3. \A q \in 1..Len(kept) : kept[q] = entries[q + 1]
    BY <2>1 DEF StoreIInv, TypeOK
  <2>4. entries' = Append(kept, a)
    BY <1>4 DEF Insert
  <2>5. i # entries[1].id /\ byID'[i] = byID[i] - 1
    BY <1>2, <1>4 DEF Insert, Shifted
  <2>6. byID[i] # 1
    BY <2>5 DEF StoreIInv, IndexConsistent
  <2>7. byID[i] - 1 \in 1..Len(kept)
    BY <1>2, <2>1, <2>2, <2>6
  <2>8. entries'[byID[i] - 1] = kept[byID[i] - 1]
    BY <1>1, <2>2, <2>4, <2>7
  <2>9. kept[byID[i] - 1] = entries[byID[i]]
    BY <1>2, <2>1, <2>3, <2>7
  <2> QED BY <2>5, <2>8, <2>9
<1> QED BY <1>3, <1>4

\* A dismissal is undone only by a higher repeat n of the same report, as
\* long as the alert stays in the ring.
THEOREM DismissalsStick == Spec => DismissalKept
<1>1. ASSUME StoreIInv, [Next]_vars, NEW i \in DOMAIN byID \cap DOMAIN byID' PROVE KeptDismissed(i)
  <2>0. /\ i \in ReportIds /\ byID[i] \in 1..Len(entries) /\ entries[byID[i]] \in Alerts
        /\ byID[i] \in DOMAIN entries /\ entries[byID[i]].dismissed \in BOOLEAN
    <3>1. i \in ReportIds /\ byID[i] \in 1..Len(entries)
      BY <1>1 DEF StoreIInv, TypeOK
    <3>2. byID[i] \in DOMAIN entries /\ entries[byID[i]] \in Alerts
      BY <1>1, <3>1 DEF StoreIInv, TypeOK
    <3> QED BY <3>1, <3>2 DEF Alerts
  <2>1. ASSUME NEW id \in ReportIds, NEW n \in Repeats, Add(id, n) PROVE KeptDismissed(i)
    <3>1. CASE Bump(id, n)
      <4>1. CASE i = id
        <5>1. entries'[byID[i]].repeatCount = n
          BY <2>0, <3>1, <4>1 DEF Bump, Alerts
        <5> QED BY <3>1, <4>1, <5>1 DEF Bump, Shown, KeptDismissed
      <4>2. CASE i # id
        <5>1. byID[i] # byID[id]
          BY <1>1, <2>0, <3>1, <4>2 DEF StoreIInv, IndexConsistent, Bump, Known
        <5> QED BY <2>0, <3>1, <5>1 DEF Bump, Shown, KeptDismissed
      <4> QED BY <4>1, <4>2
    <3>2. CASE Duplicate(id, n)
      BY <3>2 DEF Duplicate, vars, Shown, KeptDismissed
    <3>3. CASE Insert(id, n)
      BY <1>1, <3>3, InsertKeeps DEF Shown, KeptDismissed
    <3> QED BY <2>1, <3>1, <3>2, <3>3 DEF Add
  <2>2. ASSUME NEW id \in ReportIds, Dismiss(id) PROVE KeptDismissed(i)
    <3>1. CASE i = id
      <4>1. entries'[byID[i]].dismissed = TRUE
        BY <2>0, <2>2, <3>1 DEF Dismiss, Alerts
      <4> QED BY <2>2, <4>1 DEF Dismiss, Shown, KeptDismissed
    <3>2. CASE i # id
      <4>1. byID[i] # byID[id]
        BY <1>1, <2>0, <2>2, <3>2 DEF StoreIInv, IndexConsistent, Dismiss, Known
      <4> QED BY <2>0, <2>2, <4>1 DEF Dismiss, Shown, KeptDismissed
    <3> QED BY <3>1, <3>2
  <2>3. CASE DismissAll
    <3>1. entries'[byID[i]].dismissed = TRUE
      BY <2>0, <2>3 DEF DismissAll, Alerts
    <3> QED BY <2>3, <3>1 DEF DismissAll, Shown, KeptDismissed
  <2>4. CASE Reset
    BY <1>1, <2>4 DEF Reset
  <2>5. CASE UNCHANGED vars
    BY <2>5 DEF vars, Shown, KeptDismissed
  <2> QED BY <1>1, <2>1, <2>2, <2>3, <2>4, <2>5 DEF Next
<1>2. StoreIInv /\ [Next]_vars => [StaysDismissed]_vars
  BY <1>1 DEF StaysDismissed
<1> QED BY StoreCorrect, <1>2, PTL DEF Spec, DismissalKept

----------------------------------------------------------------------------
(* The composition.                                                         *)

\* Whichever component is exercised, the others stand still.
LEMMA EachServed == WorldSpec => Spec /\ Sync!Spec /\ Naming!Spec /\ HazardSpec /\ ModSpec /\ Cycle!Spec
<1>1. WorldInit => Init /\ Sync!Init /\ Naming!Init /\ Danger!Init /\ Changed!Init /\ Cycle!Init BY DEF WorldInit
<1>2. [WorldNext /\ UNCHANGED part]_worldVars
        => /\ [Next]_vars /\ [Sync!Next]_(Sync!vars) /\ [Naming!Next]_(Naming!placeVars)
           /\ [Danger!Next]_(Danger!hazardVars) /\ [Changed!Next]_(Changed!modVars) /\ [Cycle!Next]_(Cycle!turnVars)
  BY DEF WorldNext, worldVars, vars, alertState, tileState, placeState, hazardState, modState, cycleState,
         Sync!vars, Sync!pluginVars, Sync!serverVars, Sync!bounds,
         Naming!placeVars, Danger!hazardVars, Changed!modVars, Cycle!turnVars
<1> QED BY <1>1, <1>2, PTL DEF WorldSpec, Spec, Sync!Spec, Naming!Spec, HazardSpec, ModSpec, Cycle!Spec

\* An id finds exactly the entry of its report, and what was dismissed and stays
\* stored is shown again only with a higher repeat count.
THEOREM AlertsAreKept == WorldSpec => []IndexConsistent /\ DismissalKept
BY EachServed, IndexExact, DismissalsStick, PTL

\* The overlay is wrong only on suspect tiles once a push has been taken in, and
\* every variable of the synchronisation has its type.
THEOREM OverlayIsGrounded == WorldSpec => [](Sync!TypeOK /\ GroundedElsewhere)
<1>1. Sync!GroundedElsewhere => GroundedElsewhere BY DEF GroundedElsewhere
<1> QED BY <1>1, TilesAssumption, EachServed, TypeCorrect, Grounded, PTL

\* A name reported a success is on disk, and in memory once the process has read
\* the file, until its tile is reconciled away, the races named apart.
THEOREM NamesAreKept == WorldSpec => []NamesKeptElsewhere
<1>1. Naming!NamesKeptElsewhere => NamesKeptElsewhere BY DEF NamesKeptElsewhere
<1> QED BY <1>1, PlacesAssumption, EachServed, PlacesKeepNames, PTL

\* What the model is told of its earlier turns and commands is so.
THEOREM HistoryIsTold == WorldSpec => []HistoryIsTrue
<1>1. Cycle!HistoryIsTrue => HistoryIsTrue BY DEF HistoryIsTrue
<1> QED BY <1>1, CyclesAssumption, EachServed, TurnsAreTold, PTL

\* What the model asks for in a cycle is sent as it says, once and in order; but in the
\* graph flow, one decides; the arbiter's graph tells each overlap, once and from both
\* sides (OrchestratorTurn, runCycle).
THEOREM CyclesAreCarriedOut == WorldSpec => []CarriedOut
<1>1. Cycle!CarriedOut => CarriedOut BY DEF CarriedOut
<1> QED BY <1>1, CyclesAssumption, EachServed, CyclesCarryOut, PTL

\* A dig is recorded when the history of its tile tells of it, with the kind and
\* type seen last, and the count and the box are those of the records.
THEOREM ModificationsAreTrue == WorldSpec => []ModificationsMatchHistory
<1>1. Changed!ModificationsMatchHistory => ModificationsMatchHistory BY DEF ModificationsMatchHistory
<1> QED BY <1>1, ModificationsAssumption, EachServed, RecordsMatchHistory, PTL

\* The chambers are the whole of what was modified, each in one piece and apart
\* from the others.
THEOREM ChambersAreRead == WorldSpec => []ChambersExact
<1>1. Changed!ChambersExact => ChambersExact BY DEF ChambersExact
<1> QED BY <1>1, ModificationsAssumption, EachServed, ChambersArePieces, PTL

\* Every hazard layer has the tiles, depths and flow that building it anew from
\* what was told last gives, counts included, an aquifer the flags it was first
\* told with, and shows no creature of an earlier update.
THEOREM LayersAreAsTold == WorldSpec => []LayersMatchTold
<1>1. HazardsIInv => LayersMatchTold
  <2> SUFFICES ASSUME HazardsIInv PROVE LayersMatchTold
    OBVIOUS
  <2>1. \A k \in Danger!TileKinds :
          /\ DOMAIN layers[k].at = {c \in UnitTiles : Danger!Detected(k, c, lastTold[c])}
          /\ \A c \in DOMAIN layers[k].at : layers[k].at[c] = Danger!Info(k, IF k = "aquifer" THEN firstTold[c] ELSE lastTold[c])
          /\ layers[k].count = Danger!Cardinality(DOMAIN layers[k].at)
    BY DEF HazardsIInv, Upright, Hazardous, Source
  <2>2. \A k \in Danger!UnitKinds :
          /\ DOMAIN layers[k].at = {u.at : u \in {v \in present : Danger!LayerOf(v) = k}} \cap UnitTiles
          /\ layers[k].count = Danger!Cardinality(DOMAIN layers[k].at)
    BY DEF HazardsIInv, Standing
  <2>3. \A k \in DOMAIN layers : k \in Danger!TileKinds \cup Danger!UnitKinds BY DEF HazardsIInv
  <2> QED BY <2>1, <2>2, <2>3 DEF LayersMatchTold, Danger!LayersMatchTold
<1> QED BY <1>1, HazardsAssumption, EachServed, HazardsInvariant, PTL
================================================================================
