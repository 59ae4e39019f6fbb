------------------------------ MODULE TileSync ------------------------------
(***************************************************************************)
(* How the server's map overlay follows the fort: the plugin's tile cache   *)
(* and deltas (dfhack-plugin/tile_updates.cpp), FULL_STATE on request, the  *)
(* ordered connection, the client's message loops, one for each connection, *)
(* which install a full state inline but queue deltas (internal/dfhack/     *)
(* client.go), and the Populator, which applies the queued ones (internal/  *)
(* worldmodel/populator.go).  A tile's value stands for its type and flags. *)
(***************************************************************************)
EXTENDS Integers, Sequences, FiniteSets

CONSTANTS Tiles, Values,
          TileCap,    \* capacity of the tile update channel
          MaxChanges, \* bound on changes of the map
          MaxPushes,  \* bound on pushes
          MaxBreaks,  \* bound on lost connections
          None        \* a tile not cached, an overlay not installed

Map == [Tiles -> Values]
Deltas == UNION {[S -> Values] : S \in SUBSET Tiles}

Frames == [kind : {"full"}, tiles : Map] \cup [kind : {"delta"}, tiles : Deltas]

NoneAssumption   == None \notin Values \cup Map \cup [tiles : Deltas, gen : Nat]
BoundsAssumption == {TileCap, MaxChanges, MaxPushes, MaxBreaks} \subseteq Nat

VARIABLES
  map,      \* the fort
  cache,    \* g_tile_cache
  wanted,   \* g_resync_requested, from the RESYNC_REQUEST of every new session
  up,       \* the connection
  wire,     \* frames on their way to the server
  late,     \* by connection lost: frames its message loop has yet to take in
  tileCh,   \* deltas the Populator has not taken
  applying, \* the delta it is applying, with the overlay it picked
  overlay,  \* the topology overlay, None before the first full state
  gen,      \* how many overlays have been installed
  settled,  \* the map has not changed since the last push
  suspect,  \* tiles on which the overlay may differ from what was cached
  changes, pushes, breaks

pluginVars == <<cache, wanted, up, wire, late>>
serverVars == <<tileCh, applying, overlay, gen>>
bounds == <<changes, pushes, breaks>>
vars == <<map, pluginVars, serverVars, settled, suspect, bounds>>

Init ==
  /\ map \in Map
  /\ cache = [t \in Tiles |-> None]
  /\ wanted = TRUE /\ up = TRUE /\ wire = <<>> /\ late = [c \in 1..MaxBreaks |-> <<>>]
  /\ tileCh = <<>> /\ applying = None /\ overlay = None /\ gen = 0
  /\ settled = FALSE /\ suspect = {}
  /\ changes = 0 /\ pushes = 0 /\ breaks = 0

----------------------------------------------------------------------------
ChangeTile ==
  /\ changes < MaxChanges /\ changes' = changes + 1
  /\ \E t \in Tiles : \E v \in Values \ {map[t]} : map' = [map EXCEPT ![t] = v]
  /\ settled' = FALSE
  /\ UNCHANGED <<pluginVars, serverVars, suspect, pushes, breaks>>

\* Seeded fault: only tiles never seen before count as changed.
ChangedIfNew == {t \in Tiles : cache[t] = None}

\* detect_tile_changes: what differs from the cache, which is brought up to date
\* whatever becomes of the message.
Changed == {t \in Tiles : cache[t] # map[t]}

\* push_state_refresh, or the auto-update: a delta goes out unless it is empty.
Push ==
  /\ up /\ pushes < MaxPushes /\ pushes' = pushes + 1
  /\ cache' = map
  /\ wire' = IF Changed = {} THEN wire
             ELSE Append(wire, [kind |-> "delta", tiles |-> [t \in Changed |-> map[t]]])
  /\ settled' = TRUE
  /\ suspect' = suspect \ Changed
  /\ UNCHANGED <<map, wanted, up, late, serverVars, changes, breaks>>

\* send_full_state: the whole map; the cache is not touched.
SendFullState ==
  /\ up /\ wanted /\ wanted' = FALSE
  /\ wire' = Append(wire, [kind |-> "full", tiles |-> map])
  /\ suspect' = suspect \cup {t \in Changed : cache[t] # None}
  /\ UNCHANGED <<map, cache, up, late, serverVars, settled, bounds>>

\* What has reached the server by then is still read by the loop of the lost
\* connection, which goes on beside that of the next one.
LinkBreaks ==
  /\ up /\ breaks < MaxBreaks /\ breaks' = breaks + 1
  /\ up' = FALSE /\ wire' = <<>>
  /\ \E k \in 0..Len(wire) : late' = [late EXCEPT ![breaks + 1] = SubSeq(wire, 1, k)]
  /\ UNCHANGED <<map, cache, wanted, serverVars, settled, suspect, changes, pushes>>

\* The client asks for a full state right after the handshake.
Reconnect ==
  /\ ~up /\ up' = TRUE /\ wanted' = TRUE
  /\ UNCHANGED <<map, cache, wire, late, serverVars, settled, suspect, bounds>>

----------------------------------------------------------------------------
\* onFullState: a new overlay, installed at once on the message loop.
ReceiveFull ==
  /\ wire # <<>> /\ Head(wire).kind = "full"
  /\ wire' = Tail(wire)
  /\ overlay' = Head(wire).tiles /\ gen' = gen + 1
  /\ suspect' = suspect \cup UNION {{t \in DOMAIN tileCh[k] : tileCh[k][t] # overlay'[t]} :
                                    k \in DOMAIN tileCh}
  /\ UNCHANGED <<map, cache, wanted, up, late, tileCh, applying, settled, bounds>>

\* A delta goes on the channel, or is dropped when it is full.
ReceiveDelta ==
  /\ wire # <<>> /\ Head(wire).kind = "delta"
  /\ wire' = Tail(wire)
  /\ IF Len(tileCh) < TileCap
     THEN tileCh' = Append(tileCh, Head(wire).tiles) /\ UNCHANGED suspect
     ELSE suspect' = suspect \cup DOMAIN Head(wire).tiles /\ UNCHANGED tileCh
  /\ UNCHANGED <<map, cache, wanted, up, late, applying, overlay, gen, settled, bounds>>

\* Nothing shown or queued now outlives the full state of this session, or of
\* the next one.
FullAhead == ~up \/ wanted \/ \E i \in 1..Len(wire) : wire[i].kind = "full"

\* The same by the loop of a lost connection, whatever the new one has brought.
ReceiveLate(c) ==
  /\ late[c] # <<>> /\ late' = [late EXCEPT ![c] = Tail(@)]
  /\ LET frame == Head(late[c])
         outdated == {t \in DOMAIN frame.tiles : cache[t] # None /\ cache[t] # frame.tiles[t]}
     IN \/ /\ frame.kind = "delta" /\ Len(tileCh) >= TileCap
           /\ UNCHANGED <<tileCh, overlay, gen, suspect>>
        \/ /\ \/ frame.kind = "full" /\ overlay' = frame.tiles /\ gen' = gen + 1 /\ UNCHANGED tileCh
              \/ /\ frame.kind = "delta" /\ Len(tileCh) < TileCap
                 /\ tileCh' = Append(tileCh, frame.tiles) /\ UNCHANGED <<overlay, gen>>
           /\ suspect' = IF FullAhead THEN suspect ELSE suspect \cup outdated
  /\ UNCHANGED <<map, cache, wanted, up, wire, applying, settled, bounds>>

\* OnTileUpdate reads the overlay pointer once; without an overlay it does nothing.
TakeDelta ==
  /\ tileCh # <<>> /\ applying = None
  /\ tileCh' = Tail(tileCh)
  /\ applying' = [tiles |-> Head(tileCh), gen |-> gen]
  /\ UNCHANGED <<map, pluginVars, overlay, gen, settled, suspect, bounds>>

\* Writes to an overlay that was replaced meanwhile are lost with it.
ApplyDelta ==
  /\ applying # None
  /\ applying' = None
  /\ overlay' = IF overlay = None \/ applying.gen # gen THEN overlay
                ELSE [t \in Tiles |-> IF t \in DOMAIN applying.tiles THEN applying.tiles[t]
                                      ELSE overlay[t]]
  /\ UNCHANGED <<map, pluginVars, tileCh, gen, settled, suspect, bounds>>

Next == \/ ChangeTile \/ Push \/ SendFullState \/ LinkBreaks \/ Reconnect
        \/ ReceiveFull \/ ReceiveDelta \/ (\E c \in 1..MaxBreaks : ReceiveLate(c)) \/ TakeDelta \/ ApplyDelta

Spec == Init /\ [][Next]_vars

----------------------------------------------------------------------------
TypeOK ==
  /\ map \in Map /\ cache \in [Tiles -> Values \cup {None}]
  /\ {wanted, up, settled} \subseteq BOOLEAN
  /\ wire \in Seq(Frames) /\ late \in [1..MaxBreaks -> Seq(Frames)] /\ tileCh \in Seq(Deltas) /\ Len(tileCh) <= TileCap
  /\ applying \in [tiles : Deltas, gen : Nat] \cup {None}
  /\ overlay \in Map \cup {None} /\ gen \in Nat
  /\ (overlay = None <=> gen = 0)
  /\ suspect \subseteq Tiles
  /\ changes \in 0..MaxChanges /\ pushes \in 0..MaxPushes /\ breaks \in 0..MaxBreaks

----------------------------------------------------------------------------
(* Properties.                                                              *)

\* A push has been made since the last change, and all that was sent on the
\* connection has been taken in; a lost one may still have frames.
Quiet == /\ up /\ ~wanted /\ settled
         /\ wire = <<>> /\ tileCh = <<>> /\ applying = None

\* The overlay is wrong only on tiles whose delta was dropped on a full channel,
\* that changed between a push and a later full state, that a queued delta
\* overwrote after a full state overtook it, or that a frame of a lost
\* connection named with an outdated value after the full state of the next
\* one; frames lost with a connection, those taken in before that full state
\* and replaced overlays do no harm, and a later delta repairs the tile.
GroundedElsewhere == Quiet => \A t \in Tiles \ suspect : overlay[t] = map[t]
=============================================================================
