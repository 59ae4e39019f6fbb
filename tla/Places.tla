-------------------------------- MODULE Places --------------------------------
(***************************************************************************)
(* Named places (internal/mcpserver/places.go): names by anchor tile, in   *)
(* memory and in a JSON file, written by the name_place tool and read back *)
(* by the full-state callback of the bridge, each on its own goroutine.    *)
(* A tile resolves to a region exactly when the overlay has it open        *)
(* (Topology), so the overlay is the set of its open tiles here.           *)
(***************************************************************************)
EXTENDS Integers, FiniteSets

CONSTANTS
    Anchors, Tools, \* tiles that may be named, calls of name_place
    MaxCalls, MaxFullStates, MaxChanges, MaxRestarts    \* bounds

BoundsAssumption == Anchors # {} /\ {MaxCalls, MaxFullStates, MaxChanges, MaxRestarts} \subseteq Nat

VARIABLES
    game,     \* tiles open in the game
    known,    \* tiles open in the overlay
    items,    \* named tiles in memory
    file,     \* named tiles on disk: none, "whole", "torn" while it is written,
              \* "broken" with text in it that is not that of a list of names
    stage,       \* by call: "idle", "set", "write", "torn"
    anchor,   \* by call: the tile it names
    data,     \* by call: what it is about to write
    loader,   \* the callback: "none" before the first, then "idle", "overlay", "read", "loaded"
    content,  \* what it has read
    reported, \* tiles whose naming was reported a success, until reconciled away
    loaded,   \* the file has been read by this process
    exposed,  \* tiles whose name a race has put at risk
    left      \* what the bounds still allow

placeVars == <<game, known, items, file, stage, anchor, data, loader, content, reported, loaded, exposed, left>>

Init ==
    /\ game \in SUBSET Anchors /\ known = {} /\ items = {} /\ file = [is |-> "missing", names |-> {}]
    /\ stage = [t \in Tools |-> "idle"] /\ anchor = [t \in Tools |-> CHOOSE a \in Anchors : TRUE] /\ data = [t \in Tools |-> {}]
    /\ loader = "none" /\ content = {} /\ reported = {} /\ loaded = TRUE /\ exposed = {}
    /\ left = [calls |-> MaxCalls, full |-> MaxFullStates, changes |-> MaxChanges, restarts |-> MaxRestarts]

Use(what) == left[what] > 0 /\ left' = [left EXCEPT ![what] = @ - 1]

InFlight == {t \in Tools : stage[t] # "idle"}

\* The overlay, or else a live slice seeded into it, has the tile open; with no
\* overlay yet the tool only says so.
NamePlace(t, a) ==
    /\ stage[t] = "idle" /\ loader # "none" /\ a \in known \cup game /\ Use("calls")
    /\ known' = known \cup {a} /\ items' = items \cup {a}
    /\ stage' = [stage EXCEPT ![t] = "set"] /\ anchor' = [anchor EXCEPT ![t] = a]
    /\ exposed' = IF ~loaded THEN Anchors
                  ELSE IF loader = "read" \/ \E u \in Tools : stage[u] \in {"write", "torn"} THEN exposed \cup {a}
                  ELSE exposed
    /\ UNCHANGED <<game, file, data, loader, content, reported, loaded>>

Broken == [is |-> "broken", names |-> {}]

\* Save: a copy under the lock, then the file is truncated and written
Copy(t) ==
    /\ stage[t] = "set" /\ stage' = [stage EXCEPT ![t] = "write"] /\ data' = [data EXCEPT ![t] = items]
    /\ UNCHANGED <<game, known, items, file, anchor, loader, content, reported, loaded, exposed, left>>
Truncate(t) ==
    /\ stage[t] = "write" /\ stage' = [stage EXCEPT ![t] = "torn"] /\ file' = [is |-> "torn", names |-> {}]
    /\ UNCHANGED <<game, known, items, anchor, data, loader, content, reported, loaded, exposed, left>>
\* over the text of another, which may be the longer one and end it in garbage
Write(t) ==
    /\ stage[t] = "torn" /\ stage' = [stage EXCEPT ![t] = "idle"]
    /\ \/ file' = [is |-> "whole", names |-> data[t]] /\ UNCHANGED exposed
       \/ file.is \in {"whole", "broken"} /\ file' = Broken /\ exposed' = Anchors
    /\ reported' = reported \cup ({anchor[t]} \cap items)
    /\ data' = [data EXCEPT ![t] = {}]
    /\ UNCHANGED <<game, known, items, anchor, loader, content, loaded, left>>
\* In the middle of the write a part of the text is on disk, over what another
\* has written since, which may give a list of some names of each; or only the
\* closing fails.
WriteFails(t) ==
    \/ file.is = "torn" /\ file' = Broken /\ UNCHANGED exposed
    \/ file' = [is |-> "whole", names |-> data[t]] /\ UNCHANGED exposed
    \/ file.is = "whole" /\ file' = Broken /\ UNCHANGED exposed
    \/ /\ file.is = "whole" /\ exposed' = Anchors
       /\ \E names \in SUBSET (file.names \cup data[t]) : file' = [is |-> "whole", names |-> names]
\* At any point of it; the name stays in memory, and the tool says that it was
\* not persisted.
SaveFails(t) ==
    /\ stage[t] \in {"write", "torn"} /\ stage' = [stage EXCEPT ![t] = "idle"] /\ data' = [data EXCEPT ![t] = {}]
    /\ \/ (stage[t] = "write" \/ file.is # "torn") /\ UNCHANGED <<file, exposed>>
       \/ stage[t] = "torn" /\ WriteFails(t)
    /\ UNCHANGED <<game, known, items, anchor, loader, content, reported, loaded, left>>

-------------------------------------------------------------------------------
\* a new overlay is installed before the places are loaded
FullState ==
    /\ loader \in {"none", "idle"} /\ Use("full")
    /\ known' = game /\ loader' = "overlay"
    /\ UNCHANGED <<game, items, file, stage, anchor, data, content, reported, loaded, exposed>>

AtRisk == {anchor[t] : t \in InFlight}

\* Seeded fault: a file that cannot be parsed counts as one without names.
ReadTornAsEmpty ==
    /\ loader = "overlay" /\ loader' = "read" /\ content' = file.names
    /\ exposed' = exposed \cup AtRisk
    /\ UNCHANGED <<game, known, items, file, stage, anchor, data, reported, loaded, left>>
\* no file: nothing to do but to reconcile; a bad one: not even that
ReadFile ==
    /\ loader = "overlay"
    /\ loader' = CASE file.is = "missing" -> "loaded" [] file.is = "whole" -> "read" [] OTHER -> "idle"
    /\ content' = file.names
    /\ exposed' = exposed \cup AtRisk
    /\ loaded' = (loaded \/ file.is = "missing")
    /\ UNCHANGED <<game, known, items, file, stage, anchor, data, reported, left>>

Install ==
    /\ loader = "read" /\ loader' = "loaded" /\ items' = content /\ content' = {} /\ loaded' = TRUE
    /\ UNCHANGED <<game, known, file, stage, anchor, data, reported, exposed, left>>

\* names of tiles in no region are dropped, in memory only
Reconcile ==
    /\ loader = "loaded" /\ loader' = "idle"
    /\ items' = items \cap known /\ reported' = reported \cap known
    /\ UNCHANGED <<game, known, file, stage, anchor, data, content, loaded, exposed, left>>

-------------------------------------------------------------------------------
\* a tile is dug out or closed again, with or without an update reaching us
GameChanges(a) ==
    /\ Use("changes")
    /\ game' = IF a \in game THEN game \ {a} ELSE game \cup {a}
    /\ known' \in {known, IF a \in game THEN known \ {a} ELSE known \cup {a}}
    /\ UNCHANGED <<items, file, stage, anchor, data, loader, content, reported, loaded, exposed>>

\* the server process is restarted; what it finds is the file, half-written or
\* broken as it may be
Restart ==
    /\ Use("restarts")
    /\ known' = {} /\ items' = {} /\ stage' = [t \in Tools |-> "idle"] /\ loader' = "none" /\ content' = {} /\ data' = [t \in Tools |-> {}]
    /\ loaded' = FALSE /\ exposed' = exposed \cup (IF file.is \in {"torn", "broken"} THEN Anchors ELSE {})
                                             \cup AtRisk
    /\ UNCHANGED <<game, file, anchor, reported>>

Next ==
    \/ \E t \in Tools : (\E a \in Anchors : NamePlace(t, a)) \/ Copy(t) \/ Truncate(t) \/ Write(t) \/ SaveFails(t)
    \/ FullState \/ ReadFile \/ Install \/ Reconcile
    \/ (\E a \in Anchors : GameChanges(a)) \/ Restart

Spec == Init /\ [][Next]_placeVars

-------------------------------------------------------------------------------
TypeOK ==
    /\ {game, known, items, content, reported, exposed} \subseteq SUBSET Anchors
    /\ file \in [is : {"missing", "whole", "torn", "broken"}, names : SUBSET Anchors] /\ (file.is # "whole" => file.names = {})
    /\ stage \in [Tools -> {"idle", "set", "write", "torn"}] /\ anchor \in [Tools -> Anchors]
    /\ data \in [Tools -> SUBSET Anchors]
    /\ loader \in {"none", "idle", "overlay", "read", "loaded"} /\ loaded \in BOOLEAN
    /\ left \in [calls : 0..MaxCalls, full : 0..MaxFullStates, changes : 0..MaxChanges, restarts : 0..MaxRestarts]

\* "Names survive df-mcp restarts": a name reported a success is on disk, unless
\* a write of the file is under way or one that failed has left it broken, and
\* in memory once the process has read the file, until its tile is reconciled
\* away; other names, full states, saves that fail, restarts over a file that
\* is whole and closed tiles do not take it.  Excepted are the cases that do: a
\* call under way while a full state reads the file, a call in a process that
\* has not read it yet, calls whose saves overlap, and a process that ends while
\* the file is half-written or broken, by a crash or by a write that failed.
NamesKeptElsewhere ==
    \A a \in reported \ exposed :
        /\ a \in file.names \/ file.is = "broken" \/ \E t \in Tools : stage[t] = "torn"
        /\ loaded /\ loader \in {"idle", "overlay", "read"} => a \in items
===============================================================================
