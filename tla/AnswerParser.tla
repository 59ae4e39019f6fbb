------------------------------ MODULE AnswerParser ------------------------------
(***************************************************************************)
(* What an answer of the language model asks for: the parser of internal/   *)
(* llm/parser.go, which knows JSON and the phrases that the prompt (bdi/    *)
(* prompt.go) teaches, its vocabularies, and the action that the plan gets. *)
(* A phrase is [kind, verb, word, a, b, n]: what the pattern of its kind     *)
(* captures; text between phrases matches no pattern.                       *)
(***************************************************************************)
EXTENDS Integers, SequencesExt

CONSTANTS
    Phrases,   \* phrases an answer may have
    Objects,   \* commands of a JSON object that an answer may have instead
    MaxPhrases \* bound on phrases

VARIABLES answer, object
parserVars == <<answer, object>>

NoObject == <<"none">>
Init == answer = <<>> /\ object \in Objects \cup {NoObject}
Write == /\ Len(answer) < MaxPhrases /\ \E p \in Phrases : answer' = Append(answer, p)
         /\ UNCHANGED object

-------------------------------------------------------------------------------
(***************************************************************************)
(* The vocabularies.                                                        *)
(***************************************************************************)
buildTypeNames ==
    [wall |-> 1, floor |-> 2, upstair |-> 3, downstair |-> 4, updownstair |-> 5, updownstairs |-> 5, buildramp |-> 6,
     carpenter |-> 16, carpenters |-> 16, mason |-> 17, masons |-> 17, still |-> 18, farmer |-> 19, farmers |-> 19,
     craftsdwarf |-> 20, craftsdwarfs |-> 20, mechanic |-> 21, mechanics |-> 21, butcher |-> 22, butchers |-> 22,
     kitchen |-> 23, fishery |-> 24, bed |-> 48, table |-> 49, chair |-> 50, cabinet |-> 51, coffer |-> 52,
     door |-> 80, hatch |-> 81]
zoneTypeNames ==
    [bedroom |-> 1, dining |-> 2, dining_hall |-> 2, meeting |-> 3, meeting_hall |-> 3, barracks |-> 4, dormitory |-> 5,
     farm |-> 16, pen |-> 17, pasture |-> 17, garbage |-> 18, garbage_dump |-> 18, pit |-> 19, pond |-> 19,
     water |-> 20, water_source |-> 20, fishing |-> 21, hospital |-> 22, animal |-> 23, animal_train |-> 23, tomb |-> 24]
orderTypeNames ==
    [bed |-> 1, table |-> 2, chair |-> 3, door |-> 4, barrel |-> 5, bucket |-> 6, cabinet |-> 7, coffer |-> 8,
     drink |-> 9, alcohol |-> 9, meal |-> 10, food |-> 10, block |-> 11, blocks |-> 11, craft |-> 12, crafts |-> 12]
\* a group by its bit; "" stands for no word
StockpileBits ==
    [animals |-> 0, food |-> 1, furniture |-> 2, corpses |-> 3, refuse |-> 4, stone |-> 5, ammo |-> 6, coins |-> 7,
     bars |-> 8, blocks |-> 8, bars_blocks |-> 8, gems |-> 9, goods |-> 10, finished |-> 10, finished_goods |-> 10,
     leather |-> 11, cloth |-> 12, wood |-> 13, weapons |-> 14, armor |-> 15, sheet |-> 16]
All == 2^17 - 1
lookupStockpileGroup(word) ==
    IF word \in {"", "all", "everything"} THEN <<All>>
    ELSE IF word \in DOMAIN StockpileBits THEN <<2^StockpileBits[word]>> ELSE <<>>
lookup(names, word) == IF word \in DOMAIN names THEN <<names[word]>> ELSE <<>>
\* the words here that end in an s which is trimmed
Singular == [beds |-> "bed", tables |-> "table", barrels |-> "barrel", meals |-> "meal"]
\* Seeded fault: words are looked up as they stand.
lookupExactly(word) == lookup(orderTypeNames, word)
lookupOrderType(word) == lookup(orderTypeNames, IF word \in DOMAIN Singular THEN Singular[word] ELSE word)

-------------------------------------------------------------------------------
(***************************************************************************)
(* parseNaturalLanguage: one pass over the text for each kind of command.   *)
(***************************************************************************)
\* ParseUint: what does not fit is the largest number
Uint16(v) == IF v > 65535 THEN 65535 ELSE v
RegionOf(p, level) ==
    [x1 |-> Uint16(p.a[1]), y1 |-> Uint16(p.a[2]), z |-> Uint16(p.a[3]), x2 |-> Uint16(p.b[1]), y2 |-> Uint16(p.b[2]),
     z2 |-> Uint16(level)]
Command(type, code, region, n) == [type |-> type, code |-> code, region |-> region, n |-> n]
NoRegion == [x1 |-> 0, y1 |-> 0, z |-> 0, x2 |-> 0, y2 |-> 0, z2 |-> 0]
\* a phrase whose word is unknown gives nothing
With(code, Make(_)) == IF code = <<>> THEN <<>> ELSE <<Make(code[1])>>

Ranged(p) ==
    LET kind == IF p.word = "updown" THEN "updownstairs" ELSE IF p.word = "" /\ p.verb = "dig" THEN "default" ELSE p.word
    IN <<Command(p.verb, kind, RegionOf(p, IF Len(p.b) = 3 THEN p.b[3] ELSE p.a[3]), 0)>>
Build(p)     == With(lookup(buildTypeNames, p.word), LAMBDA c : Command("build", c, RegionOf([p EXCEPT !.b = p.a], p.a[3]), 0))
Stockpile(p) == With(lookupStockpileGroup(p.word), LAMBDA c : Command("stockpile", c, RegionOf(p, p.a[3]), 0))
Zone(p)      == With(lookup(zoneTypeNames, p.word), LAMBDA c : Command("zone", c, RegionOf(p, p.a[3]), 0))
Smooth(p)    == <<Command("smooth", IF p.verb = "engrave" THEN 2 ELSE 1, RegionOf(p, p.a[3]), 0)>>
Unsuspend(p) == <<Command("unsuspend", 0, RegionOf([p EXCEPT !.b = p.a], p.a[3]), 0)>>
Order(p)     == IF p.n \notin 1..100 THEN <<>>
                ELSE With(lookupOrderType(p.word), LAMBDA c : Command("order", c, NoRegion, p.n))
\* one phrase that dismisses all leaves no others
DismissesAll(text) == \E i \in DOMAIN text : text[i].kind = "dismiss" /\ text[i].word = "all"
Dismiss(p)   == IF p.n = 0 THEN <<>> ELSE <<Command("dismiss", 0, NoRegion, p.n)>>
Wait(p)      == <<Command("wait", 0, NoRegion, 0)>>

Read(text, kind, P(_)) == FlattenSeq([i \in DOMAIN text |-> IF text[i].kind = kind THEN P(text[i]) ELSE <<>>])
parseNaturalLanguage(text) ==
    Read(text, "ranged", Ranged) \o Read(text, "build", Build) \o Read(text, "stockpile", Stockpile)
    \o Read(text, "zone", Zone) \o Read(text, "smooth", Smooth) \o Read(text, "unsuspend", Unsuspend)
    \o Read(text, "order", Order)
    \o (IF DismissesAll(text) THEN <<Command("dismiss", 0, NoRegion, 0)>> ELSE Read(text, "dismiss", Dismiss))
    \o Read(text, "wait", Wait)
\* an object, even one without commands, is all that is read of the answer
ParseResponse == IF object # NoObject THEN object ELSE parseNaturalLanguage(answer)

\* actionFromCommandSpec: signed numbers, and a second level that is not 0
Int16(v) == IF v > 32767 THEN v - 65536 ELSE v
ActionOf(c) ==
    [c EXCEPT !.region = [f \in DOMAIN @ |->
        Int16(IF f = "z2" /\ c.region.z2 = 0 THEN c.region.z ELSE c.region[f])]]

Next == Write
Spec == Init /\ [][Next]_parserVars

-------------------------------------------------------------------------------
(***************************************************************************)
(* What the prompt teaches, and what the protocol calls it.                 *)
(***************************************************************************)
PromptBuilds ==
    [carpenter |-> 16, mason |-> 17, still |-> 18, farmer |-> 19, craftsdwarf |-> 20, mechanic |-> 21, butcher |-> 22,
     kitchen |-> 23, fishery |-> 24, bed |-> 48, table |-> 49, chair |-> 50, cabinet |-> 51, coffer |-> 52, door |-> 80,
     hatch |-> 81, wall |-> 1, floor |-> 2, upstair |-> 3, downstair |-> 4, updownstair |-> 5, buildramp |-> 6]
PromptGroups ==
    <<"animals", "food", "furniture", "corpses", "refuse", "stone", "ammo", "coins", "bars_blocks", "gems",
      "finished_goods", "leather", "cloth", "wood", "weapons", "armor", "sheet">>
PromptItems ==
    <<"bed", "table", "chair", "door", "barrel", "bucket", "cabinet", "coffer", "drink", "meal", "blocks", "crafts">>
\* its hospital is a location by now, and no zone
PromptZones ==
    [bedroom |-> 1, tomb |-> 3, dining |-> 4, meeting |-> 5, dormitory |-> 6, barracks |-> 7, pen |-> 8, pit |-> 9,
     water |-> 12, garbage |-> 13, fishing |-> 15, animal_train |-> 18]
PromptDigs == {"", "stairs", "channel", "ramp", "upstair", "downstair"}

Commands(type) == SelectSeq([i \in DOMAIN ParseResponse |-> ActionOf(ParseResponse[i])], LAMBDA c : c.type = type)
Said(kind, words) == SelectSeq(answer, LAMBDA p : p.kind = kind /\ p.word \in words)
OnMap(p) == \A i \in 1..3 : p.a[i] < 32768 /\ i \in DOMAIN p.b => p.b[i] \in (IF i = 3 THEN 1 ELSE 0)..32767
\* a command for each phrase of a kind, in the order of the text, with the
\* corners that it names, and nothing else
Matches(type, said, Code(_), to3) ==
    LET got == Commands(type)
    IN /\ Len(got) = Len(said)
       /\ \A i \in DOMAIN said : /\ got[i].code = Code(said[i])
                                 /\ type # "order" /\ OnMap(said[i]) =>
                                    LET r == got[i].region
                                    IN /\ <<r.x1, r.y1, r.z>> = said[i].a
                                       /\ to3 => <<r.x2, r.y2, r.z2>> = (IF Len(said[i].b) = 3 THEN said[i].b
                                                                         ELSE Append(said[i].b, said[i].a[3]))

\* Each phrase in the words of the prompt becomes one action of the kind, with
\* the number that the protocol gives the word, in the order of the text, plural
\* or not; what does not name a command or an amount within 1..100 becomes none,
\* and dismissing all is told apart from dismissing one.
PromptIsUnderstood ==
    object = NoObject =>
        /\ Matches("dig", SelectSeq(answer, LAMBDA p : p.kind = "ranged" /\ p.verb = "dig"),
                   LAMBDA p : IF p.word = "" THEN "default" ELSE IF p.word = "updown" THEN "updownstairs" ELSE p.word, TRUE)
        /\ Matches("build", Said("build", DOMAIN PromptBuilds), LAMBDA p : PromptBuilds[p.word], FALSE)
        /\ Matches("stockpile", Said("stockpile", {""} \cup ToSet(PromptGroups)),
                   LAMBDA p : IF p.word = "" THEN All ELSE 2^(SelectInSeq(PromptGroups, LAMBDA w : w = p.word) - 1), TRUE)
        /\ Matches("smooth", SelectSeq(answer, LAMBDA p : p.kind = "smooth"),
                   LAMBDA p : IF p.verb = "engrave" THEN 2 ELSE 1, TRUE)
        /\ Matches("order", SelectSeq(answer, LAMBDA p : p.kind = "order" /\ p.n \in 1..100 /\ p.word # "nothing"),
                   LAMBDA p : SelectInSeq(PromptItems, LAMBDA w : w = IF p.word = "beds" THEN "bed" ELSE p.word), FALSE)
        /\ Len(Commands("zone")) = Len(Said("zone", DOMAIN zoneTypeNames))
        /\ LET ids == {Commands("dismiss")[i].n : i \in DOMAIN Commands("dismiss")}
               said == {answer[i] : i \in {j \in DOMAIN answer : answer[j].kind = "dismiss"}}
           IN ids = IF \E p \in said : p.word = "all" THEN {0} ELSE {p.n : p \in said} \ {0}

\* A zone that the prompt names is given the number the protocol has for it.
ZonesAreNamed ==
    object = NoObject =>
        LET said == Said("zone", DOMAIN PromptZones)
        IN \A i \in DOMAIN said : Commands("zone")[i].code = PromptZones[said[i].word]
================================================================================
