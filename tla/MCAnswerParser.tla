----------------------------- MODULE MCAnswerParser -----------------------------
(***************************************************************************)
(* Every phrase of the vocabulary of the prompt, and phrases around it.     *)
(***************************************************************************)
EXTENDS AnswerParser

Phrase(kind, verb, words, a, b) == [kind : {kind}, verb : {verb}, word : words, a : {a}, b : {b}, n : {0}]
Counted(kind, words, amounts)   == [kind : {kind}, verb : {""}, word : words, a : {<<>>}, b : {<<>>}, n : amounts]

MCPhrases ==
    Phrase("ranged", "dig", PromptDigs, <<3, 4, 9>>, <<5, 6, 9>>)
    \cup Phrase("ranged", "dig", {"stairs", "updown"}, <<3, 4, 9>>, <<3, 4, 5>>)
    \cup Phrase("ranged", "dig", {""}, <<3, 4, 9>>, <<5, 6>>)
    \cup Phrase("ranged", "dig", {""}, <<3, 4, 9>>, <<5, 6, 0>>)
    \cup Phrase("ranged", "dig", {""}, <<3, 4, 9>>, <<40000, 70000>>)
    \cup Phrase("ranged", "gather", {""}, <<3, 4, 9>>, <<5, 6>>)
    \cup Phrase("build", "", DOMAIN PromptBuilds \cup {"smelter"}, <<3, 4, 9>>, <<>>)
    \cup Phrase("stockpile", "", ToSet(PromptGroups) \cup {"", "seeds"}, <<3, 4, 9>>, <<5, 6>>)
    \cup Phrase("zone", "", DOMAIN PromptZones \cup {"hospital", "office"}, <<3, 4, 9>>, <<5, 6>>)
    \cup Phrase("smooth", "smooth", {""}, <<3, 4, 9>>, <<5, 6>>)
    \cup Phrase("smooth", "engrave", {""}, <<3, 4, 9>>, <<5, 6>>)
    \cup Phrase("unsuspend", "", {""}, <<3, 4, 9>>, <<>>)
    \cup Counted("order", ToSet(PromptItems) \cup {"beds", "nothing"}, {1})
    \cup Counted("order", {"bed"}, {0, 100, 101, 70000})
    \cup Counted("dismiss", {""}, {0, 7, 70000}) \cup Counted("dismiss", {"all"}, {0})
    \cup Counted("wait", {""}, {0})

Empty    == <<>>
MCObjects == {Empty, <<Command("dig", "default", [NoRegion EXCEPT !.x1 = 3], 0), Command("zone", 8, NoRegion, 0)>>}
=================================================================================
