--------------------------- MODULE MCPrograms_proofs ---------------------------
(***************************************************************************)
(* Proofs about the parts of MCPrograms, for every value of their           *)
(* constants: the loops of the older program (Orchestrator), then SendQuery *)
(* and the plugin's query queue (QueryChannel, the instance Queries), then  *)
(* the turns of the deliberator and their plan (Deliberation, Turns).       *)
(***************************************************************************)
EXTENDS MCPrograms, FiniteSetTheorems, SequenceTheorems, NaturalsInduction, WellFoundedInduction, TLAPS

(***************************************************************************)
(* The loops of the older program, for any number of loops, of ticks and of *)
(* updates, and every configuration.                                        *)
(***************************************************************************)
Setup   == {"made", "planned", "announced"}
Surveys == {NoCall} \cup [at : {"test", "measure", "lay"}, loop : Loops]
Lays(i) == \E c \in Callers : survey[c] = [at |-> "lay", loop |-> i]

\* The types, those of the loops and of the surveys apart.
Numbers ==
  /\ config \in Configs
  /\ newest \in 0..config.states /\ (callback = "built" => newest < config.states)
  /\ callback \in {"idle", "built", "made", "planned", "announced"} /\ (callback \in Setup => newest > 0)
  /\ starters \in 0..newest /\ (callback \in Setup => starters < newest)
  /\ reader \in {"idle", "cached", "told", "trigger"} /\ updates \in 0..config.updates /\ first \in BOOLEAN
  /\ (reader \in {"cached", "trigger"} => newest > 0) /\ cachedIn \in 0..newest /\ fired \in 0..newest
  /\ swapped \subseteq Loops /\ ticks \in 0..MaxTicks
  /\ shutdown \in {"no", "waits", "done", "crashed"} /\ target \in 0..newest
  /\ saved \in BOOLEAN /\ answered \in BOOLEAN /\ early \subseteq Loops
LoopTypes   == loops \in [Loops -> LoopType]
SurveyTypes == survey \in [Callers -> Surveys]
Types       == Numbers /\ LoopTypes /\ SurveyTypes

\* What has not been made is as it will be made.
Unmade == \A i \in Loops : i > newest => loops[i] = NewLoop

\* A goroutine is in tryAnalyzeSVP only where it calls it.
Calling ==
  /\ callback # "announced" => Free(Message)
  /\ reader # "told" => Free(Entity)
  /\ \A i \in Loops : loops[i].at # "retry" => Free(i)

\* A survey is made of a loop that has a planner, and a loop is set up before it
\* is started, the early ones apart.
SetUp ==
  /\ \A c \in Callers : ~Free(c) => loops[survey[c].loop].svp
  /\ \A i \in Loops : loops[i].ready => loops[i].svp
  /\ callback \in {"planned", "announced"} => config.planner
  /\ config.planner => \A i \in 1..newest : loops[i].svp \/ (i = newest /\ callback = "made")
  /\ callback = "made" => ~loops[newest].svp
  /\ callback \in {"made", "planned"} /\ newest \notin early => loops[newest].at = "off"

\* A loop that is ready has its layout, or is being given it.
LaidOut == \A i \in Loops : loops[i].svp /\ loops[i].ready /\ ~loops[i].layout
             => Lays(i) \/ (i = newest /\ callback = "planned")
Agents  == \A i \in Loops \ early : loops[i].at = "agents" /\ loops[i].svp => loops[i].ready
Cached  == cachedIn # 0 => loops[cachedIn].cache # "none"

\* While main waits, and when it is done, what was made after the loop it stops
\* does not get past the test at the top of a cycle.
Over ==
  /\ shutdown \in {"waits", "done"} => \A i \in Loops : i > target => loops[i].at \in {"off", "top", "gone"}
  /\ shutdown = "done" => \A i \in Loops : i = target => loops[i].at \in {"off", "top", "gone"}

\* The parts of DecisionsInOrder.
Knows      == \A i \in Loops \ swapped : loops[i].trigger => loops[i].cache # "none"
NoCrash    == shutdown = "crashed" => early # {} \/ ~config.planner

IInv == /\ Types /\ Unmade /\ Calling /\ SetUp /\ LaidOut /\ Agents /\ Cached /\ Over /\ Knows /\ NoCrash

----------------------------------------------------------------------------
(* What the steps do to the loops.                                          *)

Ats == {"off", "top", "wait", "gate", "retry", "agents", "model", "gone"}

\* The fields that matter here.
SameBut(n)  == \A i \in Loops : i # n => loops'[i] = loops[i]
SameCache(n)   == loops'[n].cache = loops[n].cache
SameTrigger(n) == loops'[n].trigger = loops[n].trigger
SameAt(n)      == loops'[n].at = loops[n].at
SameSVP(n)     == loops'[n].svp = loops[n].svp
SameReady(n)   == loops'[n].ready = loops[n].ready
SameLayout(n)  == loops'[n].layout = loops[n].layout
SameWork(n)    == SameCache(n) /\ SameTrigger(n) /\ SameAt(n)
SamePlan(n)    == SameSVP(n) /\ SameReady(n) /\ SameLayout(n)

\* A loop that moves is elsewhere, and has what it had.
Moved(n, to) == /\ LoopTypes' /\ SameBut(n) /\ loops'[n].at = to
                /\ SameCache(n) /\ SameTrigger(n) /\ SamePlan(n)

\* The numbers of the loops and of the goroutines.
LEMMA Ranges ==
  ASSUME Numbers
  PROVE  /\ MaxLoops \in Nat /\ config.states \in 0..MaxLoops /\ config.updates \in Nat /\ newest \in Nat /\ newest <= MaxLoops
         /\ Loops = 1..MaxLoops /\ (newest > 0 => newest \in Loops)
         /\ cachedIn \in Nat /\ (cachedIn > 0 => cachedIn \in Loops)
         /\ Message \in Callers /\ Entity \in Callers /\ Loops \subseteq Callers
         /\ Message \notin Loops /\ Entity \notin Loops /\ Message # Entity
<1>1. config.states \in 0..MaxLoops /\ config.updates \in Nat /\ MaxLoops \in Nat
  BY ConfigsAssumption, BoundsAssumption DEF Numbers
<1> QED BY <1>1 DEF Numbers, Loops, Callers, Message, Entity

\* A goroutine that is not free surveys a loop.
LEMMA Surveying ==
  ASSUME SurveyTypes, NEW c \in Callers
  PROVE  /\ Free(c) <=> survey[c] = NoCall
         /\ ~Free(c) => survey[c].loop \in Loops /\ survey[c].at \in {"test", "measure", "lay"}
         /\ survey[c] = NoCall <=> survey[c].at = "none"
<1>1. survey[c] \in {NoCall} \cup [at : {"test", "measure", "lay"}, loop : Loops] BY DEF SurveyTypes, Surveys
<1> QED BY <1>1 DEF Free, NoCall

\* Only the place of a loop is changed.
LEMMA AtChange ==
  ASSUME LoopTypes, NEW n \in Loops, NEW to \in Ats, loops' = [loops EXCEPT ![n].at = to]
  PROVE  Moved(n, to)
<1>1. loops[n] \in LoopType BY DEF LoopTypes
<1>2. loops' = [loops EXCEPT ![n] = [loops[n] EXCEPT !.at = to]] BY DEF LoopTypes
<1> DEFINE r == [loops[n] EXCEPT !.at = to]
<1>3. /\ r \in LoopType /\ r.at = to /\ r.cache = loops[n].cache /\ r.trigger = loops[n].trigger
      /\ r.svp = loops[n].svp /\ r.ready = loops[n].ready /\ r.layout = loops[n].layout
  BY <1>1 DEF LoopType, Ats
<1> HIDE DEF r
<1>4. loops' = [loops EXCEPT ![n] = r] BY <1>2 DEF r
<1>5. loops' \in [Loops -> LoopType] /\ loops'[n] = r /\ SameBut(n) BY <1>3, <1>4 DEF LoopTypes, SameBut
<1> QED BY <1>3, <1>5 DEF Moved, LoopTypes, SameCache, SameTrigger, SamePlan, SameSVP, SameReady, SameLayout

\* A loop that wakes moves, and its trigger may be spent.
LEMMA WakeDoes ==
  ASSUME LoopTypes, NEW n \in Loops, NEW next \in {"top", "gate"}, Wake(n, next)
  PROVE  /\ LoopTypes' /\ SameBut(n) /\ loops'[n].at = next
         /\ SameCache(n) /\ SamePlan(n) /\ (loops'[n].trigger => loops[n].trigger)
<1>1. loops[n] \in LoopType BY DEF LoopTypes
<1>2. CASE loops' = [loops EXCEPT ![n].at = next]
  BY <1>2, AtChange DEF Moved, SameTrigger, Ats
<1>3. CASE loops' = [loops EXCEPT ![n].trigger = FALSE, ![n].at = next]
  <2> DEFINE r == [loops[n] EXCEPT !.trigger = FALSE, !.at = next]
  <2>1. loops' = [loops EXCEPT ![n] = r] BY <1>3 DEF LoopTypes
  <2>2. /\ r \in LoopType /\ r.at = next /\ r.cache = loops[n].cache /\ r.trigger = FALSE
        /\ r.svp = loops[n].svp /\ r.ready = loops[n].ready /\ r.layout = loops[n].layout
    BY <1>1 DEF LoopType
  <2> HIDE DEF r
  <2>3. loops' \in [Loops -> LoopType] /\ loops'[n] = r /\ SameBut(n) BY <2>1, <2>2 DEF LoopTypes, SameBut
  <2> QED BY <2>2, <2>3 DEF LoopTypes, SameCache, SamePlan, SameSVP, SameReady, SameLayout
<1> QED BY <1>2, <1>3 DEF Wake

\* The planner is set, with the layout that is on disk.
LEMMA SetSVPDoes ==
  ASSUME LoopTypes, Numbers, SetSVP
  PROVE  /\ newest \in Loops /\ LoopTypes' /\ SameBut(newest) /\ SameWork(newest)
         /\ loops'[newest].svp = TRUE /\ loops'[newest].ready = saved /\ SameLayout(newest)
<1>0. newest \in Loops /\ saved \in BOOLEAN BY Ranges DEF SetSVP, Numbers, Setup
<1>1. loops[newest] \in LoopType BY <1>0 DEF LoopTypes
<1> DEFINE r == [loops[newest] EXCEPT !.svp = TRUE, !.ready = saved]
<1>2. loops' = [loops EXCEPT ![newest] = r] BY <1>0 DEF SetSVP, LoopTypes
<1>3. /\ r \in LoopType /\ r.at = loops[newest].at /\ r.cache = loops[newest].cache
      /\ r.trigger = loops[newest].trigger /\ r.svp = TRUE /\ r.ready = saved /\ r.layout = loops[newest].layout
  BY <1>0, <1>1 DEF LoopType
<1> HIDE DEF r
<1>4. loops' \in [Loops -> LoopType] /\ loops'[newest] = r /\ SameBut(newest)
  BY <1>0, <1>2, <1>3 DEF LoopTypes, SameBut
<1> QED BY <1>0, <1>3, <1>4 DEF LoopTypes, SameWork, SameCache, SameTrigger, SameAt, SameLayout

\* The topology has come: what the planner has loaded is the layout.
LEMMA AnnounceDoes ==
  ASSUME LoopTypes, Numbers, Announce
  PROVE  /\ newest \in Loops /\ LoopTypes' /\ SameBut(newest) /\ SameWork(newest)
         /\ SameSVP(newest) /\ SameReady(newest)
         /\ loops'[newest].layout = (loops[newest].layout \/ loops[newest].ready)
<1>0. newest \in Loops BY Ranges DEF Announce, Numbers, Setup
<1>1. loops[newest] \in LoopType BY <1>0 DEF LoopTypes
<1> DEFINE had == loops[newest].layout \/ loops[newest].ready
           r == [loops[newest] EXCEPT !.topology = TRUE, !.layout = had]
<1>2. loops' = [loops EXCEPT ![newest] = r] BY <1>0 DEF Announce, LoopTypes
<1>a. had \in BOOLEAN OBVIOUS
<1> HIDE DEF had
<1>3. /\ r \in LoopType /\ r.at = loops[newest].at /\ r.cache = loops[newest].cache
      /\ r.trigger = loops[newest].trigger /\ r.svp = loops[newest].svp /\ r.ready = loops[newest].ready
      /\ r.layout = had
  BY <1>0, <1>1, <1>a DEF LoopType
<1> HIDE DEF r
<1>4. loops' \in [Loops -> LoopType] /\ loops'[newest] = r /\ SameBut(newest)
  BY <1>0, <1>2, <1>3 DEF LoopTypes, SameBut
<1> QED BY <1>0, <1>3, <1>4 DEF had, LoopTypes, SameWork, SameCache, SameTrigger, SameAt, SameSVP, SameReady

\* The measurement makes a loop ready, the layout comes after it.
LEMMA SurveyDoes ==
  ASSUME LoopTypes, SurveyTypes, NEW c \in Callers, NEW n, n = survey[c].loop
  PROVE  /\ Measure(c) => /\ n \in Loops /\ LoopTypes' /\ SameBut(n) /\ SameWork(n)
                          /\ SameSVP(n) /\ loops'[n].ready = TRUE /\ SameLayout(n)
         /\ LayOut(c) => /\ n \in Loops /\ LoopTypes' /\ SameBut(n) /\ SameWork(n)
                         /\ SameSVP(n) /\ SameReady(n) /\ loops'[n].layout = TRUE
<1>1. ASSUME Measure(c)
      PROVE  /\ n \in Loops /\ LoopTypes' /\ SameBut(n) /\ SameWork(n)
             /\ SameSVP(n) /\ loops'[n].ready = TRUE /\ SameLayout(n)
  <2>0. n \in Loops BY <1>1, Surveying DEF Measure, Free
  <2>1. loops[n] \in LoopType BY <2>0 DEF LoopTypes
  <2> DEFINE r == [loops[n] EXCEPT !.ready = TRUE]
  <2>2. loops' = [loops EXCEPT ![n] = r] BY <1>1, <2>0 DEF Measure, LoopTypes
  <2>3. /\ r \in LoopType /\ r.at = loops[n].at /\ r.cache = loops[n].cache
        /\ r.trigger = loops[n].trigger /\ r.svp = loops[n].svp /\ r.ready = TRUE /\ r.layout = loops[n].layout
    BY <2>1 DEF LoopType
  <2> HIDE DEF r
  <2>4. loops' \in [Loops -> LoopType] /\ loops'[n] = r /\ SameBut(n)
    BY <2>0, <2>2, <2>3 DEF LoopTypes, SameBut
  <2> QED BY <2>0, <2>3, <2>4 DEF LoopTypes, SameWork, SameCache, SameTrigger, SameAt, SameLayout, SameSVP
<1>2. ASSUME LayOut(c)
      PROVE  /\ n \in Loops /\ LoopTypes' /\ SameBut(n) /\ SameWork(n)
             /\ SameSVP(n) /\ SameReady(n) /\ loops'[n].layout = TRUE
  <2>0. n \in Loops BY <1>2, Surveying DEF LayOut, Free
  <2>1. loops[n] \in LoopType BY <2>0 DEF LoopTypes
  <2> DEFINE r == [loops[n] EXCEPT !.layout = TRUE]
  <2>2. loops' = [loops EXCEPT ![n] = r] BY <1>2, <2>0 DEF LayOut, LoopTypes
  <2>3. /\ r \in LoopType /\ r.at = loops[n].at /\ r.cache = loops[n].cache
        /\ r.trigger = loops[n].trigger /\ r.svp = loops[n].svp /\ r.ready = loops[n].ready /\ r.layout = TRUE
    BY <2>1 DEF LoopType
  <2> HIDE DEF r
  <2>4. loops' \in [Loops -> LoopType] /\ loops'[n] = r /\ SameBut(n)
    BY <2>0, <2>2, <2>3 DEF LoopTypes, SameBut
  <2> QED BY <2>0, <2>3, <2>4 DEF LoopTypes, SameWork, SameCache, SameTrigger, SameAt, SameReady, SameSVP
<1> QED BY <1>1, <1>2

\* Entities are cached in the newest loop, or nowhere.
LEMMA UpdateDoes ==
  ASSUME LoopTypes, Numbers, NEW kind \in {"others", "dwarves"}, UpdateEntities(kind)
  PROVE  /\ LoopTypes' /\ (newest = 0 => loops' = loops)
         /\ newest > 0 => /\ newest \in Loops /\ SameBut(newest) /\ SamePlan(newest) /\ loops'[newest].cache = kind
                          /\ SameAt(newest) /\ SameTrigger(newest)
<1>1. CASE newest = 0 BY <1>1 DEF UpdateEntities, LoopTypes
<1>2. CASE newest > 0
  <2>0. newest \in Loops BY <1>2, Ranges
  <2>1. loops[newest] \in LoopType BY <2>0 DEF LoopTypes
  <2> DEFINE r == [loops[newest] EXCEPT !.cache = kind]
  <2>2. loops' = [loops EXCEPT ![newest] = r] BY <1>2, <2>0, Ranges DEF UpdateEntities, LoopTypes
  <2>3. /\ r \in LoopType /\ r.at = loops[newest].at /\ r.cache = kind
        /\ r.trigger = loops[newest].trigger /\ r.svp = loops[newest].svp
        /\ r.ready = loops[newest].ready /\ r.layout = loops[newest].layout
    BY <2>1 DEF LoopType
  <2> HIDE DEF r
  <2>4. loops' \in [Loops -> LoopType] /\ loops'[newest] = r /\ SameBut(newest)
    BY <2>0, <2>2, <2>3 DEF LoopTypes, SameBut
  <2> QED BY <1>2, <2>0, <2>3, <2>4 DEF LoopTypes, SameTrigger, SameAt, SamePlan, SameSVP, SameReady, SameLayout
<1> QED BY <1>1, <1>2, Ranges

\* A loop is told of the entities, is triggered, or is stopped.
LEMMA ToldDoes ==
  ASSUME LoopTypes, Numbers
  PROVE  /\ OnEntitiesReceived \/ Stop =>
              /\ LoopTypes'
              /\ \A i \in Loops : SameWork(i) /\ SamePlan(i) /\ (i > newest => loops'[i] = loops[i])
         /\ TriggerImmediate => /\ newest \in Loops /\ LoopTypes' /\ SameBut(newest) /\ SameCache(newest)
                                /\ SameAt(newest) /\ SamePlan(newest)
<1>1. ASSUME loops' = loops
      PROVE  LoopTypes' /\ \A i \in Loops : SameWork(i) /\ SamePlan(i) /\ loops'[i] = loops[i]
  BY <1>1 DEF LoopTypes, SameWork, SameCache, SameTrigger, SameAt, SamePlan, SameSVP, SameReady, SameLayout
<1>2. ASSUME newest \in Loops, NEW r \in LoopType, loops' = [loops EXCEPT ![newest] = r]
      PROVE  loops' \in [Loops -> LoopType] /\ loops'[newest] = r /\ SameBut(newest)
  BY <1>2 DEF LoopTypes, SameBut
<1>3. ASSUME newest \in Loops, NEW r \in LoopType, loops' = [loops EXCEPT ![newest] = r],
             r.at = loops[newest].at, r.cache = loops[newest].cache, r.trigger = loops[newest].trigger,
             r.svp = loops[newest].svp, r.ready = loops[newest].ready, r.layout = loops[newest].layout
      PROVE  LoopTypes' /\ \A i \in Loops : SameWork(i) /\ SamePlan(i) /\ (i > newest => loops'[i] = loops[i])
  <2>1. loops' \in [Loops -> LoopType] /\ loops'[newest] = r /\ SameBut(newest) BY <1>2, <1>3
  <2>2. ASSUME NEW i \in Loops PROVE SameWork(i) /\ SamePlan(i) /\ (i > newest => loops'[i] = loops[i])
    <3>1. CASE i = newest
      BY <1>3, <2>1, <3>1, Ranges DEF SameWork, SameCache, SameTrigger, SameAt, SamePlan, SameSVP, SameReady, SameLayout
    <3>2. CASE i # newest
      BY <2>1, <3>2 DEF SameBut, SameWork, SameCache, SameTrigger, SameAt, SamePlan, SameSVP, SameReady, SameLayout
    <3> QED BY <3>1, <3>2
  <2> QED BY <2>1, <2>2 DEF LoopTypes
<1>4. ASSUME OnEntitiesReceived
      PROVE  LoopTypes' /\ \A i \in Loops : SameWork(i) /\ SamePlan(i) /\ (i > newest => loops'[i] = loops[i])
  <2>0. newest \in Loops BY <1>4, Ranges DEF OnEntitiesReceived, Numbers
  <2>1. loops[newest] \in LoopType BY <2>0 DEF LoopTypes
  <2> DEFINE r == [loops[newest] EXCEPT !.entities = TRUE]
  <2>2. /\ r \in LoopType /\ r.at = loops[newest].at /\ r.cache = loops[newest].cache
        /\ r.trigger = loops[newest].trigger /\ r.svp = loops[newest].svp
        /\ r.ready = loops[newest].ready /\ r.layout = loops[newest].layout
    BY <2>1 DEF LoopType
  <2>3. loops' = [loops EXCEPT ![newest] = r] \/ loops' = loops BY <1>4, <2>0 DEF OnEntitiesReceived, LoopTypes
  <2> HIDE DEF r
  <2> QED BY <1>1, <1>3, <2>0, <2>2, <2>3
<1>5. ASSUME Stop
      PROVE  LoopTypes' /\ \A i \in Loops : SameWork(i) /\ SamePlan(i) /\ (i > newest => loops'[i] = loops[i])
  <2>1. CASE newest = 0 BY <1>1, <1>5, <2>1 DEF Stop
  <2>2. CASE newest > 0
    <3>0. newest \in Loops BY <2>2, Ranges
    <3>1. loops[newest] \in LoopType BY <3>0 DEF LoopTypes
    <3> DEFINE r == [loops[newest] EXCEPT !.stopped = TRUE]
    <3>2. /\ r \in LoopType /\ r.at = loops[newest].at /\ r.cache = loops[newest].cache
          /\ r.trigger = loops[newest].trigger /\ r.svp = loops[newest].svp
          /\ r.ready = loops[newest].ready /\ r.layout = loops[newest].layout
      BY <3>1 DEF LoopType
    <3>3. loops' = [loops EXCEPT ![newest] = r] BY <1>5, <2>2, <3>0, Ranges DEF Stop, LoopTypes
    <3> HIDE DEF r
    <3> QED BY <1>3, <3>0, <3>2, <3>3
  <2> QED BY <2>1, <2>2, Ranges
<1>6. ASSUME TriggerImmediate
      PROVE  /\ newest \in Loops /\ LoopTypes' /\ SameBut(newest) /\ SameCache(newest)
             /\ SameAt(newest) /\ SamePlan(newest)
  <2>0. newest \in Loops BY <1>6, Ranges DEF TriggerImmediate, Numbers
  <2>1. loops[newest] \in LoopType BY <2>0 DEF LoopTypes
  <2> DEFINE r == [loops[newest] EXCEPT !.trigger = TRUE]
  <2>2. /\ r \in LoopType /\ r.at = loops[newest].at /\ r.cache = loops[newest].cache
        /\ r.svp = loops[newest].svp /\ r.ready = loops[newest].ready /\ r.layout = loops[newest].layout
    BY <2>1 DEF LoopType
  <2>3. loops' = [loops EXCEPT ![newest] = r] BY <1>6, <2>0 DEF TriggerImmediate, LoopTypes
  <2> HIDE DEF r
  <2>4. loops' \in [Loops -> LoopType] /\ loops'[newest] = r /\ SameBut(newest) BY <1>2, <2>0, <2>2, <2>3
  <2> QED BY <2>0, <2>2, <2>4 DEF LoopTypes, SameCache, SameAt, SamePlan, SameSVP, SameReady, SameLayout
<1> QED BY <1>4, <1>5, <1>6

\* What a loop does by itself.
Ran(i, from, to) ==
  /\ loops[i].at = from /\ Moved(i, to) /\ from \in Ats \ {"off", "gone"} /\ to \in Ats \ {"off"}
  /\ UNCHANGED <<config, newest, callback, starters, readerVars, saved, mainVars, early, answered>>
  /\ from = "top" /\ shutdown # "no" => to = "gone"
  /\ to = "agents" => (loops[i].svp => loops[i].ready)
  /\ from = "retry" => Free(i)
  /\ to # "retry" => survey' = survey
  /\ to = "retry" => /\ from = "gate" /\ loops[i].svp
                     /\ survey' = [survey EXCEPT ![i] = [at |-> "test", loop |-> i]]

\* Every step of run and runCycle is such a step, or ends the program.
LEMMA RunDoes ==
  ASSUME LoopTypes, NEW i \in Loops, Run(i)
  PROVE  NoPlanner(i) \/ \E from, to \in Ats : Ran(i, from, to)
<1>1. ASSUME NEW from \in Ats, NEW to \in Ats, Go(i, from, to)
      PROVE  /\ loops[i].at = from /\ Moved(i, to)
             /\ UNCHANGED <<config, newest, callback, starters, readerVars, saved, mainVars, early>>
  <2>1. loops' = [loops EXCEPT ![i].at = to] BY <1>1 DEF Go
  <2> QED BY <1>1, <2>1, AtChange DEF Go
<1>2. ASSUME NEW from \in Ats \ {"off", "gone", "retry"}, NEW to \in Ats \ {"off", "retry"}, Moves(i, from, to),
             from = "top" /\ shutdown # "no" => to = "gone",
             to = "agents" => (loops[i].svp => loops[i].ready)
      PROVE  Ran(i, from, to)
  BY <1>1, <1>2 DEF Moves, Ran
<1>3. CASE Top(i)
  <2>1. Ran(i, "top", IF shutdown # "no" \/ loops[i].stopped THEN "gone" ELSE "wait")
    BY <1>2, <1>3 DEF Top, Ats
  <2> QED BY <2>1 DEF Ats
<1>4. CASE TimerStopped(i)
  <2>1. Ran(i, "wait", "gone") BY <1>2, <1>4 DEF TimerStopped, Ats
  <2> QED BY <2>1 DEF Ats
<1>5. CASE Gate(i)
  <2>1. CASE Moves(i, "gate", "model")
    <3>1. Ran(i, "gate", "model") BY <1>2, <2>1 DEF Ats
    <3> QED BY <3>1 DEF Ats
  <2>2. CASE Moves(i, "gate", "agents") /\ (loops[i].svp => loops[i].ready)
    <3>1. Ran(i, "gate", "agents") BY <1>2, <2>2 DEF Ats
    <3> QED BY <3>1 DEF Ats
  <2>3. CASE /\ loops[i].svp /\ Go(i, "gate", "retry") /\ UNCHANGED answered
             /\ survey' = [survey EXCEPT ![i] = [at |-> "test", loop |-> i]]
    <3>1. Ran(i, "gate", "retry") BY <1>1, <2>3 DEF Ran, Ats
    <3> QED BY <3>1 DEF Ats
  <2> QED BY <1>5, <2>1, <2>2, <2>3 DEF Gate
<1>6. CASE Retry(i)
  <2>1. Ran(i, "retry", IF loops[i].ready THEN "agents" ELSE "top")
    BY <1>1, <1>6 DEF Retry, Moves, Ran, Ats
  <2> QED BY <2>1 DEF Ats
<1>7. CASE NoProposals(i)
  <2>1. Ran(i, "agents", "top") BY <1>2, <1>7 DEF NoProposals, Ats
  <2> QED BY <2>1 DEF Ats
<1>8. CASE Proposals(i)
  <2>1. Ran(i, "agents", "model") BY <1>2, <1>8 DEF Proposals, Ats
  <2> QED BY <2>1 DEF Ats
<1>9. CASE CycleEnds(i)
  <2>1. Ran(i, "model", "top") BY <1>2, <1>9 DEF CycleEnds, Ats
  <2> QED BY <2>1 DEF Ats
<1> QED BY <1>3, <1>4, <1>5, <1>6, <1>7, <1>8, <1>9 DEF Run

\* The start of the newest loop.
LEMMA StartDoes ==
  ASSUME LoopTypes, Numbers, StartNewest
  PROVE  /\ newest \in Loops
         /\ loops' = loops \/ (Moved(newest, "top") /\ loops[newest].at \in {"off", "gone"})
<1>1. newest \in Loops
  <2>1. newest > 0 BY Ranges DEF StartNewest, Numbers
  <2> QED BY <2>1, Ranges
<1> QED BY <1>1, AtChange DEF StartNewest, Ats

----------------------------------------------------------------------------
(* The types.                                                               *)

\* TypeOK, put together.
LEMMA TypesAre == Types => TypeOK
<1> SUFFICES ASSUME Types PROVE TypeOK OBVIOUS
<1>1. \A c \in Callers : survey[c] \in {NoCall} \cup [at : {"test", "measure", "lay"}, loop : Loops]
  BY DEF Types, SurveyTypes, Surveys
<1> QED BY <1>1 DEF Types, Numbers, LoopTypes, Setup, TypeOK

\* The callback keeps the numbers in their ranges.
LEMMA CallbackNumbers ==
  ASSUME Numbers, Callback \/ StartNewest
  PROVE  Numbers'
<1> USE Ranges DEF Numbers, Setup, readerVars, mainVars
<1>1. CASE FullState BY <1>1 DEF FullState
<1>2. CASE MakeLoop BY <1>2 DEF MakeLoop
<1>3. CASE NoProvider BY <1>3 DEF NoProvider
<1>4. CASE SetSVP BY <1>4 DEF SetSVP
<1>5. CASE Announce BY <1>5 DEF Announce
<1>6. CASE Schedule
  <2>1. callback \in Setup /\ starters < newest BY <1>6 DEF Schedule
  <2> QED BY <1>6, <2>1 DEF Schedule
<1>7. CASE StartNewest
  <2>1. newest \in Loops BY <1>7 DEF StartNewest
  <2> QED BY <1>7, <2>1 DEF StartNewest
<1> QED BY <1>1, <1>2, <1>3, <1>4, <1>5, <1>6, <1>7 DEF Callback

\* So do the goroutine of the updates and the shutdown.
LEMMA ReaderNumbers ==
  ASSUME Numbers, Reader \/ Stop \/ StopReturns
  PROVE  Numbers'
<1>0. config.updates \in Nat /\ newest \in Nat /\ (newest > 0 => newest \in Loops) BY Ranges
<1> USE <1>0 DEF Numbers, mainVars
<1>1. ASSUME NEW k \in {"others", "dwarves"}, UpdateEntities(k) PROVE Numbers'
  <2>1. updates' \in 0..config.updates /\ cachedIn' \in 0..newest /\ reader' \in {"told", "cached"}
        /\ (reader' = "cached" => newest > 0)
    BY <1>1 DEF UpdateEntities
  <2> QED BY <1>1, <2>1 DEF UpdateEntities
<1>2. CASE OnEntitiesReceived BY <1>2 DEF OnEntitiesReceived
<1>3. CASE FirstUpdate
  <2>1. cachedIn' \in 0..newest /\ first' \in BOOLEAN /\ reader' \in {"trigger", "idle"}
        /\ (reader' = "trigger" => newest > 0)
    <3>1. CASE first /\ newest > 0 BY <1>3, <3>1 DEF FirstUpdate
    <3>2. CASE ~(first /\ newest > 0) BY <1>3, <3>2 DEF FirstUpdate
    <3> QED BY <3>1, <3>2
  <2> QED BY <1>3, <2>1 DEF FirstUpdate
<1>4. CASE TriggerImmediate
  <2>1. newest \in Loops BY <1>4 DEF TriggerImmediate
  <2>2. swapped' \subseteq Loops BY <1>4, <2>1 DEF TriggerImmediate
  <2>3. cachedIn' \in 0..newest /\ fired' \in 0..newest /\ answered' \in BOOLEAN /\ reader' = "idle"
    <3>1. cachedIn' = 0 /\ fired' = newest BY <1>4 DEF TriggerImmediate
    <3>2. answered' \in BOOLEAN BY <1>4 DEF TriggerImmediate
    <3>3. reader' = "idle" BY <1>4 DEF TriggerImmediate
    <3> QED BY <1>0, <3>1, <3>2, <3>3
  <2>4. UNCHANGED <<config, newest, callback, starters, updates, first, survey, saved, mainVars, early>>
    BY <1>4 DEF TriggerImmediate
  <2> HIDE DEF Numbers
  <2> QED BY <2>2, <2>3, <2>4 DEF Numbers
<1>5. CASE Stop BY <1>5 DEF Stop, readerVars
<1>6. CASE StopReturns BY <1>6 DEF StopReturns, readerVars
<1> QED BY <1>1, <1>2, <1>3, <1>4, <1>5, <1>6 DEF Reader

\* So do the surveys and the loops.
LEMMA RestNumbers ==
  ASSUME Numbers, LoopTypes,
         (\E c \in Callers : TryAnalyze(c)) \/ (\E i \in Loops : NotConnected(i) \/ BeginCycle(i) \/ Run(i))
         \/ UNCHANGED orchestratorVars
  PROVE  Numbers'
<1> USE DEF Numbers, readerVars, mainVars
<1>1. ASSUME NEW c \in Callers, TryAnalyze(c) PROVE Numbers'
  <2>1. CASE Test(c) BY <2>1 DEF Test
  <2>2. CASE Measure(c) BY <2>2 DEF Measure
  <2>3. CASE LayOut(c)
    <3>1. saved' \in BOOLEAN BY <2>3 DEF LayOut
    <3> QED BY <2>3, <3>1 DEF LayOut
  <2> QED BY <1>1, <2>1, <2>2, <2>3 DEF TryAnalyze
<1>2. ASSUME NEW i \in Loops, NEW next \in {"top", "gate"}, Wake(i, next) PROVE Numbers'
  BY <1>2, BoundsAssumption DEF Wake
<1>3. ASSUME NEW i \in Loops, Run(i) PROVE Numbers'
  <2>1. CASE NoPlanner(i) BY <2>1 DEF NoPlanner
  <2>2. ASSUME NEW from \in Ats, NEW to \in Ats, Ran(i, from, to) PROVE Numbers' BY <2>2 DEF Ran
  <2> QED BY <1>3, <2>1, <2>2, RunDoes
<1>4. CASE UNCHANGED orchestratorVars BY <1>4 DEF orchestratorVars
<1> QED BY <1>1, <1>2, <1>3, <1>4 DEF NotConnected, BeginCycle

\* The loops keep their types.
LEMMA LoopTypesStep ==
  ASSUME Numbers, LoopTypes, SurveyTypes, [Next]_orchestratorVars
  PROVE  LoopTypes'
<1>1. ASSUME loops' = loops PROVE LoopTypes' BY <1>1 DEF LoopTypes
<1>2. CASE Callback \/ StartNewest
  BY <1>1, <1>2, SetSVPDoes, AnnounceDoes, StartDoes DEF Callback, FullState, MakeLoop, NoProvider, Schedule, Moved
<1>3. ASSUME NEW c \in Callers, TryAnalyze(c) PROVE LoopTypes'
  BY <1>1, <1>3, SurveyDoes DEF TryAnalyze, Test
<1>4. CASE Reader \/ Stop \/ StopReturns
  BY <1>1, <1>4, UpdateDoes, ToldDoes DEF Reader, FirstUpdate, StopReturns
<1>5. ASSUME NEW i \in Loops, NEW next \in {"top", "gate"}, Wake(i, next) PROVE LoopTypes' BY <1>5, WakeDoes
<1>6. ASSUME NEW i \in Loops, Run(i) PROVE LoopTypes'
  BY <1>1, <1>6, RunDoes DEF Ran, Moved, NoPlanner
<1>7. CASE UNCHANGED orchestratorVars BY <1>1, <1>7 DEF orchestratorVars
<1> QED BY <1>2, <1>3, <1>4, <1>5, <1>6, <1>7 DEF Next, NotConnected, BeginCycle

\* What a step does to the surveys: a caller begins one of a loop, or goes on
\* with its own.
LEMMA SurveySteps ==
  ASSUME Numbers, LoopTypes, SurveyTypes, [Next]_orchestratorVars
  PROVE  \/ survey' = survey
         \/ Announce /\ survey' = [survey EXCEPT ![Message] = [at |-> "test", loop |-> newest]]
         \/ /\ OnEntitiesReceived /\ loops[newest].svp
            /\ survey' = [survey EXCEPT ![Entity] = [at |-> "test", loop |-> newest]]
         \/ \E i \in Loops : Ran(i, "gate", "retry")
         \/ \E c \in Callers : Test(c) \/ Measure(c) \/ LayOut(c)
<1>1. CASE Callback \/ StartNewest
  BY <1>1 DEF Callback, FullState, MakeLoop, NoProvider, SetSVP, Announce, Schedule, StartNewest
<1>2. CASE Reader
  BY <1>2 DEF Reader, UpdateEntities, OnEntitiesReceived, FirstUpdate, TriggerImmediate
<1>3. CASE Stop \/ StopReturns \/ UNCHANGED orchestratorVars BY <1>3 DEF Stop, StopReturns, orchestratorVars
<1>4. ASSUME NEW i \in Loops, NotConnected(i) \/ BeginCycle(i) PROVE survey' = survey
  BY <1>4 DEF NotConnected, BeginCycle, Wake
<1>5. ASSUME NEW i \in Loops, Run(i) PROVE survey' = survey \/ Ran(i, "gate", "retry")
  <2>1. CASE NoPlanner(i) BY <2>1 DEF NoPlanner
  <2>2. ASSUME NEW from \in Ats, NEW to \in Ats, Ran(i, from, to) PROVE survey' = survey \/ Ran(i, "gate", "retry")
    <3>1. to # "retry" => survey' = survey BY <2>2 DEF Ran
    <3>2. to = "retry" => from = "gate" BY <2>2 DEF Ran
    <3> QED BY <2>2, <3>1, <3>2
  <2> QED BY <1>5, <2>1, <2>2, RunDoes
<1> QED BY <1>1, <1>2, <1>3, <1>4, <1>5 DEF Next, TryAnalyze

\* The surveys keep their types.
LEMMA SurveyTypesStep ==
  ASSUME Numbers, LoopTypes, SurveyTypes, [Next]_orchestratorVars
  PROVE  SurveyTypes'
<1>1. ASSUME NEW c \in Callers, NEW s \in Surveys, survey' = [survey EXCEPT ![c] = s] PROVE SurveyTypes'
  BY <1>1 DEF SurveyTypes
<1>2. ASSUME NEW i \in Loops, NEW at \in {"test", "measure", "lay"} PROVE [at |-> at, loop |-> i] \in Surveys
  BY <1>2 DEF Surveys
<1>3. NoCall \in Surveys BY DEF Surveys
<1>4. CASE survey' = survey BY <1>4 DEF SurveyTypes
<1>5. CASE Announce /\ survey' = [survey EXCEPT ![Message] = [at |-> "test", loop |-> newest]]
  BY <1>1, <1>2, <1>5, AnnounceDoes, Ranges
<1>6. CASE OnEntitiesReceived /\ survey' = [survey EXCEPT ![Entity] = [at |-> "test", loop |-> newest]]
  <2>1. newest \in Loops BY <1>6, Ranges DEF OnEntitiesReceived, Numbers
  <2> QED BY <1>1, <1>2, <1>6, <2>1, Ranges
<1>7. ASSUME NEW i \in Loops, Ran(i, "gate", "retry") PROVE SurveyTypes'
  <2>1. survey' = [survey EXCEPT ![i] = [at |-> "test", loop |-> i]] BY <1>7 DEF Ran
  <2> QED BY <1>1, <1>2, <2>1, Ranges
<1>8. ASSUME NEW c \in Callers, Test(c) \/ Measure(c) \/ LayOut(c) PROVE SurveyTypes'
  <2>1. survey[c] \in [at : {"test", "measure", "lay"}, loop : Loops]
    BY <1>8 DEF SurveyTypes, Surveys, NoCall, Test, Measure, LayOut
  <2>2. ASSUME NEW at \in {"test", "measure", "lay"} PROVE [survey[c] EXCEPT !.at = at] \in Surveys
    BY <2>1 DEF Surveys
  <2>3. CASE Test(c)
    <3>1. survey' = [survey EXCEPT ![c] = NoCall] \/ survey' = [survey EXCEPT ![c] = [survey[c] EXCEPT !.at = "measure"]]
      BY <2>3 DEF Test, SurveyTypes
    <3> QED BY <1>1, <1>3, <2>2, <3>1
  <2>4. CASE Measure(c)
    <3>1. survey' = [survey EXCEPT ![c] = [survey[c] EXCEPT !.at = "lay"]] BY <2>4 DEF Measure, SurveyTypes
    <3> QED BY <1>1, <2>2, <3>1
  <2>5. CASE LayOut(c) BY <1>1, <1>3, <2>5 DEF LayOut
  <2> QED BY <1>8, <2>3, <2>4, <2>5
<1> QED BY <1>4, <1>5, <1>6, <1>7, <1>8, SurveySteps

----------------------------------------------------------------------------
(* What lasts, and what has not been made.                                  *)

\* What a loop has it keeps: its planner, its layout, the entities it knows.
Grows(i) ==
  /\ loops[i].svp => loops'[i].svp
  /\ loops[i].ready => loops'[i].ready
  /\ loops[i].layout => loops'[i].layout
  /\ loops[i].cache # "none" => loops'[i].cache # "none"

\* Every step.
LEMMA GrowsStep ==
  ASSUME Types, SetUp, [Next]_orchestratorVars, NEW i \in Loops
  PROVE  Grows(i)
<1> USE DEF Types
<1>1. ASSUME loops'[i] = loops[i] PROVE Grows(i) BY <1>1 DEF Grows
<1>2. ASSUME SameCache(i), SamePlan(i) PROVE Grows(i)
  BY <1>2 DEF Grows, SameCache, SamePlan, SameSVP, SameReady, SameLayout
<1>3. ASSUME NEW n \in Loops, SameBut(n), n = i => Grows(i) PROVE Grows(i)
  BY <1>1, <1>3 DEF SameBut
<1>4. CASE Callback
  <2>1. CASE SetSVP
    <3>1. callback = "made" /\ ~loops[newest].svp BY <2>1 DEF SetSVP, SetUp
    <3>2. newest \in Loops /\ ~loops[newest].ready BY <2>1, <3>1, SetSVPDoes DEF SetUp
    <3> QED BY <1>3, <2>1, <3>1, <3>2, SetSVPDoes DEF Grows, SameWork, SameCache, SameLayout
  <2>2. CASE Announce
    BY <1>3, <2>2, AnnounceDoes DEF Grows, SameWork, SameCache, SameSVP, SameReady
  <2> QED BY <1>1, <1>4, <2>1, <2>2 DEF Callback, FullState, MakeLoop, NoProvider, Schedule
<1>5. CASE StartNewest BY <1>1, <1>2, <1>3, <1>5, StartDoes DEF Moved
<1>6. ASSUME NEW c \in Callers, TryAnalyze(c) PROVE Grows(i)
  <2>1. CASE Test(c) BY <1>1, <2>1 DEF Test
  <2>2. CASE Measure(c)
    BY <1>3, <2>2, SurveyDoes DEF Grows, SameWork, SameCache, SameSVP, SameLayout
  <2>3. CASE LayOut(c)
    BY <1>3, <2>3, SurveyDoes DEF Grows, SameWork, SameCache, SameSVP, SameReady
  <2> QED BY <1>6, <2>1, <2>2, <2>3 DEF TryAnalyze
<1>7. ASSUME NEW k \in {"others", "dwarves"}, UpdateEntities(k) PROVE Grows(i)
  <2>1. CASE newest = 0 BY <1>1, <1>7, <2>1, UpdateDoes
  <2>2. CASE newest > 0
    BY <1>3, <1>7, <2>2, UpdateDoes DEF Grows, SamePlan, SameSVP, SameReady, SameLayout
  <2> QED BY <2>1, <2>2, Ranges
<1>8. CASE OnEntitiesReceived \/ Stop BY <1>2, <1>8, ToldDoes DEF SameWork
<1>9. CASE TriggerImmediate BY <1>2, <1>3, <1>9, ToldDoes
<1>10. CASE FirstUpdate \/ StopReturns \/ UNCHANGED orchestratorVars
  BY <1>1, <1>10 DEF FirstUpdate, StopReturns, orchestratorVars
<1>11. ASSUME NEW j \in Loops, NEW next \in {"top", "gate"}, Wake(j, next) PROVE Grows(i)
  BY <1>2, <1>3, <1>11, WakeDoes
<1>12. ASSUME NEW j \in Loops, Run(j) PROVE Grows(i)
  <2>1. CASE NoPlanner(j) BY <1>1, <2>1 DEF NoPlanner
  <2>2. ASSUME NEW from \in Ats, NEW to \in Ats, Ran(j, from, to) PROVE Grows(i)
    BY <1>2, <1>3, <2>2 DEF Ran, Moved
  <2> QED BY <1>12, <2>1, <2>2, RunDoes
<1> QED BY <1>4, <1>5, <1>6, <1>7, <1>8, <1>9, <1>10, <1>11, <1>12 DEF Next, Reader, NotConnected, BeginCycle

\* A loop that is not made is at rest, and no goroutine works on it.
LEMMA MadeFirst ==
  ASSUME Types, Unmade, SetUp
  PROVE  /\ \A i \in Loops : loops[i].at # "off" \/ loops[i].svp \/ loops[i].trigger => i <= newest
         /\ \A c \in Callers : ~Free(c) => survey[c].loop \in Loops /\ survey[c].loop <= newest
<1>1. \A i \in Loops : i > newest => loops[i].at = "off" /\ ~loops[i].svp /\ ~loops[i].trigger
  BY DEF Unmade, NewLoop
<1>2. newest \in Nat /\ Loops = 1..MaxLoops /\ MaxLoops \in Nat BY Ranges DEF Types
<1>3. \A i \in Loops : loops[i].at # "off" \/ loops[i].svp \/ loops[i].trigger => i <= newest
  BY <1>1, <1>2
<1>4. ASSUME NEW c \in Callers, ~Free(c) PROVE survey[c].loop \in Loops /\ survey[c].loop <= newest
  <2>1. survey[c].loop \in Loops /\ loops[survey[c].loop].svp BY <1>4, Surveying DEF SetUp, Types
  <2> QED BY <1>3, <2>1
<1> QED BY <1>3, <1>4

\* Nothing is done to a loop before it is made.
LEMMA UnmadeStep ==
  ASSUME Types, Unmade, SetUp, [Next]_orchestratorVars
  PROVE  Unmade'
<1> USE DEF Types
<1>0. newest \in Nat /\ Loops = 1..MaxLoops /\ MaxLoops \in Nat /\ (newest > 0 => newest \in Loops) BY Ranges
<1>1. ASSUME loops' = loops, newest' = newest \/ newest' = newest + 1 PROVE Unmade' BY <1>0, <1>1 DEF Unmade
<1>2. ASSUME NEW n \in Loops, n <= newest, SameBut(n), newest' = newest PROVE Unmade'
  BY <1>0, <1>2 DEF Unmade, SameBut
<1>3. CASE Callback
  <2>1. CASE SetSVP
    <3>1. newest' = newest BY <2>1 DEF SetSVP
    <3> QED BY <1>0, <1>2, <2>1, <3>1, SetSVPDoes
  <2>2. CASE Announce
    <3>1. newest' = newest BY <2>2 DEF Announce
    <3> QED BY <1>0, <1>2, <2>2, <3>1, AnnounceDoes
  <2> QED BY <1>1, <1>3, <2>1, <2>2 DEF Callback, FullState, MakeLoop, NoProvider, Schedule
<1>4. CASE StartNewest
  <2>1. newest' = newest BY <1>4 DEF StartNewest
  <2> QED BY <1>0, <1>1, <1>2, <1>4, <2>1, StartDoes DEF Moved
<1>5. ASSUME NEW c \in Callers, TryAnalyze(c) PROVE Unmade'
  <2>1. CASE Test(c) BY <1>1, <2>1 DEF Test
  <2>2. ASSUME Measure(c) \/ LayOut(c) PROVE Unmade'
    <3>1. ~Free(c) /\ newest' = newest BY <2>2 DEF Measure, LayOut, Free
    <3> QED BY <1>2, <2>2, <3>1, MadeFirst, SurveyDoes
  <2> QED BY <1>5, <2>1, <2>2 DEF TryAnalyze
<1>6. CASE Reader \/ Stop
  <2>1. newest' = newest
    BY <1>6 DEF Reader, UpdateEntities, OnEntitiesReceived, FirstUpdate, TriggerImmediate, Stop
  <2>2. ASSUME NEW k \in {"others", "dwarves"}, UpdateEntities(k) PROVE Unmade'
    BY <1>0, <1>1, <1>2, <2>1, <2>2, UpdateDoes
  <2>3. CASE OnEntitiesReceived \/ Stop BY <2>1, <2>3, ToldDoes DEF Unmade
  <2>4. CASE TriggerImmediate BY <1>0, <1>2, <2>1, <2>4, ToldDoes
  <2>5. CASE FirstUpdate BY <1>1, <2>1, <2>5 DEF FirstUpdate
  <2> QED BY <1>6, <2>2, <2>3, <2>4, <2>5 DEF Reader
<1>7. CASE StopReturns \/ UNCHANGED orchestratorVars BY <1>1, <1>7 DEF StopReturns, orchestratorVars
<1>8. ASSUME NEW j \in Loops, NEW next \in {"top", "gate"}, Wake(j, next) PROVE Unmade'
  <2>1. j <= newest /\ newest' = newest BY <1>8, MadeFirst DEF Wake
  <2> QED BY <1>2, <1>8, <2>1, WakeDoes
<1>9. ASSUME NEW j \in Loops, Run(j) PROVE Unmade'
  <2>1. CASE NoPlanner(j) BY <1>1, <2>1 DEF NoPlanner
  <2>2. ASSUME NEW from \in Ats, NEW to \in Ats, Ran(j, from, to) PROVE Unmade'
    <3>1. j <= newest /\ newest' = newest BY <2>2, MadeFirst DEF Ran
    <3> QED BY <1>2, <2>2, <3>1 DEF Ran, Moved
  <2> QED BY <1>9, <2>1, <2>2, RunDoes
<1> QED BY <1>3, <1>4, <1>5, <1>6, <1>7, <1>8, <1>9 DEF Next, NotConnected, BeginCycle

----------------------------------------------------------------------------
(* The other parts of the invariant.                                        *)

\* Whose calls of tryAnalyzeSVP a step can begin or end.
LEMMA OthersKept ==
  ASSUME Types, NEW c \in Callers, Test(c) \/ Measure(c) \/ LayOut(c)
  PROVE  /\ ~Free(c) /\ \A d \in Callers : d # c => survey'[d] = survey[d]
         /\ UNCHANGED <<config, newest, callback, starters, readerVars, mainVars, early>>
         /\ \A i \in Loops : SameWork(i) /\ SameSVP(i)
<1> USE DEF Types
<1>1. ~Free(c) BY DEF Test, Measure, LayOut, Free
<1>2. \A d \in Callers : d # c => survey'[d] = survey[d]
  BY DEF Test, Measure, LayOut, SurveyTypes
<1>3. UNCHANGED <<config, newest, callback, starters, readerVars, mainVars, early>>
  BY DEF Test, Measure, LayOut
<1>4. ASSUME NEW i \in Loops PROVE SameWork(i) /\ SameSVP(i)
  <2>1. ASSUME loops'[i] = loops[i] PROVE SameWork(i) /\ SameSVP(i)
    BY <2>1 DEF SameWork, SameCache, SameTrigger, SameAt, SameSVP
  <2>2. CASE Test(c) BY <2>1, <2>2 DEF Test
  <2>3. CASE Measure(c) \/ LayOut(c) BY <2>1, <2>3, SurveyDoes DEF SameBut
  <2> QED BY <2>2, <2>3
<1> QED BY <1>1, <1>2, <1>3, <1>4

\* Where a loop goes from "retry", and who gets there.
LEMMA RetryKept ==
  ASSUME Types, [Next]_orchestratorVars, NEW i \in Loops
  PROVE  /\ loops'[i].at = "retry" \/ loops[i].at # "retry" \/ Free(i)
         /\ loops'[i].at = "retry" => loops[i].at = "retry" \/ Ran(i, "gate", "retry")
<1> USE DEF Types
<1> DEFINE P == /\ loops'[i].at = "retry" \/ loops[i].at # "retry" \/ Free(i)
                /\ loops'[i].at = "retry" => loops[i].at = "retry" \/ Ran(i, "gate", "retry")
<1>1. ASSUME SameAt(i) \/ loops'[i] = loops[i] PROVE P BY <1>1 DEF SameAt
<1>2. ASSUME NEW n \in Loops, SameBut(n), n = i => P PROVE P BY <1>1, <1>2 DEF SameBut
<1>3. CASE Callback
  <2>1. CASE SetSVP BY <1>1, <1>2, <2>1, SetSVPDoes DEF SameWork
  <2>2. CASE Announce BY <1>1, <1>2, <2>2, AnnounceDoes DEF SameWork
  <2> QED BY <1>1, <1>3, <2>1, <2>2 DEF Callback, FullState, MakeLoop, NoProvider, Schedule
<1>4. CASE StartNewest BY <1>1, <1>2, <1>4, StartDoes DEF Moved
<1>5. ASSUME NEW c \in Callers, TryAnalyze(c) PROVE P
  BY <1>1, <1>5, OthersKept DEF TryAnalyze, SameWork
<1>6. CASE Reader \/ Stop
  <2>1. ASSUME NEW k \in {"others", "dwarves"}, UpdateEntities(k) PROVE P
    <3>1. CASE newest = 0 BY <1>1, <2>1, <3>1, UpdateDoes
    <3>2. CASE newest > 0 BY <1>1, <1>2, <2>1, <3>2, UpdateDoes
    <3> QED BY <3>1, <3>2, Ranges
  <2>2. CASE OnEntitiesReceived \/ Stop BY <1>1, <2>2, ToldDoes DEF SameWork
  <2>3. CASE TriggerImmediate BY <1>1, <1>2, <2>3, ToldDoes
  <2>4. CASE FirstUpdate BY <1>1, <2>4 DEF FirstUpdate
  <2> QED BY <1>6, <2>1, <2>2, <2>3, <2>4 DEF Reader
<1>7. CASE StopReturns \/ UNCHANGED orchestratorVars BY <1>1, <1>7 DEF StopReturns, orchestratorVars
<1>8. ASSUME NEW j \in Loops, NEW next \in {"top", "gate"}, Wake(j, next) PROVE P
  <2>1. loops[j].at = "wait" BY <1>8 DEF Wake
  <2> QED BY <1>2, <1>8, <2>1, WakeDoes
<1>9. ASSUME NEW j \in Loops, Run(j) PROVE P
  <2>1. CASE NoPlanner(j) BY <1>1, <2>1 DEF NoPlanner
  <2>2. ASSUME NEW from \in Ats, NEW to \in Ats, Ran(j, from, to) PROVE P
    <3>1. /\ loops[j].at = from /\ loops'[j].at = to /\ SameBut(j)
          /\ (from = "retry" => Free(j)) /\ (to = "retry" => from = "gate")
      BY <2>2 DEF Ran, Moved
    <3> QED BY <1>2, <2>2, <3>1
  <2> QED BY <1>9, <2>1, <2>2, RunDoes
<1> QED BY <1>3, <1>4, <1>5, <1>6, <1>7, <1>8, <1>9 DEF Next, NotConnected, BeginCycle

\* What the callback and the goroutine of the updates do to where they are.
LEMMA PlacesKept ==
  ASSUME Types, [Next]_orchestratorVars
  PROVE  /\ callback' # callback => Callback
         /\ reader' # reader => Reader
         /\ ~(\E i \in Loops : Ran(i, "gate", "retry")) \/ (callback' = callback /\ reader' = reader)
<1> USE DEF Types
<1>1. ASSUME NEW i \in Loops, Run(i) PROVE callback' = callback /\ reader' = reader
  <2>1. CASE NoPlanner(i) BY <2>1 DEF NoPlanner, readerVars
  <2>2. ASSUME NEW from \in Ats, NEW to \in Ats, Ran(i, from, to) PROVE callback' = callback /\ reader' = reader
    BY <2>2 DEF Ran, readerVars
  <2> QED BY <1>1, <2>1, <2>2, RunDoes
<1>2. ASSUME NEW i \in Loops, NotConnected(i) \/ BeginCycle(i) PROVE callback' = callback /\ reader' = reader
  BY <1>2 DEF NotConnected, BeginCycle, Wake, readerVars
<1>3. ASSUME NEW c \in Callers, TryAnalyze(c) PROVE callback' = callback /\ reader' = reader
  BY <1>3, OthersKept DEF TryAnalyze, readerVars
<1>4. ASSUME StartNewest \/ Stop \/ StopReturns \/ UNCHANGED orchestratorVars
      PROVE  callback' = callback /\ reader' = reader
  BY <1>4 DEF StartNewest, Stop, StopReturns, orchestratorVars, readerVars
<1>5. ASSUME Callback PROVE reader' = reader
  BY <1>5 DEF Callback, FullState, MakeLoop, NoProvider, SetSVP, Announce, Schedule, readerVars
<1>6. ASSUME Reader PROVE callback' = callback
  BY <1>6 DEF Reader, UpdateEntities, OnEntitiesReceived, FirstUpdate, TriggerImmediate
<1>7. ASSUME NEW i \in Loops, Ran(i, "gate", "retry") PROVE callback' = callback /\ reader' = reader
  BY <1>7 DEF Ran, readerVars
<1> QED BY <1>1, <1>2, <1>3, <1>4, <1>5, <1>6, <1>7 DEF Next

\* tryAnalyzeSVP is called where it is called.
LEMMA CallingStep ==
  ASSUME Types, Calling, [Next]_orchestratorVars
  PROVE  Calling'
<1> USE DEF Types
<1>1. callback' # "announced" => Free(Message)'
  <2>1. CASE callback' = callback
    <3>1. callback = "announced" \/ Free(Message) BY DEF Calling
    <3>2. CASE Announce BY <3>2, <2>1 DEF Announce
    <3>3. ASSUME NEW c \in Callers, Test(c) \/ Measure(c) \/ LayOut(c), Free(Message) PROVE Free(Message)'
      BY <3>3, OthersKept, Ranges DEF Free
    <3>4. ASSUME NEW c \in Callers \ {Message}, NEW x, survey' = [survey EXCEPT ![c] = x], Free(Message)
          PROVE Free(Message)'
      BY <3>4, Ranges DEF Free, SurveyTypes
    <3>5. ASSUME survey' = survey, Free(Message) PROVE Free(Message)' BY <3>5 DEF Free
    <3> QED BY <2>1, <3>1, <3>2, <3>3, <3>4, <3>5, SurveySteps, Ranges DEF Ran
  <2>2. CASE Callback
    <3>1. CASE Schedule BY <3>1 DEF Schedule, Free
    <3>2. CASE Announce BY <3>2 DEF Announce
    <3> QED BY <2>2, <3>1, <3>2 DEF Callback, FullState, MakeLoop, NoProvider, SetSVP, Calling, Free
  <2> QED BY <2>1, <2>2, PlacesKept
<1>2. reader' # "told" => Free(Entity)'
  <2>1. CASE reader' = reader
    <3>1. reader = "told" \/ Free(Entity) BY DEF Calling
    <3>2. CASE OnEntitiesReceived BY <3>2, <2>1 DEF OnEntitiesReceived
    <3>3. ASSUME NEW c \in Callers, Test(c) \/ Measure(c) \/ LayOut(c), Free(Entity) PROVE Free(Entity)'
      BY <3>3, OthersKept, Ranges DEF Free
    <3>4. ASSUME NEW c \in Callers \ {Entity}, NEW x, survey' = [survey EXCEPT ![c] = x], Free(Entity)
          PROVE Free(Entity)'
      BY <3>4, Ranges DEF Free, SurveyTypes
    <3>5. ASSUME survey' = survey, Free(Entity) PROVE Free(Entity)' BY <3>5 DEF Free
    <3> QED BY <2>1, <3>1, <3>2, <3>3, <3>4, <3>5, SurveySteps, Ranges DEF Ran
  <2>2. CASE Reader
    <3>1. CASE FirstUpdate BY <3>1 DEF FirstUpdate, Free
    <3>2. CASE OnEntitiesReceived BY <3>2 DEF OnEntitiesReceived
    <3> QED BY <2>2, <3>1, <3>2 DEF Reader, UpdateEntities, TriggerImmediate, Calling, Free
  <2> QED BY <2>1, <2>2, PlacesKept
<1>3. ASSUME NEW i \in Loops, loops'[i].at # "retry" PROVE Free(i)'
  <2>1. Free(i) BY <1>3, RetryKept DEF Calling
  <2>2. ~Ran(i, "gate", "retry") BY <1>3 DEF Ran, Moved
  <2>3. ASSUME NEW c \in Callers, Test(c) \/ Measure(c) \/ LayOut(c) PROVE Free(i)'
    BY <2>1, <2>3, OthersKept, Ranges DEF Free
  <2>4. ASSUME NEW c \in Callers \ {i}, NEW x, survey' = [survey EXCEPT ![c] = x] PROVE Free(i)'
    BY <2>1, <2>4, Ranges DEF Free, SurveyTypes
  <2>5. ASSUME survey' = survey PROVE Free(i)' BY <2>1, <2>5 DEF Free
  <2>6. ASSUME NEW j \in Loops, Ran(j, "gate", "retry") PROVE Free(i)'
    BY <2>2, <2>4, <2>6, Ranges DEF Ran
  <2> QED BY <2>3, <2>4, <2>5, <2>6, SurveySteps, Ranges
<1> QED BY <1>1, <1>2, <1>3 DEF Calling

\* What changes nothing but where loops are, and what grows.
LEMMA Fixed ==
  ASSUME Types, [Next]_orchestratorVars
  PROVE  /\ config' = config /\ early \subseteq early' /\ swapped \subseteq swapped'
         /\ newest' = newest \/ MakeLoop
<1> USE DEF Types, readerVars, mainVars
<1>1. CASE Callback \/ StartNewest
  BY <1>1 DEF Callback, FullState, MakeLoop, NoProvider, SetSVP, Announce, Schedule, StartNewest
<1>2. CASE Reader
  BY <1>2 DEF Reader, UpdateEntities, OnEntitiesReceived, FirstUpdate, TriggerImmediate
<1>3. ASSUME NEW c \in Callers, TryAnalyze(c)
      PROVE  config' = config /\ early' = early /\ swapped' = swapped /\ newest' = newest
  BY <1>3, OthersKept DEF TryAnalyze
<1>4. ASSUME NEW i \in Loops, Run(i)
      PROVE  config' = config /\ early' = early /\ swapped' = swapped /\ newest' = newest
  <2>1. CASE NoPlanner(i) BY <2>1 DEF NoPlanner
  <2>2. ASSUME NEW from \in Ats, NEW to \in Ats, Ran(i, from, to)
        PROVE  config' = config /\ early' = early /\ swapped' = swapped /\ newest' = newest
    BY <2>2 DEF Ran
  <2> QED BY <1>4, <2>1, <2>2, RunDoes
<1>5. ASSUME NEW i \in Loops, NotConnected(i) \/ BeginCycle(i)
      PROVE  config' = config /\ early' = early /\ swapped' = swapped /\ newest' = newest
  BY <1>5 DEF NotConnected, BeginCycle, Wake
<1>6. CASE Stop \/ StopReturns \/ UNCHANGED orchestratorVars
  BY <1>6 DEF Stop, StopReturns, orchestratorVars
<1> QED BY <1>1, <1>2, <1>3, <1>4, <1>5, <1>6 DEF Next

\* Who gives a loop its planner, makes it ready, triggers or moves it.
NewPlan(i) ==
  /\ loops'[i].svp => loops[i].svp \/ (SetSVP /\ i = newest)
  /\ loops'[i].ready => \/ loops[i].ready \/ (SetSVP /\ i = newest)
                        \/ \E c \in Callers : Measure(c) /\ i = survey[c].loop
  /\ loops'[i].trigger => loops[i].trigger \/ (TriggerImmediate /\ i = newest)
  /\ \/ SameAt(i)
     \/ StartNewest /\ i = newest /\ loops[i].at \in {"off", "gone"} /\ loops'[i].at = "top"
     \/ \E next \in {"top", "gate"} : Wake(i, next) /\ loops'[i].at = next
     \/ \E from, to \in Ats : Ran(i, from, to)

\* Nobody else.
LEMMA NewPlanStep ==
  ASSUME Types, [Next]_orchestratorVars, NEW i \in Loops
  PROVE  NewPlan(i)
<1> USE DEF Types
<1> DEFINE P == NewPlan(i)
<1>0. ASSUME SameSVP(i), SameReady(i), SameTrigger(i), SameAt(i) PROVE P
  BY <1>0 DEF NewPlan, SameSVP, SameReady, SameTrigger
<1>1. ASSUME loops'[i] = loops[i] PROVE P BY <1>0, <1>1 DEF SameSVP, SameReady, SameTrigger, SameAt
<1>2. ASSUME NEW n \in Loops, SameBut(n), n = i => P PROVE P BY <1>1, <1>2 DEF SameBut
<1>3. CASE Callback
  <2>1. CASE SetSVP
    BY <1>2, <2>1, SetSVPDoes DEF NewPlan, SameWork, SameTrigger, SameAt
  <2>2. CASE Announce BY <1>0, <1>2, <2>2, AnnounceDoes DEF SameWork
  <2>3. CASE FullState \/ MakeLoop \/ NoProvider \/ Schedule
    <3>1. loops' = loops BY <2>3 DEF FullState, MakeLoop, NoProvider, Schedule
    <3> QED BY <1>1, <3>1
  <2> QED BY <1>3, <2>1, <2>2, <2>3 DEF Callback
<1>4. CASE StartNewest
  <2>1. CASE Moved(newest, "top") /\ loops[newest].at \in {"off", "gone"}
    <3>1. newest \in Loops /\ SameBut(newest) BY <1>4, <2>1, StartDoes DEF Moved
    <3>2. i = newest => P
      BY <1>4, <2>1 DEF NewPlan, Moved, SamePlan, SameSVP, SameReady, SameTrigger
    <3> QED BY <1>2, <3>1, <3>2
  <2> QED BY <1>1, <1>4, <2>1, StartDoes
<1>5. ASSUME NEW c \in Callers, TryAnalyze(c) PROVE P
  <2>1. SameAt(i) /\ SameTrigger(i) /\ SameSVP(i) BY <1>5, OthersKept DEF TryAnalyze, SameWork
  <2>2. CASE Test(c) BY <1>1, <2>2 DEF Test
  <2>3. CASE LayOut(c) BY <1>0, <1>2, <2>3, SurveyDoes DEF SameWork
  <2>4. CASE Measure(c)
    <3>1. survey[c].loop \in Loops /\ SameBut(survey[c].loop) BY <2>4, SurveyDoes
    <3>2. survey[c].loop = i => P
      BY <2>1, <2>4 DEF NewPlan, SameSVP, SameTrigger
    <3> QED BY <1>2, <3>1, <3>2
  <2> QED BY <1>5, <2>2, <2>3, <2>4 DEF TryAnalyze
<1>6. CASE Reader \/ Stop
  <2>1. ASSUME NEW k \in {"others", "dwarves"}, UpdateEntities(k) PROVE P
    <3>1. CASE newest = 0 BY <1>1, <2>1, <3>1, UpdateDoes
    <3>2. CASE newest > 0
      <4>1. newest \in Loops /\ SameBut(newest) BY <2>1, <3>2, UpdateDoes
      <4>2. newest = i => P BY <1>0, <2>1, <3>2, UpdateDoes DEF SamePlan
      <4> QED BY <1>2, <4>1, <4>2
    <3> QED BY <3>1, <3>2, Ranges
  <2>2. CASE OnEntitiesReceived \/ Stop BY <1>0, <2>2, ToldDoes DEF SameWork, SamePlan
  <2>3. CASE TriggerImmediate
    <3>1. newest \in Loops /\ SameBut(newest) BY <2>3, ToldDoes
    <3>2. newest = i => P BY <2>3, ToldDoes DEF NewPlan, SamePlan, SameSVP, SameReady
    <3> QED BY <1>2, <3>1, <3>2
  <2>4. CASE FirstUpdate BY <1>1, <2>4 DEF FirstUpdate
  <2> QED BY <1>6, <2>1, <2>2, <2>3, <2>4 DEF Reader
<1>7. CASE StopReturns \/ UNCHANGED orchestratorVars BY <1>1, <1>7 DEF StopReturns, orchestratorVars
<1>8. ASSUME NEW j \in Loops, NEW next \in {"top", "gate"}, Wake(j, next) PROVE P
  <2>1. SameBut(j) BY <1>8, WakeDoes
  <2>2. j = i => P BY <1>8, WakeDoes DEF NewPlan, SamePlan, SameSVP, SameReady
  <2> QED BY <1>2, <2>1, <2>2
<1>9. ASSUME NEW j \in Loops, Run(j) PROVE P
  <2>1. CASE NoPlanner(j) BY <1>1, <2>1 DEF NoPlanner
  <2>2. ASSUME NEW from \in Ats, NEW to \in Ats, Ran(j, from, to) PROVE P
    <3>1. SameBut(j) /\ SameTrigger(j) /\ SamePlan(j) BY <2>2 DEF Ran, Moved
    <3>2. j = i => P BY <2>2, <3>1 DEF NewPlan, SamePlan, SameSVP, SameReady, SameTrigger
    <3> QED BY <1>2, <3>1, <3>2
  <2> QED BY <1>9, <2>1, <2>2, RunDoes
<1> QED BY <1>3, <1>4, <1>5, <1>6, <1>7, <1>8, <1>9 DEF Next, NotConnected, BeginCycle

\* The planner that the callback gives the newest loop.
LEMMA PlannerGiven ==
  ASSUME Types, SetUp, callback \in {"planned", "announced"}
  PROVE  newest \in Loops /\ loops[newest].svp
<1>1. newest \in Loops /\ newest \in 1..newest BY Ranges DEF Types, Numbers, Setup
<1> QED BY <1>1 DEF SetUp

\* A loop that is surveyed has a planner.
LEMMA SurveyedStep ==
  ASSUME Types, SetUp, [Next]_orchestratorVars, NEW c \in Callers, ~Free(c)'
  PROVE  loops'[survey'[c].loop].svp
<1> USE DEF Types
<1>1. ASSUME ~Free(c), survey'[c].loop = survey[c].loop PROVE loops'[survey'[c].loop].svp
  <2>1. survey[c].loop \in Loops /\ loops[survey[c].loop].svp BY <1>1, Surveying DEF SetUp
  <2> QED BY <1>1, <2>1, GrowsStep DEF Grows
<1>2. ASSUME survey'[c] = survey[c] PROVE loops'[survey'[c].loop].svp BY <1>1, <1>2 DEF Free
<1>3. ASSUME NEW d \in Callers, NEW i \in Loops, loops[i].svp,
             survey' = [survey EXCEPT ![d] = [at |-> "test", loop |-> i]]
      PROVE  loops'[survey'[c].loop].svp
  <2>1. CASE c = d
    <3>1. survey'[c] = [at |-> "test", loop |-> i] BY <1>3, <2>1 DEF SurveyTypes
    <3>2. survey'[c].loop = i BY <3>1
    <3> QED BY <1>3, <3>2, GrowsStep DEF Grows
  <2>2. CASE c # d
    <3>1. survey'[c] = survey[c] BY <1>3, <2>2 DEF SurveyTypes
    <3> QED BY <1>2, <3>1
  <2> QED BY <2>1, <2>2
<1>4. CASE Announce /\ survey' = [survey EXCEPT ![Message] = [at |-> "test", loop |-> newest]]
  <2>1. newest \in Loops /\ loops[newest].svp BY <1>4, PlannerGiven DEF Announce
  <2> QED BY <1>3, <1>4, <2>1, Ranges
<1>5. CASE /\ OnEntitiesReceived /\ loops[newest].svp
           /\ survey' = [survey EXCEPT ![Entity] = [at |-> "test", loop |-> newest]]
  <2>1. newest \in Loops BY <1>5, Ranges DEF OnEntitiesReceived, Numbers
  <2> QED BY <1>3, <1>5, <2>1, Ranges
<1>6. ASSUME NEW i \in Loops, Ran(i, "gate", "retry") PROVE loops'[survey'[c].loop].svp
  BY <1>3, <1>6, Ranges DEF Ran
<1>7. ASSUME NEW d \in Callers, Test(d) \/ Measure(d) \/ LayOut(d) PROVE loops'[survey'[c].loop].svp
  <2>1. CASE c # d BY <1>2, <1>7, <2>1, OthersKept
  <2>2. CASE c = d
    <3>1. ~Free(c) /\ survey[c] \in [at : {"test", "measure", "lay"}, loop : Loops]
      BY <1>7, <2>2, OthersKept, Surveying DEF SurveyTypes, Surveys
    <3>2. survey'[c] = NoCall \/ survey'[c] = [survey[c] EXCEPT !.at = "measure"]
                              \/ survey'[c] = [survey[c] EXCEPT !.at = "lay"]
      BY <1>7, <2>2 DEF Test, Measure, LayOut, SurveyTypes
    <3>3. survey'[c] # NoCall BY DEF Free, NoCall
    <3>4. survey'[c].loop = survey[c].loop BY <3>1, <3>2, <3>3
    <3> QED BY <1>1, <3>1, <3>4
  <2> QED BY <2>1, <2>2
<1> QED BY <1>2, <1>4, <1>5, <1>6, <1>7, SurveySteps

\* A loop is set up before it is started, the early ones apart.
LEMMA SetUpStep ==
  ASSUME Types, Unmade, SetUp, [Next]_orchestratorVars
  PROVE  SetUp'
<1> USE DEF Types
<1>0. newest \in Nat /\ Loops = 1..MaxLoops /\ MaxLoops \in Nat /\ (newest > 0 => newest \in Loops) BY Ranges
<1>1. \A c \in Callers : (~Free(c))' => loops'[survey'[c].loop].svp BY SurveyedStep
<1>2. ASSUME NEW i \in Loops, loops'[i].ready PROVE loops'[i].svp
  <2>1. CASE loops[i].ready BY <2>1, GrowsStep DEF Grows, SetUp
  <2>2. CASE SetSVP /\ i = newest BY <2>2, SetSVPDoes
  <2>3. ASSUME NEW c \in Callers, Measure(c), i = survey[c].loop PROVE loops'[i].svp
    BY <2>3, OthersKept, GrowsStep DEF Grows, SetUp
  <2> QED BY <1>2, <2>1, <2>2, <2>3, NewPlanStep DEF NewPlan
<1>3. callback' \in {"planned", "announced"} => config'.planner
  <2>1. config' = config BY Fixed
  <2>2. callback' = callback \/ Callback BY PlacesKept
  <2>3. CASE Callback
    BY <2>1, <2>3 DEF Callback, FullState, MakeLoop, NoProvider, SetSVP, Announce, Schedule, SetUp
  <2> QED BY <2>1, <2>2, <2>3 DEF SetUp
<1>4. ASSUME config'.planner, NEW i \in 1..newest' PROVE loops'[i].svp \/ (i = newest' /\ callback' = "made")
  <2>1. config.planner BY <1>4, Fixed
  <2>2. CASE MakeLoop
    <3>1. newest' = newest + 1 /\ callback = "built" /\ callback' = "made" /\ loops' = loops BY <2>2 DEF MakeLoop
    <3>2. i = newest' \/ i \in 1..newest BY <1>0, <3>1
    <3> QED BY <2>1, <3>1, <3>2 DEF SetUp
  <2>3. CASE newest' = newest
    <3>1. i \in Loops /\ (loops[i].svp \/ (i = newest /\ callback = "made")) BY <1>0, <1>4, <2>1, <2>3, Ranges DEF SetUp
    <3>2. loops[i].svp => loops'[i].svp BY <3>1, GrowsStep DEF Grows
    <3>3. CASE i = newest /\ callback = "made"
      <4>1. CASE SetSVP BY <3>3, <4>1, SetSVPDoes
      <4>2. ASSUME Callback, ~SetSVP PROVE FALSE
        BY <2>1, <3>3, <4>2 DEF Callback, FullState, MakeLoop, NoProvider, Announce, Schedule
      <4> QED BY <2>3, <3>3, <4>1, <4>2, PlacesKept
    <3> QED BY <3>1, <3>2, <3>3
  <2> QED BY <2>2, <2>3, Fixed
<1>5. callback' = "made" => ~loops'[newest'].svp
  <2>1. CASE MakeLoop
    <3>1. newest' = newest + 1 /\ loops' = loops /\ newest' \in Loops
      BY <1>0, <2>1, Ranges DEF MakeLoop, Numbers
    <3> QED BY <1>0, <3>1 DEF Unmade, NewLoop
  <2>2. ASSUME newest' = newest, callback = "made", callback' = "made" PROVE ~loops'[newest'].svp
    <3>1. ~SetSVP /\ newest \in Loops BY <1>0, <2>2 DEF SetSVP, Numbers, Setup
    <3> QED BY <2>2, <3>1, NewPlanStep DEF NewPlan, SetUp
  <2>3. ASSUME callback # "made", ~MakeLoop PROVE callback' # "made"
    <3>1. CASE Callback
      BY <2>3, <3>1 DEF Callback, FullState, NoProvider, SetSVP, Announce, Schedule
    <3> QED BY <2>3, <3>1, PlacesKept
  <2> QED BY <2>1, <2>2, <2>3, Fixed
<1>6. callback' \in {"made", "planned"} /\ newest' \notin early' => loops'[newest'].at = "off"
  <2>1. CASE MakeLoop
    <3>1. newest' = newest + 1 /\ loops' = loops /\ newest' \in Loops
      BY <1>0, <2>1, Ranges DEF MakeLoop, Numbers
    <3> QED BY <1>0, <3>1 DEF Unmade, NewLoop
  <2>2. ASSUME callback \notin {"made", "planned"}, ~MakeLoop PROVE callback' \notin {"made", "planned"}
    <3>1. CASE Callback
      BY <2>2, <3>1 DEF Callback, FullState, NoProvider, SetSVP, Announce, Schedule
    <3> QED BY <2>2, <3>1, PlacesKept
  <2>3. ASSUME newest' = newest, callback \in {"made", "planned"}, newest \notin early' PROVE loops'[newest].at = "off"
    <3>1. newest \in Loops /\ loops[newest].at = "off"
      BY <1>0, <2>3, Fixed DEF Numbers, Setup, SetUp
    <3>2. ~StartNewest BY <2>3 DEF StartNewest
    <3>3. ~(\E next \in {"top", "gate"} : Wake(newest, next)) BY <3>1 DEF Wake
    <3>4. ~(\E from, to \in Ats : Ran(newest, from, to)) BY <3>1 DEF Ran
    <3> QED BY <3>1, <3>2, <3>3, <3>4, NewPlanStep DEF NewPlan, SameAt
  <2> QED BY <2>1, <2>2, <2>3, Fixed
<1> QED BY <1>1, <1>2, <1>3, <1>4, <1>5, <1>6 DEF SetUp

\* Whose variables a step changes.
LEMMA Owners ==
  ASSUME Types, [Next]_orchestratorVars
  PROVE  /\ Reader \/ UNCHANGED readerVars
         /\ \/ UNCHANGED <<shutdown, target>> \/ Stop \/ StopReturns
            \/ \E i \in Loops : NoPlanner(i)
<1> USE DEF Types
<1>1. CASE Callback \/ StartNewest
  BY <1>1 DEF Callback, FullState, MakeLoop, NoProvider, SetSVP, Announce, Schedule, StartNewest, mainVars
<1>2. ASSUME Reader PROVE UNCHANGED <<shutdown, target>>
  BY <1>2 DEF Reader, UpdateEntities, OnEntitiesReceived, FirstUpdate, TriggerImmediate, mainVars
<1>3. ASSUME NEW c \in Callers, TryAnalyze(c) PROVE UNCHANGED <<readerVars, shutdown, target>>
  BY <1>3, OthersKept DEF TryAnalyze, mainVars
<1>4. ASSUME NEW i \in Loops, Run(i)
      PROVE  UNCHANGED readerVars /\ (UNCHANGED <<shutdown, target>> \/ NoPlanner(i))
  <2>1. CASE NoPlanner(i) BY <2>1 DEF NoPlanner
  <2>2. ASSUME NEW from \in Ats, NEW to \in Ats, Ran(i, from, to)
        PROVE  UNCHANGED <<readerVars, shutdown, target>>
    BY <2>2 DEF Ran, mainVars
  <2> QED BY <1>4, <2>1, <2>2, RunDoes
<1>5. ASSUME NEW i \in Loops, NotConnected(i) \/ BeginCycle(i)
      PROVE  UNCHANGED <<readerVars, shutdown, target>>
  BY <1>5 DEF NotConnected, BeginCycle, Wake
<1>6. CASE Stop \/ StopReturns BY <1>6 DEF Stop, StopReturns
<1>7. CASE UNCHANGED orchestratorVars BY <1>7 DEF orchestratorVars, mainVars
<1> QED BY <1>1, <1>2, <1>3, <1>4, <1>5, <1>6, <1>7 DEF Next

\* A layout is being made for as long as it is missing.
LEMMA LaysKept ==
  ASSUME Types, Calling, [Next]_orchestratorVars, NEW i \in Loops, Lays(i), ~loops'[i].layout
  PROVE  Lays(i)'
<1> USE DEF Types
<1>1. PICK c \in Callers : survey[c] = [at |-> "lay", loop |-> i] BY DEF Lays
<1>2. survey[c].at = "lay" /\ survey[c].loop = i /\ ~Free(c) BY <1>1 DEF Free
<1>3. ASSUME survey'[c] = survey[c] PROVE Lays(i)' BY <1>1, <1>3 DEF Lays
<1>4. ASSUME NEW d \in Callers, Free(d), NEW s, survey' = [survey EXCEPT ![d] = s] PROVE Lays(i)'
  <2>1. d # c BY <1>2, <1>4
  <2>2. survey'[c] = survey[c] BY <1>4, <2>1 DEF SurveyTypes
  <2> QED BY <1>3, <2>2
<1>5. CASE Announce /\ survey' = [survey EXCEPT ![Message] = [at |-> "test", loop |-> newest]]
  <2>1. Free(Message) BY <1>5 DEF Announce, Calling
  <2> QED BY <1>4, <1>5, <2>1, Ranges
<1>6. CASE OnEntitiesReceived /\ survey' = [survey EXCEPT ![Entity] = [at |-> "test", loop |-> newest]]
  <2>1. Free(Entity) BY <1>6 DEF OnEntitiesReceived, Calling
  <2> QED BY <1>4, <1>6, <2>1, Ranges
<1>7. ASSUME NEW j \in Loops, Ran(j, "gate", "retry") PROVE Lays(i)'
  <2>1. loops[j].at = "gate" /\ survey' = [survey EXCEPT ![j] = [at |-> "test", loop |-> j]] BY <1>7 DEF Ran
  <2>2. Free(j) BY <2>1 DEF Calling
  <2> QED BY <1>4, <2>1, <2>2, Ranges
<1>8. ASSUME NEW d \in Callers, Test(d) \/ Measure(d) \/ LayOut(d) PROVE Lays(i)'
  <2>1. CASE d # c BY <1>3, <1>8, <2>1, OthersKept
  <2>2. CASE d = c
    <3>1. LayOut(c) BY <1>2, <1>8, <2>2 DEF Test, Measure
    <3>2. loops'[i].layout BY <1>2, <3>1, SurveyDoes
    <3> QED BY <3>2
  <2> QED BY <2>1, <2>2
<1> QED BY <1>3, <1>5, <1>6, <1>7, <1>8, SurveySteps

\* A loop that is ready has its layout, or is being given it.
LEMMA LaidOutStep ==
  ASSUME Types, Calling, SetUp, LaidOut, [Next]_orchestratorVars
  PROVE  LaidOut'
<1> USE DEF Types
<1> SUFFICES ASSUME NEW i \in Loops, loops'[i].svp, loops'[i].ready, ~loops'[i].layout
             PROVE  Lays(i)' \/ (i = newest' /\ callback' = "planned")
  BY DEF LaidOut
<1>1. CASE loops[i].ready
  <2>1. loops[i].svp /\ ~loops[i].layout BY <1>1, GrowsStep DEF Grows, SetUp
  <2>2. CASE Lays(i) BY <2>2, LaysKept
  <2>3. CASE i = newest /\ callback = "planned"
    <3>1. newest' = newest BY <2>3, Fixed DEF MakeLoop
    <3>2. ASSUME Announce PROVE FALSE
      <4>1. loops'[i].layout = (loops[i].layout \/ loops[i].ready) BY <2>3, <3>2, AnnounceDoes
      <4> QED BY <1>1, <4>1
    <3>3. ASSUME Callback PROVE Announce
      BY <2>3, <3>3 DEF Callback, FullState, MakeLoop, NoProvider, SetSVP, Schedule
    <3> QED BY <2>3, <3>1, <3>2, <3>3, PlacesKept
  <2> QED BY <1>1, <2>1, <2>2, <2>3 DEF LaidOut
<1>2. CASE SetSVP /\ i = newest BY <1>2 DEF SetSVP
<1>3. ASSUME NEW c \in Callers, Measure(c), i = survey[c].loop PROVE Lays(i)'
  <2>1. survey[c] \in [at : {"test", "measure", "lay"}, loop : Loops]
    BY <1>3 DEF SurveyTypes, Surveys, NoCall, Measure
  <2>2. survey'[c] = [survey[c] EXCEPT !.at = "lay"] BY <1>3 DEF Measure, SurveyTypes
  <2>3. survey'[c] = [at |-> "lay", loop |-> i] BY <1>3, <2>1, <2>2
  <2> QED BY <2>3 DEF Lays
<1> QED BY <1>1, <1>2, <1>3, NewPlanStep DEF NewPlan

\* Agents are run when the loop is ready.
LEMMA AgentsStep ==
  ASSUME Types, SetUp, Agents, [Next]_orchestratorVars
  PROVE  Agents'
<1> USE DEF Types
<1> SUFFICES ASSUME NEW i \in Loops, i \notin early', loops'[i].at = "agents", loops'[i].svp
             PROVE  loops'[i].ready
  BY DEF Agents
<1>1. i \notin early BY Fixed
<1>2. CASE SameAt(i)
  <2>1. loops[i].at = "agents" BY <1>2 DEF SameAt
  <2>2. CASE loops[i].svp
    <3>1. loops[i].ready BY <1>1, <2>1, <2>2 DEF Agents
    <3> QED BY <3>1, GrowsStep DEF Grows
  <2>3. CASE SetSVP /\ i = newest BY <1>1, <2>1, <2>3 DEF SetSVP, SetUp
  <2> QED BY <2>2, <2>3, NewPlanStep DEF NewPlan
<1>3. ASSUME NEW from \in Ats, NEW to \in Ats, Ran(i, from, to) PROVE loops'[i].ready
  <2>1. to = "agents" /\ SameSVP(i) /\ SameReady(i) BY <1>3 DEF Ran, Moved, SamePlan
  <2>2. loops[i].svp => loops[i].ready BY <1>3, <2>1 DEF Ran
  <2> QED BY <2>1, <2>2 DEF SameSVP, SameReady
<1> QED BY <1>2, <1>3, NewPlanStep DEF NewPlan

\* The loop that entities were cached in knows them.
LEMMA CachedStep ==
  ASSUME Types, SetUp, Cached, [Next]_orchestratorVars
  PROVE  Cached'
<1> USE DEF Types
<1>1. ASSUME cachedIn' = cachedIn PROVE Cached'
  <2>1. cachedIn # 0 => cachedIn \in Loops BY Ranges
  <2> QED BY <1>1, <2>1, GrowsStep DEF Cached, Grows
<1>2. ASSUME NEW k \in {"others", "dwarves"}, UpdateEntities(k) PROVE Cached'
  <2>1. cachedIn' = newest BY <1>2 DEF UpdateEntities
  <2>2. newest # 0 => loops'[newest].cache = k BY <1>2, UpdateDoes, Ranges
  <2> QED BY <2>1, <2>2 DEF Cached
<1>3. CASE FirstUpdate
  <2>1. cachedIn' = cachedIn \/ cachedIn' = 0 BY <1>3 DEF FirstUpdate
  <2> QED BY <1>1, <2>1 DEF Cached
<1>4. CASE TriggerImmediate BY <1>4 DEF TriggerImmediate, Cached
<1>5. CASE OnEntitiesReceived BY <1>1, <1>5 DEF OnEntitiesReceived
<1> QED BY <1>1, <1>2, <1>3, <1>4, <1>5, Owners DEF Reader, readerVars

\* A loop that is triggered knows the entities.
LEMMA KnowsStep ==
  ASSUME Types, SetUp, Cached, Knows, [Next]_orchestratorVars
  PROVE  Knows'
<1> USE DEF Types
<1> SUFFICES ASSUME NEW i \in Loops, i \notin swapped', loops'[i].trigger PROVE loops'[i].cache # "none"
  BY DEF Knows
<1>1. i \notin swapped BY Fixed
<1>2. CASE loops[i].trigger
  <2>1. loops[i].cache # "none" BY <1>1, <1>2 DEF Knows
  <2> QED BY <2>1, GrowsStep DEF Grows
<1>3. CASE TriggerImmediate /\ i = newest
  <2>1. newest = cachedIn BY <1>3 DEF TriggerImmediate
  <2>2. newest # 0 BY <1>3, Ranges DEF TriggerImmediate, Numbers
  <2>3. loops[i].cache # "none" BY <1>3, <2>1, <2>2 DEF Cached
  <2> QED BY <2>3, GrowsStep DEF Grows
<1> QED BY <1>2, <1>3, NewPlanStep DEF NewPlan

\* What the shutdown does not wait for does not begin a cycle.
LEMMA OverStep ==
  ASSUME Types, Unmade, Over, [Next]_orchestratorVars
  PROVE  Over'
<1> USE DEF Types
<1> DEFINE Idle == {"off", "top", "gone"}
<1>1. ASSUME UNCHANGED <<shutdown, target>> PROVE Over'
  <2>1. ASSUME NEW i \in Loops, shutdown # "no", loops[i].at \in Idle PROVE loops'[i].at \in Idle
    <3>1. CASE SameAt(i) BY <2>1, <3>1 DEF SameAt
    <3>2. CASE loops'[i].at = "top" BY <3>2
    <3>3. ~(\E next \in {"top", "gate"} : Wake(i, next)) BY <2>1 DEF Wake
    <3>4. ASSUME NEW from \in Ats, NEW to \in Ats, Ran(i, from, to) PROVE loops'[i].at \in Idle
      <4>1. from = "top" BY <2>1, <3>4 DEF Ran
      <4> QED BY <2>1, <3>4, <4>1 DEF Ran, Moved
    <3> QED BY <3>1, <3>2, <3>3, <3>4, NewPlanStep DEF NewPlan
  <2> QED BY <1>1, <2>1 DEF Over
<1>2. CASE Stop
  <2>1. ASSUME NEW i \in Loops, i > newest PROVE loops'[i].at = "off"
    <3>1. loops'[i] = loops[i] BY <1>2, <2>1, ToldDoes
    <3> QED BY <2>1, <3>1 DEF Unmade, NewLoop
  <2>2. target' = newest /\ (shutdown' = "done" => newest = 0) BY <1>2 DEF Stop
  <2>3. 0 \notin Loops BY DEF Loops
  <2> QED BY <2>1, <2>2, <2>3 DEF Over
<1>3. CASE StopReturns BY <1>3 DEF StopReturns, Over
<1>4. ASSUME NEW i \in Loops, NoPlanner(i) PROVE Over' BY <1>4 DEF NoPlanner, Over
<1> QED BY <1>1, <1>2, <1>3, <1>4, Owners

\* A planner is missing in a loop that was started before it had been set up.
LEMMA NoCrashStep ==
  ASSUME Types, Unmade, SetUp, NoCrash, [Next]_orchestratorVars
  PROVE  NoCrash'
<1> USE DEF Types
<1>1. ASSUME shutdown' = shutdown PROVE NoCrash' BY <1>1, Fixed DEF NoCrash
<1>2. CASE Stop \/ StopReturns BY <1>2 DEF Stop, StopReturns, NoCrash
<1>3. ASSUME NEW i \in Loops, NoPlanner(i), config.planner PROVE early # {}
  <2>1. loops[i].at = "agents" /\ ~loops[i].svp BY <1>3 DEF NoPlanner
  <2>2. i \in 1..newest
    <3>1. i <= newest BY <2>1, MadeFirst
    <3> QED BY <3>1, Ranges
  <2>3. i = newest /\ callback = "made" BY <1>3, <2>1, <2>2 DEF SetUp
  <2>4. newest \in early BY <2>1, <2>3 DEF SetUp
  <2> QED BY <2>4
<1>4. ASSUME NEW i \in Loops, NoPlanner(i) PROVE NoCrash'
  <2>1. config' = config /\ early' = early BY <1>4 DEF NoPlanner
  <2> QED BY <1>3, <1>4, <2>1 DEF NoCrash
<1> QED BY <1>1, <1>2, <1>4, Owners

----------------------------------------------------------------------------
(* The theorems.                                                            *)

\* The invariant of the program holds when it starts,
LEMMA InitIInv == Init => IInv
<1> SUFFICES ASSUME Init PROVE IInv OBVIOUS
<1>1. Loops = 1..MaxLoops /\ MaxLoops \in Nat /\ Message \notin Loops /\ Entity \notin Loops
  BY BoundsAssumption DEF Loops, Message, Entity
<1>2. Numbers
  <2>1. config.states \in 0..MaxLoops /\ config.updates \in Nat BY ConfigsAssumption DEF Init
  <2>2. 0 \in 0..config.states /\ 0 \in 0..config.updates /\ 0 \in 0..MaxTicks BY <2>1, BoundsAssumption
  <2>3. swapped \subseteq Loops /\ early \subseteq Loops BY DEF Init
  <2>4. config \in Configs /\ saved \in BOOLEAN /\ answered \in BOOLEAN /\ first \in BOOLEAN BY DEF Init
  <2> QED BY <2>2, <2>3, <2>4 DEF Init, Numbers, Setup
<1>3. \A i \in Loops : loops[i] = NewLoop BY DEF Init
<1>4. LoopTypes
  <2>1. NewLoop \in LoopType BY DEF NewLoop, LoopType
  <2> QED BY <2>1 DEF Init, LoopTypes
<1>5. SurveyTypes /\ \A c \in Callers : survey[c] = NoCall BY DEF Init, SurveyTypes, Surveys
<1>6. \A c \in Callers : Free(c) BY <1>5 DEF Free, NoCall
<1>7. Unmade BY <1>3 DEF Unmade
<1>8. Calling BY <1>6, Ranges, <1>2 DEF Calling
<1>9. \A i \in Loops : /\ ~loops[i].ready /\ ~loops[i].svp /\ ~loops[i].trigger /\ loops[i].at = "off"
  BY <1>3 DEF NewLoop
<1>10. SetUp
  <2>1. newest = 0 /\ callback = "idle" BY DEF Init
  <2>2. 1..newest = {} BY <2>1
  <2> QED BY <1>6, <1>9, <2>1, <2>2 DEF SetUp
<1>11. LaidOut /\ Agents /\ Knows BY <1>9 DEF LaidOut, Agents, Knows
<1>12. Cached /\ Over /\ NoCrash BY DEF Init, Cached, Over, NoCrash
<1> QED BY <1>2, <1>4, <1>5, <1>7, <1>8, <1>10, <1>11, <1>12 DEF IInv, Types

\* and every step keeps it,
LEMMA NextIInv == IInv /\ [Next]_orchestratorVars => IInv'
<1> SUFFICES ASSUME IInv, [Next]_orchestratorVars PROVE IInv' OBVIOUS
<1>0. Types /\ Unmade /\ Calling /\ SetUp /\ LaidOut /\ Agents /\ Cached /\ Over /\ Knows /\ NoCrash
  BY DEF IInv
<1>1. Numbers'
  BY <1>0, CallbackNumbers, ReaderNumbers, RestNumbers DEF Types, Next
<1>2. Types' BY <1>0, <1>1, LoopTypesStep, SurveyTypesStep DEF Types
<1>3. Unmade' /\ Calling' /\ SetUp' BY <1>0, UnmadeStep, CallingStep, SetUpStep
<1>4. LaidOut' /\ Agents' /\ Cached' BY <1>0, LaidOutStep, AgentsStep, CachedStep
<1>5. Over' /\ Knows' /\ NoCrash' BY <1>0, OverStep, KnowsStep, NoCrashStep
<1> QED BY <1>2, <1>3, <1>4, <1>5 DEF IInv

\* and it says what the loops promise.
LEMMA InvariantSays == IInv => TypeOK /\ DecisionsInOrder
<1> SUFFICES ASSUME IInv PROVE TypeOK /\ DecisionsInOrder OBVIOUS
<1>0. Types /\ SetUp /\ LaidOut /\ Agents /\ Over /\ Knows /\ NoCrash BY DEF IInv
<1>1. TypeOK BY <1>0, TypesAre
<1>2. \A i \in Loops \ swapped : loops[i].trigger => loops[i].cache # "none" BY <1>0 DEF Knows
<1>3. ASSUME NEW i \in Loops \ early, loops[i].at = "agents", loops[i].svp, ~loops[i].layout
      PROVE  loops[i].ready /\ \E c \in Callers : survey[c] = [at |-> "lay", loop |-> i]
  <2>1. loops[i].ready BY <1>0, <1>3 DEF Agents
  <2>2. ~(i = newest /\ callback = "planned") BY <1>0, <1>3 DEF SetUp
  <2>3. Lays(i) BY <1>0, <1>3, <2>1, <2>2 DEF LaidOut
  <2> QED BY <2>1, <2>3 DEF Lays
<1>4. shutdown = "crashed" => early # {} \/ ~config.planner BY <1>0 DEF NoCrash
<1>5. ASSUME shutdown = "done", NEW i \in Loops, InCycle(i) PROVE i < target
  <2>1. loops[i].at \in {"gate", "retry", "agents", "model"} BY <1>5 DEF InCycle
  <2>2. ~(i > target) /\ i # target BY <1>0, <1>5, <2>1 DEF Over
  <2>3. i \in Nat /\ target \in Nat BY <1>0, Ranges DEF Types, Numbers, Loops
  <2> QED BY <2>2, <2>3
<1> QED BY <1>1, <1>2, <1>3, <1>4, <1>5 DEF DecisionsInOrder

\* The loops of the older program keep their types, and a loop that is triggered
\* knows the entities, agents are run with a layout and the program does not
\* crash but for the loops that the code itself starts too early, and what
\* decides after the shutdown had been replaced.
THEOREM DecisionsAreInOrder == Spec => [](TypeOK /\ DecisionsInOrder)
<1>1. Spec => []IInv BY InitIInv, NextIInv, PTL DEF Spec
<1> QED BY <1>1, InvariantSays, PTL

----------------------------------------------------------------------------
(***************************************************************************)
(* SendQuery and the plugin's query queue, for any calls, any number of     *)
(* connections and any width of an id that leaves more ids than there are   *)
(* calls.                                                                   *)
(***************************************************************************)
Messages == [id : 1..MaxID, q : Calls]

\* The part of TypeOK about queues.
Queues == asked \in [Queries!Conns -> Seq(Messages)] /\ answers \in [Queries!Conns -> Seq(Messages)] /\ queue \in Seq(Messages)

\* What SendQuery has returned, and whether it has an id, follow from where it is.
CallStages ==
    \A q \in Calls :
        /\ pc[q] = "idle" => result[q] = "none" /\ id[q] = 0
        /\ pc[q] \in {"send", "wait"} => result[q] = "pending" /\ id[q] # 0
        /\ pc[q] \in {"forget", "returned"} => result[q] # "none"
        /\ q \in evaluated => pc[q] \notin {"idle", "send"}

\* How many ids ago an id was given out, going round after MaxID.
Age(i) == IF i <= nextID THEN nextID - i ELSE nextID - i + MaxID

\* Ids are given out in turn, so the calls that have one hold the latest ones.
Registered == {q \in Calls : id[q] # 0}
RecentIds  == \A q \in Registered : Age(id[q]) < Cardinality(Registered)
OwnIds     == \A q, o \in Registered : id[q] = id[o] => q = o

\* A query under way or queued carries the id of its call and has not been
\* evaluated, and there is one copy of it, on one connection or in the queue.
Waits(m) == id[m.q] = m.id /\ pc[m.q] \notin {"idle", "send"} /\ m.q \notin evaluated
AskedWait  == \A c \in Queries!Conns : \A i \in 1..Len(asked[c]) : Waits(asked[c][i])
QueuedWait == \A i \in 1..Len(queue) : Waits(queue[i])
AskedOnce  == \A c, d \in Queries!Conns : \A i \in 1..Len(asked[c]), j \in 1..Len(asked[d]) :
                 asked[c][i].q = asked[d][j].q => c = d /\ i = j
QueuedOnce == \A i, j \in 1..Len(queue) : queue[i].q = queue[j].q => i = j
AskedOrQueued == \A c \in Queries!Conns : \A i \in 1..Len(asked[c]), j \in 1..Len(queue) :
                    asked[c][i].q # queue[j].q
OneCopy == AskedWait /\ QueuedWait /\ AskedOnce /\ QueuedOnce /\ AskedOrQueued

\* An answer, under way or in a channel, is that of the call whose id it has.
OwnAnswers ==
    /\ \A c \in Queries!Conns : \A i \in 1..Len(answers[c]) :
          id[answers[c][i].q] = answers[c][i].id /\ answers[c][i].q \in evaluated
    /\ \A q \in Calls : chan[q] # "none" => chan[q] = q /\ q \in evaluated

QueryIInv == Queries!TypeOK /\ CallStages /\ RecentIds /\ OwnIds /\ OneCopy /\ OwnAnswers

----------------------------------------------------------------------------
\* An instance has its own copy of the operators on finite sets.
LEMMA SameSets ==
  ASSUME NEW S
  PROVE  (Queries!IsFiniteSet(S) <=> IsFiniteSet(S)) /\ Queries!Cardinality(S) = Cardinality(S)
<1>1. Queries!IsFiniteSet(S) <=> IsFiniteSet(S) BY DEF Queries!IsFiniteSet, IsFiniteSet
<1>2. Queries!Cardinality(S) = Cardinality(S) BY DEF Queries!Cardinality, Cardinality
<1> QED BY <1>1, <1>2

\* The constants as numbers.
LEMMA QueryNumbers ==
  ASSUME Queries!CallsAssumption
  PROVE  /\ MaxConns \in Nat /\ MaxID \in Nat /\ IsFiniteSet(Calls)
         /\ Cardinality(Calls) \in Nat /\ MaxID > Cardinality(Calls) /\ MaxID >= 1
<1>1. IsFiniteSet(Calls) /\ Queries!Cardinality(Calls) = Cardinality(Calls)
  BY SameSets DEF Queries!CallsAssumption
<1>2. Cardinality(Calls) \in Nat BY <1>1, FS_CardinalityType
<1> QED BY <1>1, <1>2 DEF Queries!CallsAssumption

\* A fresh channel, no call and an empty queue satisfy every part.
LEMMA QueryInit == ASSUME Queries!CallsAssumption, Queries!Init PROVE QueryIInv
<1> USE QueryNumbers DEF Queries!Init, Queries!Conns
<1>1. Queries!TypeOK BY SMT DEF Queries!TypeOK, Queries!InTable
<1>2. CallStages BY SMT DEF CallStages
<1>3. RecentIds /\ OwnIds BY SMT DEF RecentIds, OwnIds, Registered
<1>4. OneCopy BY SMT DEF OneCopy, AskedWait, QueuedWait, AskedOnce, QueuedOnce, AskedOrQueued
<1>5. OwnAnswers BY SMT DEF OwnAnswers
<1> QED BY <1>1, <1>2, <1>3, <1>4, <1>5 DEF QueryIInv

\* Queues are joined at the end and left at the front by whole queries.
LEMMA QueuesStep ==
  ASSUME Queries!CallsAssumption, Queries!TypeOK, CallStages, [Queries!Next]_(Queries!vars) PROVE Queues'
<1>0. Queues BY DEF Queries!TypeOK, Queues, Messages
<1> USE <1>0 DEF Queues, Queries!connVars, Queries!callVars, Queries!pluginVars
<1>1. ASSUME NEW q \in Calls, Queries!Send(q) PROVE Queues'
  <2>1. id[q] \in 1..MaxID BY <1>1, QueryNumbers DEF Queries!Send, CallStages, Queries!TypeOK
  <2>2. [id |-> id[q], q |-> q] \in Messages BY <2>1 DEF Messages
  <2>3. \A s \in Seq(Messages) : Append(s, [id |-> id[q], q |-> q]) \in Seq(Messages)
    BY <2>2, AppendProperties, Zenon
  <2> QED BY <1>1, <2>3 DEF Queries!Send
<1>2. ASSUME NEW c \in Queries!Conns, Queries!Receive(c) PROVE Queues'
  <2>1. Tail(answers[c]) \in Seq(Messages) BY <1>2, HeadTailProperties DEF Queries!Receive
  <2> QED BY <1>2, <2>1 DEF Queries!Receive
<1>3. CASE Queries!Disconnect
  <2>1. <<>> \in Seq(Messages) BY EmptySeq
  <2> QED BY <1>3, <2>1 DEF Queries!Disconnect
<1>4. CASE Queries!Enqueue
  <2>1. plugin \in Queries!Conns BY <1>4, QueryNumbers DEF Queries!Enqueue, Queries!TypeOK, Queries!Conns
  <2>2. Head(asked[plugin]) \in Messages /\ Tail(asked[plugin]) \in Seq(Messages)
    BY <1>4, <2>1, HeadTailProperties DEF Queries!Enqueue
  <2>3. Append(queue, Head(asked[plugin])) \in Seq(Messages) BY <2>2, AppendProperties
  <2> QED BY <1>4, <2>2, <2>3 DEF Queries!Enqueue
<1>5. CASE Queries!Evaluate
  <2>1. Head(queue) \in Messages /\ Tail(queue) \in Seq(Messages) BY <1>5, HeadTailProperties DEF Queries!Evaluate
  <2>2. \A s \in Seq(Messages) : Append(s, Head(queue)) \in Seq(Messages) BY <2>1, AppendProperties, Zenon
  <2> QED BY <1>5, <2>1, <2>2 DEF Queries!Evaluate
<1>6. ASSUME NEW q \in Calls,
             \/ Queries!NotConnected(q) \/ Queries!Register(q) \/ Queries!SendFails(q) \/ Queries!TakeAnswer(q) \/ Queries!TimeOut(q) \/ Queries!Forget(q)
      PROVE  Queues'
  BY <1>6 DEF Queries!NotConnected, Queries!Register, Queries!SendFails, Queries!TakeAnswer, Queries!TimeOut, Queries!Forget
<1>7. ASSUME NEW c \in Queries!Conns, Queries!ReadingEnds(c) \/ Queries!ServerCloses(c) \/ Queries!Connect(c) PROVE Queues'
  BY <1>7 DEF Queries!ReadingEnds, Queries!ServerCloses, Queries!Connect
<1>8. CASE UNCHANGED Queries!vars
  BY <1>8 DEF Queries!vars
<1> QED BY <1>1, <1>2, <1>3, <1>4, <1>5, <1>6, <1>7, <1>8 DEF Queries!Next, Queries!Query

\* The rest of TypeOK.
QueryScalars ==
    /\ current \in 0..MaxConns /\ usable \in [Queries!Conns -> BOOLEAN] /\ reading \in [Queries!Conns -> BOOLEAN]
    /\ nextID \in 0..MaxID /\ pending \subseteq Messages
    /\ pc \in [Calls -> {"idle", "send", "wait", "forget", "returned"}]
    /\ on \in [Calls -> 0..MaxConns] /\ id \in [Calls -> 0..MaxID]
    /\ chan \in [Calls -> Calls \cup {"none"}]
    /\ result \in [Calls -> Calls \cup {"none", "pending", "error"}]
    /\ plugin \in 0..MaxConns /\ evaluated \subseteq Calls

\* TypeOK is its three parts.
LEMMA QueryTypeParts == Queries!TypeOK <=> QueryScalars /\ Queues /\ Queries!InTable
BY DEF Queries!TypeOK, QueryScalars, Queues, Messages

\* Every step keeps the types of the rest.
LEMMA ScalarsStep ==
  ASSUME Queries!CallsAssumption, Queries!TypeOK, [Queries!Next]_(Queries!vars) PROVE QueryScalars'
<1>0. MaxConns \in Nat /\ MaxID \in Nat /\ MaxID >= 1 BY QueryNumbers
<1>00. QueryScalars /\ Queues BY QueryTypeParts
<1> USE <1>0, <1>00 DEF QueryScalars, Queues, Queries!Conns, Queries!connVars, Queries!callVars, Queries!pluginVars
<1>1. ASSUME NEW q \in Calls, Queries!NotConnected(q) PROVE QueryScalars'
  BY <1>1 DEF Queries!NotConnected
<1>2. ASSUME NEW q \in Calls, Queries!Register(q) PROVE QueryScalars'
  <2>1. nextID' \in 1..MaxID BY <1>2 DEF Queries!Register
  <2>2. pending' \subseteq Messages
    <3>1. [id |-> nextID', q |-> q] \in Messages BY <2>1 DEF Messages
    <3>2. pending' \subseteq pending \cup {[id |-> nextID', q |-> q]} BY <1>2 DEF Queries!Register
    <3> QED BY <3>1, <3>2
  <2>3. id' \in [Calls -> 0..MaxID] BY <1>2, <2>1 DEF Queries!Register
  <2>4. on' \in [Calls -> 0..MaxConns] BY <1>2 DEF Queries!Register
  <2>5. /\ pc' \in [Calls -> {"idle", "send", "wait", "forget", "returned"}]
        /\ result' \in [Calls -> Calls \cup {"none", "pending", "error"}]
    BY <1>2 DEF Queries!Register
  <2>6. UNCHANGED <<current, usable, reading, chan, plugin, evaluated>> BY <1>2 DEF Queries!Register
  <2> QED BY <2>1, <2>2, <2>3, <2>4, <2>5, <2>6
<1>3. ASSUME NEW q \in Calls, Queries!Send(q) PROVE QueryScalars'
  BY <1>3 DEF Queries!Send
<1>4. ASSUME NEW q \in Calls, Queries!SendFails(q) PROVE QueryScalars'
  BY <1>4 DEF Queries!SendFails
<1>5. ASSUME NEW q \in Calls, Queries!TakeAnswer(q) PROVE QueryScalars'
  BY <1>5 DEF Queries!TakeAnswer
<1>6. ASSUME NEW q \in Calls, Queries!TimeOut(q) PROVE QueryScalars'
  BY <1>6 DEF Queries!TimeOut
<1>7. ASSUME NEW q \in Calls, Queries!Forget(q) PROVE QueryScalars'
  BY <1>7 DEF Queries!Forget
<1>8. ASSUME NEW c \in Queries!Conns, Queries!Receive(c) PROVE QueryScalars'
  <2>1. Head(answers[c]) \in Messages BY <1>8, HeadTailProperties DEF Queries!Receive
  <2>2. chan' \in [Calls -> Calls \cup {"none"}] BY <1>8, <2>1 DEF Queries!Receive, Messages
  <2>3. pending' \subseteq pending BY <1>8 DEF Queries!Receive
  <2> QED BY <1>8, <2>2, <2>3 DEF Queries!Receive
<1>9. ASSUME NEW c \in Queries!Conns, Queries!ReadingEnds(c) \/ Queries!ServerCloses(c) \/ Queries!Connect(c) PROVE QueryScalars'
  <2>1. CASE Queries!ReadingEnds(c) BY <2>1 DEF Queries!ReadingEnds
  <2>2. CASE Queries!ServerCloses(c) BY <2>2 DEF Queries!ServerCloses
  <2>3. CASE Queries!Connect(c) BY <2>3 DEF Queries!Connect
  <2> QED BY <1>9, <2>1, <2>2, <2>3
<1>10. CASE Queries!Disconnect
  BY <1>10 DEF Queries!Disconnect
<1>11. CASE Queries!Enqueue
  BY <1>11 DEF Queries!Enqueue
<1>12. CASE Queries!Evaluate
  <2>0. queue \in Seq(Messages) /\ queue # <<>> BY <1>12 DEF Queries!Evaluate
  <2>00. Head(queue) \in Messages BY <2>0, HeadTailProperties
  <2>1. Head(queue).q \in Calls BY <2>00 DEF Messages
  <2> QED BY <1>12, <2>1 DEF Queries!Evaluate
<1>13. CASE UNCHANGED Queries!vars
  BY <1>13 DEF Queries!vars
<1> QED BY <1>1, <1>2, <1>3, <1>4, <1>5, <1>6, <1>7, <1>8, <1>9, <1>10, <1>11, <1>12, <1>13 DEF Queries!Next, Queries!Query

\* An entry of the table belongs to a call in progress, which finds it again by
\* its id: a reused id drops an older entry, and only its own call forgets one.
LEMMA TableStep ==
  ASSUME Queries!CallsAssumption, Queries!TypeOK, [Queries!Next]_(Queries!vars) PROVE Queries!InTable'
<1>0. QueryScalars /\ Queries!InTable BY QueryTypeParts
<1> USE <1>0 DEF QueryScalars, Messages, Queries!InTable, Queries!connVars, Queries!callVars, Queries!pluginVars
<1>1. ASSUME NEW q \in Calls, Queries!Register(q) PROVE Queries!InTable'
  <2> SUFFICES ASSUME NEW p \in pending', NEW o \in pending'
               PROVE id'[p.q] = p.id /\ pc'[p.q] \in {"send", "wait", "forget"} /\ (o.id = p.id => o = p)
    OBVIOUS
  <2>1. \A r \in pending : r.q # q BY <1>1 DEF Queries!Register
  <2>2. p \in pending \/ p = [id |-> nextID', q |-> q] BY <1>1 DEF Queries!Register
  <2>3. CASE p = [id |-> nextID', q |-> q] BY <1>1, <2>3 DEF Queries!Register
  <2>4. CASE p \in pending /\ p.id # nextID' BY <1>1, <2>1, <2>4 DEF Queries!Register
  <2> QED BY <1>1, <2>2, <2>3, <2>4 DEF Queries!Register
<1>2. ASSUME NEW q \in Calls, Queries!NotConnected(q) PROVE Queries!InTable'
  BY <1>2 DEF Queries!NotConnected
<1>3. ASSUME NEW q \in Calls, Queries!Send(q) \/ Queries!SendFails(q) \/ Queries!TakeAnswer(q) \/ Queries!TimeOut(q) PROVE Queries!InTable'
  <2>1. CASE Queries!Send(q) BY <2>1 DEF Queries!Send
  <2>2. CASE Queries!SendFails(q) BY <2>2 DEF Queries!SendFails
  <2>3. CASE Queries!TakeAnswer(q) BY <2>3 DEF Queries!TakeAnswer
  <2>4. CASE Queries!TimeOut(q) BY <2>4 DEF Queries!TimeOut
  <2> QED BY <1>3, <2>1, <2>2, <2>3, <2>4
<1>4. ASSUME NEW q \in Calls, Queries!Forget(q) PROVE Queries!InTable'
  BY <1>4 DEF Queries!Forget
<1>5. ASSUME NEW c \in Queries!Conns, Queries!Receive(c) PROVE Queries!InTable'
  <2>1. pending' \subseteq pending BY <1>5 DEF Queries!Receive
  <2> QED BY <1>5, <2>1 DEF Queries!Receive
<1>6. ASSUME NEW c \in Queries!Conns, Queries!ReadingEnds(c) \/ Queries!ServerCloses(c) \/ Queries!Connect(c) PROVE Queries!InTable'
  BY <1>6 DEF Queries!ReadingEnds, Queries!ServerCloses, Queries!Connect
<1>7. CASE Queries!Disconnect \/ Queries!Enqueue \/ Queries!Evaluate
  BY <1>7 DEF Queries!Disconnect, Queries!Enqueue, Queries!Evaluate
<1>8. CASE UNCHANGED Queries!vars
  BY <1>8 DEF Queries!vars
<1> QED BY <1>1, <1>2, <1>3, <1>4, <1>5, <1>6, <1>7, <1>8 DEF Queries!Next, Queries!Query

----------------------------------------------------------------------------
\* Ids are given out in turn and there are more of them than calls, so no two
\* calls ever have the same one.
LEMMA IdsStep ==
  ASSUME Queries!CallsAssumption, Queries!TypeOK, CallStages, RecentIds, OwnIds, [Queries!Next]_(Queries!vars) PROVE (RecentIds /\ OwnIds)'
<1>0. /\ MaxID \in Nat /\ IsFiniteSet(Calls) /\ Cardinality(Calls) \in Nat
      /\ MaxID > Cardinality(Calls) /\ MaxID >= 1
  BY QueryNumbers
<1>1. ASSUME NEW q \in Calls, Queries!Register(q) PROVE (RecentIds /\ OwnIds)'
  <2>1. /\ nextID \in 0..MaxID /\ nextID' = IF nextID = MaxID THEN 1 ELSE nextID + 1
        /\ id \in [Calls -> 0..MaxID] /\ id' = [id EXCEPT ![q] = nextID'] /\ id[q] = 0
    BY <1>1 DEF Queries!TypeOK, Queries!Register, CallStages
  <2>2. Registered' = Registered \cup {q} /\ q \notin Registered
    BY <1>0, <2>1 DEF Registered
  <2>3. IsFiniteSet(Registered) /\ Registered \subseteq Calls BY <1>0, FS_Subset DEF Registered
  <2>4. /\ Cardinality(Registered) \in Nat
        /\ Cardinality(Registered') = Cardinality(Registered) + 1
        /\ Cardinality(Registered') <= Cardinality(Calls)
    <3>1. Registered' \subseteq Calls BY DEF Registered
    <3>2. Cardinality(Registered') <= Cardinality(Calls) BY <1>0, <3>1, FS_Subset
    <3>3. Cardinality(Registered) \in Nat BY <2>3, FS_CardinalityType
    <3>4. Cardinality(Registered \cup {q}) = Cardinality(Registered) + 1 BY <2>2, <2>3, FS_AddElement
    <3> QED BY <2>2, <3>2, <3>3, <3>4
  <2>5. \A o \in Registered : Age(id[o]) < Cardinality(Registered) /\ id[o] \in 1..MaxID /\ id'[o] = id[o]
    BY <2>1, <2>2 DEF RecentIds, Registered
  <2>6. \A o \in Registered : id[o] # nextID' /\ Age(id[o])' <= Age(id[o]) + 1
    BY <1>0, <2>1, <2>4, <2>5 DEF Age
  <2>7. Age(id[q])' = 0 /\ id'[q] = nextID' BY <1>0, <2>1 DEF Age
  <2>8. RecentIds' BY <1>0, <2>1, <2>2, <2>4, <2>5, <2>6, <2>7 DEF RecentIds, Age
  <2>9. OwnIds' BY <2>2, <2>5, <2>6, <2>7 DEF OwnIds
  <2> QED BY <2>8, <2>9
<1>2. CASE UNCHANGED <<nextID, id>>
  BY <1>2 DEF RecentIds, OwnIds, Registered, Age
<1>3. ASSUME NEW q \in Calls, Queries!NotConnected(q) \/ Queries!Query(q) PROVE UNCHANGED <<nextID, id>>
  BY <1>3 DEF Queries!NotConnected, Queries!Query, Queries!Send, Queries!SendFails, Queries!TakeAnswer, Queries!TimeOut, Queries!Forget
<1>4. ASSUME NEW c \in Queries!Conns, Queries!Receive(c) \/ Queries!ReadingEnds(c) \/ Queries!ServerCloses(c) \/ Queries!Connect(c)
      PROVE  UNCHANGED <<nextID, id>>
  BY <1>4 DEF Queries!Receive, Queries!ReadingEnds, Queries!ServerCloses, Queries!Connect, Queries!callVars
<1>5. CASE Queries!Disconnect \/ Queries!Enqueue \/ Queries!Evaluate \/ UNCHANGED Queries!vars
  BY <1>2, <1>5 DEF Queries!Disconnect, Queries!Enqueue, Queries!Evaluate, Queries!vars, Queries!callVars
<1> QED BY <1>1, <1>2, <1>3, <1>4, <1>5 DEF Queries!Next

\* What holds of the first and of the later queries of a queue holds of all, so
\* it holds of those left when the first is taken.
LEMMA HeadAndTail ==
  ASSUME NEW s \in Seq(Messages), s # <<>>
  PROVE  /\ 1 \in 1..Len(s) /\ Head(s) = s[1] /\ Head(s) \in Messages
         /\ Tail(s) \in Seq(Messages) /\ Len(Tail(s)) = Len(s) - 1
         /\ \A i \in 1..Len(Tail(s)) : i + 1 \in 2..Len(s) /\ Tail(s)[i] = s[i + 1]
BY HeadTailProperties, EmptySeq, LenProperties

\* A call's progress, what it has returned and whether it was evaluated agree
\* after every step.
LEMMA StagesStep ==
  ASSUME Queries!CallsAssumption, Queries!TypeOK, CallStages, OneCopy, OwnAnswers, [Queries!Next]_(Queries!vars) PROVE CallStages'
<1>0. QueryScalars /\ Queues BY QueryTypeParts
<1>00. Calls \cap {"none", "pending", "error"} = {} BY DEF Queries!CallsAssumption
<1> USE <1>0, <1>00 DEF QueryScalars, CallStages, Queries!connVars, Queries!callVars, Queries!pluginVars
<1>1. ASSUME NEW q \in Calls, Queries!NotConnected(q) PROVE CallStages'
  BY <1>1 DEF Queries!NotConnected
<1>2. ASSUME NEW q \in Calls, Queries!Register(q) PROVE CallStages'
  <2>1. nextID' # 0 BY <1>2, QueryNumbers DEF Queries!Register
  <2> QED BY <1>2, <2>1 DEF Queries!Register
<1>3. ASSUME NEW q \in Calls, Queries!Send(q) PROVE CallStages'
  BY <1>3 DEF Queries!Send
<1>4. ASSUME NEW q \in Calls, Queries!SendFails(q) PROVE CallStages'
  BY <1>4 DEF Queries!SendFails
<1>5. ASSUME NEW q \in Calls, Queries!TakeAnswer(q) PROVE CallStages'
  BY <1>5 DEF Queries!TakeAnswer, OwnAnswers
<1>6. ASSUME NEW q \in Calls, Queries!TimeOut(q) PROVE CallStages'
  BY <1>6 DEF Queries!TimeOut
<1>7. ASSUME NEW q \in Calls, Queries!Forget(q) PROVE CallStages'
  BY <1>7 DEF Queries!Forget
<1>8. ASSUME NEW c \in Queries!Conns, Queries!Receive(c) \/ Queries!ReadingEnds(c) \/ Queries!ServerCloses(c) \/ Queries!Connect(c) PROVE CallStages'
  BY <1>8 DEF Queries!Receive, Queries!ReadingEnds, Queries!ServerCloses, Queries!Connect
<1>9. CASE Queries!Disconnect \/ Queries!Enqueue \/ UNCHANGED Queries!vars
  BY <1>9 DEF Queries!Disconnect, Queries!Enqueue, Queries!vars
<1>10. CASE Queries!Evaluate
  <2>1. queue \in Seq(Messages) /\ queue # <<>> BY <1>10 DEF Queries!Evaluate, Queues
  <2>2. Waits(Head(queue)) BY <2>1, HeadAndTail DEF OneCopy, QueuedWait
  <2>3. pc[Head(queue).q] \notin {"idle", "send"} BY <2>2 DEF Waits
  <2> QED BY <1>10, <2>3 DEF Queries!Evaluate
<1> QED BY <1>1, <1>2, <1>3, <1>4, <1>5, <1>6, <1>7, <1>8, <1>9, <1>10 DEF Queries!Next, Queries!Query

\* An answer that arrives is put into the channel of the call that asked: the
\* table and the answer name it by the same id.
LEMMA OwnAnswersStep ==
  ASSUME Queries!CallsAssumption, Queries!TypeOK, CallStages, OwnIds, OneCopy, OwnAnswers, [Queries!Next]_(Queries!vars) PROVE OwnAnswers'
<1>0. QueryScalars /\ Queues /\ Queries!InTable BY QueryTypeParts
<1> USE <1>0 DEF QueryScalars, Queues, OwnAnswers, Queries!connVars, Queries!callVars, Queries!pluginVars
<1>1. ASSUME NEW q \in Calls, Queries!Register(q) PROVE OwnAnswers'
  <2>1. q \notin evaluated BY <1>1 DEF Queries!Register, CallStages
  <2>2. \A c \in Queries!Conns : \A i \in 1..Len(answers[c]) : answers[c][i].q # q BY <2>1
  <2> QED BY <1>1, <2>1, <2>2 DEF Queries!Register
<1>2. ASSUME NEW q \in Calls, Queries!NotConnected(q) \/ Queries!Query(q) PROVE OwnAnswers'
  <2>1. UNCHANGED <<id, chan, answers, evaluated>>
    BY <1>2 DEF Queries!NotConnected, Queries!Query, Queries!Send, Queries!SendFails, Queries!TakeAnswer, Queries!TimeOut, Queries!Forget
  <2> QED BY <2>1
<1>3. ASSUME NEW c \in Queries!Conns, Queries!Receive(c) PROVE OwnAnswers'
  <2>1. answers[c] \in Seq(Messages) /\ answers[c] # <<>> BY <1>3 DEF Queries!Receive
  <2> DEFINE h == Head(answers[c])
  <2>2. h \in Messages /\ id[h.q] = h.id /\ h.q \in evaluated BY <2>1, HeadAndTail
  <2>3. \A p \in pending : p.id = h.id => p.q = h.q
    <3> SUFFICES ASSUME NEW p \in pending, p.id = h.id PROVE p.q = h.q
      OBVIOUS
    <3>1. p.q \in Calls /\ h.q \in Calls /\ h.id # 0 BY <2>2, QueryNumbers DEF Messages
    <3>2. id[p.q] = id[h.q] BY <2>2 DEF Queries!InTable
    <3> QED BY <2>2, <3>1, <3>2 DEF OwnIds, Registered
  <2>4. \A q \in Calls : chan'[q] = IF \E p \in pending : p.id = h.id /\ p.q = q THEN h.q ELSE chan[q]
    BY <1>3 DEF Queries!Receive
  <2>5. \A q \in Calls : chan'[q] # "none" => chan'[q] = q /\ q \in evaluated
    <3> SUFFICES ASSUME NEW q \in Calls, chan'[q] # "none" PROVE chan'[q] = q /\ q \in evaluated
      OBVIOUS
    <3> HIDE DEF h
    <3>1. CASE \E p \in pending : p.id = h.id /\ p.q = q
      <4>1. chan'[q] = h.q BY <2>4, <3>1
      <4>2. h.q = q BY <2>3, <3>1
      <4> QED BY <2>2, <4>1, <4>2
    <3>2. CASE ~\E p \in pending : p.id = h.id /\ p.q = q
      <4>1. chan'[q] = chan[q] BY <2>4, <3>2
      <4> QED BY <4>1
    <3> QED BY <3>1, <3>2
  <2>6. \A d \in Queries!Conns : \A i \in 1..Len(answers'[d]) :
           id[answers'[d][i].q] = answers'[d][i].id /\ answers'[d][i].q \in evaluated
    <3> SUFFICES ASSUME NEW d \in Queries!Conns, NEW i \in 1..Len(answers'[d])
                 PROVE  id[answers'[d][i].q] = answers'[d][i].id /\ answers'[d][i].q \in evaluated
      OBVIOUS
    <3>1. CASE d = c
      <4>1. answers'[d] = Tail(answers[c]) BY <1>3, <3>1 DEF Queries!Receive
      <4>2. i + 1 \in 1..Len(answers[c]) /\ answers'[d][i] = answers[c][i + 1]
        BY <2>1, <4>1, HeadAndTail, LenProperties
      <4> QED BY <4>2
    <3>2. CASE d # c BY <1>3, <3>2 DEF Queries!Receive
    <3> QED BY <3>1, <3>2
  <2>7. UNCHANGED <<id, evaluated>> BY <1>3 DEF Queries!Receive
  <2> QED BY <2>5, <2>6, <2>7
<1>4. ASSUME NEW c \in Queries!Conns, Queries!ReadingEnds(c) \/ Queries!ServerCloses(c) \/ Queries!Connect(c) PROVE OwnAnswers'
  <2>1. UNCHANGED <<id, chan, answers, evaluated>>
    BY <1>4 DEF Queries!ReadingEnds, Queries!ServerCloses, Queries!Connect
  <2> QED BY <2>1
<1>5. CASE Queries!Disconnect \/ Queries!Enqueue \/ UNCHANGED Queries!vars
  <2>1. UNCHANGED <<id, chan, answers, evaluated>>
    BY <1>5 DEF Queries!Disconnect, Queries!Enqueue, Queries!vars
  <2> QED BY <2>1
<1>6. CASE Queries!Evaluate
  <2>1. queue \in Seq(Messages) /\ queue # <<>> BY <1>6 DEF Queries!Evaluate
  <2> DEFINE h == Head(queue)
  <2>2. h \in Messages /\ id[h.q] = h.id /\ h.q \in evaluated'
    BY <1>6, <2>1, HeadAndTail DEF OneCopy, QueuedWait, Waits, Queries!Evaluate
  <2>3. \A c \in Queries!Conns : answers'[c] = answers[c] \/ answers'[c] = Append(answers[c], h)
    BY <1>6 DEF Queries!Evaluate
  <2>4. \A d \in Queries!Conns : \A i \in 1..Len(answers'[d]) :
           id[answers'[d][i].q] = answers'[d][i].id /\ answers'[d][i].q \in evaluated'
    <3> SUFFICES ASSUME NEW d \in Queries!Conns, NEW i \in 1..Len(answers'[d])
                 PROVE  id[answers'[d][i].q] = answers'[d][i].id /\ answers'[d][i].q \in evaluated'
      OBVIOUS
    <3>1. CASE answers'[d] = answers[d] BY <1>6, <3>1 DEF Queries!Evaluate
    <3>2. CASE answers'[d] = Append(answers[d], h)
      <4>1. answers'[d][i] = h \/ (i \in 1..Len(answers[d]) /\ answers'[d][i] = answers[d][i])
        BY <2>2, <3>2, AppendProperties, LenProperties
      <4>2. id' = id /\ evaluated \subseteq evaluated' BY <1>6 DEF Queries!Evaluate
      <4>3. CASE answers'[d][i] = h BY <2>2, <4>3
      <4>4. CASE i \in 1..Len(answers[d]) /\ answers'[d][i] = answers[d][i] BY <4>2, <4>4
      <4> QED BY <4>1, <4>3, <4>4
    <3> QED BY <2>3, <3>1, <3>2
  <2>5. UNCHANGED <<id, chan>> /\ evaluated \subseteq evaluated' BY <1>6 DEF Queries!Evaluate
  <2>6. \A q \in Calls : chan'[q] # "none" => chan'[q] = q /\ q \in evaluated' BY <2>5
  <2> QED BY <2>4, <2>5, <2>6
<1> QED BY <1>1, <1>2, <1>3, <1>4, <1>5, <1>6 DEF Queries!Next

\* A query moves from the connection to the queue and is evaluated, or is lost
\* with its connection; it is never copied.
LEMMA OneCopyStep ==
  ASSUME Queries!CallsAssumption, Queries!TypeOK, CallStages, OneCopy, [Queries!Next]_(Queries!vars) PROVE OneCopy'
<1>0. QueryScalars /\ Queues BY QueryTypeParts
<1> USE DEF Queries!connVars, Queries!callVars, Queries!pluginVars
<1>m. /\ \A c \in Queries!Conns : \A i \in 1..Len(asked[c]) : asked[c][i] \in Messages
      /\ \A i \in 1..Len(queue) : queue[i] \in Messages
      /\ \A m \in Messages : m.q \in Calls
  BY <1>0, ElementOfSeq DEF Queues, Messages
<1>1. ASSUME NEW q \in Calls,
             \/ Queries!NotConnected(q) \/ Queries!Register(q) \/ Queries!SendFails(q) \/ Queries!TakeAnswer(q) \/ Queries!TimeOut(q) \/ Queries!Forget(q)
      PROVE  OneCopy'
  <2>1. UNCHANGED <<asked, queue, evaluated>>
    BY <1>0, <1>1 DEF QueryScalars, Queues, Queries!NotConnected, Queries!Register, Queries!SendFails, Queries!TakeAnswer, Queries!TimeOut, Queries!Forget
  <2>2. \A m \in Messages : Waits(m) => Waits(m)'
    <3> SUFFICES ASSUME NEW m \in Messages, Waits(m) PROVE Waits(m)'
      OBVIOUS
    <3>1. CASE Queries!Register(q) BY <1>0, <1>m, <3>1 DEF QueryScalars, Queues, Queries!Register, Waits
    <3>2. CASE Queries!NotConnected(q) BY <1>0, <1>m, <3>2 DEF QueryScalars, Queues, Queries!NotConnected, Waits
    <3>3. CASE Queries!SendFails(q) BY <1>0, <1>m, <3>3 DEF QueryScalars, Queues, Queries!SendFails, Waits
    <3>4. CASE Queries!TakeAnswer(q) \/ Queries!TimeOut(q) \/ Queries!Forget(q) BY <1>0, <1>m, <3>4 DEF QueryScalars, Queues, Queries!TakeAnswer, Queries!TimeOut, Queries!Forget, Waits
    <3> QED BY <1>1, <3>1, <3>2, <3>3, <3>4
  <2>3. AskedWait' BY <1>m, <2>1, <2>2 DEF OneCopy, AskedWait
  <2>4. QueuedWait' BY <1>m, <2>1, <2>2 DEF OneCopy, QueuedWait
  <2>5. AskedOnce' /\ QueuedOnce' /\ AskedOrQueued' BY <2>1 DEF OneCopy, AskedOnce, QueuedOnce, AskedOrQueued
  <2> QED BY <2>3, <2>4, <2>5 DEF OneCopy
<1>2. ASSUME NEW q \in Calls, Queries!Send(q) PROVE OneCopy'
  <2>1. pc[q] = "send" /\ pc'[q] = "wait" /\ q \notin evaluated /\ UNCHANGED <<id, queue, evaluated>>
    BY <1>0, <1>2 DEF QueryScalars, Queues, Queries!Send, CallStages
  <2>2. \A m \in Messages : Waits(m) => m.q # q /\ Waits(m)' BY <1>0, <1>2, <1>m DEF QueryScalars, Queues, Queries!Send, Waits
  <2> DEFINE m == [id |-> id[q], q |-> q]
  <2>3. m \in Messages BY <1>0, <1>2, QueryNumbers DEF QueryScalars, Queues, Queries!Send, CallStages, Messages
  <2>5. \A c \in Queries!Conns : asked'[c] = asked[c] \/ (c = plugin /\ asked'[c] = Append(asked[c], m))
    BY <1>0, <1>2 DEF QueryScalars, Queues, Queries!Send
  <2>6. \A c \in Queries!Conns : \A i \in 1..Len(asked'[c]) :
           \/ i \in 1..Len(asked[c]) /\ asked'[c][i] = asked[c][i] /\ asked[c][i].q # q
           \/ c = plugin /\ i = Len(asked[c]) + 1 /\ asked'[c][i] = m
    <3> SUFFICES ASSUME NEW c \in Queries!Conns, NEW i \in 1..Len(asked'[c])
                 PROVE  \/ i \in 1..Len(asked[c]) /\ asked'[c][i] = asked[c][i] /\ asked[c][i].q # q
                        \/ c = plugin /\ i = Len(asked[c]) + 1 /\ asked'[c][i] = m
      OBVIOUS
    <3>1. \A j \in 1..Len(asked[c]) : asked[c][j].q # q BY <1>m, <2>2 DEF OneCopy, AskedWait
    <3>2. CASE asked'[c] = asked[c] BY <3>1, <3>2
    <3>3. CASE c = plugin /\ asked'[c] = Append(asked[c], m)
      BY <2>3, <3>1, <3>3, AppendProperties, LenProperties
    <3> QED BY <2>5, <3>2, <3>3
  <2>7. AskedWait'
    <3> SUFFICES ASSUME NEW c \in Queries!Conns, NEW i \in 1..Len(asked'[c]) PROVE Waits(asked[c][i])'
      BY DEF AskedWait
    <3>1. CASE i \in 1..Len(asked[c]) /\ asked'[c][i] = asked[c][i]
      BY <1>m, <2>2, <3>1 DEF OneCopy, AskedWait, Waits
    <3>2. CASE asked'[c][i] = m BY <2>1, <3>2 DEF Waits
    <3> QED BY <2>6, <3>1, <3>2
  <2>8. \A i \in 1..Len(queue) : queue[i].q # q BY <1>m, <2>2 DEF OneCopy, QueuedWait
  <2>11. QueuedWait' BY <1>m, <2>1, <2>2 DEF OneCopy, QueuedWait, Waits
  <2>9. AskedOnce'
    <3> SUFFICES ASSUME NEW c \in Queries!Conns, NEW d \in Queries!Conns,
                        NEW i \in 1..Len(asked'[c]), NEW j \in 1..Len(asked'[d]),
                        asked'[c][i].q = asked'[d][j].q
                 PROVE  c = d /\ i = j
      BY DEF AskedOnce
    <3>1. CASE /\ i \in 1..Len(asked[c]) /\ asked'[c][i] = asked[c][i]
               /\ j \in 1..Len(asked[d]) /\ asked'[d][j] = asked[d][j]
      BY <3>1 DEF OneCopy, AskedOnce
    <3>2. CASE asked'[c][i] = m /\ c = plugin /\ i = Len(asked[c]) + 1
      <4>1. asked'[d][j].q = q BY <3>2
      <4>2. d = plugin /\ j = Len(asked[d]) + 1 BY <2>6, <4>1
      <4> QED BY <3>2, <4>2
    <3>3. CASE asked'[d][j] = m /\ d = plugin /\ j = Len(asked[d]) + 1
      <4>1. asked'[c][i].q = q BY <3>3
      <4>2. c = plugin /\ i = Len(asked[c]) + 1 BY <2>6, <4>1
      <4> QED BY <3>3, <4>2
    <3>4. (i \in 1..Len(asked[c]) /\ asked'[c][i] = asked[c][i])
            \/ (asked'[c][i] = m /\ c = plugin /\ i = Len(asked[c]) + 1)
      BY <2>6
    <3>5. (j \in 1..Len(asked[d]) /\ asked'[d][j] = asked[d][j])
            \/ (asked'[d][j] = m /\ d = plugin /\ j = Len(asked[d]) + 1)
      BY <2>6
    <3> QED BY <3>1, <3>2, <3>3, <3>4, <3>5
  <2>10. \A c \in Queries!Conns : \A i \in 1..Len(asked'[c]), j \in 1..Len(queue) : asked'[c][i].q # queue[j].q
    BY <2>6, <2>8 DEF OneCopy, AskedOrQueued
  <2>12. QueuedOnce' /\ AskedOrQueued' BY <2>1, <2>10 DEF OneCopy, QueuedOnce, AskedOrQueued
  <2> QED BY <2>7, <2>9, <2>11, <2>12 DEF OneCopy
<1>3. ASSUME NEW c \in Queries!Conns, Queries!Receive(c) \/ Queries!ReadingEnds(c) \/ Queries!ServerCloses(c) \/ Queries!Connect(c) PROVE OneCopy'
  <2>1. UNCHANGED <<asked, queue, evaluated, pc, id>>
    BY <1>0, <1>3 DEF QueryScalars, Queues, Queries!Receive, Queries!ReadingEnds, Queries!ServerCloses, Queries!Connect
  <2> QED BY <2>1 DEF OneCopy, AskedWait, QueuedWait, AskedOnce, QueuedOnce, AskedOrQueued, Waits
<1>4. CASE Queries!Disconnect
  <2>1. UNCHANGED <<queue, evaluated, pc, id>> BY <1>0, <1>4 DEF QueryScalars, Queues, Queries!Disconnect
  <2>2. \A c \in Queries!Conns : asked'[c] = asked[c] \/ asked'[c] = <<>> BY <1>0, <1>4 DEF QueryScalars, Queues, Queries!Disconnect
  <2>3. \A c \in Queries!Conns : \A i \in 1..Len(asked'[c]) : i \in 1..Len(asked[c]) /\ asked'[c][i] = asked[c][i]
    BY <2>2, EmptySeq, LenProperties
  <2>4. AskedOnce'
    <3> SUFFICES ASSUME NEW c \in Queries!Conns, NEW d \in Queries!Conns,
                        NEW i \in 1..Len(asked'[c]), NEW j \in 1..Len(asked'[d]),
                        asked'[c][i].q = asked'[d][j].q
                 PROVE  c = d /\ i = j
      BY DEF AskedOnce
    <3>1. i \in 1..Len(asked[c]) /\ asked'[c][i] = asked[c][i] BY <2>3
    <3>2. j \in 1..Len(asked[d]) /\ asked'[d][j] = asked[d][j] BY <2>3
    <3>3. asked[c][i].q = asked[d][j].q BY <3>1, <3>2
    <3> QED BY <3>1, <3>2, <3>3 DEF OneCopy, AskedOnce
  <2>5. AskedWait' /\ QueuedWait' BY <2>1, <2>3 DEF OneCopy, AskedWait, QueuedWait, Waits
  <2>6. QueuedOnce' /\ AskedOrQueued' BY <2>1, <2>3 DEF OneCopy, QueuedOnce, AskedOrQueued
  <2> QED BY <2>4, <2>5, <2>6 DEF OneCopy
<1>5. CASE Queries!Enqueue
  <2> DEFINE h == Head(asked[plugin])
             n == Len(queue)
  <2>1. /\ plugin \in Queries!Conns /\ asked[plugin] \in Seq(Messages) /\ asked[plugin] # <<>>
        /\ queue' = Append(queue, h) /\ UNCHANGED <<evaluated, pc, id>>
    <3>1. plugin \in Queries!Conns BY <1>0, <1>5, QueryNumbers DEF QueryScalars, Queries!Enqueue, Queries!Conns
    <3> QED BY <1>0, <1>5, <3>1 DEF Queues, Queries!Enqueue
  <2>2. h = asked[plugin][1] /\ 1 \in 1..Len(asked[plugin]) /\ h \in Messages BY <2>1, HeadAndTail
  <2>3. \A c \in Queries!Conns : \A i \in 1..Len(asked'[c]) :
           \E k \in 1..Len(asked[c]) : /\ asked'[c][i] = asked[c][k]
                                       /\ IF c = plugin THEN k = i + 1 ELSE k = i
    <3> SUFFICES ASSUME NEW c \in Queries!Conns, NEW i \in 1..Len(asked'[c])
                 PROVE  \E k \in 1..Len(asked[c]) : /\ asked'[c][i] = asked[c][k]
                                                    /\ IF c = plugin THEN k = i + 1 ELSE k = i
      OBVIOUS
    <3>1. CASE c = plugin
      <4>1. asked'[c] = Tail(asked[c]) BY <1>0, <1>5, <3>1 DEF QueryScalars, Queues, Queries!Enqueue
      <4>2. i + 1 \in 1..Len(asked[c]) /\ asked'[c][i] = asked[c][i + 1]
        BY <2>1, <3>1, <4>1, HeadAndTail, LenProperties
      <4> QED BY <3>1, <4>2
    <3>2. CASE c # plugin BY <1>0, <1>5, <3>2 DEF QueryScalars, Queues, Queries!Enqueue
    <3> QED BY <3>1, <3>2
  <2>4. \A c \in Queries!Conns : \A i \in 1..Len(asked'[c]) : asked'[c][i].q # h.q
    <3> SUFFICES ASSUME NEW c \in Queries!Conns, NEW i \in 1..Len(asked'[c]) PROVE asked'[c][i].q # h.q
      OBVIOUS
    <3>1. PICK k \in 1..Len(asked[c]) : /\ asked'[c][i] = asked[c][k]
                                        /\ IF c = plugin THEN k = i + 1 ELSE k = i
      BY <2>3
    <3>2. ~(c = plugin /\ k = 1) BY <3>1, <2>1, LenProperties
    <3> QED BY <2>1, <2>2, <3>1, <3>2 DEF OneCopy, AskedOnce
  <2>5. n \in Nat /\ Len(queue') = n + 1 /\ queue'[n + 1] = h /\ \A j \in 1..n : queue'[j] = queue[j]
    BY <2>1, <2>2, AppendProperties, LenProperties
  <2>6. \A j \in 1..Len(queue') : (j \in 1..n /\ queue'[j] = queue[j]) \/ (j = n + 1 /\ queue'[j] = h)
    BY <2>5
  <2>7. \A j \in 1..n : queue[j].q # h.q BY <2>1, <2>2 DEF OneCopy, AskedOrQueued
  <2>8. Waits(h) BY <2>1, <2>2 DEF OneCopy, AskedWait
  <2>a. \A m : Waits(m) => Waits(m)' BY <2>1 DEF Waits
  <2>b. AskedWait' BY <2>3, <2>a DEF OneCopy, AskedWait
  <2>9. QueuedWait' BY <2>6, <2>8, <2>a DEF OneCopy, QueuedWait
  <2>10. \A c, d \in Queries!Conns : \A i \in 1..Len(asked'[c]), j \in 1..Len(asked'[d]) :
            asked'[c][i].q = asked'[d][j].q => c = d /\ i = j
    <3> SUFFICES ASSUME NEW c \in Queries!Conns, NEW d \in Queries!Conns,
                        NEW i \in 1..Len(asked'[c]), NEW j \in 1..Len(asked'[d]),
                        asked'[c][i].q = asked'[d][j].q
                 PROVE  c = d /\ i = j
      OBVIOUS
    <3>1. PICK k \in 1..Len(asked[c]) : asked'[c][i] = asked[c][k] /\ IF c = plugin THEN k = i + 1 ELSE k = i
      BY <2>3
    <3>2. PICK l \in 1..Len(asked[d]) : asked'[d][j] = asked[d][l] /\ IF d = plugin THEN l = j + 1 ELSE l = j
      BY <2>3
    <3>3. c = d /\ k = l BY <3>1, <3>2 DEF OneCopy, AskedOnce
    <3>4. Len(asked'[c]) \in Nat /\ Len(asked'[d]) \in Nat
      BY QueuesStep, LenProperties DEF Queues
    <3> QED BY <3>1, <3>2, <3>3, <3>4
  <2>11. QueuedOnce' BY <2>6, <2>7 DEF OneCopy, QueuedOnce
  <2>12. AskedOrQueued'
    <3> SUFFICES ASSUME NEW c \in Queries!Conns, NEW i \in 1..Len(asked'[c]), NEW j \in 1..Len(queue')
                 PROVE  asked'[c][i].q # queue'[j].q
      BY DEF AskedOrQueued
    <3>1. PICK k \in 1..Len(asked[c]) : asked'[c][i] = asked[c][k] BY <2>3
    <3>2. CASE j \in 1..n /\ queue'[j] = queue[j] BY <3>1, <3>2 DEF OneCopy, AskedOrQueued
    <3>3. CASE queue'[j] = h BY <2>4, <3>3
    <3> QED BY <2>6, <3>2, <3>3
  <2> QED BY <2>b, <2>9, <2>10, <2>11, <2>12 DEF OneCopy, AskedOnce
<1>6. CASE Queries!Evaluate
  <2> DEFINE h == Head(queue)
  <2>1. /\ queue \in Seq(Messages) /\ queue # <<>> /\ queue' = Tail(queue)
        /\ evaluated' = evaluated \cup {h.q} /\ UNCHANGED <<asked, pc, id>>
    BY <1>0, <1>6 DEF QueryScalars, Queues, Queries!Evaluate
  <2>2. h = queue[1] /\ 1 \in 1..Len(queue) BY <2>1, HeadAndTail
  <2>3. \A i \in 1..Len(queue') : i \in Int /\ i >= 1 /\ i + 1 \in 1..Len(queue) /\ queue'[i] = queue[i + 1]
    BY <2>1, HeadAndTail, LenProperties
  <2>4. \A i \in 1..Len(queue') : queue'[i].q # h.q BY <2>2, <2>3 DEF OneCopy, QueuedOnce
  <2>5. \A c \in Queries!Conns : \A i \in 1..Len(asked[c]) : asked[c][i].q # h.q BY <2>2 DEF OneCopy, AskedOrQueued
  <2>a. \A m : Waits(m) /\ m.q # h.q => Waits(m)' BY <2>1 DEF Waits
  <2>6. AskedWait' BY <2>1, <2>5, <2>a DEF OneCopy, AskedWait
  <2>b. QueuedWait' BY <2>3, <2>4, <2>a DEF OneCopy, QueuedWait
  <2>7. QueuedOnce'
    <3> SUFFICES ASSUME NEW i \in 1..Len(queue'), NEW j \in 1..Len(queue'), queue'[i].q = queue'[j].q
                 PROVE  i = j
      BY DEF QueuedOnce
    <3>1. i + 1 = j + 1 BY <2>3 DEF OneCopy, QueuedOnce
    <3> QED BY <2>3, <3>1
  <2>8. AskedOrQueued' BY <2>1, <2>3 DEF OneCopy, AskedOrQueued
  <2> QED BY <2>1, <2>6, <2>b, <2>7, <2>8 DEF OneCopy, AskedOnce
<1>7. CASE UNCHANGED Queries!vars
  BY <1>7 DEF Queries!vars, OneCopy, AskedWait, QueuedWait, AskedOnce, QueuedOnce, AskedOrQueued, Waits
<1> QED BY <1>1, <1>2, <1>3, <1>4, <1>5, <1>6, <1>7 DEF Queries!Next, Queries!Query

----------------------------------------------------------------------------
\* The parts together are inductive.
LEMMA QueryNext == ASSUME Queries!CallsAssumption, QueryIInv, [Queries!Next]_(Queries!vars) PROVE QueryIInv'
<1> USE DEF QueryIInv
<1>1. Queries!TypeOK' BY QueuesStep, ScalarsStep, TableStep DEF Queries!TypeOK, QueryScalars, Queues, Messages
<1>2. CallStages' BY StagesStep
<1>3. RecentIds' /\ OwnIds' BY IdsStep
<1>4. OneCopy' BY OneCopyStep
<1>5. OwnAnswers' BY OwnAnswersStep
<1> QED BY <1>1, <1>2, <1>3, <1>4, <1>5

\* For any calls and connections, and any id width that leaves more ids than
\* calls: every state is well-typed, the table of waiting calls included, two
\* calls never have the same id, and a query is in one place at a time.
THEOREM QueryInvariant == ASSUME Queries!CallsAssumption PROVE Queries!Spec => []QueryIInv
<1>1. Queries!Init => QueryIInv BY QueryInit
<1>2. QueryIInv /\ [Queries!Next]_(Queries!vars) => QueryIInv' BY QueryNext
<1> QED BY <1>1, <1>2, PTL DEF Queries!Spec

\* What a step does to the state the contract speaks of: it returns a result,
\* evaluates a query, or neither.
LEMMA ContractStep == ASSUME Queries!CallsAssumption, QueryIInv, [Queries!Next]_(Queries!vars) PROVE [Queries!Contract!Next]_(Queries!Contract!contractVars)
<1>0. QueryScalars /\ Queues BY QueryTypeParts DEF QueryIInv
<1> USE <1>0 DEF QueryIInv, QueryScalars, Queries!Contract!contractVars, Queries!Contract!Next
<1>1. ASSUME NEW q \in Calls, Queries!NotConnected(q) PROVE Queries!Contract!NotSent(q)
  BY <1>1 DEF Queries!NotConnected, Queries!Contract!NotSent, CallStages, Queries!pluginVars
<1>2. ASSUME NEW q \in Calls, Queries!Register(q) PROVE Queries!Contract!Ask(q)
  BY <1>2 DEF Queries!Register, Queries!Contract!Ask, CallStages, Queries!pluginVars
<1>3. ASSUME NEW q \in Calls, Queries!SendFails(q) \/ Queries!TimeOut(q) PROVE Queries!Contract!Fail(q)
  BY <1>3 DEF Queries!SendFails, Queries!TimeOut, Queries!Contract!Fail, CallStages, Queries!pluginVars
<1>4. ASSUME NEW q \in Calls, Queries!TakeAnswer(q) PROVE Queries!Contract!Answer(q)
  BY <1>4 DEF Queries!TakeAnswer, Queries!Contract!Answer, CallStages, OwnAnswers, Queries!pluginVars
<1>5. CASE Queries!Evaluate
  <2>1. queue \in Seq(Messages) /\ queue # <<>> BY <1>5 DEF Queries!Evaluate, Queues
  <2>2. Head(queue) \in Messages /\ Waits(Head(queue)) BY <2>1, HeadAndTail DEF OneCopy, QueuedWait
  <2>3. Head(queue).q \in Calls BY <2>2 DEF Messages
  <2>4. Queries!Contract!Evaluate(Head(queue).q)
    BY <1>5, <2>2, <2>3 DEF Waits, CallStages, Queries!Evaluate, Queries!Contract!Evaluate, Queries!callVars
  <2> QED BY <2>3, <2>4
<1>6. ASSUME NEW q \in Calls, Queries!Send(q) \/ Queries!Forget(q) PROVE UNCHANGED <<result, evaluated>>
  BY <1>6 DEF Queries!Send, Queries!Forget, Queries!pluginVars
<1>7. ASSUME NEW c \in Queries!Conns, Queries!Receive(c) \/ Queries!ReadingEnds(c) \/ Queries!ServerCloses(c) \/ Queries!Connect(c)
      PROVE  UNCHANGED <<result, evaluated>>
  BY <1>7 DEF Queries!Receive, Queries!ReadingEnds, Queries!ServerCloses, Queries!Connect, Queries!callVars, Queries!pluginVars
<1>8. CASE Queries!Disconnect \/ Queries!Enqueue \/ UNCHANGED Queries!vars
  BY <1>8 DEF Queries!Disconnect, Queries!Enqueue, Queries!vars, Queries!callVars, Queries!pluginVars
<1> QED BY <1>1, <1>2, <1>3, <1>4, <1>5, <1>6, <1>7, <1>8 DEF Queries!Next, Queries!Query

\* SendQuery keeps its contract for any number of calls and connections: an
\* answer is the plugin's answer to this very query, however late it comes and
\* whichever connection it takes, and no query is evaluated twice.
THEOREM KeepsContract == Queries!Spec => QueryContractKept
<1>0. Queries!CallsAssumption BY QueriesAssumption
<1>1. Queries!Init => Queries!Contract!Init BY DEF Queries!Init, Queries!Contract!Init
<1>2. QueryIInv /\ [Queries!Next]_(Queries!vars) => [Queries!Contract!Next]_(Queries!Contract!contractVars)
  BY <1>0, ContractStep
<1>3. Queries!Spec => []QueryIInv BY <1>0, QueryInvariant
<1> QED BY <1>1, <1>2, <1>3, PTL
        DEF Queries!Spec, QueryContractKept, Queries!QueryContractKept, Queries!Contract!Spec

----------------------------------------------------------------------------
(***************************************************************************)
(* The turns of the deliberator and the executor that sends their plan      *)
(* (Deliberation, the instance Turns).                                      *)
(***************************************************************************)
NodeStatuses == {"pending", "ready", "active", "done", "failed"}
Alone(n)     == Depends[n] = {}
Taken        == Turns!ToSet(sent)

\* The types, the sequences apart.
TurnTypes ==
  /\ cancelled \in BOOLEAN /\ stopping \in {"no", "waits", "returned"}
  /\ place \in {"settle", "waiting", "ask", "fetch", "commit", "gone"}
  /\ ePlace \in {"idle", "drain", "sent", "gone"}
  /\ turn \in 0..MaxTurns /\ pass \in 0..MaxPasses + 1 /\ plan \in Plans \cup {<<>>} /\ index \in 0..Len(plan)
  /\ place \in {"ask", "fetch", "commit"} => turn >= 1
  /\ place \in {"ask", "fetch"} => pass <= MaxPasses
TurnLists == order \in Seq(Turns!Ids) /\ batch \in Seq(Turns!Ids) /\ sent \in Seq(Turns!Ids)
NodeTypes == DOMAIN action = Turns!Nodes /\ status \in [Turns!Nodes -> NodeStatuses] /\ Taken \subseteq Turns!Nodes

\* The ids of a turn are used in the order of its commands: the next is fresh.
FreshIds ==
  \A n \in Turns!Nodes :
    \/ n[1] < turn
    \/ n[1] = turn /\ (IF place = "commit" THEN n[2] < index ELSE place \notin {"ask", "fetch"})
OneEach ==
  /\ \A i, j \in DOMAIN order : order[i] = order[j] => i = j
  /\ \A i, j \in DOMAIN sent : sent[i] = sent[j] => i = j
TakenUp   == \A n \in Turns!Nodes : n \in Taken <=> status[n] \notin {"pending", "ready"}
DepsFirst == \A n \in Turns!Nodes : IF status[n] = "pending" THEN ~Alone(n) ELSE Turns!AllDepsDone(n, status)

\* What is left of the copy of Ready is ready, in the order of the DAG, and
\* nothing without dependencies is passed over for it.
LeftInHand == IF ePlace = "sent" THEN 2..Len(batch) ELSE 1..Len(batch)
InHand ==
  /\ ePlace \in {"idle", "gone"} => batch = <<>>
  /\ ePlace = "sent" => batch # <<>> /\ Head(batch) \in Taken
  /\ \A k \in LeftInHand : batch[k] \in Turns!Nodes /\ status[batch[k]] = "ready"
Sorted ==
  \A k, l \in LeftInHand : k < l => \E i, j \in DOMAIN order : i < j /\ order[i] = batch[k] /\ order[j] = batch[l]
NonePassed ==
  \A i, j \in DOMAIN order :
    i < j /\ Alone(order[i]) /\ order[i] \notin Taken /\ (\E k \in LeftInHand : batch[k] = order[j])
      => \E k \in LeftInHand : batch[k] = order[i]
SentInOrder ==
  \A i, j \in DOMAIN order :
    i < j /\ Alone(order[i]) /\ Alone(order[j]) /\ order[j] \in Taken
      => \E k, l \in DOMAIN sent : k < l /\ sent[k] = order[i] /\ sent[l] = order[j]
UnderWay == \A n \in Turns!Nodes : status[n] = "active" => action[n] = "dig" \/ (ePlace = "sent" /\ n = Head(batch))
TurnStopped == stopping = "returned" => ePlace = "gone"

TurnIInv ==
  /\ TurnTypes /\ TurnLists /\ NodeTypes /\ FreshIds /\ OneEach /\ TakenUp /\ DepsFirst
  /\ InHand /\ Sorted /\ NonePassed /\ SentInOrder /\ UnderWay /\ TurnStopped

\* Every set of numbers has a least one.
LEMMA LeastExists == \A S \in SUBSET Nat : S # {} => \E x \in S : \A y \in S : x <= y
<1>1. PICK R : IsWellFoundedOn(R, Nat) /\ \A x, y \in Nat : y < x => <<y, x>> \in R
  <2>1. \A x, y \in Nat : y < x => <<y, x>> \in OpToRel(<, Nat) BY DEF OpToRel
  <2> QED BY <2>1, NatLessThanWellFounded
<1> SUFFICES ASSUME NEW S \in SUBSET Nat, S # {} PROVE \E x \in S : \A y \in S : x <= y
  OBVIOUS
<1>2. PICK x \in S : \A y \in S : ~(<<y, x>> \in R) BY <1>1, WFMin
<1>3. \A y \in S : ~(y < x) BY <1>1, <1>2
<1> QED BY <1>2, <1>3

\* A function is what Chosen builds its result with, for the first n of s.
Builds(f, n, s, S) ==
  f = [i \in 0..n |-> IF i = 0 THEN <<>> ELSE IF s[i] \in S THEN Append(f[i - 1], s[i]) ELSE f[i - 1]]

\* There is one for every length: the recursion of Chosen is well-founded.
LEMMA BuildsExists == ASSUME NEW s, NEW S, NEW n \in Nat PROVE \E f : Builds(f, n, s, S)
<1> DEFINE Bad == {m \in Nat : ~ \E f : Builds(f, m, s, S)}
<1>1. SUFFICES ASSUME Bad # {} PROVE FALSE BY <1>1
<1>2. Bad \in SUBSET Nat OBVIOUS
<1>3. PICK m \in Bad : \A k \in Bad : m <= k BY <1>1, <1>2, LeastExists
<1>4. Builds([i \in 0..0 |-> <<>>], 0, s, S) BY DEF Builds
<1>5. m # 0 BY <1>4
<1>6. m \in Nat /\ m - 1 \in Nat /\ m - 1 \notin Bad BY <1>3, <1>5
<1>7. PICK f : Builds(f, m - 1, s, S) BY <1>6
<1> DEFINE v == IF s[m] \in S THEN Append(f[m - 1], s[m]) ELSE f[m - 1]
<1> DEFINE g == [i \in 0..m |-> IF i = m THEN v ELSE f[i]]
<1>8. \A i \in 0..m - 1 : f[i] = IF i = 0 THEN <<>> ELSE IF s[i] \in S THEN Append(f[i - 1], s[i]) ELSE f[i - 1]
  BY <1>7 DEF Builds
<1>9. \A i \in 0..m : g[i] = IF i = 0 THEN <<>> ELSE IF s[i] \in S THEN Append(g[i - 1], s[i]) ELSE g[i - 1]
  <2> SUFFICES ASSUME NEW i \in 0..m
               PROVE  g[i] = IF i = 0 THEN <<>> ELSE IF s[i] \in S THEN Append(g[i - 1], s[i]) ELSE g[i - 1]
    OBVIOUS
  <2>1. CASE i = m
    <3>1. g[i] = v /\ i # 0 /\ i - 1 \in 0..m /\ i - 1 # m BY <2>1, <1>5, <1>6
    <3>2. g[i - 1] = f[i - 1] BY <3>1
    <3> QED BY <2>1, <3>1, <3>2
  <2>2. CASE i # m
    <3>1. i \in 0..m - 1 /\ g[i] = f[i] BY <2>2, <1>6
    <3>2. i # 0 => g[i - 1] = f[i - 1] BY <3>1, <1>6
    <3> QED BY <3>1, <3>2, <1>8
  <2> QED BY <2>1, <2>2
<1> HIDE DEF v
<1>10. g = [i \in 0..m |-> g[i]] OBVIOUS
<1> HIDE DEF g
<1>11. Builds(g, m, s, S) BY <1>9, <1>10 DEF Builds
<1> QED BY <1>3, <1>11

\* What is chosen of a sequence are its elements in the set, in its order.
LEMMA ChosenIs ==
  ASSUME NEW T, NEW s \in Seq(T), NEW S
  PROVE  /\ Turns!Chosen(s, S) \in Seq(T)
         /\ Turns!ToSet(Turns!Chosen(s, S)) = {n \in Turns!ToSet(s) : n \in S}
         /\ \A k, l \in DOMAIN Turns!Chosen(s, S) : k < l =>
              \E i, j \in DOMAIN s : i < j /\ s[i] = Turns!Chosen(s, S)[k] /\ s[j] = Turns!Chosen(s, S)[l]
<1> DEFINE N == Len(s)
<1> DEFINE f == CHOOSE g : Builds(g, N, s, S)
<1>0. N \in Nat /\ DOMAIN s = 1..N /\ \A i \in 1..N : s[i] \in T BY LenProperties, ElementOfSeq
<1>1. Turns!Chosen(s, S) = f[N] BY DEF Turns!Chosen, Builds
<1>2. Builds(f, N, s, S) BY <1>0, BuildsExists
<1> HIDE DEF f
<1>3. \A i \in 0..N : f[i] = IF i = 0 THEN <<>> ELSE IF s[i] \in S THEN Append(f[i - 1], s[i]) ELSE f[i - 1]
  BY <1>2 DEF Builds
<1> DEFINE Good(i) ==
      /\ f[i] \in Seq(T)
      /\ Turns!ToSet(f[i]) = {s[j] : j \in {j \in 1..i : s[j] \in S}}
      /\ \A k, l \in 1..Len(f[i]) : k < l => \E a, b \in 1..i : a < b /\ s[a] = f[i][k] /\ s[b] = f[i][l]
<1> DEFINE Bad == {i \in 0..N : ~Good(i)}
<1> HIDE DEF Good, N
<1>4. SUFFICES Bad = {}
  <2>1. Good(N) BY <1>0, <1>4
  <2> DEFINE c == f[N]
  <2>2. /\ c \in Seq(T) /\ Turns!ToSet(c) = {s[j] : j \in {j \in 1..N : s[j] \in S}}
        /\ \A k, l \in 1..Len(c) : k < l => \E a, b \in 1..N : a < b /\ s[a] = c[k] /\ s[b] = c[l]
    BY <2>1 DEF Good
  <2> HIDE DEF c
  <2>3. DOMAIN c = 1..Len(c) BY <2>2, LenProperties
  <2>4. Turns!ToSet(c) = {n \in Turns!ToSet(s) : n \in S}
    <3>1. \A n : n \in Turns!ToSet(s) <=> \E j \in 1..N : s[j] = n BY <1>0 DEF Turns!ToSet
    <3>2. \A n : n \in Turns!ToSet(c) <=> \E j \in 1..N : s[j] = n /\ n \in S BY <2>2
    <3> QED BY <3>1, <3>2
  <2>5. Turns!Chosen(s, S) = c BY <1>1 DEF c
  <2> QED BY <1>0, <2>2, <2>3, <2>4, <2>5
<1>5. SUFFICES ASSUME Bad # {} PROVE FALSE OBVIOUS
<1>6. PICK m \in Bad : \A k \in Bad : m <= k
  <2>1. Bad \in SUBSET Nat BY <1>0
  <2> QED BY <1>5, <2>1, LeastExists
<1>7. Good(0)
  <2>1. f[0] = <<>> BY <1>0, <1>3
  <2> QED BY <2>1, EmptySeq DEF Turns!ToSet, Good
<1>8. m \in Nat /\ m \in 1..N /\ m - 1 \in 0..N /\ Good(m - 1)
  <2>1. m # 0 /\ m \in 0..N /\ m \in Nat BY <1>0, <1>6, <1>7
  <2>2. m - 1 \in 0..N /\ m - 1 \notin Bad BY <2>1, <1>0, <1>6
  <2> QED BY <2>1, <2>2, <1>0
<1> DEFINE p == f[m - 1]
<1>9. f[m] = IF s[m] \in S THEN Append(p, s[m]) ELSE p BY <1>3, <1>8
<1>10. /\ p \in Seq(T) /\ Turns!ToSet(p) = {s[j] : j \in {j \in 1..m - 1 : s[j] \in S}}
       /\ \A k, l \in 1..Len(p) : k < l => \E a, b \in 1..m - 1 : a < b /\ s[a] = p[k] /\ s[b] = p[l]
  BY <1>8 DEF Good
<1> HIDE DEF p
<1>11. Len(p) \in Nat /\ DOMAIN p = 1..Len(p) BY <1>10, LenProperties
<1>12. 1..m = (1..m - 1) \cup {m} BY <1>8
<1>13. CASE s[m] \notin S
  <2>1. f[m] = p BY <1>9, <1>13
  <2>2. Turns!ToSet(p) = {s[j] : j \in {j \in 1..m : s[j] \in S}} BY <1>10, <1>12, <1>13
  <2>3. Good(m) BY <2>1, <2>2, <1>10, <1>12 DEF Good
  <2> QED BY <2>3, <1>6
<1>14. CASE s[m] \in S
  <2> DEFINE q == Append(p, s[m])
  <2>0. s[m] \in T BY <1>0, <1>8
  <2>1. /\ q \in Seq(T) /\ Len(q) = Len(p) + 1 /\ q[Len(p) + 1] = s[m]
        /\ \A i \in 1..Len(p) : q[i] = p[i]
    BY <1>10, <2>0, AppendProperties
  <2>2. DOMAIN q = (1..Len(p)) \cup {Len(p) + 1} BY <2>1, <1>11, LenProperties
  <2>3. f[m] = q BY <1>9, <1>14
  <2> HIDE DEF q
  <2>4. Turns!ToSet(q) = Turns!ToSet(p) \cup {s[m]} BY <2>1, <2>2, <1>11 DEF Turns!ToSet
  <2>5. Turns!ToSet(q) = {s[j] : j \in {j \in 1..m : s[j] \in S}} BY <2>4, <1>10, <1>12, <1>14
  <2>6. \A k, l \in 1..Len(q) : k < l => \E a, b \in 1..m : a < b /\ s[a] = q[k] /\ s[b] = q[l]
    <3> SUFFICES ASSUME NEW k \in 1..Len(q), NEW l \in 1..Len(q), k < l
                 PROVE  \E a, b \in 1..m : a < b /\ s[a] = q[k] /\ s[b] = q[l]
      OBVIOUS
    <3>1. k \in 1..Len(p) /\ q[k] = p[k] BY <2>1, <1>11
    <3>2. CASE l = Len(p) + 1
      <4>1. p[k] \in Turns!ToSet(p) BY <3>1, <1>11 DEF Turns!ToSet
      <4>2. PICK a \in 1..m - 1 : s[a] = p[k] BY <4>1, <1>10
      <4>3. a \in 1..m /\ m \in 1..m /\ a < m BY <4>2, <1>8
      <4> QED BY <4>2, <4>3, <3>1, <3>2, <2>1
    <3>3. CASE l # Len(p) + 1
      <4>1. l \in 1..Len(p) /\ q[l] = p[l] BY <3>3, <2>1, <1>11
      <4>2. PICK a \in 1..m - 1, b \in 1..m - 1 : a < b /\ s[a] = p[k] /\ s[b] = p[l] BY <4>1, <3>1, <1>10
      <4> QED BY <4>1, <4>2, <3>1, <1>12
    <3> QED BY <3>2, <3>3
  <2>7. Good(m)
    <3>1. f[m] \in Seq(T) BY <2>1, <2>3
    <3>2. Turns!ToSet(f[m]) = {s[j] : j \in {j \in 1..m : s[j] \in S}} BY <2>3, <2>5
    <3>3. \A k, l \in 1..Len(f[m]) : k < l => \E a, b \in 1..m : a < b /\ s[a] = f[m][k] /\ s[b] = f[m][l]
      BY <2>3, <2>6
    <3> QED BY <3>1, <3>2, <3>3, Zenon DEF Good
  <2> QED BY <2>7, <1>6
<1> QED BY <1>13, <1>14

\* A step that gives node n a status of S: those which it makes ready wait for
\* nothing more, and what is done stays done.
NodeMoves(n, S) ==
  /\ order' = order /\ action' = action
  /\ status' \in [Turns!Nodes -> NodeStatuses] /\ status'[n] \in S
  /\ \A m \in Turns!Nodes \ {n} : status'[m] = status[m]
        \/ (status[m] = "pending" /\ status'[m] = "ready" /\ Turns!AllDepsDone(m, status'))
  /\ \A m \in Turns!Nodes : status[m] = "done" => status'[m] = "done"

\* Update moves one node, to a status that is not ready, and frees what waited for it.
LEMMA UpdateMoves ==
  ASSUME NodeTypes, NEW n \in Turns!Nodes, NEW s \in {"active", "done", "failed"}, status[n] # "done", Turns!Update(n, s)
  PROVE  NodeMoves(n, {s})
<1> DEFINE st == [status EXCEPT ![n] = s]
<1>1. st \in [Turns!Nodes -> NodeStatuses] /\ st[n] = s /\ \A m \in Turns!Nodes \ {n} : st[m] = status[m]
  BY DEF NodeTypes, NodeStatuses
<1> HIDE DEF st
<1>2. status' = Turns!Promoted(st) /\ order' = order /\ action' = action BY DEF Turns!Update, st
<1>3. /\ status' \in [Turns!Nodes -> NodeStatuses]
      /\ \A m \in Turns!Nodes : status'[m] = IF st[m] = "pending" /\ Turns!AllDepsDone(m, st) THEN "ready" ELSE st[m]
  BY <1>1, <1>2 DEF Turns!Promoted, NodeStatuses
<1>4. \A m \in Turns!Nodes : st[m] = "done" => status'[m] = "done" BY <1>3
<1>5. \A m : Turns!AllDepsDone(m, st) => Turns!AllDepsDone(m, status')
  BY <1>1, <1>3, <1>4 DEF Turns!AllDepsDone
<1> QED BY <1>1, <1>2, <1>3, <1>4, <1>5 DEF NodeMoves

\* The next of the copy, when it is taken up.
LEMMA ExecuteDoes ==
  ASSUME NodeTypes, TurnLists, InHand, Turns!ExecuteNode
  PROVE  /\ batch # <<>> /\ Head(batch) = batch[1] /\ 1 \in LeftInHand
         /\ Head(batch) \in Turns!Nodes /\ status[Head(batch)] = "ready"
         /\ LeftInHand = 1..Len(batch) /\ LeftInHand' = 2..Len(batch) /\ LeftInHand' \subseteq LeftInHand
         /\ NodeMoves(Head(batch), {"active"}) /\ batch' = batch
         /\ sent' \in Seq(Turns!Ids) /\ DOMAIN sent' = DOMAIN sent \cup {Len(sent) + 1}
         /\ DOMAIN sent = 1..Len(sent) /\ Len(sent) \in Nat
         /\ \A i \in DOMAIN sent : sent'[i] = sent[i]
         /\ sent'[Len(sent) + 1] = Head(batch) /\ Taken' = Taken \cup {Head(batch)}
         /\ ePlace = "drain" /\ ePlace' = "sent"
<1>1. batch \in Seq(Turns!Ids) /\ sent \in Seq(Turns!Ids) BY DEF TurnLists
<1>2. ePlace = "drain" /\ batch # <<>> /\ ePlace' = "sent" /\ batch' = batch /\ sent' = Append(sent, Head(batch))
  BY DEF Turns!ExecuteNode
<1>3. LeftInHand = 1..Len(batch) /\ LeftInHand' = 2..Len(batch) BY <1>2 DEF LeftInHand
<1>4. Len(batch) \in Nat /\ Len(batch) >= 1 /\ Head(batch) = batch[1] BY <1>1, <1>2, EmptySeq
<1>5. 1 \in LeftInHand /\ LeftInHand' \subseteq LeftInHand BY <1>3, <1>4
<1>6. Head(batch) \in Turns!Nodes /\ status[Head(batch)] = "ready" BY <1>4, <1>5 DEF InHand
<1>7. Head(batch) \in Turns!Ids BY <1>1, <1>2, HeadTailProperties
<1>8. NodeMoves(Head(batch), {"active"}) BY <1>6, UpdateMoves DEF Turns!ExecuteNode, Turns!MarkActive
<1>9. /\ sent' \in Seq(Turns!Ids) /\ Len(sent') = Len(sent) + 1 /\ Len(sent) \in Nat
      /\ \A i \in 1..Len(sent) : sent'[i] = sent[i]
      /\ sent'[Len(sent) + 1] = Head(batch)
  BY <1>1, <1>2, <1>7, AppendProperties, LenProperties
<1>10. DOMAIN sent' = 1..Len(sent) + 1 /\ DOMAIN sent = 1..Len(sent) BY <1>1, <1>9, LenProperties
<1>11. DOMAIN sent' = DOMAIN sent \cup {Len(sent) + 1} BY <1>9, <1>10
<1>12. Taken' = Taken \cup {Head(batch)} BY <1>9, <1>10, <1>11 DEF Taken, Turns!ToSet
<1> QED BY <1>2, <1>3, <1>4, <1>5, <1>6, <1>8, <1>9, <1>10, <1>11, <1>12

\* Its answer ends it, unless it is a dig that is begun.
LEMMA AnswerDoes ==
  ASSUME NodeTypes, TurnLists, InHand, TakenUp, Turns!Accepted \/ Turns!Rejected
  PROVE  /\ batch # <<>> /\ Head(batch) = batch[1] /\ Head(batch) \in Taken
         /\ LeftInHand = 2..Len(batch) /\ LeftInHand' = 1..Len(batch) - 1 /\ Len(batch) \in Nat
         /\ \A k \in LeftInHand' : k + 1 \in LeftInHand /\ batch'[k] = batch[k + 1]
         /\ \A k \in LeftInHand : k - 1 \in LeftInHand'
         /\ batch' \in Seq(Turns!Ids) /\ sent' = sent
         /\ NodeMoves(Head(batch), {"active", "done", "failed"})
         /\ status'[Head(batch)] = "active" => action[Head(batch)] = "dig"
         /\ ePlace = "sent" /\ ePlace' = "drain"
<1>1. batch \in Seq(Turns!Ids) BY DEF TurnLists
<1>2. ePlace = "sent" /\ ePlace' = "drain" /\ batch' = Tail(batch) /\ sent' = sent BY DEF Turns!Accepted, Turns!Rejected
<1>3. batch # <<>> /\ Head(batch) \in Taken BY <1>2 DEF InHand
<1>4. Len(batch) \in Nat /\ Len(batch) >= 1 /\ Head(batch) = batch[1] BY <1>1, <1>3, EmptySeq
<1>5. /\ Tail(batch) \in Seq(Turns!Ids) /\ Len(Tail(batch)) = Len(batch) - 1
      /\ \A k \in 1..Len(batch) - 1 : Tail(batch)[k] = batch[k + 1]
  BY <1>1, <1>3, HeadTailProperties
<1>6. LeftInHand = 2..Len(batch) /\ LeftInHand' = 1..Len(batch) - 1 BY <1>2, <1>5 DEF LeftInHand
<1>7. (\A k \in LeftInHand' : k + 1 \in LeftInHand /\ batch'[k] = batch[k + 1]) /\ (\A k \in LeftInHand : k - 1 \in LeftInHand')
  BY <1>2, <1>4, <1>5, <1>6
<1> DEFINE n == Head(batch)
<1>8. n \in Turns!Nodes /\ status[n] \in {"active", "done", "failed"}
  BY <1>3 DEF NodeTypes, TakenUp, NodeStatuses
<1>9. UNCHANGED Turns!dagVars => NodeMoves(n, {"active", "done", "failed"}) BY <1>8 DEF Turns!dagVars, NodeMoves, NodeTypes
<1>10. ASSUME NEW s \in {"done", "failed"}, Turns!Finish(n, s)
       PROVE  NodeMoves(n, {"active", "done", "failed"}) /\ status'[n] # "active"
  <2>1. CASE status[n] \in {"done", "failed"} BY <2>1, <1>9, <1>10 DEF Turns!Finish, Turns!dagVars
  <2>2. CASE status[n] = "active"
    <3>1. NodeMoves(n, {s}) BY <2>2, <1>8, <1>10, UpdateMoves DEF Turns!Finish
    <3> QED BY <3>1 DEF NodeMoves
  <2> QED BY <2>1, <2>2, <1>8
<1>11. NodeMoves(n, {"active", "done", "failed"}) /\ (status'[n] = "active" => action[n] = "dig")
  BY <1>9, <1>10 DEF Turns!Accepted, Turns!Rejected
<1> QED BY <1>2, <1>3, <1>4, <1>5, <1>6, <1>7, <1>11

\* a command without a type
PassedOver == plan[index + 1] = ""

\* A node that is added is fresh, and comes last.
LEMMA CommitDoes ==
  ASSUME TurnTypes, NodeTypes, TurnLists, FreshIds, Turns!CommitOne, ~PassedOver, Turns!PassesAssumption, Turns!PlansAssumption
  PROVE  /\ <<turn, index>> \in Turns!Ids \ Turns!Nodes /\ order' \in Seq(Turns!Ids) /\ Turns!Nodes' = Turns!Nodes \cup {<<turn, index>>}
         /\ DOMAIN order = 1..Len(order) /\ Len(order) \in Nat
         /\ DOMAIN order' = DOMAIN order \cup {Len(order) + 1}
         /\ \A i \in DOMAIN order : order'[i] = order[i] /\ i < Len(order) + 1
         /\ order'[Len(order) + 1] = <<turn, index>>
         /\ DOMAIN action' = Turns!Nodes' /\ \A m \in Turns!Nodes : action'[m] = action[m]
         /\ status' \in [Turns!Nodes' -> NodeStatuses] /\ \A m \in Turns!Nodes : status'[m] = status[m]
         /\ status'[<<turn, index>>] = IF Turns!AllDepsDone(<<turn, index>>, status) THEN "ready" ELSE "pending"
<1> DEFINE n == <<turn, index>>
<1> DEFINE Adds == Turns!Add(n, plan[index + 1])
<1> HIDE DEF Adds
<1>1. order \in Seq(Turns!Ids) BY DEF TurnLists
<1>2. place = "commit" /\ index < Len(plan) /\ Adds BY DEF Turns!CommitOne, PassedOver, Adds
<1>3. plan \in Plans /\ Len(plan) \in Nat /\ Len(plan) <= MaxLength
  <2>1. plan # <<>>
    <3>1. plan = <<>> => Len(plan) = 0 OBVIOUS
    <3> QED BY <1>2, <3>1 DEF TurnTypes
  <2>2. plan \in Plans BY <2>1 DEF TurnTypes
  <2>3. plan \in Seq(STRING) /\ Len(plan) \in 1..MaxLength /\ MaxLength \in Nat BY <2>2 DEF Turns!PlansAssumption
  <2> QED BY <2>2, <2>3
<1>4. n \in Turns!Ids 
  <2>1. turn \in 1..MaxTurns /\ index \in 0..MaxLength - 1 BY <1>2, <1>3 DEF TurnTypes, Turns!PassesAssumption, Turns!PlansAssumption
  <2> QED BY <2>1 DEF Turns!Ids
<1>5. n \notin Turns!Nodes
  <2>1. n[1] = turn /\ n[2] = index OBVIOUS
  <2>2. turn \in Int /\ index \in Int BY <1>2, <1>3 DEF TurnTypes, Turns!PassesAssumption
  <2> QED BY <1>2, <2>1, <2>2 DEF FreshIds
<1> HIDE DEF n
<1>a. order' = Append(order, n) BY <1>2 DEF Turns!Add, Adds
<1>6. /\ order' \in Seq(Turns!Ids) /\ Len(order') = Len(order) + 1 /\ Len(order) \in Nat
      /\ \A i \in 1..Len(order) : order'[i] = order[i]
      /\ order'[Len(order) + 1] = n
  BY <1>1, <1>a, <1>4, AppendProperties, LenProperties
<1>7. DOMAIN order = 1..Len(order) /\ DOMAIN order' = DOMAIN order \cup {Len(order) + 1} BY <1>1, <1>6, LenProperties
<1>8. Turns!Nodes' = Turns!Nodes \cup {n} BY <1>6, <1>7 DEF Turns!Nodes, Turns!ToSet
<1>9. DOMAIN action' = Turns!Nodes' /\ \A m \in Turns!Nodes : action'[m] = action[m] BY <1>2, <1>5, <1>8 DEF Turns!Add, Adds
<1>10. /\ status' = [m \in Turns!Nodes \cup {n} |-> IF m # n THEN status[m]
                       ELSE IF Turns!AllDepsDone(n, status) THEN "ready" ELSE "pending"]
       /\ status \in [Turns!Nodes -> NodeStatuses]
  BY <1>2 DEF Turns!Add, Adds, NodeTypes
<1>11. \A m \in Turns!Nodes : status'[m] = status[m] BY <1>5, <1>10
<1>12. status'[n] = IF Turns!AllDepsDone(n, status) THEN "ready" ELSE "pending" BY <1>10
<1>13. status' \in [Turns!Nodes' -> NodeStatuses] BY <1>8, <1>10 DEF NodeStatuses
<1> QED BY <1>4, <1>5, <1>6, <1>7, <1>8, <1>9, <1>11, <1>12, <1>13 DEF n

\* A copy is what is ready, in the order of the DAG.
LEMMA DrainDoes ==
  ASSUME TurnLists, Turns!Drain
  PROVE  /\ batch' \in Seq(Turns!Ids) /\ DOMAIN batch' = 1..Len(batch') /\ LeftInHand' = 1..Len(batch')
         /\ \A n : (\E k \in LeftInHand' : batch'[k] = n) <=> n \in Turns!Nodes /\ status[n] = "ready"
         /\ \A k, l \in LeftInHand' : k < l => \E i, j \in DOMAIN order : i < j /\ order[i] = batch'[k] /\ order[j] = batch'[l]
         /\ ePlace = "idle" /\ ePlace' = "drain" /\ UNCHANGED <<order, action, status, sent>>
<1>1. /\ ePlace = "idle" /\ ePlace' = "drain" /\ UNCHANGED <<order, action, status, sent>>
      /\ batch' = Turns!Chosen(order, {n \in Turns!Nodes : status[n] = "ready"})
  BY DEF Turns!Drain, Turns!Ready, Turns!dagVars
<1> DEFINE S == {n \in Turns!Nodes : status[n] = "ready"}
<1> HIDE DEF S
<1>2. order \in Seq(Turns!Ids) /\ batch' = Turns!Chosen(order, S) BY <1>1 DEF TurnLists, S
<1>3. /\ batch' \in Seq(Turns!Ids) /\ Turns!ToSet(batch') = {n \in Turns!Nodes : n \in S}
      /\ \A k, l \in DOMAIN batch' : k < l => \E i, j \in DOMAIN order : i < j /\ order[i] = batch'[k] /\ order[j] = batch'[l]
  BY <1>2, ChosenIs DEF Turns!Nodes
<1>4. DOMAIN batch' = 1..Len(batch') /\ LeftInHand' = 1..Len(batch') BY <1>1, <1>3, LenProperties DEF LeftInHand
<1>5. \A n : n \in Turns!ToSet(batch') <=> \E k \in LeftInHand' : batch'[k] = n BY <1>4 DEF Turns!ToSet
<1>6. \A n : (\E k \in LeftInHand' : batch'[k] = n) <=> n \in Turns!Nodes /\ status[n] = "ready" BY <1>3, <1>5 DEF S
<1>7. \A k, l \in LeftInHand' : k < l => \E i, j \in DOMAIN order : i < j /\ order[i] = batch'[k] /\ order[j] = batch'[l]
  BY <1>3, <1>4
<1> QED BY <1>1, <1>3, <1>4, <1>6, <1>7

\* What the reconciler finds done is not in the executor's hands.
LEMMA ReconciledDoes ==
  ASSUME NodeTypes, NEW n \in Turns!Ids, Turns!Reconciled(n)
  PROVE  /\ n \in Turns!Nodes /\ status[n] = "active" /\ NodeMoves(n, {"done"})
         /\ (ePlace = "sent" => n # Head(batch)) /\ UNCHANGED <<ePlace, batch, sent>>
<1>1. n \in Turns!Nodes /\ status[n] = "active" /\ Turns!Update(n, "done") BY DEF Turns!Reconciled
<1>2. NodeMoves(n, {"done"}) BY <1>1, UpdateMoves
<1> QED BY <1>1, <1>2 DEF Turns!Reconciled, Turns!workVars

\* The steps that leave the nodes, their statuses and the copy alone.
TurnQuiet ==
  /\ UNCHANGED <<order, action, status, batch, sent>>
  /\ \/ ePlace' = ePlace
     \/ ePlace = "idle" /\ ePlace' = "gone"
     \/ ePlace = "drain" /\ ePlace' = "idle" /\ batch = <<>>

\* What is left of the copy is the same after a quiet step.
LEMMA QuietRest == ASSUME TurnQuiet PROVE LeftInHand' = LeftInHand
BY DEF TurnQuiet, LeftInHand

\* Every step is one of these.
LEMMA TurnKinds ==
  ASSUME [Turns!Next]_(Turns!deliberationVars)
  PROVE  \/ TurnQuiet \/ Turns!Drain \/ Turns!ExecuteNode \/ Turns!Accepted \/ Turns!Rejected
         \/ (Turns!CommitOne /\ ~PassedOver) \/ \E n \in Turns!Ids : Turns!Reconciled(n)
<1> USE DEF Turns!dagVars, Turns!workVars
<1>1. ASSUME Turns!CommitOne, PassedOver PROVE TurnQuiet BY <1>1 DEF Turns!CommitOne, PassedOver, TurnQuiet
<1>2. CASE UNCHANGED Turns!deliberationVars BY <1>2 DEF Turns!deliberationVars, TurnQuiet
<1>3. ASSUME Turns!BeginCycle \/ Turns!SkipCycle \/ Turns!LeaveTurns \/ (\E p \in Plans : Turns!Commands(p)) \/ Turns!Requests \/ Turns!NoAnswer \/ Turns!Fetched \/ Turns!EndTurn
      PROVE  TurnQuiet
  BY <1>3 DEF Turns!BeginCycle, Turns!SkipCycle, Turns!LeaveTurns, Turns!Commands, Turns!Requests, Turns!NoAnswer, Turns!Fetched, Turns!EndTurn, TurnQuiet
<1>4. ASSUME Turns!LeaveDrains \/ Turns!Drained \/ Turns!Stop \/ Turns!StopReturns PROVE TurnQuiet
  BY <1>4 DEF Turns!LeaveDrains, Turns!Drained, Turns!Stop, Turns!StopReturns, TurnQuiet
<1> QED BY <1>1, <1>2, <1>3, <1>4 DEF Turns!Next, Turns!Deliberator, Turns!Executor

(* Each part holds after every step of the turns.                           *)

\* Places, counters and the plan keep their types: the model is asked in passes
\* of a turn, and commands are committed within their plan.
LEMMA TurnTypesStep ==
  ASSUME TurnTypes, [Turns!Next]_(Turns!deliberationVars), Turns!PassesAssumption, Turns!PlansAssumption
  PROVE  TurnTypes'
<1> USE DEF TurnTypes, Turns!PassesAssumption
<1>1. \A p \in Plans : Len(p) \in Nat BY DEF Turns!PlansAssumption
<1>2. CASE Turns!BeginCycle \/ Turns!SkipCycle \/ Turns!LeaveTurns BY <1>2 DEF Turns!BeginCycle, Turns!SkipCycle, Turns!LeaveTurns, Turns!workVars, Turns!stopVars
<1>3. ASSUME NEW p \in Plans, Turns!Commands(p) PROVE TurnTypes' BY <1>1, <1>3 DEF Turns!Commands, Turns!workVars, Turns!stopVars
<1>4. CASE Turns!Requests \/ Turns!NoAnswer \/ Turns!Fetched BY <1>4 DEF Turns!Requests, Turns!NoAnswer, Turns!Fetched, Turns!workVars, Turns!stopVars
<1>5. CASE Turns!EndTurn
  <2>1. 0 \in 0..Len(<<>>) BY EmptySeq
  <2> QED BY <1>5, <2>1 DEF Turns!EndTurn, Turns!workVars, Turns!stopVars
<1>6. CASE Turns!CommitOne
  <2>1. index < Len(plan) /\ index' = index + 1 /\ UNCHANGED <<place, turn, pass, plan, Turns!workVars, Turns!stopVars>>
    BY <1>6 DEF Turns!CommitOne
  <2>2. Len(plan) \in Nat /\ index + 1 \in 0..Len(plan) BY <1>1, <2>1, EmptySeq
  <2> QED BY <2>1, <2>2 DEF Turns!workVars, Turns!stopVars
<1>7. CASE Turns!Drain \/ Turns!LeaveDrains \/ Turns!Drained BY <1>7 DEF Turns!Drain, Turns!LeaveDrains, Turns!Drained, Turns!turnVars, Turns!stopVars
<1>8. CASE Turns!ExecuteNode \/ Turns!Accepted \/ Turns!Rejected BY <1>8 DEF Turns!ExecuteNode, Turns!Accepted, Turns!Rejected, Turns!turnVars, Turns!stopVars
<1>9. ASSUME NEW n \in Turns!Ids, Turns!Reconciled(n) PROVE TurnTypes' BY <1>9 DEF Turns!Reconciled, Turns!turnVars, Turns!stopVars, Turns!workVars
<1>10. CASE Turns!Stop \/ Turns!StopReturns BY <1>10 DEF Turns!Stop, Turns!StopReturns, Turns!turnVars, Turns!workVars
<1>11. CASE UNCHANGED Turns!deliberationVars BY <1>11 DEF Turns!deliberationVars, Turns!turnVars, Turns!workVars, Turns!stopVars
<1> QED BY <1>2, <1>3, <1>4, <1>5, <1>6, <1>7, <1>8, <1>9, <1>10, <1>11 DEF Turns!Next, Turns!Deliberator, Turns!Executor

\* What the rest of the proof assumes of the state a step starts from.
TurnHolds == TurnIInv /\ Turns!PassesAssumption /\ Turns!PlansAssumption

\* The lists hold nodes, and every node has a kind and a status.
LEMMA ListsStep == ASSUME TurnHolds, [Turns!Next]_(Turns!deliberationVars) PROVE TurnLists' /\ NodeTypes'
<1> USE DEF TurnHolds, TurnIInv
<1>1. CASE TurnQuiet BY <1>1 DEF TurnQuiet, TurnLists, NodeTypes, Turns!Nodes, Taken
<1>2. CASE Turns!Drain BY <1>2, DrainDoes DEF TurnLists, NodeTypes, Turns!Nodes, Taken
<1>3. CASE Turns!ExecuteNode
  <2>1. Turns!Nodes' = Turns!Nodes BY <1>3, ExecuteDoes DEF NodeMoves, Turns!Nodes
  <2> QED BY <1>3, <2>1, ExecuteDoes DEF NodeMoves, TurnLists, NodeTypes
<1>4. CASE Turns!Accepted \/ Turns!Rejected
  <2>1. Turns!Nodes' = Turns!Nodes /\ Taken' = Taken BY <1>4, AnswerDoes DEF NodeMoves, Turns!Nodes, Taken
  <2> QED BY <1>4, <2>1, AnswerDoes DEF NodeMoves, TurnLists, NodeTypes
<1>5. CASE Turns!CommitOne /\ ~PassedOver
  <2>1. UNCHANGED <<batch, sent>> BY <1>5 DEF Turns!CommitOne, Turns!workVars
  <2> QED BY <1>5, <2>1, CommitDoes DEF TurnLists, NodeTypes, Taken
<1>6. ASSUME NEW n \in Turns!Ids, Turns!Reconciled(n) PROVE TurnLists' /\ NodeTypes'
  <2>1. NodeMoves(n, {"done"}) /\ UNCHANGED <<batch, sent>> BY <1>6, ReconciledDoes
  <2> QED BY <2>1 DEF NodeMoves, TurnLists, NodeTypes, Turns!Nodes, Taken
<1> QED BY <1>1, <1>2, <1>3, <1>4, <1>5, <1>6, TurnKinds

\* Ids of earlier turns and lower indices only: CommitOne never meets its own.
LEMMA FreshIdsStep == ASSUME TurnHolds, [Turns!Next]_(Turns!deliberationVars) PROVE FreshIds'
<1> USE DEF TurnHolds, TurnIInv
<1>0. turn \in Int /\ index \in Int /\ \A n \in Turns!Nodes : n[1] \in Int /\ n[2] \in Int
  <2>1. index \in Int BY DEF TurnTypes
  <2>2. turn \in Int BY DEF TurnTypes, Turns!PassesAssumption
  <2>3. Turns!Nodes \subseteq Turns!Ids BY ElementOfSeq, LenProperties DEF TurnLists, Turns!Nodes, Turns!ToSet
  <2>4. \A n \in Turns!Ids : n[1] \in Int /\ n[2] \in Int BY DEF Turns!Ids
  <2> QED BY <2>1, <2>2, <2>3, <2>4
<1>1. ASSUME UNCHANGED <<order, turn, place, index>> PROVE FreshIds' BY <1>1 DEF FreshIds, Turns!Nodes
<1>2. CASE Turns!BeginCycle BY <1>0, <1>2 DEF Turns!BeginCycle, FreshIds, Turns!Nodes, Turns!dagVars
<1>3. CASE Turns!SkipCycle \/ Turns!LeaveTurns \/ Turns!Requests \/ Turns!NoAnswer \/ Turns!Fetched \/ Turns!EndTurn \/ \E p \in Plans : Turns!Commands(p)
  BY <1>0, <1>3 DEF Turns!SkipCycle, Turns!LeaveTurns, Turns!Requests, Turns!NoAnswer, Turns!Fetched, Turns!EndTurn, Turns!Commands, FreshIds, Turns!Nodes, Turns!dagVars
<1>4. CASE Turns!CommitOne /\ PassedOver
  <2>1. index' = index + 1 /\ UNCHANGED <<place, turn, order>> BY <1>4 DEF Turns!CommitOne, PassedOver, Turns!dagVars
  <2> QED BY <1>0, <2>1 DEF FreshIds, Turns!Nodes
<1>5. CASE Turns!CommitOne /\ ~PassedOver
  <2>1. place = "commit" /\ place' = "commit" /\ turn' = turn /\ index' = index + 1 BY <1>5 DEF Turns!CommitOne
  <2>2. Turns!Nodes' = Turns!Nodes \cup {<<turn, index>>} BY <1>5, CommitDoes
  <2> QED BY <1>0, <2>1, <2>2 DEF FreshIds
<1>6. CASE Turns!Drain \/ Turns!LeaveDrains \/ Turns!Drained
  BY <1>1, <1>6 DEF Turns!Drain, Turns!LeaveDrains, Turns!Drained, Turns!turnVars, Turns!dagVars
<1>7. CASE Turns!ExecuteNode BY <1>1, <1>7, ExecuteDoes DEF NodeMoves, Turns!ExecuteNode, Turns!turnVars
<1>8. CASE Turns!Accepted \/ Turns!Rejected BY <1>1, <1>8, AnswerDoes DEF NodeMoves, Turns!Accepted, Turns!Rejected, Turns!turnVars
<1>9. ASSUME NEW n \in Turns!Ids, Turns!Reconciled(n) PROVE FreshIds' BY <1>1, <1>9, ReconciledDoes DEF NodeMoves, Turns!Reconciled, Turns!turnVars
<1>10. CASE Turns!Stop \/ Turns!StopReturns BY <1>1, <1>10 DEF Turns!Stop, Turns!StopReturns, Turns!turnVars, Turns!dagVars
<1>11. CASE UNCHANGED Turns!deliberationVars BY <1>1, <1>11 DEF Turns!deliberationVars, Turns!turnVars, Turns!dagVars
<1> QED BY <1>2, <1>3, <1>4, <1>5, <1>6, <1>7, <1>8, <1>9, <1>10, <1>11 DEF Turns!Next, Turns!Deliberator, Turns!Executor

\* No node is added twice, and none is taken up twice.
LEMMA OneEachStep == ASSUME TurnHolds, [Turns!Next]_(Turns!deliberationVars) PROVE OneEach'
<1> USE DEF TurnHolds, TurnIInv
<1>1. ASSUME UNCHANGED <<order, sent>> PROVE OneEach' BY <1>1 DEF OneEach
<1>2. CASE TurnQuiet BY <1>1, <1>2 DEF TurnQuiet
<1>3. CASE Turns!Drain BY <1>1, <1>3, DrainDoes
<1>4. CASE Turns!ExecuteNode
  <2>1. Head(batch) \notin Taken /\ order' = order BY <1>4, ExecuteDoes DEF TakenUp, NodeMoves
  <2>2. \A i \in DOMAIN sent : sent[i] # Head(batch) BY <2>1 DEF Taken, Turns!ToSet
  <2>3. /\ DOMAIN sent' = DOMAIN sent \cup {Len(sent) + 1} /\ sent'[Len(sent) + 1] = Head(batch)
        /\ \A i \in DOMAIN sent : sent'[i] = sent[i]
    BY <1>4, ExecuteDoes
  <2> QED BY <2>1, <2>2, <2>3 DEF OneEach
<1>5. CASE Turns!Accepted \/ Turns!Rejected BY <1>1, <1>5, AnswerDoes DEF NodeMoves
<1>6. CASE Turns!CommitOne /\ ~PassedOver
  <2>1. sent' = sent BY <1>6 DEF Turns!CommitOne, Turns!workVars
  <2>2. /\ DOMAIN order' = DOMAIN order \cup {Len(order) + 1} /\ order'[Len(order) + 1] = <<turn, index>>
        /\ (\A i \in DOMAIN order : order'[i] = order[i]) /\ <<turn, index>> \notin Turns!Nodes
    BY <1>6, CommitDoes
  <2>3. \A i \in DOMAIN order : order[i] # <<turn, index>> BY <2>2 DEF Turns!Nodes, Turns!ToSet
  <2> QED BY <2>1, <2>2, <2>3 DEF OneEach
<1>7. ASSUME NEW n \in Turns!Ids, Turns!Reconciled(n) PROVE OneEach' BY <1>1, <1>7, ReconciledDoes DEF NodeMoves
<1> QED BY <1>2, <1>3, <1>4, <1>5, <1>6, <1>7, TurnKinds

\* A node has been taken up when it neither waits nor is ready.
LEMMA TakenUpStep == ASSUME TurnHolds, [Turns!Next]_(Turns!deliberationVars) PROVE TakenUp'
<1> USE DEF TurnHolds, TurnIInv
<1>1. CASE TurnQuiet BY <1>1 DEF TurnQuiet, TakenUp, Turns!Nodes, Taken
<1>2. CASE Turns!Drain BY <1>2, DrainDoes DEF TakenUp, Turns!Nodes, Taken
<1>3. CASE Turns!ExecuteNode
  <2>1. Turns!Nodes' = Turns!Nodes BY <1>3, ExecuteDoes DEF NodeMoves, Turns!Nodes
  <2> QED BY <1>3, <2>1, ExecuteDoes DEF NodeMoves, TakenUp
<1>4. CASE Turns!Accepted \/ Turns!Rejected
  <2>1. Turns!Nodes' = Turns!Nodes /\ Taken' = Taken BY <1>4, AnswerDoes DEF NodeMoves, Turns!Nodes, Taken
  <2> QED BY <1>4, <2>1, AnswerDoes DEF NodeMoves, TakenUp
<1>5. CASE Turns!CommitOne /\ ~PassedOver
  <2>1. Taken' = Taken BY <1>5 DEF Turns!CommitOne, Turns!workVars, Taken
  <2>2. /\ <<turn, index>> \notin Turns!Nodes /\ Turns!Nodes' = Turns!Nodes \cup {<<turn, index>>}
        /\ status'[<<turn, index>>] \in {"ready", "pending"} /\ \A m \in Turns!Nodes : status'[m] = status[m]
    BY <1>5, CommitDoes
  <2>3. <<turn, index>> \notin Taken BY <2>2 DEF NodeTypes
  <2> QED BY <2>1, <2>2, <2>3 DEF TakenUp
<1>6. ASSUME NEW n \in Turns!Ids, Turns!Reconciled(n) PROVE TakenUp'
  <2>1. NodeMoves(n, {"done"}) /\ sent' = sent /\ n \in Turns!Nodes /\ status[n] = "active" BY <1>6, ReconciledDoes
  <2>2. Turns!Nodes' = Turns!Nodes /\ Taken' = Taken BY <2>1 DEF NodeMoves, Turns!Nodes, Taken
  <2> QED BY <2>1, <2>2 DEF NodeMoves, TakenUp
<1> QED BY <1>1, <1>2, <1>3, <1>4, <1>5, <1>6, TurnKinds

\* A node that may be moved keeps its dependencies, and so do those it frees.
LEMMA MovesDeps ==
  ASSUME NodeTypes, DepsFirst, NEW n \in Turns!Nodes, status[n] # "pending", NEW S, "pending" \notin S, NodeMoves(n, S)
  PROVE  DepsFirst'
<1>1. Turns!Nodes' = Turns!Nodes BY DEF NodeMoves, Turns!Nodes
<1>2. DOMAIN status = Turns!Nodes /\ DOMAIN status' = Turns!Nodes BY DEF NodeMoves, NodeTypes
<1>3. \A m : Turns!AllDepsDone(m, status) => Turns!AllDepsDone(m, status') BY <1>2 DEF Turns!AllDepsDone, NodeMoves
<1>4. \A m \in Turns!Nodes \ {n} : IF status'[m] = "pending" THEN ~Alone(m) ELSE Turns!AllDepsDone(m, status')
  BY <1>3 DEF NodeMoves, DepsFirst
<1>5. status'[n] # "pending" /\ Turns!AllDepsDone(n, status') BY <1>3 DEF NodeMoves, DepsFirst
<1>6. \A m \in Turns!Nodes : IF status'[m] = "pending" THEN ~Alone(m) ELSE Turns!AllDepsDone(m, status') BY <1>4, <1>5
<1> QED BY <1>1, <1>6 DEF DepsFirst, Alone, Turns!AllDepsDone

\* Nothing leaves "pending" before all it depends on is done, and done is final.
LEMMA DepsFirstStep == ASSUME TurnHolds, [Turns!Next]_(Turns!deliberationVars) PROVE DepsFirst'
<1> USE DEF TurnHolds, TurnIInv
<1>1. ASSUME UNCHANGED <<order, status>> PROVE DepsFirst' BY <1>1 DEF DepsFirst, Turns!Nodes, Turns!AllDepsDone, Alone
<1>2. CASE TurnQuiet BY <1>1, <1>2 DEF TurnQuiet
<1>3. CASE Turns!Drain BY <1>1, <1>3, DrainDoes
<1>4. CASE Turns!ExecuteNode BY <1>4, ExecuteDoes, MovesDeps
<1>5. CASE Turns!Accepted \/ Turns!Rejected
  <2>1. Head(batch) \in Turns!Nodes /\ status[Head(batch)] # "pending" BY <1>5, AnswerDoes DEF NodeTypes, TakenUp
  <2> QED BY <1>5, <2>1, AnswerDoes, MovesDeps
<1>6. CASE Turns!CommitOne /\ ~PassedOver
  <2> DEFINE n == <<turn, index>>
  <2>1. /\ n \notin Turns!Nodes /\ Turns!Nodes' = Turns!Nodes \cup {n} /\ (\A m \in Turns!Nodes : status'[m] = status[m])
        /\ status'[n] = (IF Turns!AllDepsDone(n, status) THEN "ready" ELSE "pending")
        /\ DOMAIN status' = Turns!Nodes' /\ DOMAIN status = Turns!Nodes
    BY <1>6, CommitDoes DEF NodeTypes
  <2> HIDE DEF n
  <2>2. \A m : Turns!AllDepsDone(m, status) => Turns!AllDepsDone(m, status') BY <2>1 DEF Turns!AllDepsDone
  <2>3. \A m \in Turns!Nodes : IF status'[m] = "pending" THEN ~Alone(m) ELSE Turns!AllDepsDone(m, status') BY <2>1, <2>2 DEF DepsFirst
  <2>4. Alone(n) => Turns!AllDepsDone(n, status) BY DEF Alone, Turns!AllDepsDone
  <2>5. IF status'[n] = "pending" THEN ~Alone(n) ELSE Turns!AllDepsDone(n, status') BY <2>1, <2>2, <2>4
  <2>6. \A m \in Turns!Nodes' : IF status'[m] = "pending" THEN ~Alone(m) ELSE Turns!AllDepsDone(m, status') BY <2>1, <2>3, <2>5
  <2> QED BY <2>6 DEF DepsFirst, Alone, Turns!AllDepsDone
<1>7. ASSUME NEW n \in Turns!Ids, Turns!Reconciled(n) PROVE DepsFirst'
  <2>1. NodeMoves(n, {"done"}) /\ n \in Turns!Nodes /\ status[n] = "active" BY <1>7, ReconciledDoes
  <2> QED BY <2>1, MovesDeps
<1> QED BY <1>2, <1>3, <1>4, <1>5, <1>6, <1>7, TurnKinds

\* What is left of the copy stays ready, whatever is committed and reconciled.
LEMMA InHandStep == ASSUME TurnHolds, [Turns!Next]_(Turns!deliberationVars) PROVE InHand'
<1> USE DEF TurnHolds, TurnIInv
<1>1. CASE TurnQuiet
  <2>1. UNCHANGED <<batch, sent, status, order>> /\ LeftInHand' = LeftInHand BY <1>1, QuietRest DEF TurnQuiet
  <2>2. ePlace' \in {"idle", "gone"} => batch = <<>> BY <1>1 DEF TurnQuiet, InHand
  <2>3. ePlace' = "sent" => ePlace = "sent" BY <1>1 DEF TurnQuiet
  <2> QED BY <2>1, <2>2, <2>3 DEF InHand, Turns!Nodes, Taken
<1>2. CASE Turns!Drain
  <2>1. Turns!Nodes' = Turns!Nodes /\ status' = status /\ ePlace' = "drain" BY <1>2, DrainDoes DEF Turns!Nodes
  <2>2. \A k \in LeftInHand' : batch'[k] \in Turns!Nodes /\ status[batch'[k]] = "ready" BY <1>2, DrainDoes
  <2> QED BY <2>1, <2>2 DEF InHand
<1>3. CASE Turns!ExecuteNode
  <2>1. /\ batch # <<>> /\ Head(batch) = batch[1] /\ 1 \in LeftInHand /\ LeftInHand' = 2..Len(batch) /\ LeftInHand' \subseteq LeftInHand /\ batch' = batch
        /\ NodeMoves(Head(batch), {"active"}) /\ Head(batch) \in Taken' /\ ePlace' = "sent"
    BY <1>3, ExecuteDoes
  <2>2. Turns!Nodes' = Turns!Nodes BY <2>1 DEF NodeMoves, Turns!Nodes
  <2>3. ASSUME NEW k \in LeftInHand' PROVE batch[k] \in Turns!Nodes /\ status'[batch[k]] = "ready"
    <3>1. k \in LeftInHand /\ 1 < k /\ batch[k] \in Turns!Nodes /\ status[batch[k]] = "ready" BY <2>1 DEF InHand
    <3>2. PICK i, j \in DOMAIN order : i < j /\ order[i] = batch[1] /\ order[j] = batch[k] BY <2>1, <3>1 DEF Sorted
    <3>3. i \in Int /\ j \in Int BY LenProperties DEF TurnLists
    <3>4. batch[k] # Head(batch) BY <2>1, <3>2, <3>3 DEF OneEach
    <3> QED BY <2>1, <3>1, <3>4 DEF NodeMoves
  <2> QED BY <2>1, <2>2, <2>3 DEF InHand
<1>4. CASE Turns!Accepted \/ Turns!Rejected
  <2>1. /\ \A k \in LeftInHand' : k + 1 \in LeftInHand /\ batch'[k] = batch[k + 1]
        /\ NodeMoves(Head(batch), {"active", "done", "failed"}) /\ Head(batch) \in Taken /\ ePlace' = "drain"
    BY <1>4, AnswerDoes
  <2>2. Turns!Nodes' = Turns!Nodes BY <2>1 DEF NodeMoves, Turns!Nodes
  <2>3. ASSUME NEW k \in LeftInHand' PROVE batch'[k] \in Turns!Nodes /\ status'[batch'[k]] = "ready"
    <3>1. batch'[k] \in Turns!Nodes /\ status[batch'[k]] = "ready" BY <2>1 DEF InHand
    <3>2. batch'[k] # Head(batch) BY <2>1, <3>1 DEF TakenUp
    <3> QED BY <2>1, <3>1, <3>2 DEF NodeMoves
  <2> QED BY <2>1, <2>2, <2>3 DEF InHand
<1>5. CASE Turns!CommitOne /\ ~PassedOver
  <2>1. UNCHANGED <<ePlace, batch, sent>> BY <1>5 DEF Turns!CommitOne, Turns!workVars
  <2>2. LeftInHand' = LeftInHand /\ Taken' = Taken BY <2>1 DEF LeftInHand, Taken
  <2>3. Turns!Nodes \subseteq Turns!Nodes' /\ \A m \in Turns!Nodes : status'[m] = status[m] BY <1>5, CommitDoes
  <2> QED BY <2>1, <2>2, <2>3 DEF InHand
<1>6. ASSUME NEW n \in Turns!Ids, Turns!Reconciled(n) PROVE InHand'
  <2>1. NodeMoves(n, {"done"}) /\ UNCHANGED <<ePlace, batch, sent>> /\ n \in Turns!Nodes /\ status[n] = "active" BY <1>6, ReconciledDoes
  <2>2. LeftInHand' = LeftInHand /\ Taken' = Taken /\ Turns!Nodes' = Turns!Nodes BY <2>1 DEF LeftInHand, Taken, NodeMoves, Turns!Nodes
  <2>3. ASSUME NEW k \in LeftInHand PROVE batch[k] \in Turns!Nodes /\ status'[batch[k]] = "ready"
    <3>1. batch[k] \in Turns!Nodes /\ status[batch[k]] = "ready" BY DEF InHand
    <3>2. batch[k] # n BY <2>1, <3>1
    <3> QED BY <2>1, <3>1, <3>2 DEF NodeMoves
  <2> QED BY <2>1, <2>2, <2>3 DEF InHand
<1> QED BY <1>1, <1>2, <1>3, <1>4, <1>5, <1>6, TurnKinds

\* The copy stays in the order of the DAG, which grows at its end.
LEMMA SortedStep == ASSUME TurnHolds, [Turns!Next]_(Turns!deliberationVars) PROVE Sorted'
<1> USE DEF TurnHolds, TurnIInv
<1>1. ASSUME UNCHANGED <<order, batch>>, LeftInHand' \subseteq LeftInHand PROVE Sorted' BY <1>1 DEF Sorted
<1>2. CASE TurnQuiet BY <1>1, <1>2, QuietRest DEF TurnQuiet
<1>3. CASE Turns!Drain
  <2>1. order' = order /\ \A k, l \in LeftInHand' : k < l => \E i, j \in DOMAIN order : i < j /\ order[i] = batch'[k] /\ order[j] = batch'[l]
    BY <1>3, DrainDoes
  <2> QED BY <2>1 DEF Sorted
<1>4. CASE Turns!ExecuteNode BY <1>1, <1>4, ExecuteDoes DEF NodeMoves
<1>5. CASE Turns!Accepted \/ Turns!Rejected
  <2>1. /\ order' = order /\ \A k \in LeftInHand' : k + 1 \in LeftInHand /\ batch'[k] = batch[k + 1]
        /\ LeftInHand' = 1..Len(batch) - 1 /\ Len(batch) \in Nat
    BY <1>5, AnswerDoes DEF NodeMoves
  <2>2. \A k, l \in LeftInHand' : k < l => k + 1 < l + 1 BY <2>1
  <2> QED BY <2>1, <2>2 DEF Sorted
<1>6. CASE Turns!CommitOne /\ ~PassedOver
  <2>1. UNCHANGED <<ePlace, batch>> BY <1>6 DEF Turns!CommitOne, Turns!workVars
  <2>2. LeftInHand' = LeftInHand BY <2>1 DEF LeftInHand
  <2>3. DOMAIN order' = DOMAIN order \cup {Len(order) + 1} /\ \A i \in DOMAIN order : order'[i] = order[i]
    BY <1>6, CommitDoes
  <2> QED BY <2>1, <2>2, <2>3 DEF Sorted
<1>7. ASSUME NEW n \in Turns!Ids, Turns!Reconciled(n) PROVE Sorted'
  <2>1. UNCHANGED <<order, ePlace, batch>> BY <1>7, ReconciledDoes DEF NodeMoves
  <2> QED BY <1>1, <2>1 DEF LeftInHand
<1> QED BY <1>2, <1>3, <1>4, <1>5, <1>6, <1>7, TurnKinds

\* Nothing that waits for nothing comes to be passed over.
LEMMA NonePassedStep == ASSUME TurnHolds, [Turns!Next]_(Turns!deliberationVars) PROVE NonePassed'
<1> USE DEF TurnHolds, TurnIInv, Alone
<1>1. ASSUME UNCHANGED <<order, batch, sent>>, LeftInHand' = LeftInHand PROVE NonePassed' BY <1>1 DEF NonePassed, Taken
<1>2. CASE TurnQuiet BY <1>1, <1>2, QuietRest DEF TurnQuiet
<1>3. CASE Turns!Drain
  <2>1. /\ order' = order /\ Taken' = Taken
        /\ \A n : (\E k \in LeftInHand' : batch'[k] = n) <=> n \in Turns!Nodes /\ status[n] = "ready"
    BY <1>3, DrainDoes DEF Taken
  <2>2. \A n \in Turns!Nodes : Alone(n) /\ n \notin Taken => status[n] = "ready" BY DEF TakenUp, DepsFirst
  <2>3. \A i \in DOMAIN order : order[i] \in Turns!Nodes BY DEF Turns!Nodes, Turns!ToSet
  <2> QED BY <2>1, <2>2, <2>3 DEF NonePassed
<1>4. CASE Turns!ExecuteNode
  <2>1. /\ order' = order /\ batch' = batch /\ LeftInHand = 1..Len(batch) /\ LeftInHand' = 2..Len(batch) /\ LeftInHand' \subseteq LeftInHand
        /\ Head(batch) = batch[1] /\ Taken' = Taken \cup {Head(batch)}
    BY <1>4, ExecuteDoes DEF NodeMoves
  <2>2. \A k \in LeftInHand : k \in LeftInHand' \/ batch[k] \in Taken' BY <2>1
  <2> QED BY <2>1, <2>2 DEF NonePassed
<1>5. CASE Turns!Accepted \/ Turns!Rejected
  <2>1. /\ order' = order /\ sent' = sent
        /\ (\A k \in LeftInHand' : k + 1 \in LeftInHand /\ batch'[k] = batch[k + 1]) /\ (\A k \in LeftInHand : k - 1 \in LeftInHand')
        /\ LeftInHand = 2..Len(batch) /\ Len(batch) \in Nat
    BY <1>5, AnswerDoes DEF NodeMoves
  <2>2. \A n : (\E k \in LeftInHand' : batch'[k] = n) <=> (\E k \in LeftInHand : batch[k] = n)
    <3>1. \A k \in LeftInHand : k - 1 \in LeftInHand' /\ batch'[k - 1] = batch[k] BY <2>1
    <3> QED BY <2>1, <3>1
  <2>3. Taken' = Taken BY <2>1 DEF Taken
  <2> DEFINE left == {batch[k] : k \in LeftInHand}
  <2>4. \A n : n \in left <=> \E k \in LeftInHand : batch[k] = n OBVIOUS
  <2>5. \A i, j \in DOMAIN order : i < j /\ Alone(order[i]) /\ order[i] \notin Taken /\ order[j] \in left => order[i] \in left
    BY DEF NonePassed
  <2>6. \A n : n \in left <=> \E k \in LeftInHand' : batch'[k] = n BY <2>2, <2>4
  <2> HIDE DEF left
  <2> QED BY <2>1, <2>3, <2>5, <2>6 DEF NonePassed
<1>6. CASE Turns!CommitOne /\ ~PassedOver
  <2>1. UNCHANGED <<ePlace, batch, sent>> BY <1>6 DEF Turns!CommitOne, Turns!workVars
  <2>2. LeftInHand' = LeftInHand /\ Taken' = Taken BY <2>1 DEF LeftInHand, Taken
  <2>3. /\ DOMAIN order' = DOMAIN order \cup {Len(order) + 1}
        /\ \A i \in DOMAIN order : order'[i] = order[i] /\ i < Len(order) + 1
        /\ order'[Len(order) + 1] = <<turn, index>> /\ <<turn, index>> \notin Turns!Nodes
        /\ DOMAIN order = 1..Len(order) /\ Len(order) \in Nat
    BY <1>6, CommitDoes
  <2>4. \A k \in LeftInHand : batch[k] # <<turn, index>> BY <2>3 DEF InHand
  <2>5. SUFFICES ASSUME NEW i \in DOMAIN order', NEW j \in DOMAIN order', i < j, Alone(order'[i]), order'[i] \notin Taken,
                        \E k \in LeftInHand : batch[k] = order'[j]
                 PROVE  \E k \in LeftInHand : batch[k] = order'[i]
    BY <2>1, <2>2 DEF NonePassed
  <2>6. j \in DOMAIN order BY <2>3, <2>4, <2>5
  <2>7. i \in DOMAIN order BY <2>3, <2>5, <2>6
  <2> QED BY <2>3, <2>5, <2>6, <2>7 DEF NonePassed
<1>7. ASSUME NEW n \in Turns!Ids, Turns!Reconciled(n) PROVE NonePassed'
  <2>1. UNCHANGED <<order, ePlace, batch, sent>> BY <1>7, ReconciledDoes DEF NodeMoves
  <2> QED BY <1>1, <2>1 DEF LeftInHand
<1> QED BY <1>2, <1>3, <1>4, <1>5, <1>6, <1>7, TurnKinds

\* What is committed before a node that is taken up, and waits for nothing, has
\* been taken up: it cannot come later in the copy.
LEMMA EarlierTaken ==
  ASSUME TurnHolds, Turns!ExecuteNode, NEW i \in DOMAIN order, NEW j \in DOMAIN order,
         i < j, Alone(order[i]), order[j] = Head(batch)
  PROVE  order[i] \in Taken
<1> USE DEF TurnHolds, TurnIInv
<1>1. Head(batch) = batch[1] /\ 1 \in LeftInHand /\ LeftInHand = 1..Len(batch) BY ExecuteDoes
<1>2. i \in Int /\ j \in Int /\ \A a \in DOMAIN order : a \in Int BY LenProperties DEF TurnLists
<1>3. SUFFICES ASSUME order[i] \notin Taken PROVE FALSE OBVIOUS
<1>4. PICK k \in LeftInHand : batch[k] = order[i] BY <1>1, <1>3 DEF NonePassed
<1>5. k # 1 BY <1>1, <1>2, <1>4 DEF OneEach
<1>6. 1 < k BY <1>1, <1>4, <1>5
<1>7. PICK a, b \in DOMAIN order : a < b /\ order[a] = batch[1] /\ order[b] = batch[k] BY <1>1, <1>4, <1>6 DEF Sorted
<1>8. a = j /\ b = i BY <1>1, <1>4, <1>7 DEF OneEach
<1> QED BY <1>2, <1>7, <1>8

\* So nodes without dependencies are taken up in the order of the commits.
LEMMA SentInOrderStep == ASSUME TurnHolds, [Turns!Next]_(Turns!deliberationVars) PROVE SentInOrder'
<1> USE DEF TurnHolds, TurnIInv, Alone
<1>1. ASSUME UNCHANGED <<order, sent>> PROVE SentInOrder' BY <1>1 DEF SentInOrder, Taken
<1>2. CASE TurnQuiet BY <1>1, <1>2 DEF TurnQuiet
<1>3. CASE Turns!Drain BY <1>1, <1>3, DrainDoes
<1>4. CASE Turns!ExecuteNode
  <2>1. /\ order' = order /\ Taken' = Taken \cup {Head(batch)}
        /\ DOMAIN sent' = DOMAIN sent \cup {Len(sent) + 1} /\ DOMAIN sent = 1..Len(sent) /\ Len(sent) \in Nat
        /\ (\A k \in DOMAIN sent : sent'[k] = sent[k]) /\ sent'[Len(sent) + 1] = Head(batch)
    BY <1>4, ExecuteDoes DEF NodeMoves
  <2>2. ASSUME NEW i \in DOMAIN order, NEW j \in DOMAIN order, i < j, Alone(order[i]), Alone(order[j]), order[j] \in Taken'
        PROVE  \E k, l \in DOMAIN sent' : k < l /\ sent'[k] = order[i] /\ sent'[l] = order[j]
    <3>1. CASE order[j] \in Taken
      <4>1. PICK k, l \in DOMAIN sent : k < l /\ sent[k] = order[i] /\ sent[l] = order[j] BY <2>2, <3>1 DEF SentInOrder
      <4> QED BY <2>1, <4>1
    <3>2. CASE order[j] = Head(batch)
      <4>1. order[i] \in Taken BY <1>4, <2>2, <3>2, EarlierTaken
      <4>2. PICK k \in DOMAIN sent : sent[k] = order[i] BY <4>1 DEF Taken, Turns!ToSet
      <4>3. k < Len(sent) + 1 /\ k \in DOMAIN sent' /\ Len(sent) + 1 \in DOMAIN sent' BY <2>1, <4>2
      <4> QED BY <2>1, <3>2, <4>2, <4>3
    <3> QED BY <2>1, <2>2, <3>1, <3>2
  <2> QED BY <2>1, <2>2 DEF SentInOrder
<1>5. CASE Turns!Accepted \/ Turns!Rejected BY <1>1, <1>5, AnswerDoes DEF NodeMoves
<1>6. CASE Turns!CommitOne /\ ~PassedOver
  <2>1. sent' = sent /\ Taken' = Taken BY <1>6 DEF Turns!CommitOne, Turns!workVars, Taken
  <2>2. /\ DOMAIN order' = DOMAIN order \cup {Len(order) + 1}
        /\ \A i \in DOMAIN order : order'[i] = order[i] /\ i < Len(order) + 1
        /\ order'[Len(order) + 1] = <<turn, index>> /\ <<turn, index>> \notin Turns!Nodes
        /\ DOMAIN order = 1..Len(order) /\ Len(order) \in Nat
    BY <1>6, CommitDoes
  <2>3. <<turn, index>> \notin Taken BY <2>2 DEF NodeTypes
  <2>4. SUFFICES ASSUME NEW i \in DOMAIN order', NEW j \in DOMAIN order', i < j, Alone(order'[i]), Alone(order'[j]), order'[j] \in Taken
                 PROVE  \E k, l \in DOMAIN sent : k < l /\ sent[k] = order'[i] /\ sent[l] = order'[j]
    BY <2>1 DEF SentInOrder
  <2>5. j \in DOMAIN order BY <2>2, <2>3, <2>4
  <2>6. i \in DOMAIN order BY <2>2, <2>4, <2>5
  <2> QED BY <2>2, <2>4, <2>5, <2>6 DEF SentInOrder
<1>7. ASSUME NEW n \in Turns!Ids, Turns!Reconciled(n) PROVE SentInOrder' BY <1>1, <1>7, ReconciledDoes DEF NodeMoves
<1> QED BY <1>2, <1>3, <1>4, <1>5, <1>6, <1>7, TurnKinds

\* Only a dig, or the node the executor is at, is under way.
LEMMA UnderWayStep == ASSUME TurnHolds, [Turns!Next]_(Turns!deliberationVars) PROVE UnderWay'
<1> USE DEF TurnHolds, TurnIInv
<1>1. CASE TurnQuiet
  <2>1. ePlace = "sent" => ePlace' = "sent" BY <1>1 DEF TurnQuiet
  <2> QED BY <1>1, <2>1 DEF TurnQuiet, UnderWay, Turns!Nodes
<1>2. CASE Turns!Drain
  <2>1. UNCHANGED <<order, action, status>> /\ ePlace = "idle" BY <1>2, DrainDoes
  <2> QED BY <2>1 DEF UnderWay, Turns!Nodes
<1>3. CASE Turns!ExecuteNode
  <2>1. NodeMoves(Head(batch), {"active"}) /\ batch' = batch /\ ePlace = "drain" /\ ePlace' = "sent" BY <1>3, ExecuteDoes
  <2>2. Turns!Nodes' = Turns!Nodes BY <2>1 DEF NodeMoves, Turns!Nodes
  <2> QED BY <2>1, <2>2 DEF NodeMoves, UnderWay
<1>4. CASE Turns!Accepted \/ Turns!Rejected
  <2>1. NodeMoves(Head(batch), {"active", "done", "failed"}) /\ (status'[Head(batch)] = "active" => action[Head(batch)] = "dig")
    BY <1>4, AnswerDoes
  <2>2. Turns!Nodes' = Turns!Nodes BY <2>1 DEF NodeMoves, Turns!Nodes
  <2> QED BY <2>1, <2>2 DEF NodeMoves, UnderWay
<1>5. CASE Turns!CommitOne /\ ~PassedOver
  <2>1. UNCHANGED <<ePlace, batch>> BY <1>5 DEF Turns!CommitOne, Turns!workVars
  <2>2. /\ Turns!Nodes' = Turns!Nodes \cup {<<turn, index>>} /\ \A m \in Turns!Nodes : action'[m] = action[m] /\ status'[m] = status[m]
        /\ status'[<<turn, index>>] # "active"
    BY <1>5, CommitDoes
  <2> QED BY <2>1, <2>2 DEF UnderWay
<1>6. ASSUME NEW n \in Turns!Ids, Turns!Reconciled(n) PROVE UnderWay'
  <2>1. NodeMoves(n, {"done"}) /\ UNCHANGED <<ePlace, batch>> BY <1>6, ReconciledDoes
  <2>2. Turns!Nodes' = Turns!Nodes BY <2>1 DEF NodeMoves, Turns!Nodes
  <2> QED BY <2>1, <2>2 DEF NodeMoves, UnderWay
<1> QED BY <1>1, <1>2, <1>3, <1>4, <1>5, <1>6, TurnKinds

\* Stop has waited for the executor.
LEMMA StoppedStep == ASSUME TurnHolds, [Turns!Next]_(Turns!deliberationVars) PROVE TurnStopped'
<1> USE DEF TurnHolds, TurnIInv
<1>1. ASSUME stopping' = stopping, ePlace = "gone" => ePlace' = "gone" PROVE TurnStopped' BY <1>1 DEF TurnStopped
<1>2. CASE Turns!BeginCycle \/ Turns!SkipCycle \/ Turns!LeaveTurns \/ Turns!Requests \/ Turns!NoAnswer \/ Turns!Fetched \/ Turns!CommitOne \/ Turns!EndTurn \/ \E p \in Plans : Turns!Commands(p)
  BY <1>1, <1>2 DEF Turns!BeginCycle, Turns!SkipCycle, Turns!LeaveTurns, Turns!Requests, Turns!NoAnswer, Turns!Fetched, Turns!CommitOne, Turns!EndTurn, Turns!Commands, Turns!workVars, Turns!stopVars
<1>3. CASE Turns!Drain \/ Turns!LeaveDrains \/ Turns!Drained BY <1>1, <1>3 DEF Turns!Drain, Turns!LeaveDrains, Turns!Drained, Turns!stopVars
<1>4. CASE Turns!ExecuteNode \/ Turns!Accepted \/ Turns!Rejected BY <1>1, <1>4 DEF Turns!ExecuteNode, Turns!Accepted, Turns!Rejected, Turns!stopVars
<1>5. ASSUME NEW n \in Turns!Ids, Turns!Reconciled(n) PROVE TurnStopped' BY <1>1, <1>5 DEF Turns!Reconciled, Turns!workVars, Turns!stopVars
<1>6. CASE Turns!Stop \/ Turns!StopReturns BY <1>6 DEF Turns!Stop, Turns!StopReturns, TurnStopped, Turns!workVars
<1>7. CASE UNCHANGED Turns!deliberationVars BY <1>1, <1>7 DEF Turns!deliberationVars, Turns!workVars, Turns!stopVars
<1> QED BY <1>2, <1>3, <1>4, <1>5, <1>6, <1>7 DEF Turns!Next, Turns!Deliberator, Turns!Executor

\* There is nothing in the DAG of a new program.
LEMMA TurnInit == ASSUME Turns!Init, Turns!PassesAssumption, Turns!PlansAssumption PROVE TurnIInv
<1> USE DEF Turns!Init
<1>1. Turns!Nodes = {} /\ Taken = {} /\ DOMAIN order = {} /\ DOMAIN sent = {} /\ LeftInHand = {} BY EmptySeq DEF Turns!Nodes, Taken, Turns!ToSet, LeftInHand
<1>2. TurnTypes
  <2>1. Len(plan) = 0 BY EmptySeq
  <2>2. 0 \in 0..MaxTurns /\ 0 \in 0..MaxPasses + 1 /\ 0 \in 0..0 BY DEF Turns!PassesAssumption
  <2> QED BY <2>1, <2>2 DEF TurnTypes
<1>3. TurnLists BY EmptySeq DEF TurnLists
<1>4. NodeTypes BY <1>1 DEF NodeTypes
<1>5. FreshIds /\ TakenUp /\ DepsFirst /\ UnderWay BY <1>1 DEF FreshIds, TakenUp, DepsFirst, UnderWay
<1>6. OneEach /\ SentInOrder /\ NonePassed /\ Sorted BY <1>1 DEF OneEach, SentInOrder, NonePassed, Sorted
<1>7. InHand /\ TurnStopped BY <1>1 DEF InHand, TurnStopped
<1> QED BY <1>2, <1>3, <1>4, <1>5, <1>6, <1>7 DEF TurnIInv

\* Every step of the deliberator, executor, reconciler and Stop keeps the invariant.
LEMMA TurnNext == ASSUME TurnIInv, Turns!PassesAssumption, Turns!PlansAssumption, [Turns!Next]_(Turns!deliberationVars) PROVE TurnIInv'
<1>1. TurnHolds BY DEF TurnHolds
<1>2. TurnTypes' /\ TurnLists' /\ NodeTypes' BY <1>1, TurnTypesStep, ListsStep DEF TurnIInv
<1>3. FreshIds' /\ OneEach' /\ TakenUp' /\ DepsFirst' BY <1>1, FreshIdsStep, OneEachStep, TakenUpStep, DepsFirstStep
<1>4. InHand' /\ Sorted' /\ NonePassed' BY <1>1, InHandStep, SortedStep, NonePassedStep
<1>5. SentInOrder' /\ UnderWay' /\ TurnStopped' BY <1>1, SentInOrderStep, UnderWayStep, StoppedStep
<1> QED BY <1>2, <1>3, <1>4, <1>5 DEF TurnIInv

\* The invariant says that the plan is followed.
LEMMA TurnInvariantSays == ASSUME TurnIInv PROVE Turns!TypeOK /\ Turns!PlanIsFollowed
<1> USE DEF TurnIInv
<1>1. Turns!Nodes \subseteq Turns!Ids /\ Turns!ToSet(batch) \subseteq Turns!Nodes
  <2>1. \A s \in Seq(Turns!Ids) : Turns!ToSet(s) = {s[k] : k \in 1..Len(s)} /\ \A k \in 1..Len(s) : s[k] \in Turns!Ids BY LenProperties, ElementOfSeq DEF Turns!ToSet
  <2>2. Turns!Nodes \subseteq Turns!Ids BY <2>1 DEF TurnLists, Turns!Nodes
  <2>3. \A k \in 1..Len(batch) : batch[k] \in Turns!Nodes
    <3>1. CASE ePlace = "sent"
      <4>1. batch # <<>> /\ batch \in Seq(Turns!Ids) /\ Head(batch) \in Turns!Nodes BY <3>1 DEF InHand, NodeTypes, TurnLists
      <4>2. Len(batch) \in Nat /\ Head(batch) = batch[1] BY <4>1, EmptySeq
      <4>3. \A k \in 2..Len(batch) : batch[k] \in Turns!Nodes BY <3>1 DEF InHand, LeftInHand
      <4> QED BY <4>1, <4>2, <4>3
    <3>2. CASE ePlace # "sent" BY <3>2 DEF InHand, LeftInHand
    <3> QED BY <3>1, <3>2
  <2> QED BY <2>1, <2>2, <2>3 DEF TurnLists
<1>2. Turns!IsInjective(order) /\ Turns!IsInjective(sent) BY DEF OneEach, Turns!IsInjective
<1>3. Turns!TypeOK BY <1>1, <1>2 DEF Turns!TypeOK, TurnTypes, NodeTypes, NodeStatuses, Taken
<1>4. \A n \in Taken : \A d \in Depends[n] : d \in Turns!Nodes /\ status[d] = "done"
  BY DEF TakenUp, DepsFirst, NodeTypes, Turns!AllDepsDone
<1>5. stopping = "returned" => \A n \in Turns!Nodes : status[n] = "active" => action[n] = "dig" BY DEF TurnStopped, UnderWay
<1>6. Turns!PlanIsFollowed BY <1>2, <1>4, <1>5 DEF Turns!PlanIsFollowed, SentInOrder, Alone, Taken
<1> QED BY <1>3, <1>6

\* For any dependencies among the nodes, any turns, passes and plans: what
\* reaches the plugin is the plan, each node once, after everything it depends
\* on, in the order of the commits, and nothing of it is under way after Stop.
THEOREM PlanIsSentInOrder == Turns!Spec => [](Turns!TypeOK /\ Turns!PlanIsFollowed)
<1>1. Turns!Init => TurnIInv BY TurnInit, TurnsAssumption
<1>2. TurnIInv /\ [Turns!Next]_(Turns!deliberationVars) => TurnIInv' BY TurnNext, TurnsAssumption
<1>3. TurnIInv => Turns!TypeOK /\ Turns!PlanIsFollowed BY TurnInvariantSays
<1> QED BY <1>1, <1>2, <1>3, PTL DEF Turns!Spec

----------------------------------------------------------------------------
(* The parts together.                                                      *)

\* In a behaviour of the run each part takes steps of its own or stands still.
LEMMA PartsStep ==
  ASSUME [MCNext]_allState
  PROVE  [Next]_orchestratorVars /\ [Queries!Next]_(Queries!vars) /\ [Turns!Next]_(Turns!deliberationVars)
<1> USE DEF queryState, Queries!vars, Queries!connVars, Queries!callVars, Queries!pluginVars,
            turnState, Turns!deliberationVars, Turns!turnVars, Turns!dagVars, Turns!workVars, Turns!stopVars
<1>1. CASE Next /\ UNCHANGED <<queryState, turnState>> BY <1>1
<1>2. CASE Queries!Next /\ UNCHANGED <<orchestratorVars, turnState>> BY <1>2
<1>3. CASE Turns!Next /\ UNCHANGED <<orchestratorVars, queryState>> BY <1>3
<1>4. CASE UNCHANGED allState BY <1>4 DEF allState
<1> QED BY <1>1, <1>2, <1>3, <1>4 DEF MCNext

\* So the run's own specification keeps all three.
THEOREM ProgramsKeepTheirWord == MCSpec => [](TypeOK /\ DecisionsInOrder /\ PlanIsFollowed) /\ QueryContractKept
<1>1. MCInit => Init /\ Queries!Init /\ Turns!Init BY DEF MCInit
<1>2. MCSpec => Spec
  <2>1. [MCNext]_allState => [Next]_orchestratorVars BY PartsStep
  <2> QED BY <1>1, <2>1, PTL DEF MCSpec, Spec
<1>3. MCSpec => Queries!Spec
  <2>1. [MCNext]_allState => [Queries!Next]_(Queries!vars) BY PartsStep
  <2> QED BY <1>1, <2>1, PTL DEF MCSpec, Queries!Spec
<1>4. MCSpec => Turns!Spec
  <2>1. [MCNext]_allState => [Turns!Next]_(Turns!deliberationVars) BY PartsStep
  <2> QED BY <1>1, <2>1, PTL DEF MCSpec, Turns!Spec
<1>5. Turns!PlanIsFollowed => PlanIsFollowed BY DEF PlanIsFollowed
<1> QED BY <1>2, <1>3, <1>4, <1>5, DecisionsAreInOrder, KeepsContract, PlanIsSentInOrder, PTL
================================================================================
