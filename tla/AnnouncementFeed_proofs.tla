------------------------ MODULE AnnouncementFeed_proofs ------------------------
(***************************************************************************)
(* Proofs about the announcements, for any number of reports, any cap on a  *)
(* message, any tail window, and any capacities.  First the cursor, where   *)
(* every teardown holds the core lock; then the types of the feed, whatever *)
(* tears a session down, and that it uses the store of alerts as specified, *)
(* whose own proofs are in MCWorldModel_proofs.                             *)
(***************************************************************************)
EXTENDS AnnouncementFeed, FiniteSetTheorems, SequenceTheorems, WellFoundedInduction, TLAPS

Ids == 1..Len(reports)

FeedTypes ==
  /\ reports \in Seq(Nat) /\ news \in Seq(Ids)
  /\ cursor \in 0..Len(reports) /\ highest \in 0..Len(reports) /\ count \in Nat
  /\ up \in BOOLEAN /\ tpc \in {"none", "cursor", "counts"}
  /\ ppc \in {"idle", "repeats", "send", "advance", "record"}

\* A teardown and a poll exclude each other, and a session starts at the beginning.
Sessions ==
  /\ tpc # "none" => ~up
  /\ ppc # "idle" => up
  /\ ~up /\ tpc # "cursor" => cursor = 0

\* What a poll has collected: the reports from the cursor to the highest, in
\* order and without a gap, and after them repeats of earlier ones.
Collected ==
  /\ cursor <= highest /\ highest - cursor <= Len(news)
  /\ \A k \in 1..Len(news) : /\ k <= highest - cursor => news[k] = cursor + k
                             /\ k > highest - cursor => news[k] <= cursor
Polling ==
  /\ ppc \in {"repeats", "send", "advance"} => Collected
  /\ ppc = "repeats" => Len(news) = highest - cursor
  /\ ppc = "advance" => count <= Len(news) /\ \A k \in 1..count : news[k] \in sent

IInv == FeedTypes /\ Sessions /\ Polling /\ NothingSkipped

----------------------------------------------------------------------------
\* Largest returns the maximum of a set of numbers that has one.
LEMMA LargestIs ==
  ASSUME NEW S \in SUBSET Int, NEW m \in S, \A n \in S : n <= m
  PROVE  Largest(S) = m
<1>1. Largest(S) \in S /\ \A n \in S : n <= Largest(S) BY DEF Largest
<1>2. m \in Int /\ Largest(S) \in Int BY <1>1
<1>3. m <= Largest(S) /\ Largest(S) <= m BY <1>1
<1> QED BY <1>2, <1>3

\* The listings of a finite set are sequences over it.
LEMMA AscendingType ==
  ASSUME NEW S, IsFiniteSet(S), NEW s \in Ascending(S)
  PROVE  s \in Seq(S)
<1>1. Cardinality(S) \in Nat BY FS_CardinalityType
<1>2. s \in [1..Cardinality(S) -> S] BY DEF Ascending
<1> QED BY <1>1, <1>2, SeqDef

\* The first n elements of a sequence, as a set.
LEMMA PrefixSet ==
  ASSUME NEW T, NEW s \in Seq(T), NEW n \in 0..Len(s)
  PROVE  /\ Len(SubSeq(s, 1, n)) = n
         /\ ToSet(SubSeq(s, 1, n)) = {s[k] : k \in 1..n}
<1>1. Len(s) \in Nat /\ Len(SubSeq(s, 1, n)) = n /\ SubSeq(s, 1, n) \in Seq(T)
  BY LenProperties, SubSeqProperties
<1>2. \A k \in 1..n : SubSeq(s, 1, n)[k] = s[k] BY <1>1, SubSeqProperties
<1>3. DOMAIN SubSeq(s, 1, n) = 1..n BY <1>1, LenProperties
<1> QED BY <1>1, <1>2, <1>3 DEF ToSet

----------------------------------------------------------------------------
\* A session starts with nothing sent and the cursor before the first report.
LEMMA InitIInv == Init => IInv
<1> SUFFICES ASSUME Init PROVE IInv OBVIOUS
<1>1. FeedTypes BY EmptySeq DEF Init, FeedTypes, Ids
<1>2. Sessions /\ Polling /\ NothingSkipped BY DEF Init, Sessions, Polling, NothingSkipped
<1> QED BY <1>1, <1>2 DEF IInv

\* The poll lists every report beyond the cursor.
LEMMA CollectNewStep == ASSUME IInv, CollectNew PROVE IInv'
<1> USE DEF IInv
<1>1. /\ ppc = "idle" /\ up /\ ppc' = "repeats" /\ reports' = reports /\ cursor' = cursor
      /\ up' = up /\ tpc' = tpc /\ count' = count /\ sent' = sent
  BY DEF CollectNew, pluginVars
<1>2. /\ Len(reports) \in Nat /\ cursor \in 0..Len(reports)
  BY LenProperties DEF FeedTypes
<1>3. news' = [k \in 1..(Len(reports) - cursor) |-> cursor + k] BY DEF CollectNew
<1>4. news' \in Seq(Ids) /\ Len(news') = Len(reports) - cursor
  <2>1. Len(reports) - cursor \in Nat BY <1>2
  <2>2. news' \in [1..(Len(reports) - cursor) -> Ids] BY <1>2, <1>3 DEF Ids
  <2> QED BY <2>1, <2>2, SeqDef, LenProperties
<1>5. highest' = Len(reports)
  <2> DEFINE S == {cursor} \cup ToSet(news')
  <2>1. S \in SUBSET Int /\ \A n \in S : n <= Len(reports) BY <1>2, <1>3 DEF ToSet
  <2>2. Len(reports) \in S
    <3>1. CASE cursor = Len(reports) BY <3>1
    <3>2. CASE cursor < Len(reports)
      <4>1. Len(reports) - cursor \in 1..(Len(reports) - cursor) BY <1>2, <3>2
      <4>2. news'[Len(reports) - cursor] = Len(reports) BY <1>2, <1>3, <4>1
      <4> QED BY <1>3, <4>1, <4>2 DEF ToSet
    <3> QED BY <1>2, <3>1, <3>2
  <2>3. highest' = Largest(S) BY DEF CollectNew
  <2> HIDE DEF S
  <2> QED BY <2>1, <2>2, <2>3, LargestIs
<1>6. FeedTypes' BY <1>1, <1>2, <1>4, <1>5 DEF FeedTypes, Ids
<1>7. Sessions' /\ NothingSkipped' BY <1>1 DEF Sessions, NothingSkipped
<1>8. Polling' BY <1>1, <1>2, <1>3, <1>4, <1>5 DEF Polling, Collected
<1> QED BY <1>6, <1>7, <1>8

\* Then the repeats, every one at or below the cursor.
LEMMA CollectRepeatsStep == ASSUME IInv, CollectRepeats PROVE IInv'
<1> USE DEF IInv
<1> DEFINE Repeated(i) == InTail(i) /\ i <= cursor /\ reports[i] > lastSent[i]
           S == {i \in DOMAIN reports : Repeated(i)}
<1>1. /\ ppc = "repeats" /\ ppc' \in {"idle", "send"} /\ reports' = reports /\ cursor' = cursor
      /\ up' = up /\ tpc' = tpc /\ count' = count /\ sent' = sent /\ highest' = highest
  BY DEF CollectRepeats
<1>2. /\ Len(reports) \in Nat /\ DOMAIN reports = Ids /\ cursor \in 0..Len(reports)
      /\ highest \in 0..Len(reports) /\ news \in Seq(Ids)
  BY LenProperties DEF FeedTypes, Ids
<1>3. PICK again \in Ascending(S) : news' = news \o again BY DEF CollectRepeats
<1>4. S \in SUBSET Ids /\ \A i \in S : i <= cursor BY <1>2
<1> HIDE DEF S
<1>5. IsFiniteSet(S)
  <2>1. IsFiniteSet(Ids) BY <1>2, FS_Interval DEF Ids
  <2> QED BY <1>4, <2>1, FS_Subset
<1>6. again \in Seq(S) BY <1>3, <1>5, AscendingType
<1>7. again \in Seq(Ids) /\ Len(again) \in Nat /\ \A k \in 1..Len(again) : again[k] <= cursor
  BY <1>4, <1>6, LenProperties, ElementOfSeq, SeqDef
<1>8. /\ news' \in Seq(Ids) /\ Len(news) \in Nat /\ Len(news') = Len(news) + Len(again)
      /\ \A k \in 1..Len(news') : news'[k] = IF k <= Len(news) THEN news[k]
                                                               ELSE again[k - Len(news)]
  BY <1>2, <1>3, <1>7, ConcatProperties, LenProperties
<1>9. Collected'
  <2>1. cursor <= highest /\ Len(news) = highest - cursor /\ Len(news) <= Len(news')
    BY <1>1, <1>7, <1>8 DEF Polling, Collected
  <2>2. ASSUME NEW k \in 1..Len(news'), k <= highest - cursor PROVE news'[k] = cursor + k
    BY <1>1, <1>8, <2>1, <2>2 DEF Polling, Collected
  <2>3. ASSUME NEW k \in 1..Len(news'), k > highest - cursor PROVE news'[k] <= cursor
    <3>1. k - Len(news) \in 1..Len(again) BY <1>7, <1>8, <2>1, <2>3
    <3> QED BY <1>7, <1>8, <2>1, <2>3, <3>1
  <2> QED BY <1>1, <2>1, <2>2, <2>3 DEF Collected
<1>10. FeedTypes' BY <1>1, <1>2, <1>8 DEF FeedTypes, Ids
<1>11. Sessions' /\ NothingSkipped' BY <1>1 DEF Sessions, NothingSkipped
<1>12. Polling' BY <1>1, <1>9 DEF Polling
<1> QED BY <1>10, <1>11, <1>12

\* What is sent is a prefix of what was collected.
LEMMA SendNewsStep == ASSUME IInv, BoundsAssumption, SendNews PROVE IInv'
<1> USE DEF IInv
<1>1. /\ ppc = "send" /\ up /\ reports' = reports /\ cursor' = cursor /\ up' = up /\ tpc' = tpc
      /\ news' = news /\ highest' = highest
  BY DEF SendNews, pluginVars, Sessions
<1>2. Len(news) \in Nat /\ news \in Seq(Ids) /\ MaxPerMsg \in Nat \ {0}
  BY LenProperties DEF FeedTypes, BoundsAssumption
<1> DEFINE n == AtMost(Len(news), MaxPerMsg)
<1>3. n \in 0..Len(news) BY <1>2 DEF AtMost
<1>4. /\ count' = Len(SubSeq(news, 1, n)) /\ ppc' = "advance"
      /\ sent' = sent \cup ToSet(SubSeq(news, 1, n))
  BY <1>1 DEF SendNews
<1> HIDE DEF n
<1>5. count' = n /\ sent' = sent \cup {news[k] : k \in 1..n}
  BY <1>2, <1>3, <1>4, PrefixSet
<1>6. FeedTypes' BY <1>1, <1>3, <1>4, <1>5 DEF FeedTypes, Ids
<1>7. Sessions' BY <1>1 DEF Sessions
<1>8. NothingSkipped' BY <1>1, <1>5 DEF NothingSkipped
<1>9. Polling' BY <1>1, <1>3, <1>4, <1>5 DEF Polling, Collected
<1> QED BY <1>6, <1>7, <1>8, <1>9

\* The cursor moves to the last of the reports beyond it that were sent.
LEMMA AdvanceCursorStep == ASSUME IInv, AdvanceCursor PROVE IInv'
<1> USE DEF IInv
<1>1. /\ ppc = "advance" /\ ppc' = "record" /\ up /\ reports' = reports /\ up' = up /\ tpc' = tpc
      /\ news' = news /\ highest' = highest /\ count' = count /\ sent' = sent
  BY DEF AdvanceCursor, Sessions
<1>2. /\ Len(reports) \in Nat /\ cursor \in 0..Len(reports) /\ highest \in 0..Len(reports)
      /\ news \in Seq(Ids) /\ Len(news) \in Nat /\ count \in 0..Len(news) /\ cursor <= highest
      /\ highest - cursor <= Len(news)
  BY <1>1, LenProperties DEF FeedTypes, Polling, Collected
<1>3. /\ \A k \in 1..count : news[k] \in sent
      /\ \A i \in 1..cursor : i \in sent
  BY <1>1 DEF Polling, NothingSkipped
<1>4. \A k \in 1..Len(news) : /\ k <= highest - cursor => news[k] = cursor + k
                              /\ k > highest - cursor => news[k] <= cursor
  BY <1>1 DEF Polling, Collected
<1> DEFINE new == AtMost(count, highest - cursor)
<1>5. new \in 0..count /\ new <= highest - cursor BY <1>2 DEF AtMost
<1>6. cursor' = cursor + new
  <2>1. CASE count = Len(news)
    <3>1. cursor' = highest BY <2>1 DEF AdvanceCursor
    <3>2. new = highest - cursor BY <1>2, <2>1 DEF AtMost
    <3> QED BY <1>2, <3>1, <3>2
  <2>2. CASE count # Len(news)
    <3> DEFINE S == {cursor} \cup {news[k] : k \in 1..count}
    <3>1. cursor' = Largest(S)
      <4>1. ToSet(SubSeq(news, 1, count)) = {news[k] : k \in 1..count} BY <1>2, PrefixSet
      <4>2. cursor' = Largest({cursor} \cup ToSet(SubSeq(news, 1, count))) BY <2>2 DEF AdvanceCursor
      <4> QED BY <4>1, <4>2
    <3>2. \A k \in 1..count : news[k] \in Ids BY <1>2, ElementOfSeq
    <3>3. S \in SUBSET Int BY <1>2, <3>2 DEF Ids
    <3>4. ASSUME NEW k \in 1..count PROVE news[k] <= cursor + new
      <4>1. k \in 1..Len(news) /\ news[k] \in Int BY <1>2, <3>2 DEF Ids
      <4>2. CASE k <= highest - cursor
        <5>1. k <= new BY <1>2, <4>2 DEF AtMost
        <5> QED BY <1>2, <1>4, <1>5, <4>1, <4>2, <5>1
      <4>3. CASE k > highest - cursor BY <1>2, <1>4, <1>5, <4>1, <4>3
      <4> QED BY <1>2, <4>2, <4>3
    <3>5. cursor + new \in S
      <4>1. CASE new = 0 BY <1>2, <4>1
      <4>2. CASE new # 0
        <5>1. new \in 1..count /\ new \in 1..Len(news) BY <1>2, <1>5, <4>2
        <5>2. news[new] = cursor + new BY <1>4, <1>5, <5>1
        <5> QED BY <5>1, <5>2
      <4> QED BY <4>1, <4>2
    <3>6. \A n \in S : n <= cursor + new BY <1>2, <1>5, <3>4
    <3> HIDE DEF S, new
    <3> QED BY <3>1, <3>3, <3>5, <3>6, LargestIs
  <2> QED BY <2>1, <2>2
<1> HIDE DEF new
<1>7. \A i \in 1..cursor' : i \in sent
  <2> SUFFICES ASSUME NEW i \in 1..(cursor + new) PROVE i \in sent BY <1>6
  <2>1. CASE i <= cursor BY <1>2, <1>3, <2>1
  <2>2. CASE i > cursor
    <3>1. i - cursor \in 1..count /\ i - cursor \in 1..Len(news) /\ i - cursor <= highest - cursor
      BY <1>2, <1>5, <2>2
    <3>2. news[i - cursor] = i BY <1>2, <1>4, <3>1
    <3> QED BY <1>3, <3>1, <3>2
  <2> QED BY <1>2, <2>1, <2>2
<1>8. cursor' \in 0..Len(reports) BY <1>2, <1>5, <1>6
<1>9. FeedTypes' BY <1>1, <1>2, <1>8 DEF FeedTypes, Ids
<1>10. Sessions' /\ Polling' BY <1>1 DEF Sessions, Polling
<1>11. NothingSkipped' BY <1>1, <1>7 DEF NothingSkipped
<1> QED BY <1>9, <1>10, <1>11

\* Reports appear and repeat while no poll runs, so none of them moves under one.
LEMMA GameStep == ASSUME IInv, NewReport \/ RepeatReport PROVE IInv'
<1> USE DEF IInv
<1>1. /\ ppc = "idle" /\ UNCHANGED <<ppc, news, highest, count, cursor, up, tpc, sent>>
  BY DEF NewReport, RepeatReport, pollVars, pluginVars
<1>2. Len(reports) \in Nat /\ reports' \in Seq(Nat) /\ Len(reports') \in Nat
      /\ Len(reports) <= Len(reports')
  <2>1. CASE NewReport
    <3>1. PICK n \in Nat : reports' = Append(reports, n) BY <2>1 DEF NewReport
    <3> QED BY <3>1, AppendProperties, LenProperties DEF FeedTypes
  <2>2. CASE RepeatReport
    <3>1. PICK i \in DOMAIN reports : reports' = [reports EXCEPT ![i] = @ + 1]
      BY <2>2 DEF RepeatReport
    <3>2. reports \in Seq(Nat) /\ Len(reports) \in Nat /\ DOMAIN reports = 1..Len(reports)
          /\ reports[i] + 1 \in Nat
      BY LenProperties, ElementOfSeq DEF FeedTypes
    <3> QED BY <3>1, <3>2, ExceptSeq, LenProperties
  <2> QED BY <2>1, <2>2
<1>3. news \in Seq(Ids')
  <2>1. Ids \subseteq Ids' BY <1>2 DEF Ids
  <2> QED BY <2>1, SeqDef DEF FeedTypes
<1>4. FeedTypes' BY <1>1, <1>2, <1>3 DEF FeedTypes
<1>5. Sessions' /\ Polling' /\ NothingSkipped' BY <1>1 DEF Sessions, Polling, NothingSkipped
<1> QED BY <1>4, <1>5

\* A teardown under the lock finds no poll, and the next session starts afresh.
LEMMA SessionStep ==
  ASSUME IInv, UnlockedTeardown = FALSE, CloseSocket \/ ResetCursor \/ ResetCounts \/ Reconnect
  PROVE  IInv'
<1> USE DEF IInv
<1>1. /\ UNCHANGED <<reports, ppc, news, highest, count>>
      /\ ppc = "idle"
  BY DEF CloseSocket, ResetCursor, ResetCounts, Reconnect, pollVars, MayTearDown, Sessions
<1>2. Len(reports) \in Nat BY LenProperties DEF FeedTypes
<1>3. FeedTypes'
  <2>1. cursor' \in {0, cursor} /\ up' \in BOOLEAN /\ tpc' \in {"none", "cursor", "counts"}
    BY DEF FeedTypes, CloseSocket, ResetCursor, ResetCounts, Reconnect
  <2> QED BY <1>1, <1>2, <2>1 DEF FeedTypes, Ids
<1>4. Sessions' /\ Polling'
  BY <1>1 DEF Sessions, Polling, CloseSocket, ResetCursor, ResetCounts, Reconnect
<1>5. NothingSkipped'
  <2>1. CASE Reconnect
    <3>1. cursor' = 0 BY <2>1 DEF Reconnect, Sessions
    <3> QED BY <3>1 DEF NothingSkipped
  <2>2. CASE CloseSocket \/ ResetCursor \/ ResetCounts
    <3>1. ~up' BY <2>2 DEF CloseSocket, ResetCursor, ResetCounts, Sessions
    <3> QED BY <3>1 DEF NothingSkipped
  <2> QED BY <2>1, <2>2
<1> QED BY <1>3, <1>4, <1>5

\* Recording the counts and the server's steps leave the cursor and the poll alone.
LEMMA OtherStep ==
  ASSUME IInv, \/ RecordCounts \/ ReceiveUpdate \/ TakeUpdate \/ AddAlert \/ DismissAlert
               \/ UNCHANGED vars
  PROVE  IInv'
<1> USE DEF IInv
<1>1. /\ UNCHANGED <<reports, news, highest, count, cursor, up, tpc, sent>>
      /\ \/ UNCHANGED ppc
         \/ ppc = "record" /\ ppc' = "idle"
  BY DEF RecordCounts, ReceiveUpdate, TakeUpdate, AddAlert, DismissAlert, vars, pollVars, pluginVars
<1>2. FeedTypes' BY <1>1 DEF FeedTypes, Ids
<1>3. Sessions' /\ NothingSkipped' BY <1>1 DEF Sessions, NothingSkipped
<1>4. Polling'
  <2>1. CASE UNCHANGED ppc BY <1>1, <2>1 DEF Polling, Collected
  <2>2. CASE ppc' = "idle" BY <2>2 DEF Polling
  <2> QED BY <1>1, <2>1, <2>2
<1> QED BY <1>2, <1>3, <1>4

\* Every step keeps the inductive invariant.
LEMMA NextIInv ==
  ASSUME BoundsAssumption, UnlockedTeardown = FALSE, IInv, [Next]_vars
  PROVE  IInv'
<1>1. CASE NewReport \/ RepeatReport BY <1>1, GameStep
<1>2. CASE CollectNew BY <1>2, CollectNewStep
<1>3. CASE CollectRepeats BY <1>3, CollectRepeatsStep
<1>4. CASE SendNews BY <1>4, SendNewsStep
<1>5. CASE AdvanceCursor BY <1>5, AdvanceCursorStep
<1>6. CASE CloseSocket \/ ResetCursor \/ ResetCounts \/ Reconnect BY <1>6, SessionStep
<1>7. CASE \/ RecordCounts \/ ReceiveUpdate \/ TakeUpdate \/ AddAlert \/ DismissAlert
           \/ UNCHANGED vars
  BY <1>7, OtherStep
<1> QED BY <1>1, <1>2, <1>3, <1>4, <1>5, <1>6, <1>7 DEF Next, Poll

\* Where every teardown holds the core lock, the cursor of announcements.cpp
\* never passes over a report: every one at or below it has been sent to the
\* session, whatever MAX_PER_MSG cut off and however often the session was lost.
THEOREM CursorSkipsNothing ==
  ASSUME BoundsAssumption, UnlockedTeardown = FALSE
  PROVE  Spec => []NothingSkipped
<1>1. Init => IInv BY InitIInv
<1>2. IInv /\ [Next]_vars => IInv' BY NextIInv
<1>3. IInv => NothingSkipped BY DEF IInv
<1> QED BY <1>1, <1>2, <1>3, PTL DEF Spec

----------------------------------------------------------------------------
(* Types, whatever a teardown from the socket thread interrupts.            *)

\* Every set of numbers has a least one.
LEMMA LeastExists == \A S \in SUBSET Nat : S # {} => \E x \in S : \A y \in S : x <= y
<1>1. PICK R : IsWellFoundedOn(R, Nat) /\ \A x, y \in Nat : y < x => <<y, x>> \in R
  <2>1. \A x, y \in Nat : y < x => <<y, x>> \in OpToRel(<, Nat) BY DEF OpToRel
  <2> QED BY <2>1, NatLessThanWellFounded
<1> SUFFICES ASSUME NEW S \in SUBSET Nat, S # {} PROVE \E x \in S : \A y \in S : x <= y
  OBVIOUS
<1>2. PICK x \in S : \A y \in S : ~(<<y, x>> \in R) BY <1>1, WFMin
<1>3. \A y \in S : ~(y < x) BY <1>1, <1>2
<1> QED BY <1>2, <1>3

\* Largest finds an element of every set of numbers that is bounded.
LEMMA LargestIn ==
  ASSUME NEW N \in Nat, NEW S \in SUBSET (0..N), S # {}
  PROVE  Largest(S) \in S
<1> DEFINE T == {N - x : x \in S}
<1>1. T \in SUBSET Nat /\ T # {}
  <2>1. PICK x \in S : TRUE OBVIOUS
  <2>2. N - x \in T BY <2>1
  <2>3. \A t \in T : t \in Nat OBVIOUS
  <2> QED BY <2>2, <2>3
<1> HIDE DEF T
<1>2. PICK t \in T : \A u \in T : t <= u BY <1>1, LeastExists
<1>3. PICK m \in S : t = N - m BY <1>2 DEF T
<1>4. \A n \in S : n <= m
  <2>1. \A n \in S : t <= N - n BY <1>2 DEF T
  <2> QED BY <1>3, <2>1
<1> QED BY <1>3, <1>4 DEF Largest

Alert   == [id : ReportIds, repeatCount : 0..MaxRepeat]
Updates == Seq(Alert)

\* The plugin's side.
PollTypes ==
  /\ reports \in Seq(0..MaxRepeat) /\ Len(reports) <= MaxReports
  /\ cursor \in 0..Len(reports) /\ lastSent \in [ReportIds -> 0..MaxRepeat]
  /\ up \in BOOLEAN /\ tpc \in {"none", "cursor", "counts"} /\ drops \in 0..MaxDrops
  /\ ppc \in {"idle", "repeats", "send", "advance", "record"}
  /\ news \in Seq(Ids) /\ highest \in 0..Len(reports) /\ count \in 0..MaxPerMsg
  /\ ppc \in {"advance", "record"} => count <= Len(news)
  /\ sent \subseteq ReportIds

\* The connection and the server's side.
Traffic ==
  /\ wire \in Seq(Updates) /\ feedCh \in Seq(Updates) /\ batch \in Updates
  /\ Len(feedCh) <= FeedCap /\ dropped \subseteq ReportIds
Typed == PollTypes /\ Traffic

\* Typed implies the types of the module, with positions within the report list.
LEMMA TypedIs == Typed => TypeOK
<1> SUFFICES ASSUME Typed PROVE TypeOK OBVIOUS
<1>1. MaxReports \in Nat /\ Len(reports) \in Nat BY BoundsAssumption, LenProperties DEF Typed, PollTypes
<1>2. Ids \subseteq ReportIds BY <1>1 DEF Ids, ReportIds, Typed, PollTypes
<1>3. news \in Seq(ReportIds) BY <1>2, SeqDef DEF Typed, PollTypes
<1> QED BY <1>3 DEF Typed, PollTypes, Traffic, Updates, Alert, TypeOK

\* What the poll works on.
LEMMA PollFacts ==
  ASSUME PollTypes
  PROVE  /\ Len(reports) \in Nat /\ Len(news) \in Nat /\ MaxReports \in Nat /\ MaxRepeat \in Nat
         /\ MaxPerMsg \in Nat \ {0} /\ MaxDrops \in Nat /\ 0 \in 0..MaxRepeat
         /\ Ids \subseteq ReportIds /\ Ids = DOMAIN reports
         /\ \A i \in Ids : reports[i] \in 0..MaxRepeat
         /\ \A k \in 1..Len(news) : news[k] \in Ids
         /\ \A n \in 0..Len(news) : ToSet(SubSeq(news, 1, n)) \subseteq Ids
<1>1. /\ Len(reports) \in Nat /\ Len(news) \in Nat /\ Len(reports) <= MaxReports
      /\ DOMAIN reports = 1..Len(reports) /\ \A i \in 1..Len(reports) : reports[i] \in 0..MaxRepeat
      /\ \A k \in 1..Len(news) : news[k] \in Ids
  BY LenProperties, ElementOfSeq DEF PollTypes
<1>2. /\ MaxReports \in Nat /\ MaxRepeat \in Nat /\ MaxPerMsg \in Nat \ {0} /\ MaxDrops \in Nat
  BY BoundsAssumption
<1>3. ASSUME NEW n \in 0..Len(news) PROVE ToSet(SubSeq(news, 1, n)) \subseteq Ids
  <2>1. \A k \in 1..n : k \in 1..Len(news) BY <1>1
  <2> QED BY <1>1, <2>1, PrefixSet DEF PollTypes
<1> QED BY <1>1, <1>2, <1>3 DEF Ids, ReportIds

\* Reports appear and repeat within their bounds.
LEMMA GameTypes == ASSUME Typed, NewReport \/ RepeatReport PROVE PollTypes'
<1>1. /\ PollTypes /\ ppc = "idle"
      /\ UNCHANGED <<cursor, lastSent, up, tpc, drops, ppc, news, highest, count, sent>>
  BY DEF Typed, NewReport, RepeatReport, pollVars, pluginVars
<1>2. Len(reports) \in Nat /\ MaxReports \in Nat /\ MaxRepeat \in Nat BY <1>1, PollFacts
<1>3. /\ reports' \in Seq(0..MaxRepeat) /\ Len(reports') \in Nat
      /\ Len(reports) <= Len(reports') /\ Len(reports') <= MaxReports
  <2>1. CASE NewReport
    <3>1. Len(reports) < MaxReports BY <2>1 DEF NewReport
    <3>2. PICK n \in 0..MaxRepeat : reports' = Append(reports, n) BY <2>1 DEF NewReport
    <3> QED BY <1>1, <1>2, <3>1, <3>2, AppendProperties, LenProperties DEF PollTypes
  <2>2. CASE RepeatReport
    <3>1. PICK i \in DOMAIN reports : reports[i] < MaxRepeat /\ reports' = [reports EXCEPT ![i] = @ + 1]
      BY <2>2 DEF RepeatReport
    <3>2. DOMAIN reports = 1..Len(reports) /\ reports \in Seq(0..MaxRepeat)
      BY <1>1, LenProperties DEF PollTypes
    <3>3. reports[i] + 1 \in 0..MaxRepeat
      <4>1. reports[i] \in 0..MaxRepeat BY <3>2, ElementOfSeq
      <4> QED BY <1>2, <3>1, <4>1
    <3>4. reports' \in Seq(0..MaxRepeat) /\ Len(reports') = Len(reports)
      BY <3>1, <3>2, <3>3, ExceptSeq
    <3> QED BY <1>1, <1>2, <3>4 DEF PollTypes
  <2> QED BY <2>1, <2>2
<1>4. news \in Seq(Ids')
  <2>1. Ids \subseteq Ids' BY <1>2, <1>3 DEF Ids
  <2> QED BY <1>1, <2>1, SeqDef DEF PollTypes
<1>5. cursor \in 0..Len(reports') /\ highest \in 0..Len(reports')
  BY <1>1, <1>2, <1>3 DEF PollTypes
<1> QED BY <1>1, <1>3, <1>4, <1>5 DEF PollTypes

\* The poll collects reports that there are, and finds the largest of them.
LEMMA CollectTypes == ASSUME Typed, CollectNew \/ CollectRepeats PROVE PollTypes'
<1>1. /\ PollTypes /\ ppc' # "advance" /\ ppc' # "record"
      /\ ppc' \in {"idle", "repeats", "send"}
      /\ UNCHANGED <<reports, cursor, up, tpc, drops, count, sent>>
  BY DEF Typed, CollectNew, CollectRepeats, pluginVars
<1>2. Len(reports) \in Nat /\ Ids = DOMAIN reports /\ Ids' = Ids /\ 0 \in 0..MaxRepeat
  BY <1>1, PollFacts DEF Ids
<1>3. CASE CollectNew
  <2>1. lastSent' = lastSent /\ news' = [k \in 1..(Len(reports) - cursor) |-> cursor + k]
        /\ highest' = Largest({cursor} \cup ToSet(news'))
    BY <1>3 DEF CollectNew, pluginVars
  <2>2. Len(reports) - cursor \in Nat BY <1>1, <1>2 DEF PollTypes
  <2>3. news' \in [1..(Len(reports) - cursor) -> Ids] BY <1>1, <1>2, <2>1 DEF Ids, PollTypes
  <2>4. news' \in Seq(Ids) BY <2>2, <2>3, SeqDef
  <2>5. highest' \in 0..Len(reports)
    <3> DEFINE S == {cursor} \cup ToSet(news')
    <3>1. \A k \in 1..(Len(reports) - cursor) : news'[k] \in Ids BY <2>3
    <3>2. DOMAIN news' = 1..(Len(reports) - cursor) BY <2>1
    <3>3. S \in SUBSET (0..Len(reports)) /\ S # {}
      <4>1. cursor \in 0..Len(reports) BY <1>1 DEF PollTypes
      <4>2. Ids \subseteq 0..Len(reports) BY <1>2
      <4>3. ToSet(news') \subseteq Ids BY <3>1, <3>2 DEF ToSet
      <4> QED BY <4>1, <4>2, <4>3
    <3>4. highest' = Largest(S) BY <2>1
    <3> HIDE DEF S
    <3> QED BY <1>2, <3>3, <3>4, LargestIn
  <2> QED BY <1>1, <1>2, <2>1, <2>4, <2>5 DEF PollTypes
<1>4. CASE CollectRepeats
  <2> DEFINE Repeated(i) == InTail(i) /\ i <= cursor /\ reports[i] > lastSent[i]
             S == {i \in DOMAIN reports : Repeated(i)}
  <2>1. highest' = highest /\ lastSent' = [i \in ReportIds |-> IF InTail(i) THEN lastSent[i] ELSE 0]
    BY <1>4 DEF CollectRepeats
  <2>2. PICK again \in Ascending(S) : news' = news \o again BY <1>4 DEF CollectRepeats
  <2>3. S \subseteq Ids BY <1>2
  <2> HIDE DEF S
  <2>4. IsFiniteSet(S)
    <3>1. IsFiniteSet(Ids) BY <1>2, FS_Interval DEF Ids
    <3> QED BY <2>3, <3>1, FS_Subset
  <2>5. again \in Seq(Ids)
    <3>1. again \in Seq(S) BY <2>2, <2>4, AscendingType
    <3> QED BY <2>3, <3>1, SeqDef
  <2>6. news' \in Seq(Ids) BY <1>1, <2>2, <2>5, ConcatProperties DEF PollTypes
  <2>7. lastSent' \in [ReportIds -> 0..MaxRepeat] BY <1>1, <1>2, <2>1 DEF PollTypes
  <2> QED BY <1>1, <1>2, <2>1, <2>6, <2>7 DEF PollTypes
<1> QED BY <1>3, <1>4

\* What is sent names reports that there are, with counts they have.
LEMMA SendTypes == ASSUME Typed, SendNews PROVE PollTypes' /\ Traffic'
<1>1. /\ PollTypes /\ Traffic
      /\ UNCHANGED <<reports, cursor, lastSent, up, tpc, drops, news, highest, feedCh, batch, dropped>>
  BY DEF Typed, SendNews, pluginVars, feedVars
<1>2. /\ Len(reports) \in Nat /\ Len(news) \in Nat /\ Ids \subseteq ReportIds /\ MaxPerMsg \in Nat \ {0}
      /\ Ids' = Ids /\ \A i \in Ids : reports[i] \in 0..MaxRepeat
      /\ \A k \in 1..Len(news) : news[k] \in Ids
      /\ \A n \in 0..Len(news) : ToSet(SubSeq(news, 1, n)) \subseteq Ids
  BY <1>1, PollFacts DEF Ids
<1>3. CASE ~up
  <2>1. ppc' = "idle" /\ UNCHANGED <<count, wire, sent>> BY <1>3 DEF SendNews
  <2> QED BY <1>1, <1>2, <2>1 DEF PollTypes, Traffic
<1>4. CASE up
  <2> DEFINE n == AtMost(Len(news), MaxPerMsg)
             ids == SubSeq(news, 1, n)
             u == [k \in DOMAIN ids |-> [id |-> ids[k], repeatCount |-> reports[ids[k]]]]
  <2>1. count' = Len(ids) /\ ppc' = "advance" /\ wire' = Append(wire, u) /\ sent' = sent \cup ToSet(ids)
    BY <1>4 DEF SendNews
  <2>2. n \in 0..Len(news) /\ n <= MaxPerMsg BY <1>2 DEF AtMost
  <2> HIDE DEF n
  <2>3. Len(ids) = n /\ ids \in Seq(Ids) /\ DOMAIN ids = 1..n /\ \A k \in 1..n : ids[k] \in Ids
    <3>1. Len(ids) = n BY <1>1, <2>2, PrefixSet DEF PollTypes
    <3>2. ids \in Seq(Ids) BY <1>1, <1>2, <2>2, SubSeqProperties DEF PollTypes
    <3> QED BY <3>1, <3>2, LenProperties, ElementOfSeq
  <2>4. u \in Updates
    <3>1. n \in Nat BY <1>2, <2>2
    <3>2. u \in [1..n -> Alert]
      <4>1. \A k \in 1..n : [id |-> ids[k], repeatCount |-> reports[ids[k]]] \in Alert
        BY <1>2, <2>3 DEF Alert
      <4> QED BY <2>3, <4>1
    <3> QED BY <3>1, <3>2, SeqDef DEF Updates
  <2>5. ToSet(ids) \subseteq ReportIds BY <1>2, <2>2
  <2> HIDE DEF u, ids
  <2>6. wire' \in Seq(Updates) BY <1>1, <2>1, <2>4, AppendProperties DEF Traffic
  <2>7. count' \in 0..MaxPerMsg /\ count' <= Len(news) BY <1>2, <2>1, <2>2, <2>3
  <2> QED BY <1>1, <1>2, <2>1, <2>5, <2>6, <2>7 DEF PollTypes, Traffic
<1> QED BY <1>3, <1>4

\* The cursor stays within the reports, even if it was reset under the poll.
LEMMA RecordTypes == ASSUME Typed, AdvanceCursor \/ RecordCounts PROVE PollTypes'
<1>1. PollTypes /\ ppc \in {"advance", "record"} /\ UNCHANGED <<reports, up, tpc, drops, news, highest, count, sent>>
      /\ ppc' \in {"record", "idle"}
  BY DEF Typed, AdvanceCursor, RecordCounts
<1>2. /\ Len(reports) \in Nat /\ Len(news) \in Nat /\ Ids \subseteq ReportIds /\ MaxPerMsg \in Nat \ {0}
      /\ Ids' = Ids /\ \A i \in Ids : reports[i] \in 0..MaxRepeat
      /\ \A n \in 0..Len(news) : ToSet(SubSeq(news, 1, n)) \subseteq Ids
  BY <1>1, PollFacts DEF Ids
<1>3. count \in 0..Len(news) BY <1>1, <1>2 DEF PollTypes
<1>4. ToSet(SubSeq(news, 1, count)) \subseteq Ids BY <1>2, <1>3
<1>5. CASE AdvanceCursor
  <2> DEFINE S == {cursor} \cup ToSet(SubSeq(news, 1, count))
  <2>1. S \in SUBSET (0..Len(reports)) /\ S # {} BY <1>1, <1>2, <1>4 DEF PollTypes, Ids
  <2>2. cursor' = highest \/ cursor' = Largest(S) BY <1>5 DEF AdvanceCursor
  <2>3. lastSent' = lastSent BY <1>5 DEF AdvanceCursor
  <2> HIDE DEF S
  <2>4. cursor' \in 0..Len(reports)
    <3>1. Largest(S) \in 0..Len(reports) BY <1>2, <2>1, LargestIn
    <3> QED BY <1>1, <2>2, <3>1 DEF PollTypes
  <2> QED BY <1>1, <1>2, <2>3, <2>4 DEF PollTypes
<1>6. CASE RecordCounts
  <2>1. cursor' = cursor BY <1>6 DEF RecordCounts
  <2>2. lastSent' = [i \in ReportIds |-> IF i \in ToSet(SubSeq(news, 1, count))
                                         THEN reports[i] ELSE lastSent[i]]
    BY <1>6 DEF RecordCounts
  <2>3. lastSent' \in [ReportIds -> 0..MaxRepeat] BY <1>1, <1>2, <1>4, <2>2 DEF PollTypes
  <2> QED BY <1>1, <1>2, <2>1, <2>3 DEF PollTypes
<1> QED BY <1>5, <1>6

\* A teardown forgets, a new session starts from nothing.
LEMMA SessionTypes ==
  ASSUME Typed, CloseSocket \/ ResetCursor \/ ResetCounts \/ Reconnect
  PROVE  PollTypes' /\ Traffic'
<1>1. /\ PollTypes /\ Traffic /\ UNCHANGED <<reports, ppc, news, highest, count, feedCh, batch, dropped>>
      /\ cursor' \in {0, cursor} /\ up' \in BOOLEAN /\ tpc' \in {"none", "cursor", "counts"}
      /\ wire' \in {<<>>, wire} /\ sent' \in {{}, sent}
      /\ lastSent' \in {lastSent, [i \in ReportIds |-> 0]}
  BY DEF Typed, PollTypes, CloseSocket, ResetCursor, ResetCounts, Reconnect, pollVars, feedVars
<1>2. Len(reports) \in Nat /\ Ids' = Ids /\ 0 \in 0..MaxRepeat /\ MaxDrops \in Nat
  BY <1>1, PollFacts DEF Ids
<1>3. drops' \in 0..MaxDrops
  BY <1>1, <1>2 DEF PollTypes, CloseSocket, ResetCursor, ResetCounts, Reconnect
<1>4. lastSent' \in [ReportIds -> 0..MaxRepeat] /\ cursor' \in 0..Len(reports)
  BY <1>1, <1>2 DEF PollTypes
<1>5. PollTypes' BY <1>1, <1>2, <1>3, <1>4 DEF PollTypes
<1>6. Traffic' BY <1>1, EmptySeq DEF Traffic
<1> QED BY <1>5, <1>6

\* An update that arrives is queued or dropped as a whole.
LEMMA ReceiveTypes == ASSUME Typed, ReceiveUpdate \/ TakeUpdate PROVE Traffic'
<1>1. Traffic BY DEF Typed
<1>2. CASE ReceiveUpdate
  <2>1. wire # <<>> /\ wire' = Tail(wire) /\ batch' = batch BY <1>2 DEF ReceiveUpdate
  <2>2. Head(wire) \in Updates /\ wire' \in Seq(Updates)
    BY <1>1, <2>1, HeadTailProperties DEF Traffic
  <2>3. IdsOf(Head(wire)) \subseteq ReportIds
    <3>1. \A a \in ToSet(Head(wire)) : a \in Alert
      BY <2>2, ElementOfSeq, LenProperties DEF ToSet, Updates
    <3>2. \A a \in Alert : a.id \in ReportIds BY DEF Alert
    <3> QED BY <3>1, <3>2 DEF IdsOf
  <2>4. Len(feedCh) \in Nat /\ FeedCap \in Nat BY <1>1, LenProperties, BoundsAssumption DEF Traffic
  <2>5. CASE Len(feedCh) < FeedCap
    <3>1. feedCh' = Append(feedCh, Head(wire)) /\ dropped' = dropped \ IdsOf(Head(wire))
      BY <1>2, <2>5 DEF ReceiveUpdate
    <3>2. feedCh' \in Seq(Updates) /\ Len(feedCh') = Len(feedCh) + 1
      BY <1>1, <2>2, <3>1, AppendProperties DEF Traffic
    <3> QED BY <1>1, <2>1, <2>2, <2>4, <2>5, <3>1, <3>2 DEF Traffic
  <2>6. CASE ~(Len(feedCh) < FeedCap)
    <3>1. feedCh' = feedCh /\ dropped' = dropped \cup IdsOf(Head(wire)) BY <1>2, <2>6 DEF ReceiveUpdate
    <3> QED BY <1>1, <2>1, <2>2, <2>3, <3>1 DEF Traffic
  <2> QED BY <2>5, <2>6
<1>3. CASE TakeUpdate
  <2>1. feedCh # <<>> /\ feedCh' = Tail(feedCh) /\ batch' = Head(feedCh) /\ UNCHANGED <<wire, dropped>>
    BY <1>3 DEF TakeUpdate
  <2>2. Head(feedCh) \in Updates /\ Tail(feedCh) \in Seq(Updates) /\ Len(Tail(feedCh)) = Len(feedCh) - 1
    BY <1>1, <2>1, HeadTailProperties DEF Traffic
  <2>3. Len(feedCh) \in Nat /\ FeedCap \in Nat BY <1>1, LenProperties, BoundsAssumption DEF Traffic
  <2> QED BY <1>1, <2>1, <2>2, <2>3 DEF Traffic
<1> QED BY <1>2, <1>3

\* What an update of the feed adds is an alert the store can hold.
LEMMA AddIsStoreStep ==
  ASSUME Traffic, AddAlert
  PROVE  /\ Head(batch) \in Alert /\ batch' \in Updates
         /\ \E id \in ReportIds : \E n \in Store!Repeats : Store!Add(id, n)
<1>1. batch # <<>> /\ batch' = Tail(batch) /\ Store!Add(Head(batch).id, Head(batch).repeatCount)
  BY DEF AddAlert
<1>2. Head(batch) \in Alert /\ batch' \in Updates
  BY <1>1, HeadTailProperties DEF Traffic, Updates
<1>3. Head(batch).id \in ReportIds /\ Head(batch).repeatCount \in Store!Repeats
  BY <1>2 DEF Alert, Store!Repeats
<1> QED BY <1>1, <1>2, <1>3

\* Every step of the feed is one of the store's, or none.
LEMMA StepOfStore == Traffic /\ [Next]_vars => [Store!Next]_(Store!vars)
<1> SUFFICES ASSUME Traffic, [Next]_vars PROVE [Store!Next]_(Store!vars) OBVIOUS
<1>1. CASE AddAlert BY <1>1, AddIsStoreStep DEF Store!Next
<1>2. CASE DismissAlert BY <1>2 DEF DismissAlert, Store!Next
<1>3. ASSUME UNCHANGED <<entries, byID>> PROVE [Store!Next]_(Store!vars) BY <1>3 DEF Store!vars
<1>4. CASE NewReport \/ RepeatReport \/ Poll \/ UNCHANGED vars
  BY <1>3, <1>4 DEF NewReport, RepeatReport, Poll, CollectNew, CollectRepeats, SendNews, AdvanceCursor,
       RecordCounts, vars, feedVars
<1>5. CASE CloseSocket \/ ResetCursor \/ ResetCounts \/ Reconnect \/ ReceiveUpdate \/ TakeUpdate
  BY <1>3, <1>5 DEF CloseSocket, ResetCursor, ResetCounts, Reconnect, ReceiveUpdate, TakeUpdate, feedVars
<1> QED BY <1>1, <1>2, <1>4, <1>5 DEF Next

\* The types hold at the start.
LEMMA InitTyped == Init => Typed
<1> SUFFICES ASSUME Init PROVE Typed OBVIOUS
<1>1. 0 \in 0..MaxRepeat /\ MaxReports \in Nat /\ MaxDrops \in Nat /\ MaxPerMsg \in Nat /\ FeedCap \in Nat
  BY BoundsAssumption
<1>2. PollTypes BY <1>1, EmptySeq DEF Init, PollTypes
<1>3. Traffic BY <1>1, EmptySeq DEF Init, Traffic, Updates
<1> QED BY <1>2, <1>3 DEF Typed

\* Every step keeps them.
LEMMA NextTyped == Typed /\ [Next]_vars => Typed'
<1> SUFFICES ASSUME Typed, [Next]_vars PROVE Typed' OBVIOUS
<1>1. PollTypes'
  <2>1. ASSUME UNCHANGED <<reports, pluginVars, pollVars, sent>> PROVE PollTypes'
    BY <2>1 DEF Typed, PollTypes, Ids, pluginVars, pollVars
  <2>2. CASE ReceiveUpdate \/ TakeUpdate \/ AddAlert \/ DismissAlert \/ UNCHANGED vars
    BY <2>1, <2>2 DEF ReceiveUpdate, TakeUpdate, AddAlert, DismissAlert, vars
  <2> QED BY <2>2, GameTypes, CollectTypes, SendTypes, RecordTypes, SessionTypes DEF Next, Poll
<1>2. Traffic'
  <2>1. ASSUME UNCHANGED <<wire, feedCh, batch, dropped>> PROVE Traffic' BY <2>1 DEF Typed, Traffic
  <2>2. CASE \/ NewReport \/ RepeatReport \/ CollectNew \/ CollectRepeats \/ AdvanceCursor \/ RecordCounts
             \/ DismissAlert \/ UNCHANGED vars
    BY <2>1, <2>2 DEF NewReport, RepeatReport, CollectNew, CollectRepeats, AdvanceCursor, RecordCounts,
         DismissAlert, vars, feedVars
  <2>3. CASE AddAlert
    <3>1. batch' \in Updates BY <2>3, AddIsStoreStep DEF Typed
    <3> QED BY <2>3, <3>1 DEF AddAlert, Typed, Traffic
  <2> QED BY <2>2, <2>3, SendTypes, SessionTypes, ReceiveTypes DEF Next, Poll
<1> QED BY <1>1, <1>2 DEF Typed

\* Every variable of the feed keeps its type, also when the socket thread tears
\* a session down in the middle of a poll.
THEOREM TypeCorrect == Spec => []TypeOK
BY InitTyped, NextTyped, TypedIs, PTL DEF Spec

\* The feed uses the store as the store's specification says, so that what is
\* proved of the store holds of the alerts that come from the game.
THEOREM StoreServed == Spec => Store!Spec
<1>1. Init => Store!Init BY DEF Init
<1>2. Typed => Traffic BY DEF Typed
<1> QED BY <1>1, <1>2, InitTyped, NextTyped, StepOfStore, PTL DEF Spec, Store!Spec
=============================================================================
