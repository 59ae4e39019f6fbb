-------------------------- MODULE AnnouncementFeed --------------------------
(***************************************************************************)
(* From DF's report list to the alerts the agent sees: the poll on the      *)
(* simulation thread (dfhack-plugin/announcements.cpp) with its cursor and  *)
(* repeat-count map, their reset by the teardown of a session, the ordered  *)
(* connection, and the server's AlertStore.  A teardown from the console    *)
(* holds the core lock, so it excludes a poll; one from the socket thread   *)
(* (a heartbeat timeout, a DISCONNECT) holds nothing.                       *)
(***************************************************************************)
EXTENDS Integers, Sequences, SequencesExt

CONSTANTS MaxReports,      \* bound on DF reports: ids are 1..MaxReports
          MaxRepeat,       \* bound on repeat_count
          MaxPerMsg,       \* MAX_PER_MSG
          TailWindow,      \* TAIL_WINDOW
          Capacity,        \* capacity of the AlertStore
          FeedCap,         \* capacity of the client's announcement channel
          MaxDrops,        \* bound on lost sessions
          UnlockedTeardown \* whether the socket thread may tear a session down

ASSUME BoundsAssumption ==
  /\ {MaxReports, MaxRepeat, MaxDrops, FeedCap} \subseteq Nat
  /\ {MaxPerMsg, TailWindow, Capacity} \subseteq Nat \ {0}
  /\ UnlockedTeardown \in BOOLEAN

ReportIds == 1..MaxReports

VARIABLES
  reports,  \* repeat_count of each report so far, in id order
  cursor,   \* g_last_sent_report_id; 0 stands for the code's -1
  lastSent, \* g_last_sent_repeat_count; 0 for an absent entry
  up,       \* the session's socket is valid
  tpc,      \* the teardown: "none", "cursor", "counts"
  ppc,      \* the poll: "idle", "repeats", "send", "advance", "record"
  news,     \* the ids the poll has collected
  highest,  \* the largest id among cursor and new reports when it collected them
  count,    \* how many of them it sent
  wire,     \* ANNOUNCEMENT_UPDATEs on their way to the server
  feedCh,   \* Client.announcementCh
  batch,    \* what is left of the update the Populator took
  sent,     \* ids written to the current session
  dropped,  \* ids whose latest update was dropped on a full channel
  drops,
  entries, byID

Store == INSTANCE AlertStore

pluginVars == <<cursor, lastSent, up, tpc, drops>>
pollVars == <<ppc, news, highest, count>>
feedVars == <<feedCh, batch, dropped, entries, byID>>
vars == <<reports, pluginVars, pollVars, wire, sent, feedVars>>

Init ==
  /\ reports = <<>> /\ cursor = 0 /\ lastSent = [i \in ReportIds |-> 0]
  /\ up = TRUE /\ tpc = "none" /\ drops = 0
  /\ ppc = "idle" /\ news = <<>> /\ highest = 0 /\ count = 0
  /\ wire = <<>> /\ sent = {}
  /\ feedCh = <<>> /\ batch = <<>> /\ dropped = {}
  /\ Store!Init

----------------------------------------------------------------------------
(* The game: reports appear and repeat, never while a poll holds the core.  *)

NewReport ==
  /\ ppc = "idle" /\ Len(reports) < MaxReports
  /\ \E n \in 0..MaxRepeat : reports' = Append(reports, n)
  /\ UNCHANGED <<pluginVars, pollVars, wire, sent, feedVars>>

RepeatReport ==
  /\ ppc = "idle"
  /\ \E i \in DOMAIN reports : reports[i] < MaxRepeat
                               /\ reports' = [reports EXCEPT ![i] = @ + 1]
  /\ UNCHANGED <<pluginVars, pollVars, wire, sent, feedVars>>

----------------------------------------------------------------------------
(* poll_and_send_announcements.                                             *)

InTail(i) == i > Len(reports) - TailWindow
AtMost(a, b) == IF a < b THEN a ELSE b

Largest(S) == CHOOSE m \in S : \A n \in S : n <= m

\* The reports beyond the cursor.
CollectNew ==
  /\ ppc = "idle" /\ up /\ reports # <<>>
  /\ ppc' = "repeats"
  /\ news' = [k \in 1..(Len(reports) - cursor) |-> cursor + k]
  /\ highest' = Largest({cursor} \cup ToSet(news'))
  /\ UNCHANGED <<reports, pluginVars, count, wire, sent, feedVars>>

\* Seeded fault: only reports beyond the cursor are ever sent.
CollectNoRepeats ==
  /\ ppc = "repeats"
  /\ ppc' = IF news = <<>> THEN "idle" ELSE "send"
  /\ UNCHANGED <<reports, pluginVars, news, highest, count, wire, sent, feedVars>>

\* The members of a set of ids in ascending order.
Ascending(S) == {s \in [1..Cardinality(S) -> S] : \A j, k \in DOMAIN s : j < k => s[j] < s[k]}

\* Under g_repeat_count_mutex: repeats in the tail, then the map is pruned.
CollectRepeats ==
  /\ ppc = "repeats"
  /\ LET Repeated(i) == InTail(i) /\ i <= cursor /\ reports[i] > lastSent[i]
     IN \E again \in Ascending({i \in DOMAIN reports : Repeated(i)}) : news' = news \o again
  /\ ppc' = IF news' = <<>> THEN "idle" ELSE "send"
  /\ lastSent' = [i \in ReportIds |-> IF InTail(i) THEN lastSent[i] ELSE 0]
  /\ UNCHANGED <<reports, cursor, up, tpc, drops, highest, count, wire, sent, feedVars>>

\* send_announcement_update: nothing without a valid socket, at most MaxPerMsg.
SendNews ==
  /\ ppc = "send"
  /\ IF up
     THEN LET ids == SubSeq(news, 1, AtMost(Len(news), MaxPerMsg)) IN
          /\ count' = Len(ids) /\ ppc' = "advance"
          /\ wire' = Append(wire, [k \in DOMAIN ids |-> [id |-> ids[k],
                                                         repeatCount |-> reports[ids[k]]]])
          /\ sent' = sent \cup ToSet(ids)
     ELSE ppc' = "idle" /\ UNCHANGED <<count, wire, sent>>
  /\ UNCHANGED <<reports, pluginVars, news, highest, feedVars>>

\* Seeded fault: the cursor passes what the cap cut off.
AdvanceCursorPastCap ==
  /\ ppc = "advance" /\ ppc' = "record"
  /\ cursor' = highest
  /\ UNCHANGED <<reports, lastSent, up, tpc, drops, news, highest, count, wire, sent, feedVars>>

\* All sent: the highest new id; else the largest id sent or the cursor as it is now.
AdvanceCursor ==
  /\ ppc = "advance" /\ ppc' = "record"
  /\ cursor' = IF count = Len(news)
               THEN highest
               ELSE Largest({cursor} \cup ToSet(SubSeq(news, 1, count)))
  /\ UNCHANGED <<reports, lastSent, up, tpc, drops, news, highest, count, wire, sent, feedVars>>

RecordCounts ==
  /\ ppc = "record" /\ ppc' = "idle"
  /\ lastSent' = [i \in ReportIds |-> IF i \in ToSet(SubSeq(news, 1, count))
                                      THEN reports[i] ELSE lastSent[i]]
  /\ UNCHANGED <<reports, cursor, up, tpc, drops, news, highest, count, wire, sent, feedVars>>

Poll == CollectNew \/ CollectRepeats \/ SendNews \/ AdvanceCursor \/ RecordCounts

----------------------------------------------------------------------------
(* Teardown and reconnection.                                               *)

MayTearDown == UnlockedTeardown \/ ppc = "idle"

\* The socket is closed; what was on its way is lost.
CloseSocket ==
  /\ up /\ tpc = "none" /\ MayTearDown /\ drops < MaxDrops
  /\ up' = FALSE /\ tpc' = "cursor" /\ drops' = drops + 1
  /\ wire' = <<>> /\ sent' = {}
  /\ UNCHANGED <<reports, cursor, lastSent, pollVars, feedVars>>

\* reset_announcement_cursor: the cursor, then the map under its mutex.
ResetCursor ==
  /\ tpc = "cursor" /\ tpc' = "counts"
  /\ cursor' = 0
  /\ UNCHANGED <<reports, lastSent, up, drops, pollVars, wire, sent, feedVars>>

ResetCounts ==
  /\ tpc = "counts" /\ tpc' = "none"
  /\ lastSent' = [i \in ReportIds |-> 0]
  /\ UNCHANGED <<reports, cursor, up, drops, pollVars, wire, sent, feedVars>>

\* connect_to_server runs under the core lock, after the old thread is reaped.
Reconnect ==
  /\ ~up /\ tpc = "none" /\ ppc = "idle"
  /\ up' = TRUE
  /\ UNCHANGED <<reports, cursor, lastSent, tpc, drops, pollVars, wire, sent, feedVars>>

----------------------------------------------------------------------------
(* The server: message loop, Populator, and the agent's dismissals.         *)

IdsOf(update) == {a.id : a \in ToSet(update)}

\* messageLoop: an update goes on the channel, or is dropped when it is full.
ReceiveUpdate ==
  /\ wire # <<>> /\ wire' = Tail(wire)
  /\ IF Len(feedCh) < FeedCap
     THEN feedCh' = Append(feedCh, Head(wire)) /\ dropped' = dropped \ IdsOf(Head(wire))
     ELSE UNCHANGED feedCh /\ dropped' = dropped \cup IdsOf(Head(wire))
  /\ UNCHANGED <<reports, pluginVars, pollVars, sent, batch, entries, byID>>

TakeUpdate ==
  /\ feedCh # <<>> /\ batch = <<>>
  /\ batch' = Head(feedCh) /\ feedCh' = Tail(feedCh)
  /\ UNCHANGED <<reports, pluginVars, pollVars, wire, sent, dropped, entries, byID>>

\* OnAnnouncementUpdate adds the alerts one by one.
AddAlert ==
  /\ batch # <<>> /\ batch' = Tail(batch)
  /\ Store!Add(Head(batch).id, Head(batch).repeatCount)
  /\ UNCHANGED <<reports, pluginVars, pollVars, wire, sent, feedCh, dropped>>

DismissAlert ==
  /\ \E id \in ReportIds : Store!Dismiss(id)
  /\ UNCHANGED <<reports, pluginVars, pollVars, wire, sent, feedCh, batch, dropped>>

Next ==
  \/ NewReport \/ RepeatReport \/ Poll
  \/ CloseSocket \/ ResetCursor \/ ResetCounts \/ Reconnect
  \/ ReceiveUpdate \/ TakeUpdate \/ AddAlert \/ DismissAlert

Spec == Init /\ [][Next]_vars

\* onupdate polls about every five seconds of an unpaused game, a teardown that
\* has begun ends, and the message loop and the Populator take what arrives.
Fairness == /\ WF_vars(Poll) /\ WF_vars(ResetCursor) /\ WF_vars(ResetCounts)
            /\ WF_vars(ReceiveUpdate) /\ WF_vars(TakeUpdate) /\ WF_vars(AddAlert)
FairSpec == Spec /\ Fairness

----------------------------------------------------------------------------
\* The feed's own variables have their types (announcements.cpp and the two
\* loops); the store's are in the invariant of AlertStore.
TypeOK ==
  /\ reports \in Seq(0..MaxRepeat) /\ Len(reports) <= MaxReports
  /\ cursor \in 0..Len(reports) /\ lastSent \in [ReportIds -> 0..MaxRepeat]
  /\ up \in BOOLEAN /\ tpc \in {"none", "cursor", "counts"} /\ drops \in 0..MaxDrops
  /\ ppc \in {"idle", "repeats", "send", "advance", "record"}
  /\ news \in Seq(ReportIds) /\ highest \in 0..Len(reports) /\ count \in 0..MaxPerMsg
  /\ LET Update == Seq([id : ReportIds, repeatCount : 0..MaxRepeat]) IN
       wire \in Seq(Update) /\ feedCh \in Seq(Update) /\ batch \in Update
  /\ Len(feedCh) <= FeedCap
  /\ sent \subseteq ReportIds /\ dropped \subseteq ReportIds

----------------------------------------------------------------------------
(* Properties.                                                              *)

\* The cursor never passes over a report: in a live session every report at or
\* below it has been sent to that session, whatever the cap cut off, and a
\* reconnected peer is sent the backlog again.
NothingSkipped == up => \A i \in 1..cursor : i \in sent

\* The agent's store catches up: every report, and every repeat of a report
\* still in the tail window, reaches the store unless the session is lost, its
\* update was dropped on a full channel, or newer reports push it out.
Has(i) == /\ Store!Known(i) /\ Store!Shown(i).repeatCount >= reports[i]
Delivered == \A i \in ReportIds :
  i \in DOMAIN reports /\ up ~> ~up \/ Has(i) \/ i \in dropped \/ ~InTail(i)
=============================================================================
