----------------------------- MODULE AlertStore -----------------------------
(***************************************************************************)
(* worldmodel.AlertStore (internal/worldmodel/alerts.go): the ring of the   *)
(* most recent announcements with an index from report id to position.      *)
(* Every method runs under the store's mutex, so each is one action.        *)
(* Positions count from 1 here; entries[0] of the code is entries[1].       *)
(***************************************************************************)
EXTENDS Integers, Sequences

CONSTANTS ReportIds, \* DF report ids
          Capacity,  \* NewAlertStore's capacity
          MaxRepeat  \* bound on a report's repeat_count

ASSUME CapacityAssumption == Capacity \in Nat \ {0}
ASSUME MaxRepeatAssumption == MaxRepeat \in Nat

Repeats == 0..MaxRepeat
Alerts == [id : ReportIds, repeatCount : Repeats, dismissed : BOOLEAN]

VARIABLES entries, \* newest at the end
          byID     \* id -> position in entries

vars == <<entries, byID>>

Init == /\ entries = <<>>
        /\ byID = [i \in {} |-> 0]

Known(id) == id \in DOMAIN byID

\* Seeded fault: a repeated delivery counts as a repeat.
BumpOnResend(id, count) ==
  /\ Known(id)
  /\ count >= entries[byID[id]].repeatCount
  /\ entries' = [entries EXCEPT ![byID[id]].repeatCount = count,
                                ![byID[id]].dismissed = FALSE]
  /\ UNCHANGED byID

\* A known report that fired again is bumped in place and shown again.
Bump(id, count) ==
  /\ Known(id)
  /\ count > entries[byID[id]].repeatCount
  /\ entries' = [entries EXCEPT ![byID[id]].repeatCount = count,
                                ![byID[id]].dismissed = FALSE]
  /\ UNCHANGED byID

\* The same report with the same or a lower count changes nothing.
Duplicate(id, count) ==
  /\ Known(id)
  /\ count <= entries[byID[id]].repeatCount
  /\ UNCHANGED vars

Full == Len(entries) >= Capacity

\* Seeded fault: the indices are left where they were.
Unshifted == [i \in DOMAIN byID \ {entries[1].id} |-> byID[i]]

\* byID after the oldest entry is evicted: every index moves down by one.
Shifted == [i \in DOMAIN byID \ {entries[1].id} |-> byID[i] - 1]

Insert(id, count) ==
  LET kept == IF Full THEN Tail(entries) ELSE entries
      index == IF Full THEN Shifted ELSE byID
  IN /\ ~Known(id)
     /\ entries' = Append(kept, [id |-> id, repeatCount |-> count, dismissed |-> FALSE])
     /\ byID' = [i \in DOMAIN index \cup {id} |->
                   IF i = id THEN Len(kept) + 1 ELSE index[i]]

Add(id, count) == Bump(id, count) \/ Duplicate(id, count) \/ Insert(id, count)

Dismiss(id) ==
  /\ Known(id) /\ ~entries[byID[id]].dismissed
  /\ entries' = [entries EXCEPT ![byID[id]].dismissed = TRUE]
  /\ UNCHANGED byID

DismissAll ==
  /\ entries' = [p \in DOMAIN entries |-> [entries[p] EXCEPT !.dismissed = TRUE]]
  /\ UNCHANGED byID

\* The world behind the connection changed.
Reset ==
  /\ entries' = <<>>
  /\ byID' = [i \in {} |-> 0]

Next ==
  \/ \E id \in ReportIds : (\E count \in Repeats : Add(id, count)) \/ Dismiss(id)
  \/ DismissAll \/ Reset

Spec == Init /\ [][Next]_vars

----------------------------------------------------------------------------
TypeOK ==
  /\ entries \in Seq(Alerts) /\ Len(entries) <= Capacity
  /\ DOMAIN byID \subseteq ReportIds
  /\ byID \in [DOMAIN byID -> 1..Len(entries)]

\* Eviction shifts every position; still the index finds exactly the entry of
\* its id, and every stored alert is found: no alert is shown twice, bumped or
\* dismissed in place of another, or out of reach of a dismissal.
IndexConsistent ==
  /\ \A id \in DOMAIN byID : entries[byID[id]].id = id
  /\ \A p \in DOMAIN entries : entries[p].id \in DOMAIN byID /\ byID[entries[p].id] = p

\* The alert of an id, wherever it stands in the ring.
Shown(id) == entries[byID[id]]

KeptDismissed(id) == Shown(id).dismissed /\ ~Shown(id)'.dismissed
                       => Shown(id)'.repeatCount > Shown(id).repeatCount
StaysDismissed == \A id \in DOMAIN byID \cap DOMAIN byID' : KeptDismissed(id)

\* What was dismissed comes back only because the report fired again: no other
\* report, eviction or repeated delivery undoes a dismissal of a stored alert.
DismissalKept == [][StaysDismissed]_vars
=============================================================================
