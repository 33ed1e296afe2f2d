------------------------------ MODULE MCPlanning ------------------------------
(* Small instances of Planning for TLC.                                      *)
EXTENDS PlanningInvariant, TLC

CONSTANTS a1, a2, a3

VARIABLE focus

(* What the clients of an instance send.                                     *)
ReadyFacts == {"confirmed"}
BothFacts == {"unconfirmed", "confirmed"}
TwoChoices == {{a1}, {a2}}

(* Ids are drawn, never computed with: permuting them changes nothing, and so   *)
(* only the least of those that are free is drawn.                           *)
Symmetry == Permutations(Threads) \cup Permutations(Principals) \cup Permutations(IntentIds)
Least(ids, used) == {n \in ids \ used : \A m \in ids \ used : n <= m}
UsedIntents ==
  {i \in IntentIds : intents[i] # None}
    \cup {req[h].intent : h \in {k \in Threads : req[k].step \notin {"idle", "edit"}}}
RowsIn(rows) == {n \in DOMAIN rows : rows[n] # None}
DrawnInOrder ==
  /\ RowsIn(drafts') \subseteq RowsIn(drafts) \cup Least(DraftIds, RowsIn(drafts))
  /\ RowsIn(trips') \subseteq RowsIn(trips) \cup Least(TripIds, RowsIn(trips))
  /\ RowsIn(revisions') \subseteq RowsIn(revisions) \cup Least(RevisionIds, RowsIn(revisions))

-------------------------------------------------------------------------------
(* Two instances in one run, a behaviour picks one as its focus:             *)
(*   edits   three requests at once on one draft, of all kinds that clients    *)
(*           send; three versions of the draft, two intents, a death, no       *)
(*           redelivery;                                                       *)
(*   races   two requests at once on one trip, a redelivery and a death; a     *)
(*           draft is edited until it is ready, a replacement's copy once more, *)
(*           and no intent is sent again.                                      *)
At(steps) == {h \in Threads : req[h].step \in steps}
Busy == {h \in Threads : req[h].step # "idle"}
Edits ==
  /\ Cardinality(Drafts') <= 1 /\ Cardinality(UsedIntents') <= 2
  /\ redeliveries' = 0

Needed(edit) ==
  /\ Ready(drafts[edit.draft]) => edit.row.version = 2
  /\ edit.row.content.facts # "unconfirmed"
  /\ edit.row.content.selection \in {{a1}, drafts[edit.draft].content.selection}
Races ==
  /\ Cardinality(Busy') <= 2
  /\ At({"answer"})' = {}
  /\ \A h \in At({"edit"})' \ At({"edit"}) : Needed(req'[h])
  /\ Cardinality(RowsIn(trips')) <= 1

FocusInit == Init /\ focus \in {"edits", "races"}
FocusNext ==
  /\ Next /\ DrawnInOrder
  /\ focus = "edits" => Edits
  /\ focus = "races" => Races
  /\ UNCHANGED focus
FocusSpec == FocusInit /\ [][FocusNext]_<<vars, focus>>

(* All that the constants allow.                                             *)
AllSpec == Init /\ focus = "all" /\ [][Next /\ UNCHANGED focus]_<<vars, focus>>
===============================================================================
