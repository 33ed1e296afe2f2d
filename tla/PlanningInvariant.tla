-------------------------- MODULE PlanningInvariant --------------------------
(***************************************************************************)
(* The inductive invariant of the planning core: what the properties of    *)
(* Planning say of the tables, strengthened with what each thread holds    *)
(* between two of its transactions.                                        *)
(***************************************************************************)
EXTENDS Planning

Executing == {"execute", "claim", "solve", "store", "gate_failed", "publish"}

(* A generation that targets a trip has as base a revision of that trip.     *)
IsBase(t, b) ==
  /\ t \in TripIds /\ b \in RevisionIds
  /\ trips[t] # None /\ revisions[b] # None /\ revisions[b].trip = t

TargetsHaveBases ==
  \A i \in IntentIds : Stored(i) =>
    \/ intents[i].target = None /\ intents[i].base = None
    \/ IsBase(intents[i].target, intents[i].base)

(* What a thread holds still fits the tables: a row to be written follows    *)
(* the row it was read from, what is submitted belongs to the submitter, an  *)
(* execution has a stored intent and claims it from a claimable status.      *)
InFlight(h) ==
  LET r == req[h] IN
  /\ r.step = "edit" =>
       /\ drafts[r.draft] # None
       /\ r.row.owner = drafts[r.draft].owner
       /\ r.row.version = r.expected + 1
  /\ r.step = "submit" =>
       drafts[r.draft] # None /\ drafts[r.draft].owner = r.principal
  /\ r.step = "replace" =>
       /\ r.row.owner = r.principal
       /\ r.row.version = 1
       /\ IsBase(r.target, r.base)
       /\ trips[r.target].principal = r.principal
  /\ r.step \in Executing => Stored(r.intent)
  /\ r.step = "claim" => r.expected \in Claimable
  /\ r.step = "publish" => intents[r.intent].target # None

RequestsInFlight == \A h \in Threads : InFlight(h)

(* Every (draft, version, content) anybody holds: the stored drafts, the     *)
(* drafts threads have read to submit them, and the inputs of the intents.   *)
Holds(d, v, c) ==
  \/ drafts[d] # None /\ drafts[d].version = v /\ drafts[d].content = c
  \/ \E h \in Threads :
       /\ req[h].step = "submit" /\ req[h].draft = d
       /\ req[h].row.version = v /\ req[h].row.content = c
  \/ \E i \in IntentIds :
       /\ Stored(i) /\ intents[i].draft = d
       /\ intents[i].version = v /\ intents[i].input = c

(* Whatever is held of a draft is no newer than the stored draft, and one    *)
(* version has one content.                                                  *)
VersionsAgree ==
  \A d \in DraftIds, v \in Nat \ {0}, c \in Content : Holds(d, v, c) =>
    /\ drafts[d] # None /\ v <= drafts[d].version
    /\ \A e \in Content : Holds(d, v, e) => e = c

(* The tables only grow: rows stay, and with them their owners, what an      *)
(* intent is bound to, and whole revisions.                                  *)
TablesGrow ==
  /\ \A d \in DraftIds : drafts[d] # None =>
       drafts'[d] # None /\ drafts'[d].owner = drafts[d].owner
  /\ \A i \in IntentIds : Stored(i) => intents'[i] # None /\ Binding(i)' = Binding(i)
  /\ \A t \in TripIds : trips[t] # None =>
       trips'[t] # None /\ trips'[t].principal = trips[t].principal
  /\ \A r \in RevisionIds : revisions[r] # None => revisions'[r] = revisions[r]

IInv ==
  /\ TypeOK
  /\ RequestsInFlight
  /\ VersionsAgree
  /\ TargetsHaveBases
  /\ OneSolverPerIntent
  /\ OutcomeIsWhole
  /\ TripHistoryIsLinear
  /\ ConflictsAreReal
  /\ OneOwner
===============================================================================
