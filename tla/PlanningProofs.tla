---------------------------- MODULE PlanningProofs ----------------------------
(***************************************************************************)
(* Proofs about the planning core, for any sets of clients, ids, threads   *)
(* and attractions and any bounds.                                         *)
(***************************************************************************)
EXTENDS PlanningInvariant, TLAPS

(* ------------------------------ Type correctness ------------------------- *)

(* The empty tables and idle threads are well typed.                         *)
LEMMA TypeInit == Init => TypeOK
  BY DEF Init, TypeOK, Idle, Request

(* The three edits of a draft yield a draft of the same owner; the next      *)
(* version, or version 1 of a clone.                                         *)
LEMMA UpdatesAreRows ==
  ASSUME NEW row \in DraftRow
  PROVE  /\ \A f \in FactChoices :
              /\ UpdateTravelFacts(row, f) \in DraftRow
              /\ UpdateTravelFacts(row, f).owner = row.owner
              /\ UpdateTravelFacts(row, f).version = row.version + 1
         /\ \A s \in SelectionChoices :
              /\ ReplaceSelection(row, s) \in DraftRow
              /\ ReplaceSelection(row, s).owner = row.owner
              /\ ReplaceSelection(row, s).version = row.version + 1
         /\ \A w \in Swap :
              /\ CloneWithReplacement(row, w) \in DraftRow
              /\ CloneWithReplacement(row, w).owner = row.owner
              /\ CloneWithReplacement(row, w).version = 1
<1>1. row.content \in Content /\ row.version + 1 \in Nat \ {0} /\ 1 \in Nat \ {0}
  BY DEF DraftRow
<1>2. ASSUME NEW f \in FactChoices
      PROVE  LET new == UpdateTravelFacts(row, f) IN
             new \in DraftRow /\ new.owner = row.owner /\ new.version = row.version + 1
  <2> DEFINE c == [row.content EXCEPT !.facts = f]
  <2>1. c \in Content
    BY <1>1, ChoicesAssumption DEF Content
  <2>2. UpdateTravelFacts(row, f) = [row EXCEPT !.version = row.version + 1, !.content = c]
    BY DEF UpdateTravelFacts
  <2> HIDE DEF c
  <2> QED
    BY <1>1, <2>1, <2>2 DEF DraftRow
<1>3. ASSUME NEW s \in SelectionChoices
      PROVE  LET new == ReplaceSelection(row, s) IN
             new \in DraftRow /\ new.owner = row.owner /\ new.version = row.version + 1
  <2> DEFINE c == [row.content EXCEPT !.selection = s]
  <2>1. c \in Content
    BY <1>1, ChoicesAssumption DEF Content
  <2>2. ReplaceSelection(row, s) = [row EXCEPT !.version = row.version + 1, !.content = c]
    BY DEF ReplaceSelection
  <2> HIDE DEF c
  <2> QED
    BY <1>1, <2>1, <2>2 DEF DraftRow
<1>4. ASSUME NEW w \in Swap
      PROVE  LET new == CloneWithReplacement(row, w) IN
             new \in DraftRow /\ new.owner = row.owner /\ new.version = 1
  <2> DEFINE c == [row.content EXCEPT !.selection = (@ \ {w.old}) \cup {w.new}]
  <2>1. c \in Content
    BY <1>1 DEF Content, Swap
  <2>2. CloneWithReplacement(row, w) = [row EXCEPT !.version = 1, !.content = c]
    BY DEF CloneWithReplacement
  <2> HIDE DEF c
  <2> QED
    BY <1>1, <2>1, <2>2 DEF DraftRow
<1> QED
  BY <1>2, <1>3, <1>4

(* Opening a draft and editing it keep every row and request well typed.     *)
LEMMA TypeEdit ==
  ASSUME TypeOK, NEW h \in Threads,
         \/ \E p \in Principals : CreateDraft(p)
         \/ \E p \in Principals, d \in DraftIds :
              BeginUpdateTravelFacts(h, p, d) \/ BeginReplaceSelection(h, p, d)
         \/ SaveEdit(h)
  PROVE  TypeOK'
<1> USE DEF TypeOK
<1>1. ASSUME NEW p \in Principals, CreateDraft(p)
      PROVE  TypeOK'
  <2>1. NewDraft(p) \in DraftRow
    BY DEF NewDraft, DraftRow, Content, Facts
  <2> QED
    BY <1>1, <2>1 DEF CreateDraft
<1>2. ASSUME NEW p \in Principals, NEW d \in DraftIds, NEW row \in DraftRow,
             BeginEdit(h, p, d, row)
      PROVE  TypeOK'
  <2>1. drafts[d].version \in Nat \ {0}
    BY <1>2 DEF BeginEdit, OwnedDraft, DraftRow
  <2>2. [step |-> "edit", draft |-> d, row |-> row, expected |-> drafts[d].version] \in Request
    BY <2>1 DEF Request
  <2> QED
    BY <1>2, <2>2 DEF BeginEdit
<1>3. ASSUME NEW p \in Principals, NEW d \in DraftIds, BeginUpdateTravelFacts(h, p, d)
      PROVE  TypeOK'
  <2>1. PICK f \in FactChoices : BeginEdit(h, p, d, UpdateTravelFacts(drafts[d], f))
    BY <1>3 DEF BeginUpdateTravelFacts
  <2>2. drafts[d] \in DraftRow
    BY <2>1 DEF BeginEdit, OwnedDraft
  <2>3. UpdateTravelFacts(drafts[d], f) \in DraftRow
    BY <2>2, UpdatesAreRows
  <2> QED
    BY <1>2, <2>1, <2>3
<1>4. ASSUME NEW p \in Principals, NEW d \in DraftIds, BeginReplaceSelection(h, p, d)
      PROVE  TypeOK'
  <2>1. PICK s \in SelectionChoices : BeginEdit(h, p, d, ReplaceSelection(drafts[d], s))
    BY <1>4 DEF BeginReplaceSelection
  <2>2. drafts[d] \in DraftRow
    BY <2>1 DEF BeginEdit, OwnedDraft
  <2>3. ReplaceSelection(drafts[d], s) \in DraftRow
    BY <2>2, UpdatesAreRows
  <2> QED
    BY <1>2, <2>1, <2>3
<1>5. ASSUME SaveEdit(h)
      PROVE  TypeOK'
  <2>1. req[h].draft \in DraftIds /\ req[h].row \in DraftRow
    BY <1>5 DEF SaveEdit, Request
  <2> QED
    BY <1>5, <2>1 DEF SaveEdit, Idle, Request
<1> QED
  BY <1>1, <1>3, <1>4, <1>5

(* A stored intent is a well-typed row.                                      *)
LEMMA NewIntentIsRow ==
  ASSUME NEW p \in Principals, NEW d \in DraftIds, NEW row \in DraftRow,
         NEW target \in TripIds \cup {None}, NEW base \in RevisionIds \cup {None}
  PROVE  NewIntent(p, d, row, target, base) \in IntentRow
<1>1. row.version \in Nat \ {0} /\ row.content \in Content
  BY DEF DraftRow
<1> QED
  BY <1>1 DEF NewIntent, IntentRow, Statuses, Failures

(* So do submissions, replacements and answers ...                           *)
LEMMA TypeSubmit ==
  ASSUME TypeOK, NEW h \in Threads,
         \/ \E p \in Principals, i \in IntentIds, d \in DraftIds : BeginSubmit(h, p, i, d)
         \/ \E p \in Principals, i \in IntentIds, t \in TripIds, b \in RevisionIds :
              BeginReplaceAttraction(h, p, i, t, b)
         \/ InsertIntent(h)
         \/ InsertReplacement(h)
         \/ \E i \in IntentIds : Resend(h, i)
         \/ Answer(h)
  PROVE  TypeOK'
<1> USE DEF TypeOK
<1>1. ASSUME NEW p \in Principals, NEW i \in IntentIds, NEW d \in DraftIds,
             BeginSubmit(h, p, i, d)
      PROVE  TypeOK'
  <2>1. drafts[d] \in DraftRow
    BY <1>1 DEF BeginSubmit, OwnedDraft
  <2>2. [step |-> "submit", principal |-> p, intent |-> i, draft |-> d,
         row |-> drafts[d]] \in Request
    BY <2>1 DEF Request
  <2> QED
    BY <1>1, <2>2 DEF BeginSubmit
<1>2. ASSUME NEW p \in Principals, NEW i \in IntentIds, NEW t \in TripIds,
             NEW b \in RevisionIds, BeginReplaceAttraction(h, p, i, t, b)
      PROVE  TypeOK'
  <2> DEFINE source == drafts[SourceDraft(b)]
  <2>1. PICK w \in Swap :
          req' = [req EXCEPT ![h] =
                    [step |-> "replace", principal |-> p, intent |-> i, target |-> t,
                     base |-> b, row |-> CloneWithReplacement(source, w), swap |-> w]]
    BY <1>2 DEF BeginReplaceAttraction
  <2>2. source \in DraftRow
    <3>1. intents[revisions[b].intent] \in IntentRow
      BY <1>2 DEF BeginReplaceAttraction, RevisionRow
    <3>2. source # None /\ SourceDraft(b) \in DraftIds
      BY <1>2, <3>1 DEF BeginReplaceAttraction, OwnedDraft, SourceDraft, IntentRow
    <3> QED
      BY <3>2
  <2>3. CloneWithReplacement(source, w) \in DraftRow
    BY <2>2, UpdatesAreRows
  <2>4. [step |-> "replace", principal |-> p, intent |-> i, target |-> t, base |-> b,
         row |-> CloneWithReplacement(source, w), swap |-> w] \in Request
    BY <2>3 DEF Request
  <2> QED
    BY <1>2, <2>1, <2>4 DEF BeginReplaceAttraction
<1>3. ASSUME InsertIntent(h)
      PROVE  TypeOK'
  <2> DEFINE i == req[h].intent
             new == NewIntent(req[h].principal, req[h].draft, req[h].row, None, None)
  <2>1. /\ i \in IntentIds /\ req[h].principal \in Principals
        /\ req[h].draft \in DraftIds /\ req[h].row \in DraftRow
    BY <1>3 DEF InsertIntent, Request
  <2>2. new \in IntentRow
    BY <2>1, NewIntentIsRow
  <2>3. [step |-> "execute", intent |-> i] \in Request /\ Idle \in Request
    BY <2>1 DEF Request, Idle
  <2> QED
    BY <1>3, <2>1, <2>2, <2>3 DEF InsertIntent
<1>4. ASSUME InsertReplacement(h)
      PROVE  TypeOK'
  <2> DEFINE i == req[h].intent
  <2>1. /\ i \in IntentIds /\ req[h].principal \in Principals /\ req[h].row \in DraftRow
        /\ req[h].target \in TripIds /\ req[h].base \in RevisionIds /\ req[h].swap \in Swap
    BY <1>4 DEF InsertReplacement, Request
  <2>2. \A d \in DraftIds :
          NewIntent(req[h].principal, d, req[h].row, req[h].target, req[h].base) \in IntentRow
    BY <2>1, NewIntentIsRow
  <2>3. [step |-> "execute", intent |-> i] \in Request /\ Idle \in Request
    BY <2>1 DEF Request, Idle
  <2> QED
    BY <1>4, <2>1, <2>2, <2>3 DEF InsertReplacement
<1>5. ASSUME NEW i \in IntentIds, Resend(h, i)
      PROVE  TypeOK'
  <2>1. [step |-> "answer", intent |-> i] \in Request
    BY DEF Request
  <2> QED
    BY <1>5, <2>1 DEF Resend
<1>6. ASSUME Answer(h)
      PROVE  TypeOK'
  BY <1>6 DEF Answer, Idle, Request
<1> QED
  BY <1>1, <1>2, <1>3, <1>4, <1>5, <1>6

(* The UPDATE of an intent keeps it a well-typed row.                        *)
LEMMA ExecutionRows ==
  ASSUME TypeOK, NEW i \in IntentIds, intents[i] # None,
         NEW status \in Statuses, NEW code \in Failures
  PROVE  [intents EXCEPT ![i].status = status, ![i].failure = code]
           \in [IntentIds -> IntentRow \cup {None}]
<1>1. intents[i] \in IntentRow
  BY DEF TypeOK
<1>2. [intents[i] EXCEPT !.status = status, !.failure = code] \in IntentRow
  BY <1>1 DEF IntentRow
<1> QED
  BY <1>2 DEF TypeOK

(* ... and executions: a publication finds the trip and the base it needs.   *)
LEMMA TypeExecution ==
  ASSUME TypeOK, RequestsInFlight, TargetsHaveBases, NEW h \in Threads,
         Execution(h) \/ Abort(h) \/ (\E i \in IntentIds : Redeliver(h, i))
  PROVE  TypeOK'
<1> USE DEF TypeOK
<1> DEFINE i == req[h].intent
<1>1. Idle \in Request
  BY DEF Idle, Request
<1>2. \A j \in IntentIds, step \in Executing \ {"claim"} :
        [step |-> step, intent |-> j] \in Request
  BY DEF Executing, Request
<1>3. req[h].step \in Executing => i \in IntentIds /\ intents[i] # None /\ intents[i] \in IntentRow
  BY DEF Executing, Request, RequestsInFlight, InFlight, Stored
<1>4. CASE \E j \in IntentIds : Redeliver(h, j)
  BY <1>2, <1>4 DEF Redeliver, Executing
<1>5. CASE Abort(h)
  BY <1>1, <1>5 DEF Abort
<1>6. CASE BeginExecute(h)
  <2>1. intents[i].status \in Statuses /\ i \in IntentIds
    BY <1>3, <1>6 DEF BeginExecute, Executing, IntentRow
  <2>2. [step |-> "claim", intent |-> i, expected |-> intents[i].status] \in Request
    BY <2>1 DEF Request
  <2> QED
    BY <1>1, <1>6, <2>2 DEF BeginExecute
<1>7. CASE Claim(h)
  <2>1. [step |-> "solve", intent |-> i] \in Request
    BY <1>2, <1>3, <1>7 DEF Claim, Executing
  <2>2. [intents EXCEPT ![i].status = "running", ![i].failure = "none"]
          \in [IntentIds -> IntentRow \cup {None}]
    BY <1>3, <1>7, ExecutionRows DEF Claim, Executing, Statuses, Failures
  <2> QED
    BY <1>1, <1>7, <2>1, <2>2 DEF Claim
<1>8. CASE SolveRaises(h)
  <2>1. \A status \in {"failed_retryable", "failed_terminal"} :
          [intents EXCEPT ![i].status = status, ![i].failure = "solver_error"]
            \in [IntentIds -> IntentRow \cup {None}]
    BY <1>3, <1>8, ExecutionRows DEF SolveRaises, Executing, Statuses, Failures
  <2> QED
    BY <1>1, <1>8, <2>1 DEF SolveRaises, Fail
<1>9. CASE SolveReturns(h)
  BY <1>2, <1>3, <1>9 DEF SolveReturns, Executing
<1>10. CASE StoreGateFailure(h)
  <2>1. [intents EXCEPT ![i].status = "failed_terminal", ![i].failure = "quality_gate_failed"]
            \in [IntentIds -> IntentRow \cup {None}]
    BY <1>3, <1>10, ExecutionRows DEF StoreGateFailure, Executing, Statuses, Failures
  <2> QED
    BY <1>1, <1>3, <1>10, <2>1 DEF StoreGateFailure, Fail, Executing
<1>11. ASSUME req[h].step \in Executing, RevisionConflict(i)
       PROVE  /\ runs' \in [IntentIds -> {"none", "completed", "failed"}]
              /\ intents' \in [IntentIds -> IntentRow \cup {None}]
              /\ UNCHANGED <<trips, revisions>>
  <2>1. [intents EXCEPT ![i].status = "failed_terminal", ![i].failure = "trip_revision_conflict"]
            \in [IntentIds -> IntentRow \cup {None}]
    BY <1>3, <1>11, ExecutionRows DEF Statuses, Failures
  <2> QED
    BY <1>11, <2>1 DEF RevisionConflict, Fail
<1>12. ASSUME req[h].step \in Executing, NEW t \in TripIds, NEW r \in RevisionIds,
              NEW number \in Nat \ {0}, NEW row \in TripRow, Publish(i, t, r, number, row)
       PROVE  /\ runs' \in [IntentIds -> {"none", "completed", "failed"}]
              /\ revisions' \in [RevisionIds -> RevisionRow \cup {None}]
              /\ trips' \in [TripIds -> TripRow \cup {None}]
              /\ intents' \in [IntentIds -> IntentRow \cup {None}]
  <2>1. [trip |-> t, number |-> number, intent |-> i] \in RevisionRow
    BY <1>3, <1>12 DEF RevisionRow
  <2>2. [intents[i] EXCEPT !.status = "completed", !.failure = "none",
                           !.trip = t, !.revision = r] \in IntentRow
    BY <1>3, <1>12 DEF IntentRow, Statuses, Failures
  <2> QED
    BY <1>12, <2>1, <2>2 DEF Publish
<1>13. CASE PublishNewTrip(h)
  <2>1. req[h].step \in Executing
    BY <1>13 DEF PublishNewTrip, Executing
  <2>2. \A r \in RevisionIds :
          [principal |-> intents[i].principal, draft |-> intents[i].draft, current |-> r] \in TripRow
    BY <1>3, <2>1 DEF IntentRow, TripRow
  <2>3. 1 \in Nat \ {0}
    OBVIOUS
  <2> QED
    BY <1>1, <1>12, <1>13, <2>1, <2>2, <2>3 DEF PublishNewTrip
<1>14. CASE ReadTarget(h)
  <2>1. req[h].step \in Executing
    BY <1>14 DEF ReadTarget, Executing
  <2>2. [step |-> "publish", intent |-> i] \in Request
    BY <1>2, <1>3, <2>1 DEF Executing
  <2> QED
    BY <1>1, <1>11, <1>14, <2>1, <2>2 DEF ReadTarget
<1>15. CASE PublishRevision(h)
  <2> DEFINE t == intents[i].target
             b == intents[i].base
  <2>1. req[h].step \in Executing /\ req[h].step = "publish"
    BY <1>15 DEF PublishRevision, Executing
  <2>2. /\ t \in TripIds /\ trips[t] \in TripRow
        /\ b \in RevisionIds /\ revisions[b] \in RevisionRow
    BY <1>3, <2>1 DEF TargetsHaveBases, IsBase, RequestsInFlight, InFlight, Stored
  <2>3. NextNumber(b) \in Nat \ {0}
    BY <2>2 DEF NextNumber, RevisionRow
  <2>4. \A r \in RevisionIds : [trips[t] EXCEPT !.current = r] \in TripRow
    BY <2>2 DEF TripRow
  <2>5. CASE trips[t].current # b /\ CanStore(i)
    BY <1>1, <1>11, <1>15, <2>1, <2>5 DEF PublishRevision
  <2>6. CASE ~(trips[t].current # b /\ CanStore(i))
    BY <1>1, <1>12, <1>15, <2>1, <2>2, <2>3, <2>4, <2>6 DEF PublishRevision
  <2> QED
    BY <2>5, <2>6
<1> QED
  BY <1>4, <1>5, <1>6, <1>7, <1>8, <1>9, <1>10, <1>13, <1>14, <1>15 DEF Execution

(* ------------------------------ Tables only grow ------------------------- *)

tables == <<drafts, intents, trips, revisions, runs>>

(* The steps of a thread that only read, and the ones that write.            *)
Reads(h) ==
  \/ \E p \in Principals, d \in DraftIds :
       \/ BeginUpdateTravelFacts(h, p, d)
       \/ BeginReplaceSelection(h, p, d)
       \/ \E i \in IntentIds : BeginSubmit(h, p, i, d)
  \/ \E p \in Principals, i \in IntentIds, t \in TripIds, b \in RevisionIds :
       BeginReplaceAttraction(h, p, i, t, b)
  \/ \E i \in IntentIds : Resend(h, i) \/ Redeliver(h, i)
  \/ Answer(h) \/ BeginExecute(h) \/ SolveReturns(h) \/ Abort(h)

Writes(h) ==
  \/ SaveEdit(h) \/ InsertIntent(h) \/ InsertReplacement(h)
  \/ Claim(h) \/ SolveRaises(h) \/ StoreGateFailure(h)
  \/ PublishNewTrip(h) \/ ReadTarget(h) \/ PublishRevision(h)

(* Every step opens a draft, or is a read or a write of one thread.          *)
LEMMA NextCases ==
  Next => \/ \E p \in Principals : CreateDraft(p)
          \/ \E h \in Threads : Reads(h) \/ Writes(h)
  BY DEF Next, Call, Continue, Execution, Reads, Writes

(* What only reads changes no table.                                         *)
LEMMA ReadsKeepTables ==
  ASSUME NEW h \in Threads, Reads(h)
  PROVE  UNCHANGED tables
  BY DEF Reads, tables, BeginUpdateTravelFacts, BeginReplaceSelection, BeginEdit,
         BeginSubmit, BeginReplaceAttraction, Resend, Redeliver, Answer, BeginExecute,
         SolveReturns, Abort

(* The UPDATE of a failing or claimed intent sets its status and failure and *)
(* leaves the rest of it, and every other intent, alone.                     *)
LEMMA StatusUpdate ==
  ASSUME TypeOK, NEW i \in IntentIds, intents[i] # None,
         NEW status \in Statuses, NEW code \in Failures, Fail(i, status, code)
  PROVE  /\ intents'[i] # None
         /\ intents'[i].status = status /\ intents'[i].failure = code
         /\ intents'[i].trip = intents[i].trip /\ intents'[i].revision = intents[i].revision
         /\ Binding(i)' = Binding(i)
         /\ \A j \in IntentIds : j # i => intents'[j] = intents[j]
<1>1. intents[i] \in IntentRow
  BY DEF TypeOK
<1>2. intents'[i] = [intents[i] EXCEPT !.status = status, !.failure = code]
  BY DEF TypeOK, Fail
<1>3. intents'[i] # None
  <2>1. [intents[i] EXCEPT !.status = status, !.failure = code] \in IntentRow
    BY <1>1 DEF IntentRow
  <2> QED
    BY <1>2, <2>1, NoneAssumption
<1>4. /\ intents'[i].status = status /\ intents'[i].failure = code
      /\ intents'[i].trip = intents[i].trip /\ intents'[i].revision = intents[i].revision
  BY <1>1, <1>2 DEF IntentRow
<1>5. Binding(i)' = Binding(i)
  <2>1. /\ intents'[i].principal = intents[i].principal
        /\ intents'[i].draft = intents[i].draft
        /\ intents'[i].version = intents[i].version
        /\ intents'[i].input = intents[i].input
        /\ intents'[i].target = intents[i].target
        /\ intents'[i].base = intents[i].base
    BY <1>1, <1>2 DEF IntentRow
  <2> QED
    BY <2>1 DEF Binding
<1>6. \A j \in IntentIds : j # i => intents'[j] = intents[j]
  BY DEF TypeOK, Fail
<1> QED
  BY <1>3, <1>4, <1>5, <1>6

(* The commit of a publication: the new revision, the trip that points to    *)
(* it, and the completed intent that names both; nothing else changes.       *)
LEMMA PublishUpdate ==
  ASSUME TypeOK, NEW i \in IntentIds, intents[i] # None,
         NEW t \in TripIds, NEW r \in RevisionIds, NEW number \in Nat \ {0},
         NEW row \in TripRow, Publish(i, t, r, number, row)
  PROVE  /\ intents'[i] # None
         /\ intents'[i].status = "completed" /\ intents'[i].failure = "none"
         /\ intents'[i].trip = t /\ intents'[i].revision = r
         /\ Binding(i)' = Binding(i)
         /\ \A j \in IntentIds : j # i => intents'[j] = intents[j]
         /\ revisions'[r] # None
         /\ revisions'[r].trip = t /\ revisions'[r].number = number
         /\ revisions'[r].intent = i
         /\ \A s \in RevisionIds : s # r => revisions'[s] = revisions[s]
         /\ trips'[t] = row /\ row # None
         /\ \A u \in TripIds : u # t => trips'[u] = trips[u]
         /\ runs'[i] = "completed"
         /\ \A j \in IntentIds : j # i => runs'[j] = runs[j]
<1>1. intents[i] \in IntentRow
  BY DEF TypeOK
<1>2. intents'[i] = [intents[i] EXCEPT !.status = "completed", !.failure = "none",
                                       !.trip = t, !.revision = r]
  BY DEF TypeOK, Publish
<1>3. intents'[i] \in IntentRow
  <2>1. [intents[i] EXCEPT !.status = "completed", !.failure = "none",
                           !.trip = t, !.revision = r] \in IntentRow
    BY <1>1 DEF IntentRow, Statuses, Failures
  <2> QED
    BY <1>2, <2>1
<1>4. intents'[i] # None
  BY <1>3, NoneAssumption
<1>5. /\ intents'[i].status = "completed" /\ intents'[i].failure = "none"
      /\ intents'[i].trip = t /\ intents'[i].revision = r
  BY <1>1, <1>2 DEF IntentRow
<1>6. Binding(i)' = Binding(i)
  <2>1. /\ intents'[i].principal = intents[i].principal
        /\ intents'[i].draft = intents[i].draft
        /\ intents'[i].version = intents[i].version
        /\ intents'[i].input = intents[i].input
        /\ intents'[i].target = intents[i].target
        /\ intents'[i].base = intents[i].base
    BY <1>1, <1>2 DEF IntentRow
  <2> QED
    BY <2>1 DEF Binding
<1>7. revisions'[r] = [trip |-> t, number |-> number, intent |-> i]
  BY DEF TypeOK, Publish
<1>8. revisions'[r] \in RevisionRow
  BY <1>7 DEF RevisionRow
<1>9. revisions'[r] # None /\ row # None
  BY <1>8, NoneAssumption
<1>10. /\ \A j \in IntentIds : j # i => intents'[j] = intents[j] /\ runs'[j] = runs[j]
       /\ \A s \in RevisionIds : s # r => revisions'[s] = revisions[s]
       /\ \A u \in TripIds : u # t => trips'[u] = trips[u]
       /\ trips'[t] = row /\ runs'[i] = "completed"
  BY DEF TypeOK, Publish
<1> QED
  BY <1>4, <1>5, <1>6, <1>7, <1>9, <1>10

(* ------------------------------ Kinds of steps --------------------------- *)

(* To the intents, trips, revisions and runs a step does one of five things. *)
Untouched == UNCHANGED <<intents, trips, revisions, runs>>

Inserts(i, p, d, row, t, b) ==
  intents' = [intents EXCEPT ![i] = NewIntent(p, d, row, t, b)]

Submits(i) ==
  /\ intents[i] = None
  /\ \E p \in Principals, d \in DraftIds, row \in DraftRow,
        t \in TripIds \cup {None}, b \in RevisionIds \cup {None} :
       /\ drafts'[d] # None /\ drafts'[d].owner = p
       /\ \/ t = None /\ b = None
          \/ IsBase(t, b) /\ trips[t].principal = p
       /\ Inserts(i, p, d, row, t, b)
  /\ UNCHANGED <<trips, revisions, runs>>

Claims(i) ==
  /\ intents[i] # None /\ intents[i].status \in Claimable
  /\ Fail(i, "running", "none")
  /\ UNCHANGED <<trips, revisions, runs>>

Ends(i) ==
  /\ intents[i] # None /\ Running(i) /\ runs[i] = "none"
  /\ UNCHANGED <<trips, revisions>>
  /\ \/ /\ \E status \in {"failed_retryable", "failed_terminal"} :
             Fail(i, status, "solver_error")
        /\ UNCHANGED runs
     \/ /\ Fail(i, "failed_terminal", "quality_gate_failed")
        /\ runs' = [runs EXCEPT ![i] = "failed"]
     \/ /\ intents[i].target # None
        /\ trips[intents[i].target].current # intents[i].base
        /\ Fail(i, "failed_terminal", "trip_revision_conflict")
        /\ runs' = [runs EXCEPT ![i] = "completed"]

Opens(i, t, number, row) ==
  /\ intents[i].target = None /\ trips[t] = None
  /\ number = 1 /\ row.principal = intents[i].principal

Extends(i, t, number, row) ==
  /\ intents[i].target = t /\ IsBase(t, intents[i].base)
  /\ trips[t].current = intents[i].base
  /\ number = NextNumber(intents[i].base) /\ row.principal = trips[t].principal

Publishes(i) ==
  /\ intents[i] # None /\ Running(i) /\ runs[i] = "none"
  /\ \E t \in TripIds, r \in RevisionIds, number \in Nat \ {0}, row \in TripRow :
       /\ revisions[r] = None /\ row.current = r
       /\ Opens(i, t, number, row) \/ Extends(i, t, number, row)
       /\ Publish(i, t, r, number, row)

(* What an InsertIntent or an InsertReplacement does to the tables.          *)
LEMMA InsertKinds ==
  ASSUME IInv, NEW h \in Threads, InsertIntent(h) \/ InsertReplacement(h)
  PROVE  Untouched \/ \E i \in IntentIds : Submits(i)
<1> DEFINE i == req[h].intent
<1>1. req[h] \in Request /\ InFlight(h)
  BY DEF IInv, TypeOK, RequestsInFlight
<1>2. CASE InsertIntent(h)
  <2>1. req[h].step = "submit"
    BY <1>2 DEF InsertIntent
  <2>2. /\ i \in IntentIds /\ req[h].principal \in Principals
        /\ req[h].draft \in DraftIds /\ req[h].row \in DraftRow
    BY <1>1, <2>1 DEF Request
  <2>3. drafts'[req[h].draft] # None /\ drafts'[req[h].draft].owner = req[h].principal
    BY <1>1, <1>2, <2>1 DEF InFlight, InsertIntent
  <2>4. CASE intents[i] = None
    <3> DEFINE new == NewIntent(req[h].principal, req[h].draft, req[h].row, None, None)
    <3>1. intents' = [intents EXCEPT ![i] = new] /\ UNCHANGED <<trips, revisions, runs>>
      BY <1>2, <2>4 DEF InsertIntent
    <3> QED
      BY <2>2, <2>3, <2>4, <3>1 DEF Submits, Inserts
  <2>5. CASE intents[i] # None
    BY <1>2, <2>5 DEF InsertIntent, Untouched
  <2> QED
    BY <2>4, <2>5
<1>3. CASE InsertReplacement(h)
  <2>1. req[h].step = "replace"
    BY <1>3 DEF InsertReplacement
  <2>2. /\ i \in IntentIds /\ req[h].principal \in Principals /\ req[h].row \in DraftRow
        /\ req[h].target \in TripIds /\ req[h].base \in RevisionIds
    BY <1>1, <2>1 DEF Request
  <2>3. /\ req[h].row.owner = req[h].principal
        /\ IsBase(req[h].target, req[h].base)
        /\ trips[req[h].target].principal = req[h].principal
    BY <1>1, <2>1 DEF InFlight
  <2>4. CASE intents[i] = None
    <3>1. PICK d \in DraftIds :
            /\ drafts[d] = None
            /\ drafts' = [drafts EXCEPT ![d] = req[h].row]
            /\ intents' = [intents EXCEPT
                 ![i] = NewIntent(req[h].principal, d, req[h].row,
                                  req[h].target, req[h].base)]
      BY <1>3, <2>4 DEF InsertReplacement
    <3>2. drafts'[d] = req[h].row
      BY <3>1 DEF IInv, TypeOK
    <3>3. drafts'[d] # None /\ drafts'[d].owner = req[h].principal
      BY <2>2, <2>3, <3>2, NoneAssumption
    <3>4. UNCHANGED <<trips, revisions, runs>>
      BY <1>3 DEF InsertReplacement
    <3> QED
      BY <2>2, <2>3, <2>4, <3>1, <3>3, <3>4 DEF Submits, Inserts
  <2>5. CASE intents[i] # None
    BY <1>3, <2>5 DEF InsertReplacement, Untouched
  <2> QED
    BY <2>4, <2>5
<1> QED
  BY <1>2, <1>3

(* What the steps that claim an intent or end it with a failure do.          *)
LEMMA EndKinds ==
  ASSUME IInv, NEW h \in Threads, Claim(h) \/ SolveRaises(h) \/ StoreGateFailure(h)
  PROVE  Untouched \/ \E i \in IntentIds : Claims(i) \/ Ends(i)
<1> DEFINE i == req[h].intent
<1>1. req[h].step \in Executing
  BY DEF Claim, SolveRaises, StoreGateFailure, Executing
<1>2. i \in IntentIds /\ intents[i] # None
  BY <1>1 DEF IInv, TypeOK, Request, RequestsInFlight, InFlight, Executing, Stored
<1>3. CASE Claim(h)
  <2>1. req[h].expected \in Claimable
    BY <1>3 DEF Claim, IInv, RequestsInFlight, InFlight
  <2>2. CASE InStatus(i, req[h].expected)
    BY <1>2, <1>3, <2>1, <2>2 DEF Claim, InStatus, Claims, Fail
  <2>3. CASE ~InStatus(i, req[h].expected)
    BY <1>3, <2>3 DEF Claim, Untouched
  <2> QED
    BY <2>2, <2>3
<1>4. CASE SolveRaises(h)
  <2>1. CASE Running(i)
    <3>1. runs[i] = "none"
      BY <1>2, <2>1 DEF IInv, OutcomeIsWhole, Stored, Running, InStatus
    <3> QED
      BY <1>2, <1>4, <2>1, <3>1 DEF SolveRaises, Ends
  <2>2. CASE ~Running(i)
    BY <1>4, <2>2 DEF SolveRaises, Untouched
  <2> QED
    BY <2>1, <2>2
<1>5. CASE StoreGateFailure(h)
  <2>1. CASE CanStore(i)
    BY <1>2, <1>5, <2>1 DEF StoreGateFailure, CanStore, Ends
  <2>2. CASE ~CanStore(i)
    BY <1>5, <2>2 DEF StoreGateFailure, Untouched
  <2> QED
    BY <2>1, <2>2
<1> QED
  BY <1>3, <1>4, <1>5

(* What the storing transaction does.                                        *)
LEMMA PublishKinds ==
  ASSUME IInv, NEW h \in Threads, PublishNewTrip(h) \/ ReadTarget(h) \/ PublishRevision(h)
  PROVE  Untouched \/ \E i \in IntentIds : Ends(i) \/ Publishes(i)
<1> DEFINE i == req[h].intent
           t == intents[i].target
           b == intents[i].base
<1>1. req[h].step \in Executing
  BY DEF PublishNewTrip, ReadTarget, PublishRevision, Executing
<1>2. i \in IntentIds /\ intents[i] # None /\ intents[i] \in IntentRow
  BY <1>1 DEF IInv, TypeOK, Request, RequestsInFlight, InFlight, Executing, Stored
<1>3. ASSUME t # None, trips[t].current # b, CanStore(i), RevisionConflict(i)
      PROVE  Ends(i)
  BY <1>2, <1>3 DEF CanStore, RevisionConflict, Ends
<1>4. CASE PublishNewTrip(h)
  <2>1. CASE CanStore(i) /\ UniqueRevision(i, None, 1)
    <3>1. PICK u \in TripIds, r \in RevisionIds :
            /\ trips[u] = None /\ revisions[r] = None
            /\ Publish(i, u, r, 1, [principal |-> intents[i].principal,
                                    draft |-> intents[i].draft, current |-> r])
      BY <1>4, <2>1 DEF PublishNewTrip
    <3> DEFINE row == [principal |-> intents[i].principal, draft |-> intents[i].draft,
                       current |-> r]
    <3>2. row \in TripRow /\ row.current = r /\ row.principal = intents[i].principal
      BY <1>2 DEF IntentRow, TripRow
    <3>3. t = None
      BY <1>4 DEF PublishNewTrip
    <3>4. Publish(i, u, r, 1, row)
      BY <3>1
    <3> HIDE DEF row
    <3>5. Opens(i, u, 1, row)
      BY <3>1, <3>2, <3>3 DEF Opens
    <3> QED
      BY <1>2, <2>1, <3>1, <3>2, <3>4, <3>5 DEF CanStore, Publishes
  <2>2. CASE ~(CanStore(i) /\ UniqueRevision(i, None, 1))
    BY <1>4, <2>2 DEF PublishNewTrip, Untouched
  <2> QED
    BY <2>1, <2>2
<1>5. CASE ReadTarget(h)
  <2>1. t # None
    BY <1>5 DEF ReadTarget
  <2>2. CASE CanStore(i) /\ trips[t].current # b
    BY <1>2, <1>3, <1>5, <2>1, <2>2 DEF ReadTarget
  <2>3. CASE ~(CanStore(i) /\ trips[t].current # b)
    BY <1>5, <2>3 DEF ReadTarget, Untouched
  <2> QED
    BY <2>2, <2>3
<1>6. CASE PublishRevision(h)
  <2>1. t # None
    BY <1>6 DEF PublishRevision, IInv, RequestsInFlight, InFlight
  <2>2. IsBase(t, b)
    BY <1>2, <2>1 DEF IInv, TargetsHaveBases, Stored
  <2>3. t \in TripIds /\ trips[t] \in TripRow /\ b \in RevisionIds /\ revisions[b] \in RevisionRow
    BY <2>2 DEF IsBase, IInv, TypeOK
  <2>4. NextNumber(b) \in Nat \ {0}
    BY <2>3 DEF NextNumber, RevisionRow
  <2>5. CASE CanStore(i) /\ trips[t].current # b
    BY <1>2, <1>3, <1>6, <2>1, <2>5 DEF PublishRevision
  <2>6. CASE CanStore(i) /\ trips[t].current = b /\ UniqueRevision(i, t, NextNumber(b))
    <3>1. PICK r \in RevisionIds :
            /\ revisions[r] = None
            /\ Publish(i, t, r, NextNumber(b), [trips[t] EXCEPT !.current = r])
      BY <1>6, <2>6 DEF PublishRevision
    <3> DEFINE row == [trips[t] EXCEPT !.current = r]
    <3>2. row \in TripRow /\ row.current = r /\ row.principal = trips[t].principal
      BY <2>3 DEF TripRow
    <3>3. Publish(i, t, r, NextNumber(b), row)
      BY <3>1
    <3> HIDE DEF row
    <3>4. Extends(i, t, NextNumber(b), row)
      BY <2>2, <2>6, <3>2 DEF Extends
    <3> QED
      BY <1>2, <2>3, <2>4, <2>6, <3>1, <3>2, <3>3, <3>4 DEF CanStore, Publishes
  <2>7. CASE \/ ~CanStore(i)
             \/ trips[t].current = b /\ ~UniqueRevision(i, t, NextNumber(b))
    BY <1>6, <2>7 DEF PublishRevision, Untouched
  <2> QED
    BY <2>5, <2>6, <2>7
<1> QED
  BY <1>4, <1>5, <1>6

(* Every step is of one of the five kinds.                                   *)
LEMMA StepKinds ==
  ASSUME IInv, [Next]_vars
  PROVE  \/ Untouched
         \/ \E i \in IntentIds : Submits(i) \/ Claims(i) \/ Ends(i) \/ Publishes(i)
<1>1. CASE UNCHANGED vars
  BY <1>1 DEF vars, Untouched
<1>2. CASE \E p \in Principals : CreateDraft(p)
  BY <1>2 DEF CreateDraft, Untouched
<1>3. ASSUME NEW h \in Threads, Reads(h)
      PROVE  Untouched
  BY <1>3, ReadsKeepTables DEF tables, Untouched
<1>4. ASSUME NEW h \in Threads, SaveEdit(h)
      PROVE  Untouched
  BY <1>4 DEF SaveEdit, Untouched
<1>5. ASSUME NEW h \in Threads, Writes(h), ~SaveEdit(h)
      PROVE  \/ Untouched
             \/ \E i \in IntentIds : Submits(i) \/ Claims(i) \/ Ends(i) \/ Publishes(i)
  BY <1>5, InsertKinds, EndKinds, PublishKinds DEF Writes
<1> QED
  BY <1>1, <1>2, <1>3, <1>4, <1>5, NextCases

(* ------------------------------ Tables only grow ------------------------- *)

(* Drafts keep their owner, and change only to a newer version.              *)
DraftsGrow ==
  \A d \in DraftIds : drafts[d] # None =>
    /\ drafts'[d] # None /\ drafts'[d].owner = drafts[d].owner
    /\ drafts'[d] = drafts[d] \/ drafts'[d].version = drafts[d].version + 1

(* No edit, clone or new draft takes a row away or an owner from it.         *)
LEMMA DraftGrowth ==
  ASSUME IInv, [Next]_vars
  PROVE  DraftsGrow
<1> USE DEF DraftsGrow
<1>1. ASSUME UNCHANGED drafts
      PROVE  DraftsGrow
  BY <1>1
<1>2. ASSUME NEW p \in Principals, CreateDraft(p)
      PROVE  DraftsGrow
  BY <1>2 DEF CreateDraft, IInv, TypeOK
<1>3. ASSUME NEW h \in Threads, SaveEdit(h)
      PROVE  DraftsGrow
  <2> DEFINE d == req[h].draft
  <2>1. req[h].step = "edit"
    BY <1>3 DEF SaveEdit
  <2>2. d \in DraftIds /\ req[h].row \in DraftRow
    BY <2>1 DEF IInv, TypeOK, Request
  <2>3. /\ drafts[d] # None /\ req[h].row.owner = drafts[d].owner
        /\ req[h].row.version = req[h].expected + 1
    BY <2>1 DEF IInv, RequestsInFlight, InFlight
  <2>4. req[h].row # None
    BY <2>2, NoneAssumption
  <2>5. CASE AtVersion(d, req[h].expected)
    <3>1. drafts' = [drafts EXCEPT ![d] = req[h].row]
      BY <1>3, <2>5 DEF SaveEdit
    <3>2. drafts[d].version = req[h].expected
      BY <2>5 DEF AtVersion
    <3> QED
      BY <2>2, <2>3, <2>4, <3>1, <3>2 DEF IInv, TypeOK
  <2>6. CASE ~AtVersion(d, req[h].expected)
    BY <1>3, <2>6 DEF SaveEdit
  <2> QED
    BY <2>5, <2>6
<1>4. ASSUME NEW h \in Threads, InsertReplacement(h)
      PROVE  DraftsGrow
  <2>1. CASE UNCHANGED drafts
    BY <2>1
  <2>2. CASE \E d \in DraftIds : drafts[d] = None /\ drafts' = [drafts EXCEPT ![d] = req[h].row]
    BY <2>2 DEF IInv, TypeOK
  <2> QED
    BY <1>4, <2>1, <2>2 DEF InsertReplacement
<1>5. ASSUME NEW h \in Threads, Reads(h)
      PROVE  DraftsGrow
  BY <1>5, ReadsKeepTables DEF tables
<1>6. ASSUME NEW h \in Threads, Writes(h), ~SaveEdit(h), ~InsertReplacement(h)
      PROVE  UNCHANGED drafts
  BY <1>6 DEF Writes, InsertIntent, Claim, SolveRaises, StoreGateFailure,
              PublishNewTrip, ReadTarget, PublishRevision
<1>7. CASE UNCHANGED vars
  BY <1>7 DEF vars
<1> QED
  BY <1>1, <1>2, <1>3, <1>4, <1>5, <1>6, <1>7, NextCases

(* What a submission, a claim, a failure and a publication leave alone.      *)
LEMMA SubmitUpdate ==
  ASSUME TypeOK, NEW i \in IntentIds, NEW p \in Principals, NEW d \in DraftIds,
         NEW row \in DraftRow, NEW t \in TripIds \cup {None},
         NEW b \in RevisionIds \cup {None},
         Inserts(i, p, d, row, t, b)
  PROVE  /\ intents'[i] # None
         /\ intents'[i].principal = p /\ intents'[i].draft = d
         /\ intents'[i].version = row.version /\ intents'[i].input = row.content
         /\ intents'[i].target = t /\ intents'[i].base = b
         /\ intents'[i].status = "queued" /\ intents'[i].failure = "none"
         /\ intents'[i].trip = None /\ intents'[i].revision = None
         /\ \A j \in IntentIds : j # i => intents'[j] = intents[j]
<1>1. NewIntent(p, d, row, t, b) \in IntentRow
  BY NewIntentIsRow
<1>2. intents'[i] = NewIntent(p, d, row, t, b) /\ intents'[i] # None
  BY <1>1, NoneAssumption DEF TypeOK, Inserts
<1>3. \A j \in IntentIds : j # i => intents'[j] = intents[j]
  BY DEF TypeOK, Inserts
<1> QED
  BY <1>2, <1>3 DEF NewIntent

(* A submission touches no other intent.                                     *)
LEMMA SubmitKeeps ==
  ASSUME TypeOK, NEW i \in IntentIds, Submits(i)
  PROVE  \A j \in IntentIds : j # i => intents'[j] = intents[j]
  BY SubmitUpdate DEF Submits

(* Where a step claims an intent, ends it or publishes it, that intent alone *)
(* changes, keeps what it is bound to, and had not come to an end before.    *)
LEMMA ExecutionUpdate ==
  ASSUME TypeOK, NEW i \in IntentIds, Claims(i) \/ Ends(i) \/ Publishes(i)
  PROVE  /\ intents[i] # None /\ intents'[i] # None
         /\ Binding(i)' = Binding(i)
         /\ intents[i].status \notin Final
         /\ \A j \in IntentIds : j # i => intents'[j] = intents[j] /\ runs'[j] = runs[j]
         /\ runs[i] = "none" \/ UNCHANGED runs
         /\ \A r \in RevisionIds : revisions[r] # None => revisions'[r] = revisions[r]
<1> USE DEF Statuses, Failures
<1>1. CASE Claims(i)
  BY <1>1, StatusUpdate DEF Claims, Claimable, Final
<1>2. CASE Ends(i)
  <2>1. PICK status \in Statuses, code \in Failures : Fail(i, status, code)
    BY <1>2 DEF Ends
  <2>2. \A j \in IntentIds : j # i => runs'[j] = runs[j]
    BY <1>2 DEF Ends, TypeOK
  <2>3. intents[i].status \notin Final /\ intents[i] # None
    BY <1>2 DEF Ends, Running, InStatus, Final
  <2> QED
    BY <1>2, <2>1, <2>2, <2>3, StatusUpdate DEF Ends
<1>3. CASE Publishes(i)
  <2>1. PICK t \in TripIds, r \in RevisionIds, number \in Nat \ {0}, row \in TripRow :
          revisions[r] = None /\ Publish(i, t, r, number, row)
    BY <1>3 DEF Publishes
  <2>2. intents[i] # None /\ intents[i].status \notin Final /\ runs[i] = "none"
    BY <1>3 DEF Publishes, Running, InStatus, Final
  <2> QED
    BY <2>1, <2>2, PublishUpdate
<1> QED
  BY <1>1, <1>2, <1>3

(* A trip never goes away or changes its owner.                              *)
LEMMA TripGrowth ==
  ASSUME TypeOK, NEW i \in IntentIds, Claims(i) \/ Ends(i) \/ Publishes(i),
         NEW t \in TripIds, trips[t] # None
  PROVE  trips'[t] # None /\ trips'[t].principal = trips[t].principal
<1>1. CASE Claims(i) \/ Ends(i)
  BY <1>1 DEF Claims, Ends
<1>2. CASE Publishes(i)
  <2>1. PICK u \in TripIds, r \in RevisionIds, number \in Nat \ {0}, row \in TripRow :
          /\ Opens(i, u, number, row) \/ Extends(i, u, number, row)
          /\ Publish(i, u, r, number, row)
    BY <1>2 DEF Publishes
  <2>2. trips'[u] = row /\ row # None /\ \A v \in TripIds : v # u => trips'[v] = trips[v]
    BY <1>2, <2>1, PublishUpdate DEF Publishes
  <2>3. u = t => row.principal = trips[t].principal
    BY <2>1 DEF Opens, Extends
  <2> QED
    BY <2>2, <2>3
<1> QED
  BY <1>1, <1>2

(* No step removes or rewrites what the tables hold.                         *)
LEMMA Growth ==
  ASSUME IInv, [Next]_vars
  PROVE  TablesGrow /\ HistoryStep
<1> USE DEF TablesGrow, HistoryStep, Stored
<1>1. \A d \in DraftIds : drafts[d] # None =>
        drafts'[d] # None /\ drafts'[d].owner = drafts[d].owner
  BY DraftGrowth DEF DraftsGrow
<1>2. TypeOK
  BY DEF IInv
<1>3. CASE Untouched
  BY <1>1, <1>3 DEF Untouched, Binding
<1>4. ASSUME NEW i \in IntentIds, Submits(i)
      PROVE  TablesGrow /\ HistoryStep
  <2>1. \A j \in IntentIds : intents[j] # None => intents'[j] = intents[j]
    BY <1>2, <1>4, SubmitUpdate DEF Submits
  <2>2. \A j \in IntentIds : intents[j] # None => Binding(j)' = Binding(j)
    BY <2>1 DEF Binding
  <2> QED
    BY <1>1, <1>4, <2>1, <2>2 DEF Submits
<1>5. ASSUME NEW i \in IntentIds, Claims(i) \/ Ends(i) \/ Publishes(i)
      PROVE  TablesGrow /\ HistoryStep
  <2>1. \A j \in IntentIds : intents[j] # None =>
          /\ intents'[j] # None /\ Binding(j)' = Binding(j)
          /\ intents[j].status \in Final => intents'[j] = intents[j]
    <3>1. \A j \in IntentIds : intents'[j] = intents[j] => Binding(j)' = Binding(j)
      BY DEF Binding
    <3> QED
      BY <1>2, <1>5, <3>1, ExecutionUpdate
  <2>2. \A j \in IntentIds : runs[j] # "none" => runs'[j] = runs[j]
    BY <1>2, <1>5, ExecutionUpdate
  <2>3. \A r \in RevisionIds : revisions[r] # None => revisions'[r] = revisions[r]
    BY <1>2, <1>5, ExecutionUpdate
  <2>4. \A t \in TripIds : trips[t] # None =>
          trips'[t] # None /\ trips'[t].principal = trips[t].principal
    BY <1>2, <1>5, TripGrowth
  <2> QED
    BY <1>1, <2>1, <2>2, <2>3, <2>4
<1> QED
  BY <1>3, <1>4, <1>5, StepKinds

(* ------------------------------ The invariant, part by part -------------- *)

(* Types are kept by every step.                                             *)
LEMMA TypeNext ==
  ASSUME IInv, [Next]_vars
  PROVE  TypeOK'
<1>1. TypeOK /\ RequestsInFlight /\ TargetsHaveBases
  BY DEF IInv
<1>2. CASE UNCHANGED vars
  BY <1>1, <1>2 DEF vars, TypeOK
<1>3. CASE \E p \in Principals : CreateDraft(p)
  <2>1. PICK p \in Principals : CreateDraft(p)
    BY <1>3
  <2>2. NewDraft(p) \in DraftRow
    BY DEF NewDraft, DraftRow, Content, Facts
  <2> QED
    BY <1>1, <2>1, <2>2 DEF CreateDraft, TypeOK
<1>4. ASSUME NEW h \in Threads, Reads(h) \/ Writes(h)
      PROVE  TypeOK'
  BY <1>1, <1>4, TypeEdit, TypeSubmit, TypeExecution DEF Reads, Writes, Execution
<1> QED
  BY <1>2, <1>3, <1>4, NextCases

(* What a thread holds stays fitting while other threads write.              *)
LEMMA InFlightKept ==
  ASSUME IInv, TablesGrow, NEW h \in Threads, req'[h] = req[h]
  PROVE  InFlight(h)'
<1>1. req[h] \in Request /\ InFlight(h)
  BY DEF IInv, TypeOK, RequestsInFlight
<1>2. ASSUME req[h].step = "edit"
      PROVE  /\ drafts'[req[h].draft] # None
             /\ req[h].row.owner = drafts'[req[h].draft].owner
             /\ req[h].row.version = req[h].expected + 1
  BY <1>1, <1>2 DEF Request, InFlight, TablesGrow
<1>3. ASSUME req[h].step = "submit"
      PROVE  drafts'[req[h].draft] # None /\ drafts'[req[h].draft].owner = req[h].principal
  BY <1>1, <1>3 DEF Request, InFlight, TablesGrow
<1>4. ASSUME req[h].step = "replace"
      PROVE  /\ req[h].row.owner = req[h].principal /\ req[h].row.version = 1
             /\ IsBase(req[h].target, req[h].base)'
             /\ trips'[req[h].target].principal = req[h].principal
  BY <1>1, <1>4 DEF Request, InFlight, IsBase, TablesGrow
<1>5. ASSUME req[h].step \in Executing
      PROVE  /\ Stored(req[h].intent)'
             /\ intents'[req[h].intent].target = intents[req[h].intent].target
  <2>1. req[h].intent \in IntentIds /\ Stored(req[h].intent)
    BY <1>1, <1>5 DEF Request, InFlight, Executing
  <2>2. intents'[req[h].intent] # None /\ Binding(req[h].intent)' = Binding(req[h].intent)
    BY <2>1 DEF TablesGrow
  <2> QED
    BY <2>2 DEF Stored, Binding
<1>6. req[h].step = "publish" => req[h].step \in Executing
  BY DEF Executing
<1> QED
  BY <1>1, <1>2, <1>3, <1>4, <1>5, <1>6 DEF InFlight

(* What a thread takes up when it reads fits what it has read.               *)
LEMMA InFlightRead ==
  ASSUME IInv, NEW h \in Threads, Reads(h)
  PROVE  InFlight(h)'
<1> USE DEF InFlight, Executing, Idle
<1>1. req \in [Threads -> Request] /\ req[h] \in Request /\ InFlight(h)
  BY DEF IInv, TypeOK, RequestsInFlight
<1>2. UNCHANGED <<drafts, intents, trips, revisions>>
  BY ReadsKeepTables DEF tables
<1>3. ASSUME NEW p \in Principals, NEW d \in DraftIds, NEW row,
             row.owner = drafts[d].owner, row.version = drafts[d].version + 1,
             BeginEdit(h, p, d, row)
      PROVE  InFlight(h)'
  <2>1. req'[h] = [step |-> "edit", draft |-> d, row |-> row, expected |-> drafts[d].version]
    BY <1>1, <1>3 DEF BeginEdit
  <2>2. drafts[d] # None
    BY <1>3 DEF BeginEdit, OwnedDraft
  <2> QED
    BY <1>2, <1>3, <2>1, <2>2
<1>4. ASSUME NEW p \in Principals, NEW d \in DraftIds,
             BeginUpdateTravelFacts(h, p, d) \/ BeginReplaceSelection(h, p, d)
      PROVE  InFlight(h)'
  <2>1. drafts[d] \in DraftRow
    BY <1>4 DEF BeginUpdateTravelFacts, BeginReplaceSelection, BeginEdit, OwnedDraft, IInv, TypeOK
  <2> QED
    BY <1>3, <1>4, <2>1, UpdatesAreRows DEF BeginUpdateTravelFacts, BeginReplaceSelection
<1>5. ASSUME NEW p \in Principals, NEW d \in DraftIds, NEW i \in IntentIds,
             BeginSubmit(h, p, i, d)
      PROVE  InFlight(h)'
  <2>1. req'[h] = [step |-> "submit", principal |-> p, intent |-> i, draft |-> d,
                   row |-> drafts[d]]
    BY <1>1, <1>5 DEF BeginSubmit
  <2>2. drafts[d] # None /\ drafts[d].owner = p
    BY <1>5 DEF BeginSubmit, OwnedDraft
  <2> QED
    BY <1>2, <2>1, <2>2
<1>6. ASSUME NEW p \in Principals, NEW i \in IntentIds, NEW t \in TripIds,
             NEW b \in RevisionIds, BeginReplaceAttraction(h, p, i, t, b)
      PROVE  InFlight(h)'
  <2> DEFINE source == drafts[SourceDraft(b)]
  <2>1. PICK w \in Swap :
          req' = [req EXCEPT ![h] =
                    [step |-> "replace", principal |-> p, intent |-> i, target |-> t,
                     base |-> b, row |-> CloneWithReplacement(source, w), swap |-> w]]
    BY <1>6 DEF BeginReplaceAttraction
  <2> DEFINE row == CloneWithReplacement(source, w)
  <2>2. source \in DraftRow /\ source.owner = p
    <3>1. intents[revisions[b].intent] \in IntentRow
      BY <1>6 DEF BeginReplaceAttraction, IInv, TypeOK, RevisionRow
    <3>2. SourceDraft(b) \in DraftIds
      BY <3>1 DEF SourceDraft, IntentRow
    <3>3. source # None /\ source.owner = p
      BY <1>6 DEF BeginReplaceAttraction, OwnedDraft
    <3> QED
      BY <3>2, <3>3 DEF IInv, TypeOK
  <2>3. row.owner = p /\ row.version = 1
    BY <2>2, UpdatesAreRows
  <2>4. req'[h] = [step |-> "replace", principal |-> p, intent |-> i, target |-> t,
                   base |-> b, row |-> row, swap |-> w]
    BY <1>1, <2>1
  <2> HIDE DEF row
  <2>5. IsBase(t, b)' /\ trips'[t].principal = p
    BY <1>2, <1>6 DEF BeginReplaceAttraction, IsBase
  <2> QED
    BY <2>3, <2>4, <2>5
<1>7. ASSUME NEW i \in IntentIds, Resend(h, i) \/ Redeliver(h, i)
      PROVE  InFlight(h)'
  <2>1. \/ req'[h] = [step |-> "answer", intent |-> i]
        \/ req'[h] = [step |-> "execute", intent |-> i] /\ intents[i] # None
    BY <1>1, <1>7 DEF Resend, Redeliver
  <2> QED
    BY <1>2, <2>1 DEF Stored
<1>8. CASE Answer(h) \/ Abort(h)
  BY <1>1, <1>8 DEF Answer, Abort
<1>9. CASE BeginExecute(h)
  <2> DEFINE i == req[h].intent
  <2>1. Stored(i)
    BY <1>1, <1>9 DEF BeginExecute
  <2>2. \/ req'[h] = Idle
        \/ /\ intents[i].status \in Claimable
           /\ req'[h] = [step |-> "claim", intent |-> i, expected |-> intents[i].status]
    BY <1>1, <1>9 DEF BeginExecute
  <2> QED
    BY <1>2, <2>1, <2>2 DEF Stored
<1>10. CASE SolveReturns(h)
  <2> DEFINE i == req[h].intent
  <2>1. Stored(i)
    BY <1>1, <1>10 DEF SolveReturns
  <2>2. \E outcome \in {"store", "gate_failed"} : req'[h] = [step |-> outcome, intent |-> i]
    BY <1>1, <1>10 DEF SolveReturns
  <2> QED
    BY <1>2, <2>1, <2>2 DEF Stored
<1> QED
  BY <1>4, <1>5, <1>6, <1>7, <1>8, <1>9, <1>10 DEF Reads

(* After a write a thread is idle, or goes on with an intent it has stored.  *)
LEMMA InFlightWrite ==
  ASSUME IInv, TablesGrow, NEW h \in Threads, Writes(h)
  PROVE  InFlight(h)'
<1> USE DEF InFlight, Executing, Idle
<1> DEFINE i == req[h].intent
<1>1. req \in [Threads -> Request] /\ req[h] \in Request /\ InFlight(h)
  BY DEF IInv, TypeOK, RequestsInFlight
<1>2. req'[h] = Idle => InFlight(h)'
  OBVIOUS
<1>3. CASE InsertIntent(h)
  <2>1. CASE intents[i] = None
    <3>1. req'[h] = [step |-> "execute", intent |-> i]
      BY <1>1, <1>3, <2>1 DEF InsertIntent
    <3>2. /\ i \in IntentIds /\ req[h].principal \in Principals
          /\ req[h].draft \in DraftIds /\ req[h].row \in DraftRow
      BY <1>1, <1>3 DEF InsertIntent, Request
    <3>3. intents'[i] # None
      BY <1>3, <2>1, <3>2, NewIntentIsRow, NoneAssumption DEF InsertIntent, IInv, TypeOK
    <3> QED
      BY <3>1, <3>3 DEF Stored
  <2>2. CASE intents[i] # None
    BY <1>1, <1>2, <1>3, <2>2 DEF InsertIntent
  <2> QED
    BY <2>1, <2>2
<1>4. CASE InsertReplacement(h)
  <2>1. CASE intents[i] = None
    <3>1. req'[h] = [step |-> "execute", intent |-> i]
      BY <1>1, <1>4, <2>1 DEF InsertReplacement
    <3>2. /\ i \in IntentIds /\ req[h].principal \in Principals /\ req[h].row \in DraftRow
          /\ req[h].target \in TripIds /\ req[h].base \in RevisionIds
      BY <1>1, <1>4 DEF InsertReplacement, Request
    <3>3. intents'[i] # None
      BY <1>4, <2>1, <3>2, NewIntentIsRow, NoneAssumption DEF InsertReplacement, IInv, TypeOK
    <3> QED
      BY <3>1, <3>3 DEF Stored
  <2>2. CASE intents[i] # None
    BY <1>1, <1>2, <1>4, <2>2 DEF InsertReplacement
  <2> QED
    BY <2>1, <2>2
<1>5. CASE Claim(h)
  <2>1. Stored(i) /\ i \in IntentIds
    BY <1>1, <1>5 DEF Claim, Request
  <2>2. intents'[i] # None
    BY <2>1 DEF TablesGrow, Stored
  <2>3. req'[h] = Idle \/ req'[h] = [step |-> "solve", intent |-> i]
    BY <1>1, <1>5 DEF Claim
  <2> QED
    BY <2>2, <2>3 DEF Stored
<1>6. CASE ReadTarget(h)
  <2>1. Stored(i) /\ i \in IntentIds /\ intents[i].target # None
    BY <1>1, <1>6 DEF ReadTarget, Request
  <2>2. intents'[i] # None /\ intents'[i].target = intents[i].target
    <3>1. \A k \in IntentIds : Stored(k) =>
            intents'[k] # None /\ intents'[k].target = intents[k].target
      BY DEF TablesGrow, Binding
    <3> QED
      BY <2>1, <3>1
  <2>3. req'[h] = Idle \/ req'[h] = [step |-> "publish", intent |-> i]
    BY <1>1, <1>6 DEF ReadTarget
  <2> QED
    BY <2>1, <2>2, <2>3 DEF Stored
<1>7. CASE \/ SaveEdit(h) \/ SolveRaises(h) \/ StoreGateFailure(h)
           \/ PublishNewTrip(h) \/ PublishRevision(h)
  <2>1. req'[h] = Idle
    BY <1>1, <1>7 DEF SaveEdit, SolveRaises, StoreGateFailure, PublishNewTrip, PublishRevision
  <2> QED
    BY <1>2, <2>1
<1> QED
  BY <1>3, <1>4, <1>5, <1>6, <1>7 DEF Writes

(* A step of one thread is no step of another.                               *)
LEMMA OthersWait ==
  ASSUME TypeOK, NEW h \in Threads, Reads(h) \/ Writes(h), NEW g \in Threads, g # h
  PROVE  req'[g] = req[g]
<1> USE DEF TypeOK
<1>1. CASE Reads(h)
  <2>1. CASE \E p \in Principals, d \in DraftIds :
               \/ BeginUpdateTravelFacts(h, p, d) \/ BeginReplaceSelection(h, p, d)
               \/ \E i \in IntentIds : BeginSubmit(h, p, i, d)
    BY <2>1 DEF BeginUpdateTravelFacts, BeginReplaceSelection, BeginEdit, BeginSubmit
  <2>2. CASE \E p \in Principals, i \in IntentIds, t \in TripIds, b \in RevisionIds :
               BeginReplaceAttraction(h, p, i, t, b)
    BY <2>2 DEF BeginReplaceAttraction
  <2>3. CASE \E i \in IntentIds : Resend(h, i) \/ Redeliver(h, i)
    BY <2>3 DEF Resend, Redeliver
  <2>4. CASE Answer(h) \/ BeginExecute(h) \/ SolveReturns(h) \/ Abort(h)
    BY <2>4 DEF Answer, BeginExecute, SolveReturns, Abort
  <2> QED
    BY <1>1, <2>1, <2>2, <2>3, <2>4 DEF Reads
<1>2. CASE Writes(h)
  BY <1>2 DEF Writes, SaveEdit, InsertIntent, InsertReplacement, Claim, SolveRaises,
              StoreGateFailure, PublishNewTrip, ReadTarget, PublishRevision
<1> QED
  BY <1>1, <1>2

(* What threads hold fits the tables after every step.                       *)
LEMMA RequestsNext ==
  ASSUME IInv, [Next]_vars
  PROVE  RequestsInFlight'
<1>1. TablesGrow
  BY Growth
<1>2. CASE UNCHANGED req
  BY <1>1, <1>2, InFlightKept DEF RequestsInFlight
<1>3. ASSUME NEW h \in Threads, Reads(h) \/ Writes(h)
      PROVE  RequestsInFlight'
  <2>1. InFlight(h)'
    BY <1>1, <1>3, InFlightRead, InFlightWrite
  <2>2. \A g \in Threads : g # h => req'[g] = req[g]
    BY <1>3, OthersWait DEF IInv
  <2> QED
    BY <1>1, <2>1, <2>2, InFlightKept DEF RequestsInFlight
<1> QED
  BY <1>2, <1>3, NextCases DEF CreateDraft, vars

(* A thread never starts solving an intent another one is solving.           *)
LEMMA OneSolverNext ==
  ASSUME IInv, [Next]_vars
  PROVE  OneSolverPerIntent'
<1> USE DEF Solving, Running, InStatus
<1> DEFINE Solver == {"solve", "store", "gate_failed", "publish"}
<1>1. TypeOK /\ OneSolverPerIntent /\ req \in [Threads -> Request]
  BY DEF IInv, TypeOK
<1>2. \A h \in Threads, i \in IntentIds : Solving(h, i) => intents[i] # None
  BY DEF IInv, RequestsInFlight, InFlight, Executing, Stored
<1>3. CASE UNCHANGED <<req, intents>>
  BY <1>1, <1>3 DEF OneSolverPerIntent
<1>4. ASSUME NEW h \in Threads, \A g \in Threads : g # h => req'[g] = req[g],
             ~(req'[h].step \in Solver),
             \A i \in IntentIds :
               \/ intents[i] = None \/ intents'[i] = intents[i]
               \/ Solving(h, i) \/ intents[i].status # "running"
      PROVE  OneSolverPerIntent'
  <2>1. \A g \in Threads, i \in IntentIds :
          Solving(g, i)' => g # h /\ Solving(g, i) /\ Running(i) /\ intents[i] # None
    BY <1>1, <1>2, <1>4 DEF OneSolverPerIntent
  <2>2. \A g \in Threads, i \in IntentIds : Solving(g, i)' => Running(i)'
    BY <1>1, <1>4, <2>1 DEF OneSolverPerIntent
  <2> QED
    BY <1>1, <2>1, <2>2 DEF OneSolverPerIntent
<1>5. ASSUME NEW h \in Threads, Reads(h)
      PROVE  OneSolverPerIntent'
  <2>1. UNCHANGED intents /\ \A g \in Threads : g # h => req'[g] = req[g]
    BY <1>1, <1>5, ReadsKeepTables, OthersWait DEF tables
  <2>2. CASE SolveReturns(h)
    <3>1. req[h].step = "solve" /\ req[h].intent = req'[h].intent
      BY <1>1, <2>2 DEF SolveReturns
    <3>2. \A g \in Threads, i \in IntentIds : Solving(g, i)' => Solving(g, i)
      BY <2>1, <3>1
    <3> QED
      BY <1>1, <2>1, <3>2 DEF OneSolverPerIntent
  <2>3. CASE ~SolveReturns(h)
    <3>1. ~(req'[h].step \in Solver)
      BY <1>1, <1>5, <2>3
         DEF Reads, BeginUpdateTravelFacts, BeginReplaceSelection, BeginEdit, BeginSubmit,
             BeginReplaceAttraction, Resend, Redeliver, Answer, BeginExecute, Abort, Idle
    <3> QED
      BY <1>4, <2>1, <3>1
  <2> QED
    BY <2>2, <2>3
<1>6. ASSUME NEW h \in Threads, Writes(h)
      PROVE  OneSolverPerIntent'
  <2> DEFINE i == req[h].intent
  <2>1. \A g \in Threads : g # h => req'[g] = req[g]
    BY <1>1, <1>6, OthersWait
  <2>2. CASE SaveEdit(h)
    BY <1>1, <1>4, <2>1, <2>2 DEF SaveEdit, Idle
  <2>3. CASE InsertIntent(h) \/ InsertReplacement(h)
    <3>1. \A j \in IntentIds : intents[j] = None \/ intents'[j] = intents[j]
      <4>1. CASE Untouched
        BY <4>1 DEF Untouched
      <4>2. ASSUME NEW k \in IntentIds, Submits(k)
            PROVE  \A j \in IntentIds : intents[j] = None \/ intents'[j] = intents[j]
        BY <1>1, <4>2, SubmitKeeps DEF Submits
      <4> QED
        BY <2>3, <4>1, <4>2, InsertKinds
    <3>2. ~(req'[h].step \in Solver)
      BY <1>1, <2>3 DEF InsertIntent, InsertReplacement, Idle
    <3> QED
      BY <1>4, <2>1, <3>1, <3>2
  <2>4. CASE Claim(h)
    <3>1. i \in IntentIds /\ intents[i] # None
      BY <1>1, <2>4 DEF Claim, Request, IInv, RequestsInFlight, InFlight, Executing, Stored
    <3>2. CASE InStatus(i, req[h].expected)
      <4>1. req'[h] = [step |-> "solve", intent |-> i]
        BY <1>1, <2>4, <3>2 DEF Claim
      <4>2. intents[i].status # "running"
        BY <2>4, <3>2 DEF Claim, IInv, RequestsInFlight, InFlight, Claimable
      <4>3. Fail(i, "running", "none")
        BY <2>4, <3>2 DEF Claim, Fail
      <4>4. intents'[i].status = "running" /\ \A j \in IntentIds : j # i => intents'[j] = intents[j]
        BY <1>1, <3>1, <4>3, StatusUpdate DEF Statuses, Failures
      <4>5. \A g \in Threads, j \in IntentIds :
              Solving(g, j)' => (g = h /\ j = i) \/ (g # h /\ j # i /\ Solving(g, j))
        BY <1>1, <2>1, <4>1, <4>2 DEF OneSolverPerIntent
      <4> QED
        BY <1>1, <4>4, <4>5 DEF OneSolverPerIntent
    <3>3. CASE ~InStatus(i, req[h].expected)
      <4>1. req'[h] = Idle /\ UNCHANGED intents
        BY <1>1, <2>4, <3>3 DEF Claim
      <4> QED
        BY <1>4, <2>1, <4>1 DEF Idle
    <3> QED
      BY <3>2, <3>3
  <2>5. CASE \/ SolveRaises(h) \/ StoreGateFailure(h)
             \/ PublishNewTrip(h) \/ ReadTarget(h) \/ PublishRevision(h)
    <3>1. Solving(h, i) /\ i \in IntentIds
      BY <1>1, <2>5 DEF SolveRaises, StoreGateFailure, PublishNewTrip, ReadTarget,
                        PublishRevision, Request
    <3>2. \A j \in IntentIds : j # i => intents'[j] = intents[j]
      BY <1>1, <2>5 DEF SolveRaises, StoreGateFailure, PublishNewTrip, ReadTarget,
                        PublishRevision, RevisionConflict, Publish, Fail, TypeOK
    <3>3. CASE req'[h] = Idle
      BY <1>4, <2>1, <3>1, <3>2, <3>3 DEF Idle
    <3>4. CASE req'[h] # Idle
      <4>1. req'[h] = [step |-> "publish", intent |-> i] /\ UNCHANGED intents
        BY <1>1, <2>5, <3>4 DEF SolveRaises, StoreGateFailure, PublishNewTrip, ReadTarget,
                                PublishRevision
      <4>2. \A g \in Threads, j \in IntentIds : Solving(g, j)' => Solving(g, j)
        BY <2>1, <3>1, <4>1
      <4> QED
        BY <1>1, <4>1, <4>2 DEF OneSolverPerIntent
    <3> QED
      BY <3>3, <3>4
  <2> QED
    BY <1>6, <2>2, <2>3, <2>4, <2>5 DEF Writes
<1>7. CASE \E p \in Principals : CreateDraft(p)
  BY <1>3, <1>7 DEF CreateDraft
<1>8. CASE UNCHANGED vars
  BY <1>3, <1>8 DEF vars
<1> QED
  BY <1>5, <1>6, <1>7, <1>8, NextCases

(* A targeted trip and the base of a replacement never disappear.            *)
LEMMA TargetsNext ==
  ASSUME IInv, [Next]_vars
  PROVE  TargetsHaveBases'
<1> DEFINE Based(i) == \/ intents[i].target = None /\ intents[i].base = None
                       \/ IsBase(intents[i].target, intents[i].base)
<1>1. TablesGrow
  BY Growth
<1>2. TypeOK
  BY DEF IInv
<1>3. ASSUME NEW i \in IntentIds, intents[i] # None
      PROVE  Based(i)'
  <2>1. intents'[i].target = intents[i].target /\ intents'[i].base = intents[i].base
    BY <1>1, <1>3 DEF TablesGrow, Stored, Binding
  <2>2. Based(i)
    BY <1>3 DEF IInv, TargetsHaveBases, Stored
  <2> QED
    BY <1>1, <2>1, <2>2 DEF IsBase, TablesGrow
<1>4. ASSUME NEW i \in IntentIds, Submits(i)
      PROVE  Based(i)'
  <2>1. PICK p \in Principals, d \in DraftIds, row \in DraftRow,
             t \in TripIds \cup {None}, b \in RevisionIds \cup {None} :
          ((t = None /\ b = None) \/ IsBase(t, b)) /\ Inserts(i, p, d, row, t, b)
    BY <1>4 DEF Submits
  <2>2. intents'[i].target = t /\ intents'[i].base = b
    BY <1>2, <2>1, SubmitUpdate
  <2> QED
    BY <1>4, <2>1, <2>2 DEF Submits, IsBase
<1>5. ASSUME NEW i \in IntentIds, intents[i] = None, intents'[i] # None
      PROVE  Submits(i)
  BY <1>2, <1>5, SubmitKeeps, ExecutionUpdate, StepKinds DEF Untouched
<1> QED
  BY <1>3, <1>4, <1>5 DEF TargetsHaveBases, Stored

(* ------------------------------ Versions --------------------------------- *)

(* Versions that agree fix the inputs of the intents.                        *)
LEMMA VersionsFixInputs ==
  ASSUME TypeOK, VersionsAgree
  PROVE  VersionFixesInput
<1>1. ASSUME NEW i \in IntentIds, Stored(i)
      PROVE  /\ intents[i].draft \in DraftIds /\ intents[i].version \in Nat \ {0}
             /\ intents[i].input \in Content
             /\ Holds(intents[i].draft, intents[i].version, intents[i].input)
  BY <1>1 DEF TypeOK, Stored, IntentRow, Holds
<1>2. SUFFICES ASSUME NEW i \in IntentIds, Stored(i)
               PROVE  LET d == drafts[intents[i].draft] IN
                      /\ d # None
                      /\ intents[i].version <= d.version
                      /\ intents[i].version = d.version => intents[i].input = d.content
                      /\ \A j \in IntentIds :
                           /\ Stored(j)
                           /\ intents[j].draft = intents[i].draft
                           /\ intents[j].version = intents[i].version
                           => intents[j].input = intents[i].input
  BY DEF VersionFixesInput
<1> DEFINE d == intents[i].draft
           v == intents[i].version
           c == intents[i].input
<1>3. /\ drafts[d] # None /\ v <= drafts[d].version
      /\ \A e \in Content : Holds(d, v, e) => e = c
  BY <1>1, <1>2 DEF VersionsAgree
<1>4. ASSUME v = drafts[d].version
      PROVE  c = drafts[d].content
  <2>1. drafts[d] \in DraftRow
    BY <1>1, <1>2, <1>3 DEF TypeOK
  <2>2. drafts[d].content \in Content
    BY <2>1 DEF DraftRow
  <2>3. Holds(d, v, drafts[d].content)
    BY <1>3, <1>4 DEF Holds
  <2> QED
    BY <1>3, <2>2, <2>3
<1>5. ASSUME NEW j \in IntentIds, Stored(j), intents[j].draft = d, intents[j].version = v
      PROVE  intents[j].input = c
  <2>1. Holds(d, v, intents[j].input) /\ intents[j].input \in Content
    BY <1>1, <1>5
  <2> QED
    BY <1>3, <2>1
<1> QED
  BY <1>3, <1>4, <1>5

(* It is enough that whatever is newly held of a draft is its new content,   *)
(* at a version newer than the draft had.                                    *)
Renewed(d, v, c) ==
  /\ drafts'[d] # None /\ drafts'[d].version = v /\ drafts'[d].content = c
  /\ drafts[d] = None \/ v = drafts[d].version + 1

(* Then versions agree after the step, too.                                  *)
LEMMA VersionsStep ==
  ASSUME IInv, [Next]_vars,
         \A d \in DraftIds, v \in Nat \ {0}, c \in Content :
           Holds(d, v, c)' => Holds(d, v, c) \/ Renewed(d, v, c)
  PROVE  VersionsAgree'
<1>1. SUFFICES ASSUME NEW d \in DraftIds, NEW v \in Nat \ {0}, NEW c \in Content, Holds(d, v, c)'
               PROVE  /\ drafts'[d] # None /\ v <= drafts'[d].version
                      /\ \A e \in Content : Holds(d, v, e)' => e = c
  BY DEF VersionsAgree
<1>2. \A e \in Content : Holds(d, v, e) =>
        /\ drafts[d] # None /\ v <= drafts[d].version
        /\ \A f \in Content : Holds(d, v, f) => f = e
  BY DEF IInv, VersionsAgree
<1>3. drafts[d] # None => drafts[d].version \in Nat
  BY DEF IInv, TypeOK, DraftRow
<1>4. drafts[d] # None =>
        /\ drafts'[d] # None
        /\ drafts'[d].version = drafts[d].version \/ drafts'[d].version = drafts[d].version + 1
  BY DraftGrowth DEF DraftsGrow
<1>5. Holds(d, v, c) \/ Renewed(d, v, c)
  BY <1>1
<1>6. drafts'[d] # None /\ v <= drafts'[d].version
  BY <1>2, <1>3, <1>4, <1>5 DEF Renewed
<1>7. ASSUME NEW e \in Content, Holds(d, v, e)'
      PROVE  e = c
  <2>1. Holds(d, v, e) \/ Renewed(d, v, e)
    BY <1>1, <1>7
  <2>2. ~(Holds(d, v, e) /\ Renewed(d, v, c)) /\ ~(Holds(d, v, c) /\ Renewed(d, v, e))
    BY <1>2, <1>3 DEF Renewed
  <2>3. Renewed(d, v, c) /\ Renewed(d, v, e) => e = c
    BY DEF Renewed
  <2> QED
    BY <1>2, <1>5, <2>1, <2>2, <2>3
<1> QED
  BY <1>6, <1>7

(* A row on its way into an intent is the row of a stored draft when read.   *)
LEMMA SubmitsReadDrafts ==
  ASSUME IInv, [Next]_vars, NEW g \in Threads, req'[g].step = "submit"
  PROVE  \/ req'[g] = req[g]
         \/ drafts[req'[g].draft] # None /\ req'[g].row = drafts[req'[g].draft]
<1>1. TypeOK /\ req \in [Threads -> Request]
  BY DEF IInv, TypeOK
<1>2. CASE UNCHANGED vars \/ \E p \in Principals : CreateDraft(p)
  BY <1>2 DEF vars, CreateDraft
<1>3. ASSUME NEW h \in Threads, Reads(h) \/ Writes(h), h # g
      PROVE  req'[g] = req[g]
  BY <1>1, <1>3, OthersWait
<1>4. CASE Reads(g)
  <2>1. CASE \E p \in Principals, i \in IntentIds, d \in DraftIds : BeginSubmit(g, p, i, d)
    BY <1>1, <2>1 DEF BeginSubmit, OwnedDraft
  <2>2. CASE ~ \E p \in Principals, i \in IntentIds, d \in DraftIds : BeginSubmit(g, p, i, d)
    BY <1>1, <1>4, <2>2
       DEF Reads, BeginUpdateTravelFacts, BeginReplaceSelection, BeginEdit,
           BeginReplaceAttraction, Resend, Redeliver, Answer, BeginExecute, SolveReturns,
           Abort, Idle
  <2> QED
    BY <2>1, <2>2
<1>5. CASE Writes(g)
  <2>1. CASE SaveEdit(g) \/ InsertIntent(g) \/ InsertReplacement(g)
    BY <1>1, <2>1 DEF SaveEdit, InsertIntent, InsertReplacement, Idle
  <2>2. CASE Claim(g)
    BY <1>1, <2>2 DEF Claim, Idle
  <2>3. CASE SolveRaises(g) \/ StoreGateFailure(g)
    BY <1>1, <2>3 DEF SolveRaises, StoreGateFailure, Idle
  <2>4. CASE PublishNewTrip(g)
    BY <1>1, <2>4 DEF PublishNewTrip, Idle
  <2>5. CASE ReadTarget(g)
    BY <1>1, <2>5 DEF ReadTarget, Idle
  <2>6. CASE PublishRevision(g)
    BY <1>1, <2>6 DEF PublishRevision, Idle
  <2> QED
    BY <1>5, <2>1, <2>2, <2>3, <2>4, <2>5, <2>6 DEF Writes
<1> QED
  BY <1>2, <1>3, <1>4, <1>5, NextCases

(* Only InsertIntent and InsertReplacement store a new intent.               *)
LEMMA NewIntents ==
  ASSUME IInv, [Next]_vars, NEW i \in IntentIds, intents[i] = None, intents'[i] # None
  PROVE  \E h \in Threads : InsertIntent(h) \/ InsertReplacement(h)
<1>1. TypeOK
  BY DEF IInv
<1>2. ASSUME Untouched \/ \E j \in IntentIds : Claims(j) \/ Ends(j) \/ Publishes(j)
      PROVE  FALSE
  BY <1>1, <1>2, ExecutionUpdate DEF Untouched
<1>3. ASSUME NEW h \in Threads, Reads(h) \/ SaveEdit(h)
      PROVE  FALSE
  BY <1>3, ReadsKeepTables DEF tables, SaveEdit
<1>4. CASE UNCHANGED vars \/ \E p \in Principals : CreateDraft(p)
  BY <1>4 DEF vars, CreateDraft
<1>5. ASSUME NEW h \in Threads, Writes(h), ~SaveEdit(h)
      PROVE  InsertIntent(h) \/ InsertReplacement(h)
  BY <1>2, <1>5, EndKinds, PublishKinds DEF Writes
<1> QED
  BY <1>3, <1>4, <1>5, NextCases

(* No step makes one version of a draft stand for two contents.              *)
LEMMA VersionsNext ==
  ASSUME IInv, [Next]_vars
  PROVE  VersionsAgree'
<1>1. TypeOK /\ RequestsInFlight
  BY DEF IInv
<1>2. SUFFICES ASSUME NEW d \in DraftIds, NEW v \in Nat \ {0}, NEW c \in Content,
                      Holds(d, v, c)'
               PROVE  Holds(d, v, c) \/ Renewed(d, v, c)
  BY VersionsStep
<1>3. ASSUME drafts'[d] # None, drafts'[d].version = v, drafts'[d].content = c
      PROVE  Holds(d, v, c) \/ Renewed(d, v, c)
  BY <1>3, DraftGrowth DEF DraftsGrow, Holds, Renewed
<1>4. ASSUME NEW g \in Threads, req'[g].step = "submit", req'[g].draft = d,
             req'[g].row.version = v, req'[g].row.content = c
      PROVE  Holds(d, v, c)
  BY <1>4, SubmitsReadDrafts DEF Holds
<1>5. ASSUME NEW i \in IntentIds, intents'[i] # None, intents'[i].draft = d,
             intents'[i].version = v, intents'[i].input = c
      PROVE  Holds(d, v, c) \/ Renewed(d, v, c)
  <2>1. CASE intents[i] # None
    <3>1. /\ intents'[i].draft = intents[i].draft
          /\ intents'[i].version = intents[i].version
          /\ intents'[i].input = intents[i].input
      BY <2>1, Growth DEF TablesGrow, Stored, Binding
    <3> QED
      BY <1>5, <2>1, <3>1 DEF Holds, Stored
  <2>2. CASE intents[i] = None
    <3>1. PICK h \in Threads : InsertIntent(h) \/ InsertReplacement(h)
      BY <1>5, <2>2, NewIntents
    <3>2. CASE InsertIntent(h)
      <4>1. /\ req[h].step = "submit"
            /\ req[h].intent \in IntentIds /\ req[h].principal \in Principals
            /\ req[h].draft \in DraftIds /\ req[h].row \in DraftRow
        BY <1>1, <3>2 DEF InsertIntent, TypeOK, Request
      <4>2. PICK k \in IntentIds, p \in Principals, e \in DraftIds, row \in DraftRow :
              /\ req[h].draft = e /\ req[h].row = row
              /\ Inserts(k, p, e, row, None, None)
        BY <1>5, <2>2, <3>2, <4>1 DEF InsertIntent, Inserts
      <4>3. /\ intents'[k].draft = e
            /\ intents'[k].version = row.version /\ intents'[k].input = row.content
            /\ \A j \in IntentIds : j # k => intents'[j] = intents[j]
        BY <1>1, <4>2, SubmitUpdate
      <4>4. k = i
        BY <1>5, <2>2, <4>3
      <4> QED
        BY <1>5, <4>1, <4>2, <4>3, <4>4 DEF Holds
    <3>3. CASE InsertReplacement(h)
      <4>1. /\ req[h].intent \in IntentIds /\ req[h].principal \in Principals
            /\ req[h].row \in DraftRow
            /\ req[h].target \in TripIds /\ req[h].base \in RevisionIds
        BY <1>1, <3>3 DEF InsertReplacement, TypeOK, Request
      <4>2. PICK e \in DraftIds :
              /\ drafts[e] = None
              /\ drafts' = [drafts EXCEPT ![e] = req[h].row]
              /\ Inserts(req[h].intent, req[h].principal, e, req[h].row,
                         req[h].target, req[h].base)
        BY <1>5, <2>2, <3>3 DEF InsertReplacement, Inserts
      <4>3. /\ e = d /\ req[h].row.version = v /\ req[h].row.content = c
        BY <1>1, <1>5, <2>2, <4>1, <4>2, SubmitUpdate
      <4>4. drafts'[d] = req[h].row /\ drafts'[d] # None
        BY <1>1, <4>1, <4>2, <4>3, NoneAssumption DEF TypeOK
      <4> QED
        BY <4>2, <4>3, <4>4 DEF Renewed
    <3> QED
      BY <3>1, <3>2, <3>3
  <2> QED
    BY <2>1, <2>2
<1> QED
  BY <1>2, <1>3, <1>4, <1>5 DEF Holds, Stored

(* Owners never mix.                                                         *)
LEMMA OneOwnerNext ==
  ASSUME IInv, [Next]_vars
  PROVE  OneOwner'
<1> DEFINE Owned(i) == /\ drafts[intents[i].draft].owner = intents[i].principal
                       /\ intents[i].target # None =>
                            trips[intents[i].target].principal = intents[i].principal
<1>1. TypeOK /\ TablesGrow /\ OneOwner
  BY Growth DEF IInv
<1>2. ASSUME NEW i \in IntentIds, intents[i] # None
      PROVE  Owned(i)'
  <2>1. /\ intents'[i].principal = intents[i].principal
        /\ intents'[i].draft = intents[i].draft /\ intents'[i].target = intents[i].target
    BY <1>1, <1>2 DEF TablesGrow, Stored, Binding
  <2>2. intents[i].draft \in DraftIds /\ drafts[intents[i].draft] # None
    BY <1>1, <1>2, VersionsFixInputs DEF IInv, TypeOK, IntentRow, VersionFixesInput, Stored
  <2>3. Owned(i)
    BY <1>1, <1>2 DEF OneOwner, Stored
  <2>4. intents[i].target # None => IsBase(intents[i].target, intents[i].base)
    BY <1>2 DEF IInv, TargetsHaveBases, Stored
  <2> QED
    BY <1>1, <2>1, <2>2, <2>3, <2>4 DEF TablesGrow, IsBase
<1>3. ASSUME NEW i \in IntentIds, intents[i] = None, intents'[i] # None
      PROVE  Owned(i)'
  <2>1. Submits(i)
    BY <1>1, <1>3, SubmitKeeps, ExecutionUpdate, StepKinds DEF Untouched
  <2>2. PICK p \in Principals, d \in DraftIds, row \in DraftRow,
             t \in TripIds \cup {None}, b \in RevisionIds \cup {None} :
          /\ drafts'[d] # None /\ drafts'[d].owner = p
          /\ \/ t = None /\ b = None
             \/ IsBase(t, b) /\ trips[t].principal = p
          /\ Inserts(i, p, d, row, t, b)
    BY <2>1 DEF Submits
  <2>3. intents'[i].principal = p /\ intents'[i].draft = d /\ intents'[i].target = t
    BY <1>1, <2>2, SubmitUpdate
  <2> QED
    BY <2>1, <2>2, <2>3 DEF Submits
<1>4. ASSUME NEW r \in RevisionIds, revisions'[r] # None
      PROVE  (trips[revisions[r].trip].principal = intents[revisions[r].intent].principal)'
  <2>1. CASE revisions[r] # None
    <3> DEFINE t == revisions[r].trip
               i == revisions[r].intent
    <3>1. t \in TripIds /\ i \in IntentIds /\ intents[i] # None
      BY <1>1, <2>1 DEF TypeOK, RevisionRow, IInv, OutcomeIsWhole, Stored
    <3>2. trips[t] # None
      BY <2>1, <3>1 DEF IInv, TripHistoryIsLinear, Revisions
    <3>3. trips'[t].principal = trips[t].principal
      BY <1>1, <3>1, <3>2 DEF TablesGrow
    <3>4. intents'[i].principal = intents[i].principal
      BY <1>1, <3>1 DEF TablesGrow, Stored, Binding
    <3>5. revisions'[r] = revisions[r]
      BY <1>1, <2>1 DEF TablesGrow
    <3> QED
      BY <1>1, <2>1, <3>3, <3>4, <3>5 DEF OneOwner
  <2>2. CASE revisions[r] = None
    <3>1. PICK i \in IntentIds : Publishes(i)
      BY <1>4, <2>2, StepKinds DEF Untouched, Submits, Claims, Ends
    <3>2. PICK t \in TripIds, s \in RevisionIds, number \in Nat \ {0}, row \in TripRow :
            /\ Opens(i, t, number, row) \/ Extends(i, t, number, row)
            /\ Publish(i, t, s, number, row)
      BY <3>1 DEF Publishes
    <3>3. intents[i] # None
      BY <3>1 DEF Publishes
    <3>4. r = s /\ revisions'[r].trip = t /\ revisions'[r].intent = i /\ trips'[t] = row
      BY <1>1, <1>4, <2>2, <3>2, <3>3, PublishUpdate
    <3>5. row.principal = intents[i].principal
      BY <1>1, <3>2, <3>3, NoneAssumption DEF Opens, Extends, OneOwner, Stored, IsBase
    <3>6. intents'[i].principal = intents[i].principal
      BY <1>1, <3>3 DEF TablesGrow, Stored, Binding
    <3> QED
      BY <3>4, <3>5, <3>6
  <2> QED
    BY <2>1, <2>2
<1> QED
  BY <1>2, <1>3, <1>4 DEF OneOwner, Stored

(* What the three tables say of one intent, and of one revision.             *)
IntentWhole(i) ==
  /\ intents[i] # None =>
       /\ intents[i].status = "completed" <=> intents[i].revision # None
       /\ intents[i].status = "completed" =>
            /\ runs[i] = "completed"
            /\ revisions[intents[i].revision] # None
            /\ revisions[intents[i].revision].intent = i
            /\ revisions[intents[i].revision].trip = intents[i].trip
       /\ runs[i] # "none" => \/ intents[i].status = "completed"
                              \/ /\ intents[i].status = "failed_terminal"
                                 /\ intents[i].failure # "solver_error"
  /\ intents[i] = None => runs[i] = "none"

RevisionWhole(r) ==
  revisions[r] # None =>
    /\ intents[revisions[r].intent] # None
    /\ intents[revisions[r].intent].revision = r

(* OutcomeIsWhole is the conjunction of these parts.                         *)
LEMMA WholeParts ==
  OutcomeIsWhole <=> /\ \A i \in IntentIds : IntentWhole(i)
                     /\ \A r \in RevisionIds : RevisionWhole(r)
  BY DEF OutcomeIsWhole, IntentWhole, RevisionWhole, Stored

(* The four tables agree again after every step.                             *)
LEMMA OutcomeNext ==
  ASSUME IInv, [Next]_vars
  PROVE  OutcomeIsWhole'
<1>1. TypeOK
  BY DEF IInv
<1>2. /\ \A i \in IntentIds : IntentWhole(i)
      /\ \A r \in RevisionIds : RevisionWhole(r)
  BY WholeParts DEF IInv
<1>3. SUFFICES /\ \A i \in IntentIds : IntentWhole(i)'
               /\ \A r \in RevisionIds : RevisionWhole(r)'
  BY DEF OutcomeIsWhole, IntentWhole, RevisionWhole, Stored
<1>4. \A r \in RevisionIds : revisions[r] # None => revisions[r].intent \in IntentIds
  BY <1>1 DEF TypeOK, RevisionRow
<1>5. CASE Untouched
  BY <1>2, <1>5 DEF Untouched, IntentWhole, RevisionWhole
<1>6. ASSUME NEW i \in IntentIds, Submits(i)
      PROVE  /\ \A j \in IntentIds : IntentWhole(j)'
             /\ \A r \in RevisionIds : RevisionWhole(r)'
  <2>1. /\ intents'[i] # None /\ intents'[i].status = "queued" /\ intents'[i].revision = None
        /\ \A j \in IntentIds : j # i => intents'[j] = intents[j]
    BY <1>1, <1>6, SubmitUpdate DEF Submits
  <2>2. UNCHANGED <<revisions, runs>> /\ intents[i] = None
    BY <1>6 DEF Submits
  <2>3. \A j \in IntentIds : IntentWhole(j)'
    BY <1>2, <2>1, <2>2 DEF IntentWhole
  <2>4. \A r \in RevisionIds : RevisionWhole(r)'
    BY <1>2, <1>4, <2>1, <2>2 DEF RevisionWhole
  <2> QED
    BY <2>3, <2>4
<1>7. ASSUME NEW i \in IntentIds, Claims(i) \/ Ends(i)
      PROVE  /\ \A j \in IntentIds : IntentWhole(j)'
             /\ \A r \in RevisionIds : RevisionWhole(r)'
  <2>1. /\ intents[i] # None /\ UNCHANGED revisions
        /\ intents[i].status \notin Final /\ intents[i].revision = None /\ runs[i] = "none"
    BY <1>2, <1>7 DEF Claims, Ends, Claimable, Final, Running, InStatus, IntentWhole
  <2>2. \E status \in {"running", "failed_retryable", "failed_terminal"}, code \in Failures :
          /\ Fail(i, status, code)
          /\ \/ UNCHANGED runs
             \/ /\ status = "failed_terminal" /\ code # "solver_error"
                /\ \A j \in IntentIds : j # i => runs'[j] = runs[j]
    BY <1>1, <1>7 DEF Claims, Ends, Failures, TypeOK
  <2>3. /\ intents'[i] # None /\ intents'[i].revision = None
        /\ intents'[i].status # "completed"
        /\ \A j \in IntentIds : j # i => intents'[j] = intents[j] /\ runs'[j] = runs[j]
        /\ runs'[i] # "none" => /\ intents'[i].status = "failed_terminal"
                                /\ intents'[i].failure # "solver_error"
    BY <1>1, <2>1, <2>2, StatusUpdate DEF Statuses
  <2>4. \A j \in IntentIds : IntentWhole(j)'
    BY <1>2, <2>1, <2>3 DEF IntentWhole
  <2>5. \A r \in RevisionIds : RevisionWhole(r)'
    BY <1>2, <1>4, <2>1, <2>3, NoneAssumption DEF RevisionWhole
  <2> QED
    BY <2>4, <2>5
<1>8. ASSUME NEW i \in IntentIds, Publishes(i)
      PROVE  /\ \A j \in IntentIds : IntentWhole(j)'
             /\ \A r \in RevisionIds : RevisionWhole(r)'
  <2>1. intents[i] # None /\ intents[i].status = "running" /\ intents[i].revision = None
    BY <1>2, <1>8 DEF Publishes, Running, InStatus, IntentWhole
  <2>2. PICK t \in TripIds, r \in RevisionIds, number \in Nat \ {0}, row \in TripRow :
          revisions[r] = None /\ Publish(i, t, r, number, row)
    BY <1>8 DEF Publishes
  <2>3. /\ intents'[i] # None /\ intents'[i].status = "completed"
        /\ intents'[i].trip = t /\ intents'[i].revision = r
        /\ \A j \in IntentIds : j # i => intents'[j] = intents[j] /\ runs'[j] = runs[j]
        /\ revisions'[r] # None /\ revisions'[r].trip = t /\ revisions'[r].intent = i
        /\ \A s \in RevisionIds : s # r => revisions'[s] = revisions[s]
        /\ runs'[i] = "completed"
    BY <1>1, <2>1, <2>2, PublishUpdate
  <2>4. \A j \in IntentIds : intents[j] # None =>
          intents[j].revision \in RevisionIds \cup {None}
    BY <1>1 DEF TypeOK, IntentRow
  <2>5. r # None
    BY NoneAssumption
  <2>6. IntentWhole(i)'
    BY <2>3, <2>5 DEF IntentWhole
  <2>7. \A j \in IntentIds : j # i => IntentWhole(j)'
    BY <1>2, <2>2, <2>3, <2>4 DEF IntentWhole
  <2>8. \A s \in RevisionIds : RevisionWhole(s)'
    BY <1>2, <1>4, <2>1, <2>3, NoneAssumption DEF RevisionWhole
  <2> QED
    BY <2>6, <2>7, <2>8
<1> QED
  BY <1>5, <1>6, <1>7, <1>8, StepKinds

(* A conflict stays a conflict: the trip has moved on to a revision that is  *)
(* newer than any base.                                                      *)
LEMMA ConflictsNext ==
  ASSUME IInv, [Next]_vars
  PROVE  ConflictsAreReal'
<1> DEFINE Conflict(i) == intents[i] # None /\ intents[i].failure = "trip_revision_conflict"
           Real(i) == /\ intents[i].target # None
                      /\ trips[intents[i].target].current # intents[i].base
                      /\ intents[i].revision = None
<1>1. TypeOK
  BY DEF IInv
<1>2. \A i \in IntentIds : Conflict(i) => Real(i)
  BY DEF IInv, ConflictsAreReal, Stored
<1>3. SUFFICES ASSUME NEW i \in IntentIds, Conflict(i)'
               PROVE  Real(i)'
  BY DEF ConflictsAreReal, Stored
<1>4. \A j \in IntentIds : intents[j] # None /\ intents[j].target # None =>
        /\ intents[j].target \in TripIds /\ intents[j].base \in RevisionIds
        /\ revisions[intents[j].base] # None
  BY DEF IInv, TargetsHaveBases, Stored, IsBase
<1>5. CASE Untouched
  BY <1>2, <1>3, <1>5 DEF Untouched
<1>6. ASSUME NEW j \in IntentIds, Submits(j)
      PROVE  Real(i)'
  <2>1. /\ intents'[j].failure = "none" /\ UNCHANGED trips
        /\ \A k \in IntentIds : k # j => intents'[k] = intents[k]
    BY <1>1, <1>6, SubmitUpdate DEF Submits
  <2> QED
    BY <1>2, <1>3, <2>1
<1>7. ASSUME NEW j \in IntentIds, Claims(j)
      PROVE  Real(i)'
  <2>1. /\ intents'[j].failure = "none" /\ UNCHANGED trips
        /\ \A k \in IntentIds : k # j => intents'[k] = intents[k]
    BY <1>1, <1>7, StatusUpdate DEF Claims, Statuses, Failures
  <2> QED
    BY <1>2, <1>3, <2>1
<1>8. ASSUME NEW j \in IntentIds, Ends(j)
      PROVE  Real(i)'
  <2>1. /\ intents[j] # None /\ intents[j].status = "running" /\ UNCHANGED trips
    BY <1>8 DEF Ends, Running, InStatus
  <2>2. intents[j].revision = None
    BY <2>1 DEF IInv, OutcomeIsWhole, Stored
  <2>3. \E status \in Statuses, code \in Failures :
          /\ Fail(j, status, code)
          /\ code = "trip_revision_conflict" =>
               /\ intents[j].target # None
               /\ trips[intents[j].target].current # intents[j].base
    BY <1>8 DEF Ends, Statuses, Failures
  <2>4. /\ intents'[j].revision = None
        /\ intents'[j].target = intents[j].target /\ intents'[j].base = intents[j].base
        /\ intents'[j].failure = "trip_revision_conflict" =>
             /\ intents[j].target # None
             /\ trips[intents[j].target].current # intents[j].base
        /\ \A k \in IntentIds : k # j => intents'[k] = intents[k]
    BY <1>1, <2>1, <2>2, <2>3, StatusUpdate DEF Binding
  <2> QED
    BY <1>2, <1>3, <2>1, <2>4
<1>9. ASSUME NEW j \in IntentIds, Publishes(j)
      PROVE  Real(i)'
  <2>1. intents[j] # None
    BY <1>9 DEF Publishes
  <2>2. PICK t \in TripIds, r \in RevisionIds, number \in Nat \ {0}, row \in TripRow :
          /\ revisions[r] = None /\ row.current = r
          /\ Publish(j, t, r, number, row)
    BY <1>9 DEF Publishes
  <2>3. /\ intents'[j].failure = "none" /\ trips'[t] = row
        /\ \A k \in IntentIds : k # j => intents'[k] = intents[k]
        /\ \A u \in TripIds : u # t => trips'[u] = trips[u]
    BY <1>1, <2>1, <2>2, PublishUpdate
  <2>4. i # j /\ intents'[i] = intents[i] /\ Real(i) /\ intents[i] # None
    BY <1>2, <1>3, <2>3
  <2>5. intents[i].base # r
    BY <1>4, <2>2, <2>4
  <2> QED
    BY <1>4, <2>2, <2>3, <2>4, <2>5
<1> QED
  BY <1>5, <1>6, <1>7, <1>8, <1>9, StepKinds

(* Revision r of trip t opens the trip or follows another revision of it.    *)
Follows(t, r) ==
  LET i == revisions[r].intent IN
  IF revisions[r].number = 1
  THEN intents[i].target = None
  ELSE /\ intents[i].target = t
       /\ intents[i].base \in Revisions(t)
       /\ revisions[intents[i].base].number + 1 = revisions[r].number

Linear(t) ==
  IF trips[t] = None THEN Revisions(t) = {}
  ELSE /\ trips[t].current \in Revisions(t)
       /\ \A r \in Revisions(t) :
            /\ revisions[r].number <= revisions[trips[t].current].number
            /\ \A s \in Revisions(t) : revisions[r].number = revisions[s].number => r = s
            /\ Follows(t, r)

(* Every publication adds one link at the end of one trip's chain.           *)
LEMMA HistoryNext ==
  ASSUME IInv, [Next]_vars
  PROVE  TripHistoryIsLinear'
<1>1. TypeOK /\ TypeOK' /\ TablesGrow
  BY TypeNext, Growth DEF IInv
<1>2. \A t \in TripIds : Linear(t)
  BY DEF IInv, TripHistoryIsLinear, Linear, Follows
<1>3. SUFFICES ASSUME NEW t \in TripIds
               PROVE  Linear(t)'
  BY DEF TripHistoryIsLinear, Linear, Follows
<1>4. \A r \in RevisionIds : revisions[r] # None =>
        /\ revisions[r] \in RevisionRow /\ revisions'[r] = revisions[r]
        /\ intents'[revisions[r].intent].target = intents[revisions[r].intent].target
        /\ intents'[revisions[r].intent].base = intents[revisions[r].intent].base
  <2>1. \A r \in RevisionIds : revisions[r] # None =>
          /\ revisions[r] \in RevisionRow /\ revisions[r].intent \in IntentIds
          /\ intents[revisions[r].intent] # None
    BY <1>1 DEF TypeOK, RevisionRow, IInv, OutcomeIsWhole, Stored
  <2> QED
    BY <1>1, <2>1 DEF TablesGrow, Stored, Binding
<1>5. ASSUME NEW r \in Revisions(t)
      PROVE  r \in Revisions(t)' /\ Follows(t, r)'
  <2>1. Follows(t, r)
    BY <1>2, <1>5 DEF Linear
  <2> QED
    BY <1>4, <1>5, <2>1 DEF Follows, Revisions
<1>6. CASE UNCHANGED <<trips, revisions>>
  <2>1. Revisions(t)' = Revisions(t)
    BY <1>6 DEF Revisions
  <2> QED
    BY <1>2, <1>5, <1>6, <2>1 DEF Linear
<1>7. ASSUME NEW i \in IntentIds, Publishes(i)
      PROVE  Linear(t)'
  <2>1. intents[i] # None
    BY <1>7 DEF Publishes
  <2>2. PICK u \in TripIds, r \in RevisionIds, number \in Nat \ {0}, row \in TripRow :
          /\ revisions[r] = None /\ row.current = r
          /\ Opens(i, u, number, row) \/ Extends(i, u, number, row)
          /\ Publish(i, u, r, number, row)
    BY <1>7 DEF Publishes
  <2>3. /\ revisions'[r] # None
        /\ revisions'[r].trip = u /\ revisions'[r].number = number /\ revisions'[r].intent = i
        /\ \A s \in RevisionIds : s # r => revisions'[s] = revisions[s]
        /\ trips'[u] = row /\ row # None
        /\ \A v \in TripIds : v # u => trips'[v] = trips[v]
    BY <1>1, <2>1, <2>2, PublishUpdate
  <2>4. intents'[i].target = intents[i].target /\ intents'[i].base = intents[i].base
    BY <1>1, <2>1 DEF TablesGrow, Stored, Binding
  <2>5. CASE u # t
    <3>1. Revisions(t)' = Revisions(t)
      BY <2>2, <2>3, <2>5 DEF Revisions
    <3>2. \A s \in Revisions(t) : revisions'[s] = revisions[s]
      BY <1>4 DEF Revisions
    <3>3. trips'[t] = trips[t]
      BY <2>3, <2>5
    <3> QED
      BY <1>2, <1>5, <3>1, <3>2, <3>3 DEF Linear
  <2>6. CASE u = t
    <3>1. Revisions(t)' = Revisions(t) \cup {r} /\ r \notin Revisions(t)
      BY <2>2, <2>3, <2>6 DEF Revisions
    <3>2. \A s \in Revisions(t) : revisions'[s] = revisions[s] /\ revisions[s].number \in Nat
      BY <1>4 DEF Revisions, RevisionRow
    <3>3. CASE Opens(i, t, number, row)
      <4>1. Revisions(t) = {} /\ number = 1 /\ intents[i].target = None
        BY <1>2, <3>3 DEF Linear, Opens
      <4>2. Follows(t, r)'
        BY <2>3, <2>4, <4>1 DEF Follows
      <4> QED
        BY <2>2, <2>3, <2>6, <3>1, <4>1, <4>2 DEF Linear
    <3>4. CASE Extends(i, t, number, row)
      <4> DEFINE b == intents[i].base
      <4>1. /\ intents[i].target = t /\ b \in Revisions(t)
            /\ trips[t] # None /\ trips[t].current = b /\ number = revisions[b].number + 1
        BY <3>4 DEF Extends, IsBase, Revisions, NextNumber
      <4>2. revisions[b] \in RevisionRow
        BY <1>4, <4>1 DEF Revisions
      <4>3. number # 1
        BY <4>1, <4>2 DEF RevisionRow
      <4>4. \A s \in Revisions(t) : revisions[s].number < number
        BY <1>2, <3>2, <4>1 DEF Linear
      <4>5. Follows(t, r)'
        BY <2>3, <2>4, <3>1, <3>2, <4>1, <4>3 DEF Follows
      <4>6. \A s \in Revisions(t)' :
              /\ revisions'[s].number <= number
              /\ \A v \in Revisions(t)' : revisions'[s].number = revisions'[v].number => s = v
              /\ Follows(t, s)'
        <5>1. \A s \in Revisions(t), v \in Revisions(t) :
                revisions[s].number = revisions[v].number => s = v
          BY <1>2, <4>1 DEF Linear
        <5> QED
          BY <1>5, <2>3, <3>1, <3>2, <4>4, <4>5, <5>1
      <4> QED
        BY <2>2, <2>3, <2>6, <3>1, <4>6 DEF Linear
    <3> QED
      BY <2>2, <2>6, <3>3, <3>4
  <2> QED
    BY <2>5, <2>6
<1> QED
  BY <1>6, <1>7, StepKinds DEF Untouched, Submits, Claims, Ends

(* ------------------------------ The theorems ----------------------------- *)

(* The invariant holds of the empty tables ...                               *)
LEMMA InvariantInit == Init => IInv
<1> SUFFICES ASSUME Init
             PROVE  IInv
  OBVIOUS
<1> USE DEF Init
<1>1. TypeOK
  BY TypeInit
<1>2. RequestsInFlight
  BY DEF RequestsInFlight, InFlight, Executing, Idle
<1>3. VersionsAgree
  BY DEF VersionsAgree, Holds, Stored, Idle
<1>4. TargetsHaveBases /\ ConflictsAreReal /\ OneOwner
  BY DEF TargetsHaveBases, ConflictsAreReal, OneOwner, Stored
<1>5. OneSolverPerIntent
  BY DEF OneSolverPerIntent, Solving, Idle
<1>6. OutcomeIsWhole
  BY DEF OutcomeIsWhole, Stored
<1>7. TripHistoryIsLinear
  BY DEF TripHistoryIsLinear, Revisions
<1> QED
  BY <1>1, <1>2, <1>3, <1>4, <1>5, <1>6, <1>7 DEF IInv

(* ... and every step keeps it.                                              *)
LEMMA InvariantNext == IInv /\ [Next]_vars => IInv'
  BY TypeNext, RequestsNext, VersionsNext, TargetsNext, OneSolverNext, OutcomeNext,
     HistoryNext, ConflictsNext, OneOwnerNext DEF IInv

(* The invariant holds in every reachable state, whatever the clients, the   *)
(* threads, the ids and the bounds.                                          *)
THEOREM Invariance == Spec => []IInv
  BY InvariantInit, InvariantNext, PTL DEF Spec

(* Every table and every request keeps its type.                             *)
THEOREM TypeCorrectness == Spec => []TypeOK
<1>1. IInv => TypeOK
  BY DEF IInv
<1> QED
  BY <1>1, Invariance, PTL

(* A draft version determines the input of every intent made from it:        *)
(* concurrent edits and submissions never lose an update.                    *)
THEOREM InputsAreReproducible == Spec => []VersionFixesInput
<1>1. IInv => VersionFixesInput
  BY VersionsFixInputs DEF IInv
<1> QED
  BY <1>1, Invariance, PTL

(* At most one thread solves an intent, and only while it is running.        *)
THEOREM SingleSolver == Spec => []OneSolverPerIntent
<1>1. IInv => OneSolverPerIntent
  BY DEF IInv
<1> QED
  BY <1>1, Invariance, PTL

(* Intent, solver run and revision agree on every outcome, after crashes,    *)
(* redeliveries and retries too.                                             *)
THEOREM OutcomesAreWhole == Spec => []OutcomeIsWhole
<1>1. IInv => OutcomeIsWhole
  BY DEF IInv
<1> QED
  BY <1>1, Invariance, PTL

(* Competing replacements never fork or skip a trip's history.               *)
THEOREM LinearHistory == Spec => []TripHistoryIsLinear
<1>1. IInv => TripHistoryIsLinear
  BY DEF IInv
<1> QED
  BY <1>1, Invariance, PTL

(* A reported revision conflict never stops being one.                       *)
THEOREM RealConflicts == Spec => []ConflictsAreReal
<1>1. IInv => ConflictsAreReal
  BY DEF IInv
<1> QED
  BY <1>1, Invariance, PTL

(* Drafts, trips and revisions of one intent belong to one principal.        *)
THEOREM SingleOwner == Spec => []OneOwner
<1>1. IInv => OneOwner
  BY DEF IInv
<1> QED
  BY <1>1, Invariance, PTL

(* No step rewrites a revision, a run, a final intent or the binding of an   *)
(* intent.                                                                   *)
THEOREM HistoryKept == Spec => HistoryIsKept
<1>1. IInv /\ [Next]_vars => [HistoryStep]_vars
  BY Growth
<1> QED
  BY <1>1, Invariance, PTL DEF Spec, HistoryIsKept

-------------------------------------------------------------------------------
(* The planning core implements RevisionChain: every step of a handler is a   *)
(* step of the abstract specification under the mapping of Planning, or       *)
(* leaves what the mapping shows unchanged.                                   *)


(* The empty tables map to no generation and no head.                        *)
LEMMA RefinedInit == Init => Chain!Init
  BY DEF Init, Chain!Init, Outcome, Parent, HeadOf, Stored

(* A trip's head and a generation's parent are read off stored revisions,    *)
(* which never change.                                                       *)
LEMMA MappedRowsStored ==
  ASSUME IInv
  PROVE  /\ \A t \in TripIds : trips[t] # None =>
              trips[t].current \in RevisionIds /\ revisions[trips[t].current] # None
         /\ \A i \in IntentIds : intents[i] # None =>
              \/ intents[i].target = None /\ intents[i].base = None
              \/ /\ intents[i].target \in TripIds /\ intents[i].base \in RevisionIds
                 /\ intents[i].base # None /\ revisions[intents[i].base] # None
         /\ \A r \in RevisionIds : revisions[r] # None =>
              /\ revisions[r].intent \in IntentIds /\ intents[revisions[r].intent] # None
              /\ intents[revisions[r].intent].status = "completed"
<1>1. \A t \in TripIds : trips[t] # None =>
        trips[t].current \in RevisionIds /\ revisions[trips[t].current] # None
  BY DEF IInv, TripHistoryIsLinear, Revisions
<1>2. \A i \in IntentIds : intents[i] # None =>
        \/ intents[i].target = None /\ intents[i].base = None
        \/ /\ intents[i].target \in TripIds /\ intents[i].base \in RevisionIds
           /\ intents[i].base # None /\ revisions[intents[i].base] # None
  BY NoneAssumption DEF IInv, TargetsHaveBases, IsBase, Stored
<1>3. ASSUME NEW r \in RevisionIds, revisions[r] # None
      PROVE  /\ revisions[r].intent \in IntentIds /\ intents[revisions[r].intent] # None
             /\ intents[revisions[r].intent].status = "completed"
  <2>1. revisions[r].intent \in IntentIds
    BY <1>3 DEF IInv, TypeOK, RevisionRow
  <2>2. intents[revisions[r].intent] # None /\ intents[revisions[r].intent].revision = r
    BY <1>3 DEF IInv, OutcomeIsWhole, Stored
  <2>3. r # None
    BY NoneAssumption
  <2> QED
    BY <2>1, <2>2, <2>3 DEF IInv, OutcomeIsWhole, Stored
<1> QED
  BY <1>1, <1>2, <1>3

(* Parents and heads change only where a step puts them.                     *)
LEMMA ParentKept ==
  ASSUME IInv, [Next]_vars, NEW i \in IntentIds, intents[i] # None
  PROVE  Parent(i)' = Parent(i)
<1>1. /\ intents'[i] # None /\ intents'[i].base = intents[i].base
      /\ \A r \in RevisionIds : revisions[r] # None => revisions'[r] = revisions[r]
  BY Growth DEF TablesGrow, Stored, Binding
<1> QED
  BY <1>1, MappedRowsStored DEF Parent, Stored

(* A trip row that stays keeps its head.                                     *)
LEMMA HeadKept ==
  ASSUME IInv, [Next]_vars, NEW t \in TripIds, trips'[t] = trips[t]
  PROVE  HeadOf(t)' = HeadOf(t)
<1>1. \A r \in RevisionIds : revisions[r] # None => revisions'[r] = revisions[r]
  BY Growth DEF TablesGrow
<1> QED
  BY <1>1, MappedRowsStored DEF HeadOf

(* An intent row that stays keeps its outcome.                               *)
LEMMA OutcomeKept ==
  ASSUME NEW i \in IntentIds, intents'[i] = intents[i]
  PROVE  Outcome(i)' = Outcome(i)
  BY DEF Outcome, Stored

(* Storing an intent asks for a generation, on top of a published one or for *)
(* a new trip.                                                               *)
LEMMA RefinedSubmit ==
  ASSUME IInv, [Next]_vars, NEW i \in IntentIds, Submits(i)
  PROVE  \E j \in IntentIds \cup {None} : Chain!Ask(i, j)
<1> DEFINE outcome == [k \in IntentIds |-> Outcome(k)]
           parent == [k \in IntentIds |-> Parent(k)]
           head == [t \in TripIds |-> HeadOf(t)]
           j == Parent(i)'
<1>1. TypeOK
  BY DEF IInv
<1>2. PICK p \in Principals, d \in DraftIds, row \in DraftRow,
           t \in TripIds \cup {None}, b \in RevisionIds \cup {None} :
        /\ \/ t = None /\ b = None
           \/ IsBase(t, b) /\ trips[t].principal = p
        /\ Inserts(i, p, d, row, t, b)
  BY DEF Submits
<1>3. /\ intents'[i] # None /\ intents'[i].base = b /\ intents'[i].status = "queued"
      /\ \A k \in IntentIds : k # i => intents'[k] = intents[k]
  BY <1>1, <1>2, SubmitUpdate
<1>4. intents[i] = None /\ UNCHANGED <<trips, revisions>>
  BY DEF Submits
<1>5. Outcome(i) = "absent" /\ Outcome(i)' = "open"
  BY <1>3, <1>4 DEF Outcome, Stored
<1>6. Parent(i) = None
  BY <1>4 DEF Parent, Stored
<1>7. \A k \in IntentIds : k # i => Outcome(k)' = Outcome(k) /\ Parent(k)' = Parent(k)
  BY <1>3, <1>4 DEF Outcome, Parent, Stored
<1>8. \A u \in TripIds : HeadOf(u)' = HeadOf(u)
  BY <1>4, HeadKept
<1>9. j \in IntentIds \cup {None} /\ (j # None => j \in IntentIds /\ Outcome(j) = "published")
  <2>1. CASE b = None
    BY <1>3, <2>1 DEF Parent, Stored
  <2>2. CASE IsBase(t, b)
    <3>1. b # None /\ b \in RevisionIds /\ revisions[b] # None /\ revisions'[b] = revisions[b]
      BY <1>4, <2>2, NoneAssumption DEF IsBase
    <3>2. j = revisions[b].intent
      BY <1>3, <3>1 DEF Parent, Stored
    <3> QED
      BY <3>1, <3>2, MappedRowsStored DEF Outcome, Stored
  <2> QED
    BY <1>2, <2>1, <2>2
<1>10. outcome[i] = "absent"
  BY <1>5
<1>11. j # None => outcome[j] = "published"
  BY <1>9
<1>12. outcome' = [outcome EXCEPT ![i] = "open"]
  BY <1>5, <1>7
<1>13. parent' = [parent EXCEPT ![i] = j]
  BY <1>7
<1>14. head' = head
  BY <1>8
<1>15. Chain!Ask(i, j)
  BY <1>10, <1>11, <1>12, <1>13, <1>14 DEF Chain!Ask
<1> QED
  BY <1>9, <1>15

(* Claiming an intent, and failing it retryably, leave the generation open;  *)
(* a terminal failure rejects it.                                            *)
LEMMA RefinedEnd ==
  ASSUME IInv, [Next]_vars, NEW i \in IntentIds, Claims(i) \/ Ends(i)
  PROVE  Chain!Reject(i) \/ UNCHANGED Chain!vars
<1> DEFINE outcome == [k \in IntentIds |-> Outcome(k)]
           parent == [k \in IntentIds |-> Parent(k)]
           head == [t \in TripIds |-> HeadOf(t)]
<1>1. TypeOK
  BY DEF IInv
<1>2. PICK status \in {"running", "failed_retryable", "failed_terminal"}, code \in Failures :
        Fail(i, status, code)
  BY DEF Claims, Ends, Failures
<1>3. intents[i] # None /\ intents[i].status \in {"queued", "running", "failed_retryable"}
  BY DEF Claims, Ends, Claimable, Running, InStatus
<1>4. /\ intents'[i] # None /\ intents'[i].status = status
      /\ \A k \in IntentIds : k # i => intents'[k] = intents[k]
  BY <1>1, <1>2, <1>3, StatusUpdate DEF Statuses
<1>5. \A k \in IntentIds : k # i => Outcome(k)' = Outcome(k) /\ Parent(k)' = Parent(k)
  <2>1. UNCHANGED revisions
    BY DEF Claims, Ends
  <2> QED
    BY <1>4, <2>1 DEF Outcome, Parent, Stored
<1>6. Parent(i)' = Parent(i)
  BY <1>3, ParentKept
<1>7. \A t \in TripIds : HeadOf(t)' = HeadOf(t)
  BY HeadKept DEF Claims, Ends
<1>8. Outcome(i) = "open" /\ Outcome(i)' = IF status = "failed_terminal" THEN "rejected" ELSE "open"
  BY <1>3, <1>4 DEF Outcome, Stored
<1>9. parent' = parent /\ head' = head
  BY <1>5, <1>6, <1>7
<1>10. CASE status = "failed_terminal"
  <2>1. outcome[i] = "open" /\ outcome' = [outcome EXCEPT ![i] = "rejected"]
    BY <1>5, <1>8, <1>10
  <2> QED
    BY <1>9, <2>1 DEF Chain!Reject
<1>11. CASE status # "failed_terminal"
  <2>1. outcome' = outcome
    BY <1>5, <1>8, <1>11
  <2> QED
    BY <1>9, <2>1 DEF Chain!vars
<1> QED
  BY <1>10, <1>11

(* A publication puts the generation on the head it was made from.           *)
LEMMA RefinedPublish ==
  ASSUME IInv, [Next]_vars, NEW i \in IntentIds, Publishes(i)
  PROVE  \E t \in TripIds : Chain!Publish(i, t)
<1> DEFINE outcome == [k \in IntentIds |-> Outcome(k)]
           parent == [k \in IntentIds |-> Parent(k)]
           head == [u \in TripIds |-> HeadOf(u)]
<1>1. TypeOK
  BY DEF IInv
<1>2. intents[i] # None /\ intents[i].status = "running"
  BY DEF Publishes, Running, InStatus
<1>3. PICK t \in TripIds, r \in RevisionIds, number \in Nat \ {0}, row \in TripRow :
        /\ revisions[r] = None /\ row.current = r
        /\ Opens(i, t, number, row) \/ Extends(i, t, number, row)
        /\ Publish(i, t, r, number, row)
  BY DEF Publishes
<1>4. /\ intents'[i] # None /\ intents'[i].status = "completed"
      /\ \A k \in IntentIds : k # i => intents'[k] = intents[k]
      /\ revisions'[r] # None /\ revisions'[r].intent = i
      /\ trips'[t] = row /\ row # None
      /\ \A u \in TripIds : u # t => trips'[u] = trips[u]
  BY <1>1, <1>2, <1>3, PublishUpdate
<1>5. Outcome(i) = "open" /\ Outcome(i)' = "published"
  BY <1>2, <1>4 DEF Outcome, Stored
<1>6. \A k \in IntentIds : k # i => Outcome(k)' = Outcome(k)
  BY <1>4, OutcomeKept
<1>7. \A k \in IntentIds : Parent(k)' = Parent(k)
  <2>1. ASSUME NEW k \in IntentIds, intents[k] = None
        PROVE  Parent(k)' = Parent(k)
    BY <1>2, <1>4, <2>1 DEF Parent, Stored
  <2> QED
    BY <2>1, ParentKept
<1>8. \A u \in TripIds : u # t => HeadOf(u)' = HeadOf(u)
  BY <1>4, HeadKept
<1>9. HeadOf(t)' = i
  BY <1>3, <1>4 DEF HeadOf
<1>10. HeadOf(t) = Parent(i)
  <2>1. CASE Opens(i, t, number, row)
    BY <1>2, <2>1, MappedRowsStored, NoneAssumption DEF Opens, HeadOf, Parent, Stored
  <2>2. CASE Extends(i, t, number, row)
    BY <1>2, <2>2, NoneAssumption DEF Extends, IsBase, HeadOf, Parent, Stored
  <2> QED
    BY <1>3, <2>1, <2>2
<1>11. outcome[i] = "open" /\ outcome' = [outcome EXCEPT ![i] = "published"]
  BY <1>5, <1>6
<1>12. head[t] = parent[i] /\ head' = [head EXCEPT ![t] = i]
  BY <1>8, <1>9, <1>10
<1>13. parent' = parent
  BY <1>7
<1>14. Chain!Publish(i, t)
  BY <1>11, <1>12, <1>13 DEF Chain!Publish
<1> QED
  BY <1>14

(* Every step maps to a step of RevisionChain or to a stutter.               *)
LEMMA RefinedNext == IInv /\ [Next]_vars => [Chain!Next]_(Chain!vars)
<1> SUFFICES ASSUME IInv, [Next]_vars
             PROVE  [Chain!Next]_(Chain!vars)
  OBVIOUS
<1>1. CASE Untouched
  BY <1>1 DEF Untouched, Chain!vars, Outcome, Parent, HeadOf, Stored
<1>2. ASSUME NEW i \in IntentIds, Submits(i)
      PROVE  Chain!Next
  BY <1>2, RefinedSubmit DEF Chain!Next
<1>3. ASSUME NEW i \in IntentIds, Claims(i) \/ Ends(i)
      PROVE  Chain!Next \/ UNCHANGED Chain!vars
  BY <1>3, RefinedEnd DEF Chain!Next
<1>4. ASSUME NEW i \in IntentIds, Publishes(i)
      PROVE  Chain!Next
  BY <1>4, RefinedPublish DEF Chain!Next
<1> QED
  BY <1>1, <1>2, <1>3, <1>4, StepKinds

(* Drafts, threads, retries, crashes and conflicting requests together do no *)
(* more to trips than RevisionChain allows.                                  *)
THEOREM Refinement == Spec => ImplementsChain
<1>1. Init => Chain!Init
  BY RefinedInit
<1>2. IInv /\ [Next]_vars => [Chain!Next]_(Chain!vars)
  BY RefinedNext
<1> QED
  BY <1>1, <1>2, Invariance, PTL DEF Spec, ImplementsChain, Chain!Spec
==============================================================================
