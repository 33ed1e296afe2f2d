------------------------------- MODULE Planning -------------------------------
(***************************************************************************)
(* The planning core: trip drafts, generation intents, trips, revisions    *)
(* and solver runs, as the handlers of application/planning/handlers.py    *)
(* read and write them through a unit of work.                             *)
(*                                                                         *)
(* Every request thread opens transactions of its own on a READ COMMITTED  *)
(* database.  A transaction is one reading step and one writing step:      *)
(* between the two, other threads commit; the writing step is a            *)
(* conditional UPDATE or an INSERT against a primary key, and it commits.  *)
(* The solver runs between two transactions, outside any of them.          *)
(***************************************************************************)
EXTENDS Naturals, FiniteSets

CONSTANTS
  Principals,       (* owners of drafts and trips                           *)
  Attractions,      (* what a draft may select                              *)
  DraftIds, TripIds, RevisionIds, (* ids the server draws                   *)
  IntentIds,        (* generation_intent_ids, chosen by the clients         *)
  Threads,          (* request threads                                      *)
  None,             (* no row, or a NULL column                             *)
  FactChoices,      (* the travel facts clients send                        *)
  SelectionChoices, (* the attraction selections clients send               *)
  ClientsResend,    (* whether clients send a stored intent again           *)
  MaxOpened,        (* bound: clients open no further draft at this many    *)
  MaxVersion,       (* bound: edits stop at this draft version              *)
  MaxAborts,        (* bound: how many requests die half-way                *)
  MaxRedeliveries   (* bound: extra calls of ExecuteGenerationHandler       *)

VARIABLES
  drafts,           (* trip_drafts, by draft_id                             *)
  intents,          (* generation_intents, by generation_intent_id          *)
  trips,            (* trips, by trip_id                                    *)
  revisions,        (* trip_revisions, by trip_revision_id                  *)
  runs,             (* solver_runs, by their UNIQUE generation_intent_id    *)
  req,              (* what each thread holds between two of its steps      *)
  aborts, redeliveries,           (* the two bounded counters               *)
  swap              (* history: the replacement each intent was created for *)

vars == <<drafts, intents, trips, revisions, runs, req, aborts, redeliveries, swap>>

-------------------------------------------------------------------------------
Facts == {"missing", "unconfirmed", "confirmed"}
Statuses == {"queued", "running", "completed", "failed_retryable", "failed_terminal"}
Failures == {"none", "solver_error", "quality_gate_failed", "trip_revision_conflict"}

Content == [facts : Facts, selection : SUBSET Attractions]
DraftRow == [owner : Principals, version : Nat \ {0}, content : Content]
IntentRow == [principal : Principals, draft : DraftIds, version : Nat \ {0},
              input : Content, status : Statuses, failure : Failures,
              target : TripIds \cup {None}, base : RevisionIds \cup {None},
              trip : TripIds \cup {None}, revision : RevisionIds \cup {None}]
TripRow == [principal : Principals, draft : DraftIds, current : RevisionIds]
RevisionRow == [trip : TripIds, number : Nat \ {0}, intent : IntentIds]
Swap == [old : Attractions, new : Attractions]

Request ==
       [step : {"idle"}]
  \cup [step : {"edit"}, draft : DraftIds, expected : Nat \ {0}, row : DraftRow]
  \cup [step : {"submit"}, principal : Principals, intent : IntentIds,
        draft : DraftIds, row : DraftRow]
  \cup [step : {"replace"}, principal : Principals, intent : IntentIds,
        row : DraftRow, target : TripIds, base : RevisionIds, swap : Swap]
  \cup [step : {"execute", "solve", "store", "gate_failed", "publish", "answer"},
        intent : IntentIds]
  \cup [step : {"claim"}, intent : IntentIds, expected : Statuses]

(* None is no row and no id; an edit never puts the travel facts back to     *)
(* NULL, and it selects known attractions.                                   *)
ASSUME NoneAssumption ==
  /\ None \notin DraftRow /\ None \notin IntentRow
  /\ None \notin TripRow /\ None \notin RevisionRow
  /\ None \notin TripIds /\ None \notin RevisionIds /\ None \notin IntentIds
ASSUME ChoicesAssumption ==
  FactChoices \subseteq Facts \ {"missing"} /\ SelectionChoices \subseteq SUBSET Attractions

TypeOK ==
  /\ drafts \in [DraftIds -> DraftRow \cup {None}]
  /\ intents \in [IntentIds -> IntentRow \cup {None}]
  /\ trips \in [TripIds -> TripRow \cup {None}]
  /\ revisions \in [RevisionIds -> RevisionRow \cup {None}]
  /\ runs \in [IntentIds -> {"none", "completed", "failed"}]
  /\ req \in [Threads -> Request]
  /\ aborts \in Nat /\ redeliveries \in Nat
  /\ swap \in [IntentIds -> Swap \cup {None}]

Idle == [step |-> "idle"]

Init ==
  /\ drafts = [d \in DraftIds |-> None]
  /\ intents = [i \in IntentIds |-> None]
  /\ trips = [t \in TripIds |-> None]
  /\ revisions = [r \in RevisionIds |-> None]
  /\ runs = [i \in IntentIds |-> "none"]
  /\ req = [h \in Threads |-> Idle]
  /\ aborts = 0 /\ redeliveries = 0
  /\ swap = [i \in IntentIds |-> None]

-------------------------------------------------------------------------------
(* Drafts: every accepted edit writes the next version, and only over the    *)
(* version it was computed from.                                             *)

NewDraft_VersionZero(p) ==      \* mutant: versions counted from 0
  [owner |-> p, version |-> 0, content |-> [facts |-> "missing", selection |-> {}]]
NewDraft(p) == [owner |-> p, version |-> 1,
                content |-> [facts |-> "missing", selection |-> {}]]
UpdateTravelFacts(row, f) ==
  [row EXCEPT !.version = @ + 1, !.content = [row.content EXCEPT !.facts = f]]
ReplaceSelection(row, s) ==
  [row EXCEPT !.version = @ + 1, !.content = [row.content EXCEPT !.selection = s]]
CloneWithReplacement(row, w) ==
  [row EXCEPT !.version = 1,
              !.content = [row.content EXCEPT !.selection = (@ \ {w.old}) \cup {w.new}]]

AnyDraft(d, p) == drafts[d] # None      \* mutant: the owner is not compared
OwnedDraft(d, p) == drafts[d] # None /\ drafts[d].owner = p

Drafts == {d \in DraftIds : drafts[d] # None}

CreateDraft(p) ==
  /\ Cardinality(Drafts) < MaxOpened
  /\ \E d \in DraftIds : drafts[d] = None /\ drafts' = [drafts EXCEPT ![d] = NewDraft(p)]
  /\ UNCHANGED <<intents, trips, revisions, runs, req, aborts, redeliveries, swap>>

(* update_travel_facts / replace_selection, up to the check of the version   *)
(* the client sent: the new row is computed from the row just read.          *)
BeginEdit(h, p, d, row) ==
  /\ req[h].step = "idle"
  /\ OwnedDraft(d, p)
  /\ drafts[d].version < MaxVersion
  /\ req' = [req EXCEPT ![h] = [step |-> "edit", draft |-> d, row |-> row,
                                expected |-> drafts[d].version]]
  /\ UNCHANGED <<drafts, intents, trips, revisions, runs, aborts, redeliveries, swap>>

BeginUpdateTravelFacts(h, p, d) ==
  \E f \in FactChoices : BeginEdit(h, p, d, UpdateTravelFacts(drafts[d], f))

BeginReplaceSelection(h, p, d) ==
  \E s \in SelectionChoices : BeginEdit(h, p, d, ReplaceSelection(drafts[d], s))

AtAnyVersion(d, v) == drafts[d] # None    \* mutant: no version in the WHERE
AtVersion(d, v) == drafts[d].version = v

(* UPDATE trip_drafts ... WHERE draft_version = expected; a row count of 0   *)
(* raises DraftVersionConflictError and nothing is written.                  *)
SaveEdit(h) ==
  /\ req[h].step = "edit"
  /\ drafts' = IF AtVersion(req[h].draft, req[h].expected)
               THEN [drafts EXCEPT ![req[h].draft] = req[h].row]
               ELSE drafts
  /\ req' = [req EXCEPT ![h] = Idle]
  /\ UNCHANGED <<intents, trips, revisions, runs, aborts, redeliveries, swap>>

-------------------------------------------------------------------------------
(* Submitting: the intent freezes the draft's content as its input.          *)

Ready(row) == row.content.facts = "confirmed" /\ row.content.selection # {}

NewIntent(p, d, row, target, base) ==
  [principal |-> p, draft |-> d, version |-> row.version,
   input |-> row.content, status |-> "queued", failure |-> "none",
   target |-> target, base |-> base, trip |-> None, revision |-> None]

BeginSubmit(h, p, i, d) ==
  /\ req[h].step = "idle"
  /\ intents[i] = None
  /\ OwnedDraft(d, p)
  /\ Ready(drafts[d])
  /\ req' = [req EXCEPT ![h] = [step |-> "submit", principal |-> p, intent |-> i,
                                draft |-> d, row |-> drafts[d]]]
  /\ UNCHANGED <<drafts, intents, trips, revisions, runs, aborts, redeliveries, swap>>

(* INSERT of the intent: a second INSERT of the same id raises               *)
(* GenerationIntentConflictError.  The thread that inserted goes on to run   *)
(* the intent: InlineGenerationExecutor calls the handler directly.          *)
InsertIntent(h) ==
  /\ req[h].step = "submit"
  /\ LET i == req[h].intent IN
       IF intents[i] = None
       THEN /\ intents' = [intents EXCEPT
                 ![i] = NewIntent(req[h].principal, req[h].draft, req[h].row, None, None)]
            /\ req' = [req EXCEPT ![h] = [step |-> "execute", intent |-> i]]
       ELSE /\ req' = [req EXCEPT ![h] = Idle]
            /\ UNCHANGED intents
  /\ UNCHANGED <<drafts, trips, revisions, runs, aborts, redeliveries, swap>>

(* A request that finds its intent stored is answered from the row and, its  *)
(* status whatever it is, nothing is executed.                               *)
Resend(h, i) ==
  /\ ClientsResend
  /\ req[h].step = "idle"
  /\ intents[i] # None
  /\ req' = [req EXCEPT ![h] = [step |-> "answer", intent |-> i]]
  /\ UNCHANGED <<drafts, intents, trips, revisions, runs, aborts, redeliveries, swap>>

Answer(h) ==
  /\ req[h].step = "answer"
  /\ req' = [req EXCEPT ![h] = Idle]
  /\ UNCHANGED <<drafts, intents, trips, revisions, runs, aborts, redeliveries, swap>>

(* The draft the base revision was generated from, as it is stored NOW.      *)
SourceDraft(b) == intents[revisions[b].intent].draft

BeginReplaceAttraction(h, p, i, t, b) ==
  /\ req[h].step = "idle"
  /\ intents[i] = None
  /\ trips[t] # None /\ trips[t].principal = p
  /\ revisions[b] # None /\ revisions[b].trip = t
  /\ trips[t].current = b
  /\ intents[revisions[b].intent] # None
  /\ OwnedDraft(SourceDraft(b), p)
  /\ \E w \in Swap :
       LET source == drafts[SourceDraft(b)] IN
       /\ w.old \in source.content.selection
       /\ w.new \notin source.content.selection
       /\ req' = [req EXCEPT ![h] = [step |-> "replace", principal |-> p, intent |-> i,
                                     target |-> t, base |-> b,
                                     row |-> CloneWithReplacement(source, w), swap |-> w]]
  /\ UNCHANGED <<drafts, intents, trips, revisions, runs, aborts, redeliveries, swap>>

(* INSERT of the cloned draft (a fresh id) and of the intent, one commit.    *)
InsertReplacement(h) ==
  /\ req[h].step = "replace"
  /\ LET i == req[h].intent IN
       IF intents[i] = None
       THEN /\ \E d \in DraftIds :
                 /\ drafts[d] = None
                 /\ drafts' = [drafts EXCEPT ![d] = req[h].row]
                 /\ intents' = [intents EXCEPT
                      ![i] = NewIntent(req[h].principal, d, req[h].row,
                                       req[h].target, req[h].base)]
            /\ swap' = [swap EXCEPT ![i] = req[h].swap]
            /\ req' = [req EXCEPT ![h] = [step |-> "execute", intent |-> i]]
       ELSE /\ req' = [req EXCEPT ![h] = Idle]
            /\ UNCHANGED <<drafts, intents, swap>>
  /\ UNCHANGED <<trips, revisions, runs, aborts, redeliveries>>

-------------------------------------------------------------------------------
(* Executing: claim, solve outside any transaction, store the outcome.       *)

ClaimableRetryOnly == {"failed_retryable"}                              \* mutant
ClaimableFinal == {"queued", "failed_retryable", "failed_terminal"}     \* mutant
Claimable == {"queued", "failed_retryable"}

(* Another call of ExecuteGenerationHandler.handle for a stored intent: the  *)
(* inline executor never makes one, the handler is written to withstand it.  *)
Redeliver(h, i) ==
  /\ req[h].step = "idle"
  /\ intents[i] # None
  /\ redeliveries < MaxRedeliveries
  /\ req' = [req EXCEPT ![h] = [step |-> "execute", intent |-> i]]
  /\ redeliveries' = redeliveries + 1
  /\ UNCHANGED <<drafts, intents, trips, revisions, runs, aborts, swap>>

(* handle() reads the intent: a completed one is replayed, a running or      *)
(* terminally failed one raises InvalidStateTransitionError.                 *)
BeginExecute(h) ==
  /\ req[h].step = "execute"
  /\ LET i == req[h].intent IN
       req' = [req EXCEPT ![h] = IF intents[i].status \in Claimable
                                 THEN [step |-> "claim", intent |-> i,
                                       expected |-> intents[i].status]
                                 ELSE Idle]
  /\ UNCHANGED <<drafts, intents, trips, revisions, runs, aborts, redeliveries, swap>>

InAnyStatus(i, status) == intents[i] # None     \* mutant: no status in the WHERE
InStatus(i, status) == intents[i].status = status

(* UPDATE ... WHERE status = expected.  The other columns it writes are the  *)
(* ones it read, which only a running intent changes.                        *)
Claim(h) ==
  /\ req[h].step = "claim"
  /\ LET i == req[h].intent IN
       IF InStatus(i, req[h].expected)
       THEN /\ intents' = [intents EXCEPT ![i].status = "running", ![i].failure = "none"]
            /\ req' = [req EXCEPT ![h] = [step |-> "solve", intent |-> i]]
       ELSE /\ req' = [req EXCEPT ![h] = Idle]
            /\ UNCHANGED intents
  /\ UNCHANGED <<drafts, trips, revisions, runs, aborts, redeliveries, swap>>

Running(i) == InStatus(i, "running")

(* The storing transaction goes through only for a running intent without a  *)
(* run: UNIQUE(generation_intent_id) of solver_runs, and every UPDATE of the *)
(* intent asks for status running.  Otherwise it is rolled back.             *)
CanStore(i) == Running(i) /\ runs[i] = "none"

Fail(i, status, code) ==
  intents' = [intents EXCEPT ![i].status = status, ![i].failure = code]

(* solve() raises SolverExecutionError: _record_failure, in a transaction of *)
(* its own, and no solver run is stored.                                     *)
SolveRaises(h) ==
  /\ req[h].step = "solve"
  /\ \E status \in {"failed_retryable", "failed_terminal"} :
       IF Running(req[h].intent)
       THEN Fail(req[h].intent, status, "solver_error")
       ELSE UNCHANGED intents
  /\ req' = [req EXCEPT ![h] = Idle]
  /\ UNCHANGED <<drafts, trips, revisions, runs, aborts, redeliveries, swap>>

(* solve() returns, with the quality gate passed or failed.                  *)
SolveReturns(h) ==
  /\ req[h].step = "solve"
  /\ \E outcome \in {"store", "gate_failed"} :
       req' = [req EXCEPT ![h] = [step |-> outcome, intent |-> req[h].intent]]
  /\ UNCHANGED <<drafts, intents, trips, revisions, runs, aborts, redeliveries, swap>>

(* A gate failure keeps the run and ends the intent.                         *)
StoreGateFailure(h) ==
  /\ req[h].step = "gate_failed"
  /\ LET i == req[h].intent IN
       IF CanStore(i)
       THEN /\ runs' = [runs EXCEPT ![i] = "failed"]
            /\ Fail(i, "failed_terminal", "quality_gate_failed")
       ELSE UNCHANGED <<runs, intents>>
  /\ req' = [req EXCEPT ![h] = Idle]
  /\ UNCHANGED <<drafts, trips, revisions, aborts, redeliveries, swap>>

RevisionConflict_Retryable(i) ==      \* mutant: reported as a retryable failure
  /\ runs' = [runs EXCEPT ![i] = "completed"]
  /\ Fail(i, "failed_retryable", "trip_revision_conflict")
  /\ UNCHANGED <<trips, revisions>>

RevisionConflict_Restore(i) ==        \* mutant: the base is put back as current
  /\ runs' = [runs EXCEPT ![i] = "completed"]
  /\ Fail(i, "failed_terminal", "trip_revision_conflict")
  /\ trips' = [trips EXCEPT ![intents[i].target].current = intents[i].base]
  /\ UNCHANGED revisions

(* The outcome of a publication that lost its trip: the run is kept, the     *)
(* intent ends as trip_revision_conflict.                                    *)
RevisionConflict(i) ==
  /\ runs' = [runs EXCEPT ![i] = "completed"]
  /\ Fail(i, "failed_terminal", "trip_revision_conflict")
  /\ UNCHANGED <<trips, revisions>>

UniqueNumberOnly(i, t, number) ==     \* mutant: UNIQUE(revision_number)
  \A r \in RevisionIds : revisions[r] # None => revisions[r].number # number

(* UNIQUE(trip_id, revision_number) and UNIQUE(generation_intent_id).        *)
UniqueRevision(i, t, number) ==
  \A r \in RevisionIds :
    revisions[r] # None =>
      /\ revisions[r].intent # i
      /\ ~(revisions[r].trip = t /\ revisions[r].number = number)

(* The solver run, the revision, the trip's pointer and the intent, in one   *)
(* commit.                                                                   *)
Publish(i, t, r, number, tripRow) ==
  /\ runs' = [runs EXCEPT ![i] = "completed"]
  /\ revisions' = [revisions EXCEPT ![r] = [trip |-> t, number |-> number, intent |-> i]]
  /\ trips' = [trips EXCEPT ![t] = tripRow]
  /\ intents' = [intents EXCEPT ![i].status = "completed", ![i].failure = "none",
                                ![i].trip = t, ![i].revision = r]

(* An intent without a target opens a trip, at revision 1.                   *)
PublishNewTrip(h) ==
  /\ req[h].step = "store"
  /\ LET i == req[h].intent IN
       /\ intents[i].target = None
       /\ IF CanStore(i) /\ UniqueRevision(i, None, 1)
          THEN \E t \in TripIds, r \in RevisionIds :
                 /\ trips[t] = None /\ revisions[r] = None
                 /\ Publish(i, t, r, 1, [principal |-> intents[i].principal,
                                         draft |-> intents[i].draft, current |-> r])
          ELSE UNCHANGED <<runs, revisions, trips, intents>>
  /\ req' = [req EXCEPT ![h] = Idle]
  /\ UNCHANGED <<drafts, aborts, redeliveries, swap>>

(* An intent with a target first reads the trip: a pointer that has already  *)
(* left the base ends the intent at once.                                    *)
ReadTarget(h) ==
  /\ req[h].step = "store"
  /\ LET i == req[h].intent IN
       /\ intents[i].target # None
       /\ IF CanStore(i) /\ trips[intents[i].target].current = intents[i].base
          THEN /\ req' = [req EXCEPT ![h] = [step |-> "publish", intent |-> i]]
               /\ UNCHANGED <<runs, revisions, trips, intents>>
          ELSE /\ req' = [req EXCEPT ![h] = Idle]
               /\ IF CanStore(i) THEN RevisionConflict(i)
                                 ELSE UNCHANGED <<runs, revisions, trips, intents>>
  /\ UNCHANGED <<drafts, aborts, redeliveries, swap>>

NextNumber(b) == revisions[b].number + 1

(* ... then moves it by UPDATE trips WHERE current_revision_id = base.       *)
PublishRevision(h) ==
  /\ req[h].step = "publish"
  /\ LET i == req[h].intent
         t == intents[i].target
         b == intents[i].base IN
       IF CanStore(i) /\ trips[t].current # b
       THEN RevisionConflict(i)
       ELSE IF CanStore(i) /\ UniqueRevision(i, t, NextNumber(b))
            THEN \E r \in RevisionIds :
                   /\ revisions[r] = None
                   /\ Publish(i, t, r, NextNumber(b), [trips[t] EXCEPT !.current = r])
            ELSE UNCHANGED <<runs, revisions, trips, intents>>
  /\ req' = [req EXCEPT ![h] = Idle]
  /\ UNCHANGED <<drafts, aborts, redeliveries, swap>>

(* A request dies between two of its transactions: the process is killed, or *)
(* an exception leaves the handler.  What it held is gone; what it committed *)
(* stays.                                                                    *)
Abort(h) ==
  /\ req[h].step # "idle"
  /\ aborts < MaxAborts
  /\ req' = [req EXCEPT ![h] = Idle]
  /\ aborts' = aborts + 1
  /\ UNCHANGED <<drafts, intents, trips, revisions, runs, redeliveries, swap>>

-------------------------------------------------------------------------------
Execution(h) ==
  \/ BeginExecute(h) \/ Claim(h)
  \/ SolveRaises(h) \/ SolveReturns(h) \/ StoreGateFailure(h)
  \/ PublishNewTrip(h) \/ ReadTarget(h) \/ PublishRevision(h)

(* The steps a request takes on its own once it has begun.                   *)
Continue(h) ==
  SaveEdit(h) \/ InsertIntent(h) \/ InsertReplacement(h) \/ Answer(h) \/ Execution(h)

Call(h) ==
  \/ \E p \in Principals, d \in DraftIds :
       \/ BeginUpdateTravelFacts(h, p, d)
       \/ BeginReplaceSelection(h, p, d)
       \/ \E i \in IntentIds : BeginSubmit(h, p, i, d)
  \/ \E p \in Principals, i \in IntentIds, t \in TripIds, b \in RevisionIds :
       BeginReplaceAttraction(h, p, i, t, b)
  \/ \E i \in IntentIds : Resend(h, i) \/ Redeliver(h, i)

Next ==
  \/ \E p \in Principals : CreateDraft(p)
  \/ \E h \in Threads : Call(h) \/ Continue(h) \/ Abort(h)

Spec == Init /\ [][Next]_vars

(* A request thread is scheduled until its request is answered: the solver   *)
(* is a bounded search and every database call has a timeout.                *)
FairSpec == Spec /\ \A h \in Threads : WF_vars(Continue(h))

-------------------------------------------------------------------------------
(* What the core promises.                                                   *)

Stored(i) == intents[i] # None
Status(i) == IF Stored(i) THEN intents[i].status ELSE "absent"
Revisions(t) == {r \in RevisionIds : revisions[r] # None /\ revisions[r].trip = t}

(* A generation is reproducible from (draft_id, draft_version): no two       *)
(* intents of one draft version carry different inputs, and a draft still at *)
(* the version an intent names still has the intent's input.  A lost update  *)
(* between a read and a save of a draft would break it.                      *)
VersionFixesInput ==
  \A i \in IntentIds : Stored(i) =>
    LET d == drafts[intents[i].draft] IN
    /\ d # None
    /\ intents[i].version <= d.version
    /\ intents[i].version = d.version => intents[i].input = d.content
    /\ \A j \in IntentIds :
         /\ Stored(j)
         /\ intents[j].draft = intents[i].draft
         /\ intents[j].version = intents[i].version
         => intents[j].input = intents[i].input

(* Only the thread whose conditional UPDATE claimed an intent runs the       *)
(* solver for it, and it does so while the intent is running.                *)
Solving(h, i) ==
  req[h].step \in {"solve", "store", "gate_failed", "publish"} /\ req[h].intent = i

OneSolverPerIntent ==
  \A h, g \in Threads, i \in IntentIds :
    Solving(h, i) => Running(i) /\ (Solving(g, i) => g = h)

(* The four tables of the completing transaction never disagree: an intent   *)
(* is completed exactly when it names a revision, that revision names it     *)
(* back, and its one solver run passed the gate; a run is there only for an  *)
(* intent that is over, so a retry never meets the UNIQUE key of a run.      *)
OutcomeIsWhole ==
  /\ \A i \in IntentIds : Stored(i) =>
       /\ intents[i].status = "completed" <=> intents[i].revision # None
       /\ intents[i].status = "completed" =>
            /\ runs[i] = "completed"
            /\ revisions[intents[i].revision] # None
            /\ revisions[intents[i].revision].intent = i
            /\ revisions[intents[i].revision].trip = intents[i].trip
       /\ runs[i] # "none" => \/ intents[i].status = "completed"
                              \/ /\ intents[i].status = "failed_terminal"
                                 /\ intents[i].failure # "solver_error"
  /\ \A i \in IntentIds : ~Stored(i) => runs[i] = "none"
  /\ \A r \in RevisionIds : revisions[r] # None =>
       Stored(revisions[r].intent) /\ intents[revisions[r].intent].revision = r

(* A trip's revisions form one chain: numbered 1 to n without gap or         *)
(* duplicate, each but the first made from the one before it, the trip's     *)
(* pointer on the last.  get_trip and list_trips raise when it is broken.    *)
TripHistoryIsLinear ==
  \A t \in TripIds :
    IF trips[t] = None THEN Revisions(t) = {}
    ELSE /\ trips[t].current \in Revisions(t)
         /\ \A r \in Revisions(t) :
              /\ revisions[r].number <= revisions[trips[t].current].number
              /\ \A s \in Revisions(t) : revisions[r].number = revisions[s].number => r = s
              /\ LET i == revisions[r].intent IN
                 IF revisions[r].number = 1
                 THEN intents[i].target = None
                 ELSE /\ intents[i].target = t
                      /\ intents[i].base \in Revisions(t)
                      /\ revisions[intents[i].base].number + 1 = revisions[r].number

(* A conflict reported to the client is a real one: the trip has moved past  *)
(* the base and never comes back to it.                                      *)
ConflictsAreReal ==
  \A i \in IntentIds :
    Stored(i) /\ intents[i].failure = "trip_revision_conflict" =>
      /\ intents[i].target # None
      /\ trips[intents[i].target].current # intents[i].base
      /\ intents[i].revision = None

(* Whatever draft, trip and revision an intent touches belong to the         *)
(* principal who submitted it.                                               *)
OneOwner ==
  /\ \A i \in IntentIds : Stored(i) =>
       /\ drafts[intents[i].draft].owner = intents[i].principal
       /\ intents[i].target # None =>
            trips[intents[i].target].principal = intents[i].principal
  /\ \A r \in RevisionIds : revisions[r] # None =>
       trips[revisions[r].trip].principal = intents[revisions[r].intent].principal

(* History is never rewritten: no step changes or removes a revision or a    *)
(* run, or takes an intent out of a final status; the input, version and     *)
(* base an intent was created with never change, retries included.           *)
Final == {"completed", "failed_terminal"}
Binding(i) == <<intents[i].principal, intents[i].draft, intents[i].version,
                intents[i].input, intents[i].target, intents[i].base>>

HistoryStep ==
  /\ \A r \in RevisionIds : revisions[r] # None => revisions'[r] = revisions[r]
  /\ \A i \in IntentIds : runs[i] # "none" => runs'[i] = runs[i]
  /\ \A i \in IntentIds : Stored(i) =>
       /\ intents'[i] # None
       /\ Binding(i)' = Binding(i)
       /\ intents[i].status \in Final => intents'[i] = intents[i]

HistoryIsKept == [][HistoryStep]_vars

(* Every claimed intent comes to an outcome, as long as no request dies.     *)
Settled == {"completed", "failed_retryable", "failed_terminal"}
ClaimedIntentsSettle ==
  \A i \in IntentIds : (Status(i) = "running") ~> (Status(i) \in Settled)

(* Every stored intent is taken up, as long as no request dies.              *)
SubmittedIntentsSettle ==
  \A i \in IntentIds : Stored(i) ~> (Status(i) \in Settled)

-------------------------------------------------------------------------------
(* What a document says and the code does not do; a run refutes it.          *)

(* docs/specs/api-contract.md:790: a replacement copies the base revision's  *)
(* input and changes one attraction of it, nothing else.                     *)
ReplacementChangesOneAttraction ==
  \A i \in IntentIds : Stored(i) /\ intents[i].base # None =>
    LET base == intents[revisions[intents[i].base].intent].input
        w == swap[i] IN
    intents[i].input = [base EXCEPT !.selection = (@ \ {w.old}) \cup {w.new}]

-------------------------------------------------------------------------------
(* Refinement: the core implements RevisionChain.  A queued, running or      *)
(* retryable generation is open; a trip's head is the generation of its      *)
(* current revision.                                                         *)
Outcome(i) ==
  IF ~Stored(i) THEN "absent"
  ELSE IF intents[i].status = "completed" THEN "published"
  ELSE IF intents[i].status = "failed_terminal" THEN "rejected"
  ELSE "open"

Parent(i) ==
  IF ~Stored(i) THEN None
  ELSE IF intents[i].base = None THEN None
  ELSE revisions[intents[i].base].intent

HeadOf(t) == IF trips[t] = None THEN None ELSE revisions[trips[t].current].intent

Chain == INSTANCE RevisionChain WITH
           Generations <- IntentIds,
           outcome <- [i \in IntentIds |-> Outcome(i)],
           parent <- [i \in IntentIds |-> Parent(i)],
           head <- [t \in TripIds |-> HeadOf(t)]

(* Handlers, retries and conflicting requests together do no more than       *)
(* RevisionChain allows.                                                     *)
ImplementsChain == Chain!Spec
===============================================================================
