------------------------------ MODULE PlaceReview -------------------------------
(***************************************************************************)
(* PlaceReviewWorkflowService: editors change a candidate revision and its *)
(* evidence, reviewers verify evidence and decide about the revision, over *)
(* READ COMMITTED.  A thread carries one request: it reads, and a later    *)
(* step writes what the request asks for, under the conditions its UPDATE  *)
(* statements name.                                                        *)
(*                                                                         *)
(* Permissions, reasons and the audit rows with their operation intents    *)
(* are left out: a repeated intent changes nothing, and AdminIdentity      *)
(* models them.  A revision's facts are what the two gates read of them.   *)
(* Evidence is known by its kind and a number; of a closure the number is  *)
(* the weekday, of a date exception the date: the unique keys of those two *)
(* tables also count retired rows, and an update keeps the number.  A      *)
(* geometry always has the revision's kind, a time rule is a session.      *)
(***************************************************************************)
EXTENDS PublicationGate, FiniteSetsExt, Functions, TLC

CONSTANTS
  Revs, Place, Sources, Numbers, RelationIds, Threads, None,
  MaxVersion,        (* bound: version of a revision                         *)
  Tasks,             (* review task ids, numbers in the order of created_at  *)
  MaxTaskVersion     (* bound                                                *)

VARIABLES
  revs,        (* place_revisions with their evidence, or None               *)
  relations,   (* place_relations of the place                               *)
  tasks,       (* place_review_tasks, or None                                *)
  decisions,   (* place_review_decisions; version: the task's when decided   *)
  req          (* the request of each thread                                 *)

reviewVars == <<revs, relations, tasks, decisions, req>>

OpenStatuses == {"ready_for_review", "changes_requested"}
TaskStatuses == OpenStatuses \cup {"approved", "closed"}
EvidenceStatuses == {"candidate", "human_verified", "rejected"}
Lifecycles == {"candidate", "human_verified", "published", "retired"}

Item == [kind : AllKinds, n : Numbers, active : BOOLEAN, status : EvidenceStatuses,
         source : Sources, fits : {TRUE}]
RevisionRow ==
  [number : Nat \ {0}, version : Nat \ {0}, place : {Place},
   status : Lifecycles, eligible : BOOLEAN, show : BOOLEAN, open : BOOLEAN,
   flagged : BOOLEAN, pointOnly : BOOLEAN, supported : BOOLEAN, sources : SUBSET Sources,
   resolved : BOOLEAN, relationReview : {"pending", "no_relations", "not_required"},
   items : SUBSET Item]
TaskRow == [rev : Revs, status : TaskStatuses, version : Nat \ {0}]
Kinds == {"approve", "request_changes", "cancel"}
DecisionRow == [task : Tasks, rev : Revs, kind : Kinds, version : Nat \ {0}]
RelationRow == [ends : SUBSET ActivePlaces, active : BOOLEAN, overlap : BOOLEAN,
                resolution : {"pending", "resolved", "not_required"},
                status : EvidenceStatuses \cup {"pending"}, source : Sources]

(* What an edit does: columns it sets, evidence it writes, sources it adds or *)
(* takes away, a relation it resolves, and how often it counts the version.   *)
NoColumn == [f \in {} |-> FALSE]
NoChange == [columns |-> NoColumn, put |-> {}, attach |-> {}, detach |-> {},
             relation |-> None, to |-> "pending", bumps |-> 1]
Idle == [at |-> "idle"]
Active == {r \in Revs : revs[r] # None}

ASSUME ReviewAssumption ==
  /\ MaxVersion \in Nat /\ MaxTaskVersion \in Nat
  /\ None \notin RevisionRow \cup TaskRow \cup Revs \cup Tasks \cup RelationIds
  /\ IsFiniteSet(Numbers)

(* Every row is one the code can write, and only approved revisions are       *)
(* eligible for planning.                                                     *)
ReviewTypeOK ==
  /\ revs \in [Revs -> RevisionRow \cup {None}]
  /\ \A r \in Active : revs[r].eligible => revs[r].status \in {"human_verified", "published"}
  /\ \A r \in Active, q \in Active : revs[r].number = revs[q].number => r = q
  /\ relations \in [RelationIds -> RelationRow]
  /\ tasks \in [Tasks -> TaskRow \cup {None}]
  /\ decisions \subseteq DecisionRow

(* Revisions are imported as candidates, each with its number, and reviewed.  *)
ReviewInit ==
  /\ revs \in [Revs -> RevisionRow \cup {None}]
  /\ \A r \in Active : revs[r].status = "candidate" /\ ~ revs[r].eligible
  /\ \A r \in Active, q \in Active : revs[r].number = revs[q].number => r = q
  /\ relations \in [RelationIds -> RelationRow]
  /\ tasks = [t \in Tasks |-> None]
  /\ decisions = {}
  /\ req = [h \in Threads |-> Idle]

Rels == Range(relations)
Candidate(r) == r \in Active /\ revs[r].status = "candidate"
RowsOf(c, kind, n) == {i \in c.items : i.kind = kind /\ i.n = n}
ById(c, i) == RowsOf(c, i.kind, i.n)

OpenTasks(r) == {t \in Tasks : tasks[t] # None /\ tasks[t].rev = r
                                 /\ tasks[t].status \in OpenStatuses}
(* get_open_task_for_revision: the newest, if there are several.              *)
IsOpenTask(r, t) ==
  IF OpenTasks(r) = {} THEN t = None
  ELSE t \in OpenTasks(r) /\ \A u \in OpenTasks(r) : u <= t

-------------------------------------------------------------------------------
(* Every edit reads the candidate and its version first (_mutate_evidence),   *)
Begin(h, r, change) ==
  /\ req[h] = Idle
  /\ revs[r].version + change.bumps <= MaxVersion
  /\ req' = [req EXCEPT ![h] = [at |-> "edit", rev |-> r, version |-> revs[r].version,
                                change |-> change]]
  /\ UNCHANGED <<revs, relations, tasks, decisions>>

NewItem(kind, n, s) ==
  [kind |-> kind, n |-> n, active |-> TRUE, status |-> "candidate", source |-> s, fits |-> TRUE]

Create(h, r, kind, n, s, columns) ==
  /\ Candidate(r)
  /\ RowsOf(revs[r], kind, n) = {}
  /\ Begin(h, r, [NoChange EXCEPT !.put = {NewItem(kind, n, s)}, !.columns = columns])

(* An update makes the row active again, with its review undone.              *)
Update(h, r, kind, n, s, columns) ==
  /\ Candidate(r)
  /\ RowsOf(revs[r], kind, n) # {}
  /\ Begin(h, r, [NoChange EXCEPT !.put = {NewItem(kind, n, s)}, !.columns = columns])

Retire(h, r, kind, n) ==
  /\ Candidate(r)
  /\ \E i \in RowsOf(revs[r], kind, n) :
       Begin(h, r, [NoChange EXCEPT !.put = {[i EXCEPT !.active = FALSE, !.status = "rejected"]}])

NoFlag == [pointOnly |-> FALSE]
CreateGeometry(h, r, n, s) == Create(h, r, "geometry", n, s, NoFlag)
UpdateGeometry(h, r, n, s) == Update(h, r, "geometry", n, s, NoFlag)
RetireGeometry(h, r, n) == Retire(h, r, "geometry", n)
CreateAccessPoint(h, r, n, s) == Create(h, r, "access_point", n, s, NoColumn)
UpdateAccessPoint(h, r, n, s) == Update(h, r, "access_point", n, s, NoColumn)
RetireAccessPoint(h, r, n) == Retire(h, r, "access_point", n)
CreateTimeRule(h, r, n, s) == Create(h, r, "time_rule", n, s, NoColumn)
UpdateTimeRule(h, r, n, s) == Update(h, r, "time_rule", n, s, NoColumn)
RetireTimeRule(h, r, n) == Retire(h, r, "time_rule", n)
CreateClosure(h, r, n, s) == Create(h, r, "closure", n, s, NoColumn)
UpdateClosure(h, r, n, s) == Update(h, r, "closure", n, s, NoColumn)
RetireClosure(h, r, n) == Retire(h, r, "closure", n)
CreateDateException(h, r, n, s) == Create(h, r, "date_exception", n, s, NoColumn)
UpdateDateException(h, r, n, s) == Update(h, r, "date_exception", n, s, NoColumn)
RetireDateException(h, r, n) == Retire(h, r, "date_exception", n)

(* An exception for every holiday that has no active one; a retired row of    *)
(* one of those dates makes the insert, and so the whole request, fail.       *)
GenerateHolidayExceptions(h, r, s) ==
  /\ Candidate(r)
  /\ Of(revs[r], {"closure"}) # {}
  /\ LET days == Numbers \ {i.n : i \in Of(revs[r], {"date_exception"})} IN
     /\ days # {}
     /\ \A n \in days : RowsOf(revs[r], "date_exception", n) = {}
     /\ Begin(h, r, [NoChange EXCEPT !.put = {NewItem("date_exception", n, s) : n \in days},
                                     !.bumps = Cardinality(days)])

(* update_revision: facts are entered, what was decided about them is undone. *)
UpdateRevision(h, r, open) ==
  /\ Candidate(r)
  /\ Begin(h, r, [NoChange EXCEPT !.columns =
       [open |-> open, flagged |-> FALSE, relationReview |-> "pending"]])

CreateSourceRecord(h, r, s) ==
  /\ Candidate(r)
  /\ s \notin revs[r].sources
  /\ Begin(h, r, [NoChange EXCEPT !.attach = {s}])

(* source_record_references: active evidence and relations that cite it.      *)
References(c, s) ==
  {i \in c.items : i.active /\ i.source = s} \cup {x \in Rels : x.active /\ x.source = s}

DetachSourceRecord(h, r, s) ==
  /\ Candidate(r)
  /\ s \in revs[r].sources
  /\ References(revs[r], s) = {}
  /\ Begin(h, r, [NoChange EXCEPT !.detach = {s}])

ResolveSourceConflicts(h, r, resolved) ==
  /\ Candidate(r)
  /\ Begin(h, r, [NoChange EXCEPT !.columns = [resolved |-> resolved]])

ConfirmNoRelations(h, r) ==
  /\ Candidate(r)
  /\ Live(Rels) = {}
  /\ Begin(h, r, [NoChange EXCEPT !.columns = [relationReview |-> "no_relations"]])

ResolveRelation(h, r, x, to) ==
  /\ Candidate(r)
  /\ relations[x].active
  /\ Begin(h, r, [NoChange EXCEPT !.relation = x, !.to = to])

-------------------------------------------------------------------------------
AtVersion_Any(q) ==                     \* mutant: the UPDATE names no version
  revs[q.rev].status = "candidate"
AtVersion_AnyStatus(q) ==               \* mutant: the UPDATE names no status
  revs[q.rev].version = q.version
AtVersion(q) == revs[q.rev].status = "candidate" /\ revs[q.rev].version = q.version

Edited(c, change) ==
  LET set(column, old) ==
        IF column \in DOMAIN change.columns THEN change.columns[column] ELSE old IN
  [c EXCEPT !.version = @ + change.bumps,
            !.open = set("open", @), !.flagged = set("flagged", @),
            !.pointOnly = set("pointOnly", @), !.relationReview = set("relationReview", @),
            !.eligible = FALSE, !.resolved = set("resolved", FALSE),
            !.sources = (@ \cup change.attach) \ change.detach,
            !.items = {i \in @ : \A j \in change.put : <<i.kind, i.n>> # <<j.kind, j.n>>}
                        \cup change.put]

(* ... and writes under the version it was asked to change.                   *)
SaveEdit(h) ==
  LET q == req[h] IN
  /\ q.at = "edit"
  /\ IF AtVersion(q)
     THEN /\ revs' = [revs EXCEPT ![q.rev] = Edited(@, q.change)]
          /\ relations' = IF q.change.relation = None THEN relations
               ELSE [relations EXCEPT ![q.change.relation].resolution = q.change.to,
                                      ![q.change.relation].status = "pending"]
     ELSE UNCHANGED <<revs, relations>>
  /\ req' = [req EXCEPT ![h] = Idle]
  /\ UNCHANGED <<tasks, decisions>>

(* review_evidence names no version: a verdict on whatever the row holds when *)
(* it is written, provided that it is still active.                           *)
ReviewEvidence(h, r, i, to) ==
  /\ req[h] = Idle
  /\ Candidate(r)
  /\ OpenTasks(r) # {}
  /\ i \in revs[r].items /\ i.active
  /\ req' = [req EXCEPT ![h] = [at |-> "evidence", rev |-> r, item |-> i, to |-> to]]
  /\ UNCHANGED <<revs, relations, tasks, decisions>>

SaveReview(h) ==
  LET q == req[h]
      found == {i \in ById(revs[q.rev], q.item) : i.active} IN
  /\ q.at = "evidence"
  /\ revs' = [revs EXCEPT ![q.rev].items =
                (@ \ found) \cup {[i EXCEPT !.status = q.to] : i \in found}]
  /\ req' = [req EXCEPT ![h] = Idle]
  /\ UNCHANGED <<relations, tasks, decisions>>

ReviewRelation(h, r, x, to) ==
  /\ req[h] = Idle
  /\ Candidate(r)
  /\ OpenTasks(r) # {}
  /\ relations[x].active
  /\ relations' = [relations EXCEPT ![x].status = to]
  /\ UNCHANGED <<revs, tasks, decisions, req>>

-------------------------------------------------------------------------------
(* submit: the newest open task is reopened or returned, else one is added.   *)
Submit(h, r) ==
  /\ req[h] = Idle
  /\ Candidate(r)
  /\ \E t \in Tasks \cup {None} :
       /\ IsOpenTask(r, t)
       /\ req' = [req EXCEPT ![h] = [at |-> "submit", rev |-> r, task |-> t,
                                     seen |-> IF t = None THEN None ELSE tasks[t]]]
  /\ UNCHANGED <<revs, relations, tasks, decisions>>

NextTask == {t \in Tasks : tasks[t] = None /\ \A u \in 1 .. t - 1 : tasks[u] # None}

Unmoved_Any(t, version) == TRUE         \* mutant: advance_task names no version
Unmoved(t, version) == tasks[t].version = version

Advance(t, version, status) ==
  /\ version < MaxTaskVersion
  /\ tasks' = [tasks EXCEPT ![t].status = status, ![t].version = version + 1]

SaveSubmit(h) ==
  LET q == req[h] IN
  /\ q.at = "submit"
  /\ IF q.task = None
     THEN \E t \in NextTask :
            tasks' = [tasks EXCEPT ![t] =
                        [rev |-> q.rev, status |-> "ready_for_review", version |-> 1]]
     ELSE IF q.seen.status = "changes_requested" /\ Unmoved(q.task, q.seen.version)
     THEN Advance(q.task, q.seen.version, "ready_for_review")
     ELSE UNCHANGED tasks
  /\ req' = [req EXCEPT ![h] = Idle]
  /\ UNCHANGED <<revs, relations, decisions>>

(* decide: an approval needs a candidate that passes the six checks now ...   *)
Decide(h, t, kind) ==
  /\ req[h] = Idle
  /\ tasks[t] # None
  /\ tasks[t].status \in OpenStatuses
  /\ IF kind = "approve"
     THEN Candidate(tasks[t].rev) /\ Ready(revs[tasks[t].rev], Rels)
     ELSE TRUE
  /\ req' = [req EXCEPT ![h] = [at |-> "decide", task |-> t, kind |-> kind,
                                version |-> tasks[t].version]]
  /\ UNCHANGED <<revs, relations, tasks, decisions>>

StillCandidate(r) == Candidate(r)

(* ... and a candidate still when it is written, whatever it has become.      *)
SaveDecide(h) ==
  LET q == req[h]
      r == tasks[q.task].rev
      next == CASE q.kind = "approve" -> "approved"
                [] q.kind = "request_changes" -> "changes_requested"
                [] q.kind = "cancel" -> "closed" IN
  /\ q.at = "decide"
  /\ IF Unmoved(q.task, q.version) /\ (q.kind # "approve" \/ StillCandidate(r))
     THEN /\ decisions' = decisions \cup
               {[task |-> q.task, rev |-> r, kind |-> q.kind, version |-> q.version]}
          /\ Advance(q.task, q.version, next)
          /\ revs' = IF q.kind # "approve" THEN revs
                     ELSE [revs EXCEPT ![r].status = "human_verified", ![r].eligible = TRUE]
     ELSE UNCHANGED <<revs, tasks, decisions>>
  /\ req' = [req EXCEPT ![h] = Idle]
  /\ UNCHANGED relations

NextNumbers ==                          \* one number: the highest and one
  {n \in {revs[r].number + 1 : r \in Active} : \A r \in Active : revs[r].number < n}

(* create_revision: a candidate with the active evidence of its base, all of  *)
(* it unverified; the unique number decides between two at once.              *)
CreateRevision(h, base) ==
  /\ req[h] = Idle
  /\ base \in Active
  /\ \E n \in NextNumbers :
       req' = [req EXCEPT ![h] =
         [at |-> "create",
          row |-> [revs[base] EXCEPT
            !.number = n, !.version = 1,
            !.status = "candidate", !.eligible = FALSE, !.resolved = FALSE,
            !.relationReview = "pending",
            !.items = {[i EXCEPT !.status = "candidate"] : i \in {j \in @ : j.active}}]]]
  /\ UNCHANGED <<revs, relations, tasks, decisions>>

NumberFree_Any(n) == TRUE               \* mutant: the number has no unique key
NumberFree(n) == \A r \in Active : revs[r].number # n

SaveRevision(h, r) ==
  /\ req[h].at = "create"
  /\ revs[r] = None
  /\ revs' = IF NumberFree(req[h].row.number)
             THEN [revs EXCEPT ![r] = req[h].row] ELSE revs
  /\ req' = [req EXCEPT ![h] = Idle]
  /\ UNCHANGED <<relations, tasks, decisions>>

(* The process dies before it commits.                                        *)
Abandon(h) ==
  /\ req[h] # Idle
  /\ req' = [req EXCEPT ![h] = Idle]
  /\ UNCHANGED <<revs, relations, tasks, decisions>>

EvidenceEdits(h, r, n) ==
  \/ \E s \in Sources :
       \/ CreateGeometry(h, r, n, s) \/ UpdateGeometry(h, r, n, s)
       \/ CreateAccessPoint(h, r, n, s) \/ UpdateAccessPoint(h, r, n, s)
       \/ CreateTimeRule(h, r, n, s) \/ UpdateTimeRule(h, r, n, s)
       \/ CreateClosure(h, r, n, s) \/ UpdateClosure(h, r, n, s)
       \/ CreateDateException(h, r, n, s) \/ UpdateDateException(h, r, n, s)
  \/ RetireGeometry(h, r, n) \/ RetireAccessPoint(h, r, n) \/ RetireTimeRule(h, r, n)
  \/ RetireClosure(h, r, n) \/ RetireDateException(h, r, n)

RevisionEdits(h, r) ==
  \/ \E s \in Sources : GenerateHolidayExceptions(h, r, s) \/ CreateSourceRecord(h, r, s)
                          \/ DetachSourceRecord(h, r, s)
  \/ \E b \in BOOLEAN : UpdateRevision(h, r, b) \/ ResolveSourceConflicts(h, r, b)
  \/ ConfirmNoRelations(h, r)
  \/ \E x \in RelationIds, to \in {"pending", "resolved", "not_required"} :
       ResolveRelation(h, r, x, to)

ReviewStep(h) ==
  \/ \E r \in Revs, n \in Numbers : EvidenceEdits(h, r, n)
  \/ \E r \in Revs : RevisionEdits(h, r)
  \/ \E r \in Active, to \in {"human_verified", "rejected"} :
       \/ \E i \in revs[r].items : ReviewEvidence(h, r, i, to)
       \/ \E x \in RelationIds : ReviewRelation(h, r, x, to)
  \/ \E r \in Revs : Submit(h, r) \/ CreateRevision(h, r) \/ SaveRevision(h, r)
  \/ \E t \in Tasks, kind \in Kinds : Decide(h, t, kind)
  \/ SaveEdit(h) \/ SaveReview(h) \/ SaveSubmit(h) \/ SaveDecide(h)
  \/ Abandon(h)

ReviewNext == \E h \in Threads : ReviewStep(h)

-------------------------------------------------------------------------------
(* What a reviewer approved is not edited afterwards, also not by an editor   *)
(* who began while it was a candidate: nothing changes of it but its life     *)
(* cycle and verdicts on its evidence.                                        *)
Facts(c) == [c EXCEPT !.status = "", !.eligible = FALSE,
                      !.items = {[i EXCEPT !.status = ""] : i \in c.items}]
ApprovedIsFrozen ==
  [][\A r \in Active : revs[r].status # "candidate" => Facts(revs'[r]) = Facts(revs[r])]_reviewVars

(* A revision is approved once, by one decision, however many tasks are open  *)
(* for it and whoever decides at the same time.                               *)
OneApproval ==
  \A r \in Active :
    Cardinality({d \in decisions : d.rev = r /\ d.kind = "approve"}) =
      (IF revs[r].status = "candidate" THEN 0 ELSE 1)

(* A decision moves its task: a task shows the decision that ended it.        *)
TaskShowsDecision(d, task) ==
  /\ d.version < task.version
  /\ d.kind # "request_changes" => d.version = task.version - 1
       /\ task.status = (IF d.kind = "approve" THEN "approved" ELSE "closed")

(* Every step of a task is one decision or one submission: no two decisions   *)
(* were made about the same version of it, and an ended task was ended by the *)
(* decision that it shows; so is a revision's approval.                       *)
DecidedOnce ==
  /\ OneApproval
  /\ \A d, e \in decisions : d.task = e.task /\ d.version = e.version => d = e
  /\ \A d \in decisions : TaskShowsDecision(d, tasks[d.task])

(* A source that active evidence cites is not taken from its revision, also   *)
(* when the evidence is written while the detaching request is under way.     *)
DetachedIsUncited ==
  [][\A r \in Active : \A s \in revs[r].sources \ revs'[r].sources :
       \A i \in revs'[r].items : i.active => i.source # s]_reviewVars
===============================================================================
