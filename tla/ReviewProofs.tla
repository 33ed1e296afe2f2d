------------------------------ MODULE ReviewProofs ------------------------------
(***************************************************************************)
(* Reviews of any number of revisions, by any number of requests at once   *)
(* and beside any number of publishers: an approval is decided once, what  *)
(* was approved is not edited, and a cited source is not taken away.       *)
(***************************************************************************)
EXTENDS PlacePublication, FiniteSetTheorems, TLAPS

-------------------------------------------------------------------------------
(* What a revision and a task may become.                                     *)
Uncited(c, s) == \A i \in c.items : i.active => i.source # s

RevisionKept(c, d) ==
  /\ d # None
  /\ c.version <= d.version
  /\ c.status # "candidate" => d.status # "candidate" /\ Facts(d) = Facts(c)
  /\ \A s \in c.sources \ d.sources : Uncited(d, s)
  /\ c.version = d.version => \A s \in Sources : Uncited(c, s) => Uncited(d, s)

TaskKept(t, u) ==
  /\ u # None
  /\ t.rev = u.rev
  /\ t.version <= u.version
  /\ t.version = u.version => t.status = u.status

RevsKept(rs, rt) == \A r \in Revs : rs[r] # None => RevisionKept(rs[r], rt[r])
TasksKept(ts, tt) == \A t \in Tasks : ts[t] # None => TaskKept(ts[t], tt[t])

(* What the requests under way rely on.                                       *)
There(rs, r) == r \in Revs /\ rs[r] # None
Judged(rs, r) == There(rs, r) /\ rs[r].status # "candidate"

ColumnsOK(columns) ==
  /\ "open" \in DOMAIN columns => columns["open"] \in BOOLEAN
  /\ "flagged" \in DOMAIN columns => columns["flagged"] \in BOOLEAN
  /\ "pointOnly" \in DOMAIN columns => columns["pointOnly"] \in BOOLEAN
  /\ "resolved" \in DOMAIN columns => columns["resolved"] \in BOOLEAN
  /\ "relationReview" \in DOMAIN columns =>
       columns["relationReview"] \in {"pending", "no_relations", "not_required"}

ChangeOK(change) ==
  /\ ColumnsOK(change.columns)
  /\ change.bumps \in Nat \ {0}
  /\ change.put \subseteq Item
  /\ change.attach \subseteq Sources
  /\ change.detach \subseteq Sources
  /\ change.detach # {} => change.put = {}

EditOK(q, rs) ==
  /\ There(rs, q.rev)
  /\ ChangeOK(q.change)
  /\ q.version \in Nat
  /\ q.version <= rs[q.rev].version
  /\ q.version = rs[q.rev].version => \A s \in q.change.detach : Uncited(rs[q.rev], s)

SubmitOK(q, rs, ts) ==
  /\ There(rs, q.rev)
  /\ q.task # None =>
       /\ q.task \in Tasks /\ ts[q.task] # None
       /\ q.seen.version \in Nat
       /\ q.seen.version <= ts[q.task].version
       /\ q.seen.version = ts[q.task].version => q.seen.status = ts[q.task].status

DecideOK(q, ts) ==
  /\ q.task \in Tasks /\ ts[q.task] # None
  /\ q.kind \in Kinds
  /\ q.version \in Nat
  /\ q.version <= ts[q.task].version
  /\ q.version = ts[q.task].version => ts[q.task].status \in OpenStatuses

RequestOK(q, rs, ts) ==
  /\ q.at = "edit" => EditOK(q, rs)
  /\ q.at = "evidence" => There(rs, q.rev) /\ q.to \in {"human_verified", "rejected"}
  /\ q.at = "submit" => SubmitOK(q, rs, ts)
  /\ q.at = "decide" => DecideOK(q, ts)
  /\ q.at = "create" => q.row \in RevisionRow /\ q.row.status = "candidate"

WrittenStatuses == {"human_verified", "published", "retired"}
PublisherOK(p, rs) ==
  p.at \in {"next", "load", "revisions", "projections", "own"} =>
    /\ DOMAIN p = {"at", "batch", "rev", "todo", "items", "found", "rows", "prows"}
    /\ \A r \in p.todo : There(rs, r)
    /\ \A r \in DOMAIN p.items : There(rs, r)
    /\ \A r \in DOMAIN p.rows : Judged(rs, r) /\ p.rows[r] \in WrittenStatuses
    /\ p.at # "next" => Judged(rs, p.rev)

BatchOK(b, rs) == b # None => \A r \in DOMAIN b.items : There(rs, r)

-------------------------------------------------------------------------------
(* The inductive invariant.                                                   *)
RowsOK ==
  /\ revs \in [Revs -> RevisionRow \cup {None}]
  /\ tasks \in [Tasks -> TaskRow \cup {None}]
  /\ decisions \subseteq DecisionRow
  /\ \A t \in Tasks : tasks[t] # None => There(revs, tasks[t].rev)

(* A revision's approval is the only one, and that of a candidate is to come. *)
ApprovalsOf(r) == {d \in decisions : d.rev = r /\ d.kind = "approve"}
Approvals ==
  \A r \in Active :
    IF revs[r].status = "candidate" THEN ApprovalsOf(r) = {}
    ELSE \E d \in decisions : ApprovalsOf(r) = {d}

Decisions ==
  /\ \A d, e \in decisions : d.task = e.task /\ d.version = e.version => d = e
  /\ \A d \in decisions :
       There(revs, d.rev) /\ tasks[d.task] # None /\ TaskShowsDecision(d, tasks[d.task])

RequestsOK == DOMAIN req = Threads /\ \A h \in Threads : RequestOK(req[h], revs, tasks)
PublishersOK ==
  /\ DOMAIN pub = Publishers /\ \A g \in Publishers : PublisherOK(pub[g], revs)
  /\ DOMAIN batches = BatchIds /\ \A b \in BatchIds : BatchOK(batches[b], revs)

ReviewInv == RowsOK /\ Approvals /\ Decisions /\ RequestsOK /\ PublishersOK

-------------------------------------------------------------------------------
(* Requests and publishers that a step leaves alone go on relying on the same. *)
LEMMA RequestStays ==
  ASSUME NEW q, NEW rs, NEW rt, NEW ts, NEW tt,
         \A r \in Revs : rs[r] # None => rs[r] \in RevisionRow,
         \A r \in Revs : rt[r] # None => rt[r] \in RevisionRow,
         \A t \in Tasks : ts[t] # None => ts[t] \in TaskRow,
         \A t \in Tasks : tt[t] # None => tt[t] \in TaskRow,
         RevsKept(rs, rt), TasksKept(ts, tt), RequestOK(q, rs, ts)
  PROVE  RequestOK(q, rt, tt)
<1>1. ASSUME NEW r, There(rs, r) PROVE There(rt, r) /\ RevisionKept(rs[r], rt[r])
  BY <1>1 DEF RevsKept, RevisionKept, There
<1>2. ASSUME q.at = "edit" PROVE EditOK(q, rt)
  <2>1. EditOK(q, rs)
    BY <1>2 DEF RequestOK
  <2>2. There(rt, q.rev) /\ RevisionKept(rs[q.rev], rt[q.rev])
    BY <1>1, <2>1 DEF EditOK
  <2>3. rs[q.rev].version \in Nat /\ rt[q.rev].version \in Nat
    BY <2>1, <2>2 DEF EditOK, There, RevisionRow
  <2>4. q.version <= rt[q.rev].version
    BY <2>1, <2>2, <2>3 DEF EditOK, RevisionKept
  <2>5. ASSUME q.version = rt[q.rev].version, NEW s \in q.change.detach
        PROVE  Uncited(rt[q.rev], s)
    <3>1. rs[q.rev].version = rt[q.rev].version /\ q.version = rs[q.rev].version
      BY <2>1, <2>2, <2>3, <2>5 DEF EditOK, RevisionKept
    <3>2. s \in Sources /\ Uncited(rs[q.rev], s)
      BY <2>1, <3>1, <2>5 DEF EditOK, ChangeOK
    <3> QED
      BY <2>2, <3>1, <3>2 DEF RevisionKept
  <2> QED
    BY <2>1, <2>2, <2>4, <2>5 DEF EditOK
<1>3. ASSUME NEW t \in Tasks, ts[t] # None
      PROVE  /\ tt[t] # None /\ TaskKept(ts[t], tt[t])
             /\ ts[t].version \in Nat /\ tt[t].version \in Nat
  BY <1>3 DEF TasksKept, TaskKept, TaskRow
<1>4. ASSUME q.at = "submit" PROVE SubmitOK(q, rt, tt)
  <2>1. SubmitOK(q, rs, ts)
    BY <1>4 DEF RequestOK
  <2> QED
    BY <2>1, <1>1, <1>3 DEF SubmitOK, TaskKept
<1>5. ASSUME q.at = "decide" PROVE DecideOK(q, tt)
  <2>1. DecideOK(q, ts)
    BY <1>5 DEF RequestOK
  <2> QED
    BY <2>1, <1>3 DEF DecideOK, TaskKept
<1> QED
  BY <1>1, <1>2, <1>4, <1>5 DEF RequestOK

LEMMA PublisherStays ==
  ASSUME NEW rs, NEW rt, RevsKept(rs, rt)
  PROVE  /\ \A p : PublisherOK(p, rs) => PublisherOK(p, rt)
         /\ \A b : BatchOK(b, rs) => BatchOK(b, rt)
<1>1. \A r : There(rs, r) => There(rt, r)
  BY DEF RevsKept, RevisionKept, There
<1>2. \A r : Judged(rs, r) => Judged(rt, r)
  BY DEF RevsKept, RevisionKept, There, Judged
<1> QED
  BY <1>1, <1>2 DEF PublisherOK, BatchOK

(* Nothing happens to rows that stay as they are.                             *)
LEMMA SameIsKept ==
  /\ \A c : c # None /\ c.version \in Nat => RevisionKept(c, c)
  /\ \A t : t # None /\ t.version \in Nat => TaskKept(t, t)
  BY DEF RevisionKept, TaskKept

LEMMA RowsStay ==
  ASSUME RowsOK
  PROVE  RevsKept(revs, revs) /\ TasksKept(tasks, tasks)
  BY SameIsKept DEF RowsOK, RevsKept, TasksKept, RevisionRow, TaskRow

-------------------------------------------------------------------------------
(* A step keeps the invariant if it keeps rows and decisions sound, and if    *)
(* what requests and publishers newly rely on is so.                          *)
LEMMA StepKeeps ==
  ASSUME ReviewInv, RowsOK', Approvals', Decisions',
         RevsKept(revs, revs'), TasksKept(tasks, tasks'),
         DOMAIN req' = Threads,
         \A h \in Threads : req'[h] = req[h] \/ RequestOK(req'[h], revs', tasks'),
         DOMAIN pub' = Publishers,
         \A g \in Publishers : pub'[g] = pub[g] \/ PublisherOK(pub'[g], revs'),
         DOMAIN batches' = BatchIds,
         \A b \in BatchIds : batches'[b] = batches[b] \/ BatchOK(batches'[b], revs')
  PROVE  ReviewInv'
<1>1. /\ \A r \in Revs : revs[r] # None => revs[r] \in RevisionRow
      /\ \A r \in Revs : revs'[r] # None => revs'[r] \in RevisionRow
      /\ \A t \in Tasks : tasks[t] # None => tasks[t] \in TaskRow
      /\ \A t \in Tasks : tasks'[t] # None => tasks'[t] \in TaskRow
  BY DEF ReviewInv, RowsOK
<1>2. ASSUME NEW h \in Threads PROVE RequestOK(req'[h], revs', tasks')
  <2>1. RequestOK(req[h], revs, tasks)
    BY DEF ReviewInv, RequestsOK
  <2>2. RequestOK(req[h], revs', tasks')
    BY <1>1, <2>1, RequestStays
  <2> QED
    BY <2>2
<1>3. /\ \A g \in Publishers : PublisherOK(pub'[g], revs')
      /\ \A b \in BatchIds : BatchOK(batches'[b], revs')
  BY PublisherStays DEF ReviewInv, PublishersOK
<1> QED
  BY <1>2, <1>3 DEF ReviewInv, RequestsOK, PublishersOK

(* A step that writes no row: the rows and decisions stay sound.              *)
LEMMA QuietRows ==
  ASSUME ReviewInv, UNCHANGED <<revs, tasks, decisions>>
  PROVE  /\ RowsOK' /\ Approvals' /\ Decisions'
         /\ RevsKept(revs, revs') /\ TasksKept(tasks, tasks')
<1>1. RowsOK' /\ Approvals' /\ Decisions'
  BY DEF ReviewInv, RowsOK, Approvals, ApprovalsOf, Active, Decisions
<1> QED
  BY <1>1, RowsStay DEF ReviewInv

(* A request that only asks or gives up.                                      *)
LEMMA Asks ==
  ASSUME ReviewInv, NEW h \in Threads, NEW q, RequestOK(q, revs, tasks),
         req' = [req EXCEPT ![h] = q], UNCHANGED <<revs, tasks, decisions, pub, batches>>
  PROVE  ReviewInv' /\ RevsKept(revs, revs')
<1>1. DOMAIN req' = Threads
  BY DEF ReviewInv, RequestsOK
<1>2. \A k \in Threads : req'[k] = req[k] \/ RequestOK(req'[k], revs', tasks')
  BY DEF ReviewInv, RequestsOK
<1>3. /\ DOMAIN pub' = Publishers /\ \A g \in Publishers : pub'[g] = pub[g]
      /\ DOMAIN batches' = BatchIds /\ \A b \in BatchIds : batches'[b] = batches[b]
  BY DEF ReviewInv, PublishersOK
<1> QED
  BY <1>1, <1>2, <1>3, QuietRows, StepKeeps

LEMMA IdleIsOK == \A rs, ts : RequestOK(Idle, rs, ts)
  BY DEF RequestOK, Idle

(* A publisher that only notes what it will write.                            *)
LEMMA Notes ==
  ASSUME ReviewInv, NEW g \in Publishers, NEW p, PublisherOK(p, revs),
         pub' = [pub EXCEPT ![g] = p], UNCHANGED <<revs, tasks, decisions, req, batches>>
  PROVE  ReviewInv' /\ RevsKept(revs, revs')
<1>1. DOMAIN pub' = Publishers
  BY DEF ReviewInv, PublishersOK
<1>2. \A k \in Publishers : pub'[k] = pub[k] \/ PublisherOK(pub'[k], revs')
  BY DEF ReviewInv, PublishersOK
<1>3. /\ DOMAIN req' = Threads /\ \A h \in Threads : req'[h] = req[h]
      /\ DOMAIN batches' = BatchIds /\ \A b \in BatchIds : batches'[b] = batches[b]
  BY DEF ReviewInv, PublishersOK, RequestsOK
<1> QED
  BY <1>1, <1>2, <1>3, QuietRows, StepKeeps

LEMMA RestingIsOK == \A rs : PublisherOK(Resting, rs)
  BY DEF PublisherOK, Resting

-------------------------------------------------------------------------------
(* The edits: each asks for a change that keeps a row a row.                  *)
LEMMA Begins ==
  ASSUME ReviewInv, NEW h \in Threads, NEW r, Candidate(r),
         NEW change, ChangeOK(change), Begin(h, r, change),
         \A s \in change.detach : Uncited(revs[r], s),
         UNCHANGED <<pub, batches>>
  PROVE  ReviewInv' /\ RevsKept(revs, revs')
<1> DEFINE q == [at |-> "edit", rev |-> r, version |-> revs[r].version, change |-> change]
<1>1. There(revs, r) /\ revs[r] \in RevisionRow
  BY DEF Candidate, Active, There, ReviewInv, RowsOK
<1>2. revs[r].version \in Nat
  BY <1>1 DEF RevisionRow
<1>3. EditOK(q, revs)
  BY <1>1, <1>2 DEF EditOK
<1>4. RequestOK(q, revs, tasks)
  BY <1>3 DEF RequestOK
<1>5. req' = [req EXCEPT ![h] = q] /\ UNCHANGED <<revs, tasks, decisions>>
  BY DEF Begin
<1> QED
  BY <1>4, <1>5, Asks

LEMMA NewItems ==
  ASSUME NEW kind \in AllKinds, NEW n \in Numbers, NEW s \in Sources
  PROVE  NewItem(kind, n, s) \in Item
  BY DEF NewItem, Item, EvidenceStatuses

LEMMA ColumnsAre ==
  /\ ColumnsOK(NoColumn) /\ ColumnsOK(NoFlag)
  /\ ColumnsOK([relationReview |-> "no_relations"])
  /\ \A b \in BOOLEAN :
       /\ ColumnsOK([resolved |-> b])
       /\ ColumnsOK([open |-> b, flagged |-> FALSE, relationReview |-> "pending"])
<1>1. ColumnsOK(NoColumn)
  BY DEF ColumnsOK, NoColumn
<1>2. ColumnsOK(NoFlag)
  BY DEF ColumnsOK, NoFlag
<1>3. ColumnsOK([relationReview |-> "no_relations"])
  BY DEF ColumnsOK
<1>4. ASSUME NEW b \in BOOLEAN PROVE ColumnsOK([resolved |-> b])
  BY DEF ColumnsOK
<1>5. ASSUME NEW b \in BOOLEAN
      PROVE  ColumnsOK([open |-> b, flagged |-> FALSE, relationReview |-> "pending"])
  BY DEF ColumnsOK
<1> QED
  BY <1>1, <1>2, <1>3, <1>4, <1>5

LEMMA EditBegins ==
  ASSUME ReviewInv, NEW h \in Threads, NEW r, Candidate(r),
         NEW change, ChangeOK(change), change.detach = {}, Begin(h, r, change),
         UNCHANGED <<pub, batches>>
  PROVE  ReviewInv' /\ RevsKept(revs, revs')
  BY Begins

LEMMA NothingDetached ==
  ASSUME NEW items, NEW columns, NEW n, NEW s, NEW x, NEW to
  PROVE  /\ [NoChange EXCEPT !.put = items, !.columns = columns].detach = {}
         /\ [NoChange EXCEPT !.put = items, !.bumps = n].detach = {}
         /\ [NoChange EXCEPT !.put = items].detach = {}
         /\ [NoChange EXCEPT !.columns = columns].detach = {}
         /\ [NoChange EXCEPT !.attach = {s}].detach = {}
         /\ [NoChange EXCEPT !.detach = {s}].detach = {s}
         /\ [NoChange EXCEPT !.relation = x, !.to = to].detach = {}
  BY DEF NoChange

LEMMA EvidenceEditKeeps ==
  ASSUME ReviewInv, NEW h \in Threads, NEW r \in Revs, NEW n \in Numbers,
         EvidenceEdits(h, r, n), UNCHANGED <<pub, batches>>
  PROVE  ReviewInv' /\ RevsKept(revs, revs')
<1>1. ASSUME NEW kind \in AllKinds, NEW s \in Sources, NEW columns, ColumnsOK(columns),
             Create(h, r, kind, n, s, columns) \/ Update(h, r, kind, n, s, columns)
      PROVE  ReviewInv' /\ RevsKept(revs, revs')
  <2> DEFINE change == [NoChange EXCEPT !.put = {NewItem(kind, n, s)}, !.columns = columns]
  <2>1. {NewItem(kind, n, s)} \subseteq Item
    BY NewItems
  <2>2. ChangeOK(change)
    BY <2>1, <1>1 DEF ChangeOK, NoChange
  <2>3. change.detach = {}
    BY NothingDetached
  <2>4. Candidate(r) /\ Begin(h, r, change)
    BY <1>1 DEF Create, Update
  <2> HIDE DEF change
  <2> QED
    BY <2>2, <2>3, <2>4, EditBegins
<1>2. ASSUME NEW kind \in AllKinds, Retire(h, r, kind, n)
      PROVE  ReviewInv' /\ RevsKept(revs, revs')
  <2>1. PICK i \in RowsOf(revs[r], kind, n) :
          Begin(h, r, [NoChange EXCEPT !.put = {[i EXCEPT !.active = FALSE, !.status = "rejected"]}])
    BY <1>2 DEF Retire
  <2> DEFINE gone == [i EXCEPT !.active = FALSE, !.status = "rejected"]
             change == [NoChange EXCEPT !.put = {gone}]
  <2>2. Candidate(r) /\ revs[r] \in RevisionRow
    BY <1>2 DEF Retire, Candidate, Active, ReviewInv, RowsOK
  <2>3. i \in Item
    BY <2>1, <2>2 DEF RowsOf, RevisionRow
  <2>4. gone \in Item
    BY <2>3 DEF Item, EvidenceStatuses
  <2>5. ChangeOK(change)
    BY <2>4, ColumnsAre DEF ChangeOK, NoChange
  <2>6. change.detach = {}
    BY NothingDetached
  <2>7. Begin(h, r, change)
    BY <2>1
  <2> HIDE DEF change
  <2> QED
    BY <2>2, <2>5, <2>6, <2>7, EditBegins
<1>3. ColumnsOK(NoColumn) /\ ColumnsOK(NoFlag)
  BY ColumnsAre
<1>4. {"geometry", "access_point", "time_rule", "closure", "date_exception"} = AllKinds
  BY DEF AllKinds
<1>5. CASE \E s \in Sources :
             \/ CreateGeometry(h, r, n, s) \/ UpdateGeometry(h, r, n, s)
             \/ CreateAccessPoint(h, r, n, s) \/ UpdateAccessPoint(h, r, n, s)
             \/ CreateTimeRule(h, r, n, s) \/ UpdateTimeRule(h, r, n, s)
             \/ CreateClosure(h, r, n, s) \/ UpdateClosure(h, r, n, s)
             \/ CreateDateException(h, r, n, s) \/ UpdateDateException(h, r, n, s)
  BY <1>1, <1>3, <1>4, <1>5
     DEF CreateGeometry, UpdateGeometry, CreateAccessPoint, UpdateAccessPoint,
         CreateTimeRule, UpdateTimeRule, CreateClosure, UpdateClosure,
         CreateDateException, UpdateDateException
<1>6. CASE \/ RetireGeometry(h, r, n) \/ RetireAccessPoint(h, r, n) \/ RetireTimeRule(h, r, n)
           \/ RetireClosure(h, r, n) \/ RetireDateException(h, r, n)
  BY <1>2, <1>4, <1>6
     DEF RetireGeometry, RetireAccessPoint, RetireTimeRule, RetireClosure, RetireDateException
<1> QED
  BY <1>5, <1>6 DEF EvidenceEdits

LEMMA RevisionEditKeeps ==
  ASSUME ReviewInv, NEW h \in Threads, NEW r \in Revs,
         RevisionEdits(h, r), UNCHANGED <<pub, batches>>
  PROVE  ReviewInv' /\ RevsKept(revs, revs')
<1>1. ASSUME NEW s \in Sources, GenerateHolidayExceptions(h, r, s)
      PROVE  ReviewInv' /\ RevsKept(revs, revs')
  <2> DEFINE days == Numbers \ {i.n : i \in Of(revs[r], {"date_exception"})}
             items == {NewItem("date_exception", n, s) : n \in days}
             change == [NoChange EXCEPT !.put = items, !.bumps = Cardinality(days)]
  <2>1. Candidate(r) /\ days # {} /\ Begin(h, r, change)
    BY <1>1 DEF GenerateHolidayExceptions
  <2>2. Cardinality(days) \in Nat \ {0}
    <3>1. IsFiniteSet(days)
      BY ReviewAssumption, FS_Subset
    <3> QED
      BY <3>1, <2>1, FS_CardinalityType, FS_EmptySet
  <2>3. items \subseteq Item
    <3>1. \A n \in days : NewItem("date_exception", n, s) \in Item
      BY NewItems DEF AllKinds
    <3> QED
      BY <3>1
  <2>4. ChangeOK(change)
    <3> HIDE DEF items, days
    <3> QED
      BY <2>2, <2>3, ColumnsAre DEF ChangeOK, NoChange
  <2>5. change.detach = {}
    BY NothingDetached
  <2> HIDE DEF change
  <2> QED
    BY <2>1, <2>4, <2>5, EditBegins
<1>2. ASSUME NEW columns, ColumnsOK(columns), Candidate(r),
             Begin(h, r, [NoChange EXCEPT !.columns = columns])
      PROVE  ReviewInv' /\ RevsKept(revs, revs')
  <2> DEFINE change == [NoChange EXCEPT !.columns = columns]
  <2>1. ChangeOK(change) /\ change.detach = {}
    BY <1>2, ColumnsAre DEF ChangeOK, NoChange
  <2>2. Begin(h, r, change)
    BY <1>2
  <2> HIDE DEF change
  <2> QED
    BY <1>2, <2>1, <2>2, EditBegins
<1>3. ASSUME NEW s \in Sources, CreateSourceRecord(h, r, s)
      PROVE  ReviewInv' /\ RevsKept(revs, revs')
  <2> DEFINE change == [NoChange EXCEPT !.attach = {s}]
  <2>1. ChangeOK(change) /\ change.detach = {}
    BY ColumnsAre DEF ChangeOK, NoChange
  <2>2. Candidate(r) /\ Begin(h, r, change)
    BY <1>3 DEF CreateSourceRecord
  <2> HIDE DEF change
  <2> QED
    BY <2>1, <2>2, EditBegins
<1>4. ASSUME NEW s \in Sources, DetachSourceRecord(h, r, s)
      PROVE  ReviewInv' /\ RevsKept(revs, revs')
  <2> DEFINE change == [NoChange EXCEPT !.detach = {s}]
  <2>1. ChangeOK(change) /\ change.detach = {s}
    BY ColumnsAre DEF ChangeOK, NoChange
  <2>2. Candidate(r) /\ Begin(h, r, change) /\ References(revs[r], s) = {}
    BY <1>4 DEF DetachSourceRecord
  <2>3. Uncited(revs[r], s)
    BY <2>2 DEF References, Uncited
  <2> HIDE DEF change
  <2> QED
    BY <2>1, <2>2, <2>3, Begins
<1>5. ASSUME NEW x \in RelationIds, NEW to, ResolveRelation(h, r, x, to)
      PROVE  ReviewInv' /\ RevsKept(revs, revs')
  <2> DEFINE change == [NoChange EXCEPT !.relation = x, !.to = to]
  <2>1. ChangeOK(change) /\ change.detach = {}
    BY ColumnsAre DEF ChangeOK, NoChange
  <2>2. Candidate(r) /\ Begin(h, r, change)
    BY <1>5 DEF ResolveRelation
  <2> HIDE DEF change
  <2> QED
    BY <2>1, <2>2, EditBegins
<1>6. ASSUME NEW b \in BOOLEAN, UpdateRevision(h, r, b) \/ ResolveSourceConflicts(h, r, b)
      PROVE  ReviewInv' /\ RevsKept(revs, revs')
  <2>1. CASE UpdateRevision(h, r, b)
    BY <2>1, <1>2, ColumnsAre DEF UpdateRevision
  <2>2. CASE ResolveSourceConflicts(h, r, b)
    BY <2>2, <1>2, ColumnsAre DEF ResolveSourceConflicts
  <2> QED
    BY <1>6, <2>1, <2>2
<1>7. ASSUME ConfirmNoRelations(h, r) PROVE ReviewInv' /\ RevsKept(revs, revs')
  BY <1>7, <1>2, ColumnsAre DEF ConfirmNoRelations
<1> QED
  BY <1>1, <1>3, <1>4, <1>5, <1>6, <1>7 DEF RevisionEdits

-------------------------------------------------------------------------------
(* The other requests that only read.                                         *)
LEMMA ReviewAsks ==
  ASSUME ReviewInv, NEW h \in Threads, UNCHANGED <<pub, batches>>,
         \/ \E r \in Active, to \in {"human_verified", "rejected"} :
              \/ \E i \in revs[r].items : ReviewEvidence(h, r, i, to)
              \/ \E x \in RelationIds : ReviewRelation(h, r, x, to)
         \/ \E r \in Revs : Submit(h, r) \/ CreateRevision(h, r)
         \/ \E t \in Tasks, kind \in Kinds : Decide(h, t, kind)
         \/ Abandon(h)
  PROVE  ReviewInv' /\ RevsKept(revs, revs')
<1>1. /\ \A q \in Revs : q \in Active => There(revs, q) /\ revs[q] \in RevisionRow
      /\ \A q \in Revs : Candidate(q) => q \in Active
      /\ \A u \in Tasks : tasks[u] # None => tasks[u] \in TaskRow
  BY DEF Candidate, Active, There, ReviewInv, RowsOK
<1>2. ASSUME NEW r \in Active, NEW to \in {"human_verified", "rejected"}, NEW i,
             ReviewEvidence(h, r, i, to)
      PROVE  ReviewInv' /\ RevsKept(revs, revs')
  <2> DEFINE q == [at |-> "evidence", rev |-> r, item |-> i, to |-> to]
  <2>1. RequestOK(q, revs, tasks)
    BY <1>1, <1>2 DEF RequestOK, ReviewEvidence, Active
  <2>2. req' = [req EXCEPT ![h] = q] /\ UNCHANGED <<revs, tasks, decisions>>
    BY <1>2 DEF ReviewEvidence
  <2> QED
    BY <2>1, <2>2, Asks
<1>3. ASSUME NEW r, NEW x, NEW to, ReviewRelation(h, r, x, to)
      PROVE  ReviewInv' /\ RevsKept(revs, revs')
  <2>1. UNCHANGED <<revs, tasks, decisions, req>>
    BY <1>3 DEF ReviewRelation
  <2>2. /\ DOMAIN req' = Threads /\ \A k \in Threads : req'[k] = req[k]
        /\ DOMAIN pub' = Publishers /\ \A k \in Publishers : pub'[k] = pub[k]
        /\ DOMAIN batches' = BatchIds /\ \A k \in BatchIds : batches'[k] = batches[k]
    BY <2>1 DEF ReviewInv, RequestsOK, PublishersOK
  <2> QED
    BY <2>1, <2>2, QuietRows, StepKeeps
<1>4. ASSUME NEW r \in Revs, Submit(h, r)
      PROVE  ReviewInv' /\ RevsKept(revs, revs')
  <2>1. PICK u \in Tasks \cup {None} :
          /\ IsOpenTask(r, u)
          /\ req' = [req EXCEPT ![h] = [at |-> "submit", rev |-> r, task |-> u,
                                        seen |-> IF u = None THEN None ELSE tasks[u]]]
    BY <1>4 DEF Submit
  <2> DEFINE q == [at |-> "submit", rev |-> r, task |-> u,
                   seen |-> IF u = None THEN None ELSE tasks[u]]
  <2>2. There(revs, r)
    BY <1>1, <1>4 DEF Submit
  <2>3. ASSUME u # None PROVE u \in Tasks /\ tasks[u] # None /\ tasks[u].version \in Nat
    BY <2>1, <2>3, <1>1 DEF IsOpenTask, OpenTasks, TaskRow
  <2>4. SubmitOK(q, revs, tasks)
    BY <2>2, <2>3 DEF SubmitOK
  <2>5. RequestOK(q, revs, tasks)
    BY <2>4 DEF RequestOK
  <2>6. req' = [req EXCEPT ![h] = q] /\ UNCHANGED <<revs, tasks, decisions>>
    BY <2>1, <1>4 DEF Submit
  <2> QED
    BY <2>5, <2>6, Asks
<1>5. ASSUME NEW t \in Tasks, NEW kind \in Kinds, Decide(h, t, kind)
      PROVE  ReviewInv' /\ RevsKept(revs, revs')
  <2> DEFINE q == [at |-> "decide", task |-> t, kind |-> kind, version |-> tasks[t].version]
  <2>1. tasks[t] # None /\ tasks[t].status \in OpenStatuses /\ tasks[t].version \in Nat
    BY <1>1, <1>5 DEF Decide, TaskRow
  <2>2. DecideOK(q, tasks)
    BY <2>1 DEF DecideOK
  <2>3. RequestOK(q, revs, tasks)
    BY <2>2 DEF RequestOK
  <2>4. req' = [req EXCEPT ![h] = q] /\ UNCHANGED <<revs, tasks, decisions>>
    BY <1>5 DEF Decide
  <2> QED
    BY <2>3, <2>4, Asks
<1>6. ASSUME NEW r \in Revs, CreateRevision(h, r)
      PROVE  ReviewInv' /\ RevsKept(revs, revs')
  <2>1. PICK n \in NextNumbers :
       req' = [req EXCEPT ![h] =
         [at |-> "create",
          row |-> [revs[r] EXCEPT
            !.number = n, !.version = 1,
            !.status = "candidate", !.eligible = FALSE, !.resolved = FALSE,
            !.relationReview = "pending",
            !.items = {[j EXCEPT !.status = "candidate"] : j \in {k \in @ : k.active}}]]]
    BY <1>6 DEF CreateRevision
  <2> DEFINE items == {[j EXCEPT !.status = "candidate"] : j \in {k \in revs[r].items : k.active}}
             row == [revs[r] EXCEPT
               !.number = n, !.version = 1,
               !.status = "candidate", !.eligible = FALSE, !.resolved = FALSE,
               !.relationReview = "pending", !.items = items]
             q == [at |-> "create", row |-> row]
  <2>2. revs[r] \in RevisionRow
    BY <1>1, <1>6 DEF CreateRevision
  <2>3. n \in Nat \ {0}
    BY <1>1 DEF NextNumbers, RevisionRow, Active
  <2>4. items \subseteq Item
    <3>1. revs[r].items \subseteq Item
      BY <2>2 DEF RevisionRow
    <3>2. \A j \in Item : [j EXCEPT !.status = "candidate"] \in Item
      BY DEF Item, EvidenceStatuses
    <3> QED
      BY <3>1, <3>2
  <2>5. row \in RevisionRow /\ row.status = "candidate"
    <3>1. "candidate" \in Lifecycles /\ 1 \in Nat \ {0}
      BY DEF Lifecycles
    <3> HIDE DEF items
    <3>2. row \in RevisionRow
      BY <2>2, <2>3, <2>4, <3>1 DEF RevisionRow
    <3>3. row.status = "candidate"
      BY <2>2 DEF RevisionRow
    <3> QED
      BY <3>2, <3>3
  <2>6. RequestOK(q, revs, tasks)
    <3> HIDE DEF row
    <3> QED
      BY <2>5 DEF RequestOK
  <2>7. req' = [req EXCEPT ![h] = q] /\ UNCHANGED <<revs, tasks, decisions>>
    BY <2>1, <1>6 DEF CreateRevision
  <2> HIDE DEF q
  <2> QED
    BY <2>6, <2>7, Asks
<1>7. CASE Abandon(h)
  BY <1>7, IdleIsOK, Asks DEF Abandon
<1> QED
  BY <1>2, <1>3, <1>4, <1>5, <1>6, <1>7

-------------------------------------------------------------------------------
(* What is written.                                                           *)
LEMMA EditedRow ==
  ASSUME NEW c \in RevisionRow, NEW change, ChangeOK(change)
  PROVE  LET d == Edited(c, change) IN
         /\ d \in RevisionRow
         /\ d.version = c.version + change.bumps /\ d.version > c.version
         /\ d.status = c.status
         /\ c.sources \ d.sources \subseteq change.detach
         /\ change.put = {} => d.items = c.items
<1> DEFINE set(column, old) ==
             IF column \in DOMAIN change.columns THEN change.columns[column] ELSE old
           sources == (c.sources \cup change.attach) \ change.detach
           items == {i \in c.items : \A j \in change.put : <<i.kind, i.n>> # <<j.kind, j.n>>}
                      \cup change.put
<1>1. /\ set("open", c.open) \in BOOLEAN
      /\ set("flagged", c.flagged) \in BOOLEAN
      /\ set("pointOnly", c.pointOnly) \in BOOLEAN
      /\ set("resolved", FALSE) \in BOOLEAN
      /\ set("relationReview", c.relationReview)
           \in {"pending", "no_relations", "not_required"}
  <2>1. /\ c.open \in BOOLEAN /\ c.flagged \in BOOLEAN /\ c.pointOnly \in BOOLEAN
        /\ c.relationReview \in {"pending", "no_relations", "not_required"}
    BY DEF RevisionRow
  <2> QED
    BY <2>1, ZenonT(60) DEF ChangeOK, ColumnsOK
<1>2. sources \in SUBSET Sources /\ items \in SUBSET Item
  BY DEF ChangeOK, RevisionRow
<1>3. c.version + change.bumps \in Nat \ {0} /\ c.version + change.bumps > c.version
  BY DEF ChangeOK, RevisionRow
<1>4. Edited(c, change) =
        [c EXCEPT !.version = c.version + change.bumps,
                  !.open = set("open", c.open), !.flagged = set("flagged", c.flagged),
                  !.pointOnly = set("pointOnly", c.pointOnly),
                  !.relationReview = set("relationReview", c.relationReview),
                  !.eligible = FALSE, !.resolved = set("resolved", FALSE),
                  !.sources = sources, !.items = items]
  BY DEF Edited
<1>5. c.sources \ sources \subseteq change.detach
  OBVIOUS
<1>6. change.put = {} => items = c.items
  OBVIOUS
<1> HIDE DEF set, sources, items
<1>7. Edited(c, change) \in RevisionRow
  BY <1>1, <1>2, <1>3, <1>4, ZenonT(60) DEF RevisionRow
<1>8. /\ Edited(c, change).version = c.version + change.bumps
      /\ Edited(c, change).status = c.status
      /\ Edited(c, change).sources = sources
      /\ Edited(c, change).items = items
  BY <1>4 DEF RevisionRow
<1> QED
  BY <1>3, <1>5, <1>6, <1>7, <1>8

LEMMA Writes ==
  ASSUME ReviewInv, NEW h \in Threads, RowsOK', Approvals', Decisions',
         RevsKept(revs, revs'), TasksKept(tasks, tasks'),
         req' = [req EXCEPT ![h] = Idle], UNCHANGED <<pub, batches>>
  PROVE  ReviewInv'
<1>1. DOMAIN req' = Threads
  BY DEF ReviewInv, RequestsOK
<1>2. \A k \in Threads : req'[k] = req[k] \/ RequestOK(req'[k], revs', tasks')
  BY IdleIsOK DEF ReviewInv, RequestsOK
<1>3. /\ DOMAIN pub' = Publishers /\ \A g \in Publishers : pub'[g] = pub[g]
      /\ DOMAIN batches' = BatchIds /\ \A b \in BatchIds : batches'[b] = batches[b]
  BY DEF ReviewInv, PublishersOK
<1> QED
  BY <1>1, <1>2, <1>3, StepKeeps

(* One row is written; the candidates stay the same.                          *)
LEMMA RowWritten ==
  ASSUME ReviewInv, NEW r \in Revs, revs[r] # None,
         NEW d \in RevisionRow, RevisionKept(revs[r], d), d.status = revs[r].status,
         revs' = [revs EXCEPT ![r] = d], UNCHANGED <<tasks, decisions>>
  PROVE  /\ RowsOK' /\ Approvals' /\ Decisions'
         /\ RevsKept(revs, revs') /\ TasksKept(tasks, tasks')
<1>1. d # None
  BY ReviewAssumption
<1>2. \A q \in Revs : revs'[q] = IF q = r THEN d ELSE revs[q]
  BY DEF ReviewInv, RowsOK
<1>3. Active' = Active /\ \A q : There(revs', q) <=> There(revs, q)
  BY <1>1, <1>2 DEF Active, There
<1>4. RowsOK'
  BY <1>3 DEF ReviewInv, RowsOK
<1>5. \A q \in Active : revs'[q].status = revs[q].status
  BY <1>2 DEF Active
<1>6. Approvals'
  <2>1. \A q : ApprovalsOf(q)' = ApprovalsOf(q)
    BY DEF ApprovalsOf
  <2> QED
    BY <1>3, <1>5, <2>1 DEF ReviewInv, Approvals
<1>7. Decisions'
  BY <1>3 DEF ReviewInv, Decisions
<1>8. RevsKept(revs, revs')
  <2>1. RevsKept(revs, revs)
    BY RowsStay DEF ReviewInv
  <2> QED
    BY <1>2, <2>1 DEF RevsKept
<1> QED
  BY <1>4, <1>6, <1>7, <1>8, RowsStay DEF ReviewInv

LEMMA SaveEditKeeps ==
  ASSUME ReviewInv, NEW h \in Threads, SaveEdit(h), UNCHANGED <<pub, batches>>
  PROVE  ReviewInv' /\ RevsKept(revs, revs')
<1> DEFINE q == req[h]
           c == revs[q.rev]
           d == Edited(c, q.change)
<1>1. q.at = "edit" /\ req' = [req EXCEPT ![h] = Idle] /\ UNCHANGED <<tasks, decisions>>
  BY DEF SaveEdit
<1>2. EditOK(q, revs)
  BY <1>1 DEF ReviewInv, RequestsOK, RequestOK
<1>3. q.rev \in Revs /\ c # None /\ c \in RevisionRow /\ ChangeOK(q.change)
  BY <1>2 DEF EditOK, There, ReviewInv, RowsOK
<1>4. CASE AtVersion(q)
  <2>1. /\ d \in RevisionRow
        /\ d.version > c.version
        /\ d.status = c.status
        /\ c.sources \ d.sources \subseteq q.change.detach
        /\ q.change.put = {} => d.items = c.items
    BY <1>3, EditedRow
  <2>2. c.status = "candidate" /\ c.version = q.version
    BY <1>4 DEF AtVersion
  <2>3. revs' = [revs EXCEPT ![q.rev] = d]
    BY <1>4 DEF SaveEdit
  <2>4. \A s \in c.sources \ d.sources : Uncited(d, s)
    BY <1>2, <1>3, <2>1, <2>2 DEF EditOK, ChangeOK, Uncited
  <2>5. d # None /\ c.version \in Nat /\ d.version \in Nat
    BY <1>3, <2>1, ReviewAssumption DEF RevisionRow
  <2>6. RevisionKept(c, d)
    <3> HIDE DEF d, c
    <3> QED
      BY <2>1, <2>2, <2>4, <2>5 DEF RevisionKept
  <2> HIDE DEF d
  <2> QED
    BY <1>1, <1>3, <2>1, <2>3, <2>6, RowWritten, Writes
<1>5. CASE ~ AtVersion(q)
  <2>1. UNCHANGED revs
    BY <1>5 DEF SaveEdit
  <2> QED
    BY <2>1, <1>1, QuietRows, Writes
<1> QED
  BY <1>4, <1>5

(* A verdict changes statuses of items only.                                  *)
Verdict(c, found, to) ==
  [c EXCEPT !.items = (c.items \ found) \cup {[i EXCEPT !.status = to] : i \in found}]

LEMMA VerdictRow ==
  ASSUME NEW c \in RevisionRow, NEW found, found \subseteq c.items, NEW to \in EvidenceStatuses
  PROVE  /\ Verdict(c, found, to) \in RevisionRow
         /\ RevisionKept(c, Verdict(c, found, to))
         /\ Verdict(c, found, to).status = c.status
<1> DEFINE items == (c.items \ found) \cup {[i EXCEPT !.status = to] : i \in found}
           d == [c EXCEPT !.items = items]
           plain(set) == {[i EXCEPT !.status = ""] : i \in set}
<1>1. c.items \subseteq Item /\ c.version \in Nat
  BY DEF RevisionRow
<1>2. \A i \in Item : /\ [i EXCEPT !.status = to] \in Item
                      /\ [i EXCEPT !.status = to].active = i.active
                      /\ [i EXCEPT !.status = to].source = i.source
                      /\ [[i EXCEPT !.status = to] EXCEPT !.status = ""] = [i EXCEPT !.status = ""]
  BY DEF Item
<1>3. items \subseteq Item
  BY <1>1, <1>2
<1>4. plain(items) = plain(c.items)
  <2>1. plain(items) \subseteq plain(c.items)
    <3> SUFFICES ASSUME NEW j \in items PROVE [j EXCEPT !.status = ""] \in plain(c.items)
      OBVIOUS
    <3>1. CASE j \in c.items
      BY <3>1
    <3>2. CASE j \notin c.items
      <4>1. PICK i \in found : j = [i EXCEPT !.status = to]
        BY <3>2
      <4>2. [j EXCEPT !.status = ""] = [i EXCEPT !.status = ""] /\ i \in c.items
        BY <4>1, <1>1, <1>2
      <4> QED
        BY <4>2
    <3> QED
      BY <3>1, <3>2
  <2>2. plain(c.items) \subseteq plain(items)
    <3> SUFFICES ASSUME NEW i \in c.items PROVE [i EXCEPT !.status = ""] \in plain(items)
      OBVIOUS
    <3>1. CASE i \in found
      <4>1. [i EXCEPT !.status = to] \in items
        BY <3>1
      <4>2. [[i EXCEPT !.status = to] EXCEPT !.status = ""] \in plain(items)
        BY <4>1
      <4> QED
        BY <4>2, <1>1, <1>2
    <3>2. CASE i \notin found
      BY <3>2
    <3> QED
      BY <3>1, <3>2
  <2> QED
    BY <2>1, <2>2
<1>5. ASSUME NEW s, Uncited(c, s), NEW j \in items, j.active PROVE j.source # s
  <2>1. CASE j \in c.items
    BY <1>5, <2>1 DEF Uncited
  <2>2. CASE j \notin c.items
    <3>1. PICK i \in found : j = [i EXCEPT !.status = to]
      BY <2>2
    <3>2. i \in c.items /\ i.active /\ j.source = i.source
      BY <3>1, <1>1, <1>2, <1>5
    <3> QED
      BY <3>2, <1>5 DEF Uncited
  <2> QED
    BY <2>1, <2>2
<1> HIDE DEF items
<1>6. /\ d \in RevisionRow
      /\ d.version = c.version /\ d.sources = c.sources /\ d.status = c.status
      /\ d.items = items
  BY <1>3 DEF RevisionRow
<1>7. d # None
  BY <1>6, ReviewAssumption
<1>8. Facts(d) = Facts(c)
  <2>1. Facts(d) = [d EXCEPT !.status = "", !.eligible = FALSE, !.items = plain(items)]
    BY <1>6 DEF Facts
  <2>2. Facts(c) = [c EXCEPT !.status = "", !.eligible = FALSE, !.items = plain(c.items)]
    BY DEF Facts
  <2> HIDE DEF plain
  <2> QED
    BY <2>1, <2>2, <1>4, ZenonT(60) DEF RevisionRow
<1>9. RevisionKept(c, d)
  <2> HIDE DEF d
  <2> QED
    BY <1>1, <1>5, <1>6, <1>7, <1>8 DEF RevisionKept, Uncited
<1> QED
  BY <1>6, <1>9 DEF items, Verdict

LEMMA SaveReviewKeeps ==
  ASSUME ReviewInv, NEW h \in Threads, SaveReview(h), UNCHANGED <<pub, batches>>
  PROVE  ReviewInv' /\ RevsKept(revs, revs')
<1> DEFINE q == req[h]
           c == revs[q.rev]
           found == {i \in ById(c, q.item) : i.active}
           d == Verdict(c, found, q.to)
<1>1. q.at = "evidence" /\ req' = [req EXCEPT ![h] = Idle] /\ UNCHANGED <<tasks, decisions>>
  BY DEF SaveReview
<1>2. There(revs, q.rev) /\ q.to \in EvidenceStatuses
  BY <1>1 DEF ReviewInv, RequestsOK, RequestOK, EvidenceStatuses
<1>3. q.rev \in Revs /\ c # None /\ c \in RevisionRow
  BY <1>2 DEF There, ReviewInv, RowsOK
<1>4. found \subseteq c.items
  BY DEF ById, RowsOf
<1>5. d \in RevisionRow /\ RevisionKept(c, d) /\ d.status = c.status
  <2>1. q.to \in EvidenceStatuses
    BY <1>2
  <2> HIDE DEF found, c, q
  <2> QED
    BY <2>1, <1>3, <1>4, VerdictRow
<1>6. revs' = [revs EXCEPT ![q.rev] = d]
  BY <1>3 DEF SaveReview, Verdict
<1> HIDE DEF d
<1> QED
  BY <1>1, <1>3, <1>5, <1>6, RowWritten, Writes

LEMMA Advanced ==
  ASSUME ReviewInv, NEW t \in Tasks, tasks[t] # None, NEW status \in TaskStatuses,
         Advance(t, tasks[t].version, status)
  PROVE  /\ tasks' \in [Tasks -> TaskRow \cup {None}]
         /\ \A u \in Tasks \ {t} : tasks'[u] = tasks[u]
         /\ tasks'[t] # None /\ tasks'[t].rev = tasks[t].rev /\ tasks'[t].status = status
         /\ tasks[t].version \in Nat /\ tasks'[t].version = tasks[t].version + 1
         /\ TasksKept(tasks, tasks')
<1> DEFINE row == [tasks[t] EXCEPT !.status = status, !.version = tasks[t].version + 1]
<1>1. tasks \in [Tasks -> TaskRow \cup {None}] /\ tasks[t] \in TaskRow
  BY DEF ReviewInv, RowsOK
<1>2. /\ row \in TaskRow /\ row.rev = tasks[t].rev /\ row.status = status
      /\ tasks[t].version \in Nat /\ row.version = tasks[t].version + 1
  <2>1. tasks[t].version \in Nat /\ tasks[t].version + 1 \in Nat \ {0}
    BY <1>1 DEF TaskRow
  <2>2. row \in TaskRow
    BY <1>1, <2>1 DEF TaskRow
  <2>3. row.rev = tasks[t].rev /\ row.status = status /\ row.version = tasks[t].version + 1
    BY <1>1 DEF TaskRow
  <2> QED
    BY <2>1, <2>2, <2>3
<1>3. row # None
  BY <1>2, ReviewAssumption
<1>4. tasks' = [tasks EXCEPT ![t] = row]
  BY <1>1 DEF Advance
<1>5. \A u \in Tasks : tasks'[u] = IF u = t THEN row ELSE tasks[u]
  BY <1>1, <1>4
<1> HIDE DEF row
<1>6. TaskKept(tasks[t], row)
  BY <1>2, <1>3 DEF TaskKept
<1>7. TasksKept(tasks, tasks')
  BY <1>5, <1>6, RowsStay DEF TasksKept, ReviewInv
<1> QED
  BY <1>1, <1>2, <1>3, <1>4, <1>5, <1>7

LEMMA SaveSubmitKeeps ==
  ASSUME ReviewInv, NEW h \in Threads, SaveSubmit(h), UNCHANGED <<pub, batches>>
  PROVE  ReviewInv' /\ RevsKept(revs, revs')
<1> DEFINE q == req[h]
<1>1. /\ q.at = "submit" /\ req' = [req EXCEPT ![h] = Idle]
      /\ UNCHANGED <<revs, decisions>>
  BY DEF SaveSubmit
<1>2. SubmitOK(q, revs, tasks)
  BY <1>1 DEF ReviewInv, RequestsOK, RequestOK
<1>3. RevsKept(revs, revs') /\ Approvals'
  BY <1>1, RowsStay DEF ReviewInv, Approvals, ApprovalsOf, Active
<1>4. CASE UNCHANGED tasks
  BY <1>4, <1>1, QuietRows, Writes
<1>5. CASE q.task = None
  <2>1. PICK t \in NextTask :
          tasks' = [tasks EXCEPT ![t] =
                      [rev |-> q.rev, status |-> "ready_for_review", version |-> 1]]
    BY <1>5 DEF SaveSubmit
  <2> DEFINE row == [rev |-> q.rev, status |-> "ready_for_review", version |-> 1]
  <2>2. t \in Tasks /\ tasks[t] = None
    BY <2>1 DEF NextTask
  <2>3. row \in TaskRow /\ There(revs, row.rev)
    BY <1>2 DEF SubmitOK, There, TaskRow, TaskStatuses, OpenStatuses
  <2>4. /\ tasks' \in [Tasks -> TaskRow \cup {None}]
        /\ \A u \in Tasks : tasks'[u] = IF u = t THEN row ELSE tasks[u]
    BY <2>1, <2>2, <2>3 DEF ReviewInv, RowsOK
  <2> HIDE DEF row
  <2>5. RowsOK'
    BY <1>1, <2>3, <2>4 DEF ReviewInv, RowsOK
  <2>6. \A d \in decisions : d.task \in Tasks /\ d.task # t
    BY <2>2 DEF ReviewInv, RowsOK, Decisions, DecisionRow
  <2>7. Decisions'
    BY <1>1, <2>4, <2>6 DEF ReviewInv, Decisions
  <2>8. TasksKept(tasks, tasks')
    BY <2>2, <2>4, RowsStay DEF ReviewInv, TasksKept
  <2> QED
    BY <1>1, <1>3, <2>5, <2>7, <2>8, Writes
<1>6. CASE q.task # None /\ tasks' # tasks
  <2> DEFINE t == q.task
  <2>1. /\ q.seen.status = "changes_requested" /\ Unmoved(t, q.seen.version)
        /\ Advance(t, q.seen.version, "ready_for_review")
    BY <1>6 DEF SaveSubmit
  <2>2. t \in Tasks /\ tasks[t] # None /\ q.seen.version = tasks[t].version
        /\ tasks[t].status = "changes_requested"
    BY <1>2, <1>6, <2>1 DEF SubmitOK, Unmoved
  <2>3. "ready_for_review" \in TaskStatuses
    BY DEF TaskStatuses, OpenStatuses
  <2> HIDE DEF q
  <2>4. /\ tasks' \in [Tasks -> TaskRow \cup {None}]
        /\ \A u \in Tasks \ {t} : tasks'[u] = tasks[u]
        /\ tasks'[t] # None /\ tasks'[t].rev = tasks[t].rev
        /\ tasks[t].version \in Nat /\ tasks'[t].version = tasks[t].version + 1
        /\ TasksKept(tasks, tasks')
    BY <2>1, <2>2, <2>3, Advanced
  <2>5. RowsOK'
    BY <1>1, <2>2, <2>4 DEF ReviewInv, RowsOK
  <2>6. ASSUME NEW d \in decisions
        PROVE  tasks'[d.task] # None /\ TaskShowsDecision(d, tasks'[d.task])
    <3>1. /\ d.task \in Tasks /\ d.version \in Nat
          /\ tasks[d.task] # None /\ TaskShowsDecision(d, tasks[d.task])
      BY DEF ReviewInv, RowsOK, Decisions, DecisionRow
    <3>2. CASE d.task = t
      <4>1. d.kind = "request_changes" /\ d.version < tasks[t].version
        BY <2>2, <3>1, <3>2 DEF TaskShowsDecision
      <4> QED
        BY <2>4, <3>1, <3>2, <4>1 DEF TaskShowsDecision
    <3>3. CASE d.task # t
      BY <2>4, <3>1, <3>3
    <3> QED
      BY <3>2, <3>3
  <2>7. Decisions'
    BY <1>1, <2>6 DEF ReviewInv, Decisions
  <2> QED
    BY <1>1, <1>3, <2>4, <2>5, <2>7, Writes
<1> QED
  BY <1>4, <1>5, <1>6

LEMMA SaveRevisionKeeps ==
  ASSUME ReviewInv, NEW h \in Threads, NEW r \in Revs, SaveRevision(h, r), UNCHANGED <<pub, batches>>
  PROVE  ReviewInv' /\ RevsKept(revs, revs')
<1> DEFINE row == req[h].row
<1>1. /\ req[h].at = "create" /\ revs[r] = None
      /\ req' = [req EXCEPT ![h] = Idle] /\ UNCHANGED <<tasks, decisions>>
  BY DEF SaveRevision
<1>2. row \in RevisionRow /\ row.status = "candidate"
  BY <1>1 DEF ReviewInv, RequestsOK, RequestOK
<1>3. CASE UNCHANGED revs
  BY <1>3, <1>1, QuietRows, Writes
<1>4. CASE revs' = [revs EXCEPT ![r] = row]
  <2> HIDE DEF row
  <2>1. revs' \in [Revs -> RevisionRow \cup {None}]
        /\ \A q \in Revs : revs'[q] = IF q = r THEN row ELSE revs[q]
    BY <1>2, <1>4 DEF ReviewInv, RowsOK
  <2>2. row # None
    BY <1>2, ReviewAssumption
  <2>3. Active' = Active \cup {r} /\ r \notin Active
    BY <1>1, <2>1, <2>2 DEF Active
  <2>4. \A q : There(revs, q) => There(revs', q)
    BY <1>1, <2>1 DEF There
  <2>5. RowsOK' /\ Decisions'
    BY <1>1, <2>1, <2>4 DEF ReviewInv, RowsOK, Decisions
  <2>6. Approvals'
    <3>1. \A q : ApprovalsOf(q)' = ApprovalsOf(q)
      BY <1>1 DEF ApprovalsOf
    <3>2. ApprovalsOf(r) = {}
      BY <1>1 DEF ApprovalsOf, ReviewInv, Decisions, There
    <3>3. \A q \in Active : revs'[q].status = revs[q].status
      BY <2>1, <2>3 DEF Active
    <3>4. revs'[r].status = "candidate"
      BY <1>2, <2>1
    <3> QED
      BY <1>1, <2>3, <3>1, <3>2, <3>3, <3>4 DEF ReviewInv, Approvals
  <2>7. RevsKept(revs, revs')
    BY <1>1, <2>1, RowsStay DEF ReviewInv, RevsKept
  <2>8. TasksKept(tasks, tasks')
    BY <1>1, RowsStay DEF ReviewInv
  <2> QED
    BY <1>1, <2>5, <2>6, <2>7, <2>8, Writes
<1> QED
  BY <1>3, <1>4 DEF SaveRevision

LEMMA SaveDecideKeeps ==
  ASSUME ReviewInv, NEW h \in Threads, SaveDecide(h), UNCHANGED <<pub, batches>>
  PROVE  ReviewInv' /\ RevsKept(revs, revs')
<1> DEFINE q == req[h]
           t == q.task
           r == tasks[t].rev
           d == [task |-> t, rev |-> r, kind |-> q.kind, version |-> q.version]
           next == CASE q.kind = "approve" -> "approved"
                     [] q.kind = "request_changes" -> "changes_requested"
                     [] q.kind = "cancel" -> "closed"
           approved == [revs[r] EXCEPT !.status = "human_verified", !.eligible = TRUE]
           goes == Unmoved(t, q.version) /\ (q.kind # "approve" \/ StillCandidate(r))
<1>1. q.at = "decide" /\ req' = [req EXCEPT ![h] = Idle]
  BY DEF SaveDecide
<1>2. DecideOK(q, tasks)
  BY <1>1 DEF ReviewInv, RequestsOK, RequestOK
<1>3. CASE ~ goes
  <2>1. UNCHANGED <<revs, tasks, decisions>>
    BY <1>3 DEF SaveDecide
  <2> QED
    BY <2>1, <1>1, QuietRows, Writes
<1>4. CASE goes
  <2>1. /\ decisions' = decisions \cup {d}
        /\ Advance(t, q.version, next)
        /\ q.kind # "approve" => UNCHANGED revs
        /\ q.kind = "approve" =>
             revs' = [revs EXCEPT ![r].status = "human_verified", ![r].eligible = TRUE]
    BY <1>4 DEF SaveDecide
  <2>2. /\ t \in Tasks /\ tasks[t] # None /\ q.kind \in Kinds
        /\ q.version = tasks[t].version /\ tasks[t].status \in OpenStatuses
    BY <1>2, <1>4 DEF DecideOK, Unmoved
  <2>3. /\ next \in TaskStatuses
        /\ q.kind # "request_changes" =>
             next = (IF q.kind = "approve" THEN "approved" ELSE "closed")
    BY <2>2 DEF Kinds, TaskStatuses, OpenStatuses
  <2>4. tasks[t] \in TaskRow /\ There(revs, r) /\ revs[r] \in RevisionRow
    BY <2>2 DEF ReviewInv, RowsOK, There
  <2>5. d \in DecisionRow
    BY <2>2, <2>4 DEF DecisionRow, TaskRow
  <2>6. d.task = t /\ d.rev = r /\ d.kind = q.kind /\ d.version = tasks[t].version
    BY <2>2
  <2>7. q.kind = "approve" => revs[r].status = "candidate"
    BY <1>4 DEF StillCandidate, Candidate
  <2> HIDE DEF q, d, next
  <2>8. /\ tasks' \in [Tasks -> TaskRow \cup {None}]
        /\ \A u \in Tasks \ {t} : tasks'[u] = tasks[u]
        /\ tasks'[t] # None /\ tasks'[t].rev = tasks[t].rev /\ tasks'[t].status = next
        /\ tasks[t].version \in Nat /\ tasks'[t].version = tasks[t].version + 1
        /\ TasksKept(tasks, tasks')
    BY <2>1, <2>2, <2>3, Advanced
  <2>9. ASSUME NEW e \in decisions
        PROVE  /\ e.task \in Tasks /\ There(revs, e.rev)
               /\ tasks'[e.task] # None /\ TaskShowsDecision(e, tasks'[e.task])
               /\ ~ (e.task = d.task /\ e.version = d.version)
    <3>1. /\ e.task \in Tasks /\ e.version \in Nat /\ There(revs, e.rev)
          /\ tasks[e.task] # None /\ TaskShowsDecision(e, tasks[e.task])
      BY DEF ReviewInv, RowsOK, Decisions, DecisionRow
    <3>2. CASE e.task = t
      <4>1. e.kind = "request_changes" /\ e.version < tasks[t].version
        BY <2>2, <3>1, <3>2 DEF TaskShowsDecision, OpenStatuses
      <4> QED
        BY <2>6, <2>8, <3>1, <3>2, <4>1 DEF TaskShowsDecision
    <3>3. CASE e.task # t
      BY <2>6, <2>8, <3>1, <3>3
    <3> QED
      BY <3>2, <3>3
  <2>10. TaskShowsDecision(d, tasks'[t])
    BY <2>3, <2>6, <2>8 DEF TaskShowsDecision
  <2>11. /\ revs' \in [Revs -> RevisionRow \cup {None}]
         /\ \A s : There(revs', s) <=> There(revs, s)
         /\ \A s \in Active : revs'[s].status =
              IF s = r /\ q.kind = "approve" THEN "human_verified" ELSE revs[s].status
         /\ RevsKept(revs, revs')
    <3>1. CASE q.kind # "approve"
      BY <3>1, <2>1, RowsStay DEF ReviewInv, RowsOK
    <3>2. CASE q.kind = "approve"
      <4>1. approved \in RevisionRow
        BY <2>4, ZenonT(60) DEF RevisionRow, Lifecycles
      <4>2. /\ approved.status = "human_verified" /\ approved.version = revs[r].version
            /\ approved.sources = revs[r].sources /\ approved.items = revs[r].items
        BY <2>4 DEF RevisionRow
      <4>3. revs' = [revs EXCEPT ![r] = approved]
        BY <3>2, <2>1, <2>4 DEF ReviewInv, RowsOK, There
      <4> HIDE DEF approved
      <4>4. approved # None /\ revs[r].version \in Nat
        BY <4>1, <2>4, ReviewAssumption DEF RevisionRow
      <4>5. RevisionKept(revs[r], approved)
        <5>1. revs[r].status = "candidate"
          BY <3>2, <2>7
        <5>2. \A s : Uncited(revs[r], s) => Uncited(approved, s)
          BY <4>2 DEF Uncited
        <5>3. revs[r].sources \ approved.sources = {} /\ revs[r].version <= approved.version
          BY <4>2, <4>4
        <5> QED
          BY <4>4, <5>1, <5>2, <5>3 DEF RevisionKept
      <4>6. /\ revs' \in [Revs -> RevisionRow \cup {None}] /\ r \in Revs
            /\ \A s \in Revs : revs'[s] = IF s = r THEN approved ELSE revs[s]
        BY <4>1, <4>3, <2>4 DEF ReviewInv, RowsOK, There
      <4>7. RevsKept(revs, revs')
        BY <4>5, <4>6, RowsStay DEF ReviewInv, RevsKept
      <4> QED
        BY <3>2, <4>2, <4>4, <4>6, <4>7, <2>4 DEF There, Active
    <3> QED
      BY <3>1, <3>2
  <2>12. RowsOK'
    BY <2>1, <2>2, <2>4, <2>5, <2>8, <2>11 DEF ReviewInv, RowsOK
  <2>13. Decisions'
    <3>1. \A e \in decisions' : /\ There(revs', e.rev) /\ tasks'[e.task] # None
                                /\ TaskShowsDecision(e, tasks'[e.task])
      BY <2>1, <2>4, <2>6, <2>8, <2>9, <2>10, <2>11
    <3>2. \A e, f \in decisions' : e.task = f.task /\ e.version = f.version => e = f
      BY <2>1, <2>9 DEF ReviewInv, Decisions
    <3> QED
      BY <3>1, <3>2 DEF Decisions
  <2>14. Approvals'
    <3> SUFFICES ASSUME NEW s \in Active
                 PROVE  IF revs'[s].status = "candidate" THEN ApprovalsOf(s)' = {}
                        ELSE \E e \in decisions' : ApprovalsOf(s)' = {e}
      <4>1. Active' = Active
        BY <2>11 DEF Active, There
      <4> QED
        BY <4>1 DEF Approvals
    <3>1. ApprovalsOf(s)' = ApprovalsOf(s) \cup
                              (IF s = r /\ q.kind = "approve" THEN {d} ELSE {})
      BY <2>1, <2>6 DEF ApprovalsOf
    <3>2. IF revs[s].status = "candidate" THEN ApprovalsOf(s) = {}
          ELSE \E e \in decisions : ApprovalsOf(s) = {e}
      BY DEF ReviewInv, Approvals
    <3>3. CASE s = r /\ q.kind = "approve"
      <4>1. ApprovalsOf(s)' = {d} /\ d \in decisions'
        BY <2>1, <2>7, <3>1, <3>2, <3>3
      <4>2. revs'[s].status # "candidate"
        BY <2>11, <3>3
      <4> QED
        BY <4>1, <4>2
    <3>4. CASE ~ (s = r /\ q.kind = "approve")
      <4>1. ApprovalsOf(s)' = ApprovalsOf(s) /\ revs'[s].status = revs[s].status
        BY <2>11, <3>1, <3>4
      <4> QED
        BY <2>1, <3>2, <4>1
    <3> QED
      BY <3>3, <3>4
  <2> QED
    BY <1>1, <2>8, <2>11, <2>12, <2>13, <2>14, Writes
<1> QED
  BY <1>3, <1>4

-------------------------------------------------------------------------------
(* Publications.  The gate lets only approved revisions pass.                 *)
LEMMA GateNeedsApproval ==
  ASSUME NEW c, NEW rels, NEW p, NEW records, Gate(c, rels, p, records) = {}
  PROVE  c.status \in {"human_verified", "published"}
<1> SUFFICES ASSUME c.status \notin {"human_verified", "published"} PROVE FALSE
  OBVIOUS
<1>1. "REVISION_NOT_HUMAN_VERIFIED"
        \in Code("REVISION_NOT_HUMAN_VERIFIED", c.status \notin {"human_verified", "published"})
  BY DEF Code
<1>2. Code("REVISION_NOT_HUMAN_VERIFIED", c.status \notin {"human_verified", "published"})
        \subseteq Gate(c, rels, p, records)
  BY Zenon DEF Gate
<1> QED
  BY <1>1, <1>2

LEMMA PassesIsJudged ==
  ASSUME ReviewInv, NEW g \in Publishers, NEW r, There(revs, r), Passes(g, r)
  PROVE  Judged(revs, r)
<1>1. RowSeen(g, r).status \in {"human_verified", "published"}
  BY GateNeedsApproval DEF Passes, PublicationGateOf
<1>2. CASE Publishing(g) /\ r \in DOMAIN pub[g].rows
  BY <1>2 DEF ReviewInv, PublishersOK, PublisherOK, Publishing
<1>3. CASE ~ (Publishing(g) /\ r \in DOMAIN pub[g].rows)
  BY <1>1, <1>3 DEF RowSeen, Judged
<1> QED
  BY <1>2, <1>3

LEMMA SeenIsWritten ==
  ASSUME ReviewInv, NEW g \in Publishers, Publishing(g), NEW r, Judged(revs, r)
  PROVE  RowSeen(g, r).status \in WrittenStatuses
<1>1. CASE r \in DOMAIN pub[g].rows
  <2>1. revs[r] \in RevisionRow
    BY DEF ReviewInv, RowsOK, Judged, There
  <2>2. RowSeen(g, r).status = pub[g].rows[r]
    BY <1>1, <2>1 DEF RowSeen, RevisionRow
  <2> QED
    BY <1>1, <2>2 DEF ReviewInv, PublishersOK, PublisherOK, Publishing
<1>2. CASE r \notin DOMAIN pub[g].rows
  <2>1. revs[r].status \in Lifecycles /\ revs[r].status # "candidate"
    BY DEF ReviewInv, RowsOK, Judged, There, RevisionRow
  <2> QED
    BY <1>2, <2>1 DEF RowSeen, Lifecycles, WrittenStatuses
<1> QED
  BY <1>1, <1>2

LEMMA StartKeeps ==
  ASSUME ReviewInv, NEW g \in Publishers, NEW batch, NEW at, NEW rev, NEW todo, NEW items,
         Start(g, batch, at, rev, todo, items), UNCHANGED reviewVars,
         \A r \in todo : There(revs, r), \A r \in DOMAIN items : There(revs, r),
         at # "next" => Judged(revs, rev)
  PROVE  ReviewInv' /\ RevsKept(revs, revs')
<1> DEFINE p == [at |-> at, batch |-> batch, rev |-> rev, todo |-> todo, items |-> items,
                 found |-> Nothing, rows |-> Nothing, prows |-> Nothing]
<1>1. PublisherOK(p, revs)
  BY DEF PublisherOK, Nothing
<1>2. pub' = [pub EXCEPT ![g] = p] /\ UNCHANGED <<revs, tasks, decisions, req, batches>>
  BY DEF Start, reviewVars
<1> QED
  BY <1>1, <1>2, Notes

(* Writes that a publication notes.                                           *)
LEMMA NotedKeeps ==
  ASSUME ReviewInv, NEW g \in Publishers, Publishing(g), NEW p,
         DOMAIN p = DOMAIN pub[g], p.todo \subseteq pub[g].todo,
         DOMAIN p.items \subseteq DOMAIN pub[g].items,
         \A r \in DOMAIN p.rows : \/ r \in DOMAIN pub[g].rows /\ p.rows[r] = pub[g].rows[r]
                                  \/ Judged(revs, r) /\ p.rows[r] \in WrittenStatuses,
         p.at # "next" => Judged(revs, p.rev),
         pub' = [pub EXCEPT ![g] = p], UNCHANGED <<revs, tasks, decisions, req, batches>>
  PROVE  ReviewInv' /\ RevsKept(revs, revs')
<1>1. PublisherOK(pub[g], revs) /\ pub[g].at \in {"next", "load", "revisions", "projections", "own"}
  BY DEF ReviewInv, PublishersOK, Publishing
<1>2. PublisherOK(p, revs)
  BY <1>1 DEF PublisherOK
<1> QED
  BY <1>2, Notes

LEMMA PublisherKeeps ==
  ASSUME ReviewInv, NEW g \in Publishers, PublisherStep(g), UNCHANGED reviewVars
  PROVE  ReviewInv' /\ RevsKept(revs, revs')
<1> USE DEF reviewVars
<1>1. \A r \in Active : There(revs, r)
  BY DEF Active, There
<1>2. ASSUME NEW p, p.at = "prepare" \/ p = Resting, pub' = [pub EXCEPT ![g] = p], UNCHANGED batches
      PROVE  ReviewInv' /\ RevsKept(revs, revs')
  <2>1. PublisherOK(p, revs)
    BY <1>2, RestingIsOK DEF PublisherOK
  <2> QED
    BY <2>1, <1>2, Notes
<1>3. ASSUME NEW r \in Active, NEW a, NEW d, PrepareProjection(g, r, a, d)
      PROVE  ReviewInv' /\ RevsKept(revs, revs')
  <2>1. PICK new : pub' = [pub EXCEPT ![g] = [at |-> "prepare", new |-> new]]
    BY <1>3 DEF PrepareProjection
  <2> DEFINE p == [at |-> "prepare", new |-> new]
  <2>2. pub' = [pub EXCEPT ![g] = p] /\ p.at = "prepare" /\ UNCHANGED batches
    BY <2>1, <1>3 DEF PrepareProjection
  <2> HIDE DEF p
  <2> QED
    BY <2>2, <1>2
<1>4. ASSUME NEW chosen, PrepareProjections(g, chosen)
      PROVE  ReviewInv' /\ RevsKept(revs, revs')
  <2>1. PICK new : pub' = [pub EXCEPT ![g] = [at |-> "prepare", new |-> new]]
    BY <1>4 DEF PrepareProjections
  <2> DEFINE p == [at |-> "prepare", new |-> new]
  <2>2. pub' = [pub EXCEPT ![g] = p] /\ p.at = "prepare" /\ UNCHANGED batches
    BY <2>1, <1>4 DEF PrepareProjections
  <2> HIDE DEF p
  <2> QED
    BY <2>2, <1>2
<1>5. ASSUME SaveProjections(g) PROVE ReviewInv' /\ RevsKept(revs, revs')
  BY <1>5, <1>2 DEF SaveProjections
<1>6. ASSUME NEW r \in Active, PublishRevision(g, r)
      PROVE  ReviewInv' /\ RevsKept(revs, revs')
  <2>1. Judged(revs, r)
    BY <1>1, <1>6, PassesIsJudged DEF PublishRevision
  <2>2. Start(g, None, "load", r, {}, Nothing)
    BY <1>6 DEF PublishRevision
  <2>3. DOMAIN Nothing = {}
    BY DEF Nothing
  <2> QED
    BY <2>1, <2>2, <2>3, StartKeeps
<1>7. ASSUME NEW b \in BatchIds, ExecuteBatch(g, b)
      PROVE  ReviewInv' /\ RevsKept(revs, revs')
  <2> DEFINE items == batches[b].items
             todo == {r \in DOMAIN items : items[r] = "publishable"}
  <2>1. Start(g, b, "next", None, todo, items) /\ batches[b] # None
    BY <1>7 DEF ExecuteBatch
  <2>2. \A r \in DOMAIN items : There(revs, r)
    BY <2>1 DEF ReviewInv, PublishersOK, BatchOK
  <2>3. \A r \in todo : There(revs, r)
    BY <2>2
  <2> HIDE DEF items, todo
  <2> QED
    BY <2>1, <2>2, <2>3, StartKeeps
<1>8. ASSUME RetireRevisions(g) PROVE ReviewInv' /\ RevsKept(revs, revs')
  <2> DEFINE targets == Others(g, pub[g].rev)
             p == [pub[g] EXCEPT !.at = "projections", !.rows = Noting(@, targets, "retired")]
  <2>1. /\ Publishing(g) /\ pub[g].at # "next" /\ UNCHANGED batches
        /\ pub' = [pub EXCEPT ![g] = p]
    BY <1>8 DEF RetireRevisions, Publishing, ReviewInv, PublishersOK
  <2>2. PublisherOK(pub[g], revs)
        /\ DOMAIN pub[g] = {"at", "batch", "rev", "todo", "items", "found", "rows", "prows"}
    BY <2>1 DEF ReviewInv, PublishersOK, PublisherOK, Publishing
  <2>3. \A q \in targets : Judged(revs, q)
    <3> SUFFICES ASSUME NEW q \in targets PROVE Judged(revs, q)
      OBVIOUS
    <3>1. There(revs, q) /\ RowSeen(g, q).status = "published"
      BY <1>1 DEF Others
    <3>2. CASE q \in DOMAIN pub[g].rows
      BY <2>1, <2>2, <3>2 DEF PublisherOK, Publishing
    <3>3. CASE q \notin DOMAIN pub[g].rows
      BY <3>1, <3>3 DEF RowSeen, Judged
    <3> QED
      BY <3>2, <3>3
  <2>4. p.rows = Noting(pub[g].rows, targets, "retired") /\ DOMAIN p = DOMAIN pub[g]
        /\ p.todo = pub[g].todo /\ p.items = pub[g].items /\ p.rev = pub[g].rev
    BY <2>2
  <2> HIDE DEF targets, p
  <2>6. \A r \in DOMAIN p.rows :
          \/ r \in DOMAIN pub[g].rows /\ p.rows[r] = pub[g].rows[r]
          \/ Judged(revs, r) /\ p.rows[r] \in WrittenStatuses
    <3> SUFFICES ASSUME NEW r \in DOMAIN p.rows
                 PROVE  \/ r \in DOMAIN pub[g].rows /\ p.rows[r] = pub[g].rows[r]
                        \/ Judged(revs, r) /\ p.rows[r] \in WrittenStatuses
      OBVIOUS
    <3>1. CASE r \in targets
      <4>1. Noting(pub[g].rows, targets, "retired")[r] = "retired"
        BY <3>1 DEF Noting
      <4> QED
        BY <2>3, <2>4, <3>1, <4>1 DEF WrittenStatuses
    <3>2. CASE r \notin targets
      <4>1. r \in DOMAIN pub[g].rows
        BY <2>4, <3>2 DEF Noting
      <4>2. Noting(pub[g].rows, targets, "retired")[r] = pub[g].rows[r]
        BY <3>2, <4>1 DEF Noting
      <4> QED
        BY <2>4, <4>1, <4>2
    <3> QED
      BY <3>1, <3>2
  <2>7. Judged(revs, p.rev)
    BY <2>1, <2>2, <2>4 DEF PublisherOK, Publishing
  <2> QED
    BY <2>1, <2>4, <2>6, <2>7, NotedKeeps
<1>9. ASSUME RetireProjections(g) PROVE ReviewInv' /\ RevsKept(revs, revs')
  <2>1. PICK targets : pub' = [pub EXCEPT ![g].at = "own",
                                         ![g].prows = Noting(@, targets, "retired")]
    BY <1>9 DEF RetireProjections
  <2> DEFINE p == [pub[g] EXCEPT !.at = "own", !.prows = Noting(@, targets, "retired")]
  <2>2. /\ Publishing(g) /\ pub[g].at # "next" /\ UNCHANGED batches
        /\ pub' = [pub EXCEPT ![g] = p]
    BY <1>9, <2>1 DEF RetireProjections, Publishing, ReviewInv, PublishersOK
  <2>3. PublisherOK(pub[g], revs)
        /\ DOMAIN pub[g] = {"at", "batch", "rev", "todo", "items", "found", "rows", "prows"}
    BY <2>2 DEF ReviewInv, PublishersOK, PublisherOK, Publishing
  <2>4. DOMAIN p = DOMAIN pub[g] /\ p.rows = pub[g].rows
        /\ p.todo = pub[g].todo /\ p.items = pub[g].items /\ p.rev = pub[g].rev
    BY <2>3
  <2>5. Judged(revs, p.rev)
    BY <2>2, <2>3, <2>4 DEF PublisherOK, Publishing
  <2> HIDE DEF p
  <2> QED
    BY <2>2, <2>4, <2>5, NotedKeeps
<1>10. ASSUME PublishOwn(g) PROVE ReviewInv' /\ RevsKept(revs, revs')
  <2> DEFINE r == pub[g].rev
             row == Assigned(pub[g].found.row, RowSeen(g, r).status)
  <2>1. PICK prows, items :
          /\ pub' = [pub EXCEPT ![g].at = "next", ![g].rows = Noting(@, {r}, row),
                     ![g].prows = prows, ![g].found = Nothing, ![g].items = items]
          /\ items = IF r \in DOMAIN pub[g].items
                     THEN [pub[g].items EXCEPT ![r] = "published"] ELSE pub[g].items
    <3> DEFINE prows == Noting(pub[g].prows, {r},
                               Assigned(pub[g].found.proj, ProjSeen(g, r).status))
               items == IF r \in DOMAIN pub[g].items
                        THEN [pub[g].items EXCEPT ![r] = "published"] ELSE pub[g].items
    <3>1. pub' = [pub EXCEPT ![g].at = "next", ![g].rows = Noting(@, {r}, row),
                     ![g].prows = prows, ![g].found = Nothing, ![g].items = items]
      BY <1>10 DEF PublishOwn
    <3> HIDE DEF prows
    <3> QED
      BY <3>1
  <2> DEFINE p == [pub[g] EXCEPT !.at = "next", !.rows = Noting(@, {r}, row),
                     !.prows = prows, !.found = Nothing, !.items = items]
  <2>2. /\ Publishing(g) /\ pub[g].at # "next" /\ UNCHANGED batches
        /\ pub' = [pub EXCEPT ![g] = p]
    <3>1. g \in DOMAIN pub
      BY DEF ReviewInv, PublishersOK
    <3>2. pub' = [pub EXCEPT ![g] = p]
      BY <2>1, <3>1
    <3> QED
      BY <1>10, <3>2 DEF PublishOwn, Publishing
  <2>3. PublisherOK(pub[g], revs)
        /\ DOMAIN pub[g] = {"at", "batch", "rev", "todo", "items", "found", "rows", "prows"}
    BY <2>2 DEF ReviewInv, PublishersOK, PublisherOK, Publishing
  <2>4. DOMAIN p = DOMAIN pub[g] /\ p.rows = Noting(pub[g].rows, {r}, row)
        /\ p.at = "next"
        /\ p.todo = pub[g].todo /\ DOMAIN p.items = DOMAIN pub[g].items
    BY <2>1, <2>3
  <2>5. Judged(revs, r)
    BY <2>2, <2>3 DEF PublisherOK, Publishing
  <2>6. row \in WrittenStatuses
    BY <2>2, <2>5, SeenIsWritten DEF Assigned, WrittenStatuses
  <2> HIDE DEF r, p, row
  <2>7. \A q \in DOMAIN p.rows :
          \/ q \in DOMAIN pub[g].rows /\ p.rows[q] = pub[g].rows[q]
          \/ Judged(revs, q) /\ p.rows[q] \in WrittenStatuses
    <3> SUFFICES ASSUME NEW q \in DOMAIN p.rows
                 PROVE  \/ q \in DOMAIN pub[g].rows /\ p.rows[q] = pub[g].rows[q]
                        \/ Judged(revs, q) /\ p.rows[q] \in WrittenStatuses
      OBVIOUS
    <3>1. CASE q = r
      BY <2>4, <2>5, <2>6, <3>1 DEF Noting
    <3>2. CASE q # r
      BY <2>4, <3>2 DEF Noting
    <3> QED
      BY <3>1, <3>2
  <2> QED
    BY <2>2, <2>4, <2>7, NotedKeeps
<1>11. ASSUME NextItem(g) PROVE ReviewInv' /\ RevsKept(revs, revs')
  <2>1. PICK r \in pub[g].todo :
          LET rest == pub[g].todo \ {r}
              marked(status) == [pub[g] EXCEPT !.todo = rest, !.items[r] = status] IN
          pub' = [pub EXCEPT ![g] =
            IF ~ Passes(g, r) THEN marked("blocked")
            ELSE IF ProjSeen(g, r).status = "published" THEN marked("published")
            ELSE [pub[g] EXCEPT !.todo = rest, !.rev = r, !.at = "load"]]
    BY <1>11 DEF NextItem
  <2> DEFINE rest == pub[g].todo \ {r}
             marked(status) == [pub[g] EXCEPT !.todo = rest, !.items[r] = status]
             begun == [pub[g] EXCEPT !.todo = rest, !.rev = r, !.at = "load"]
  <2>2. Publishing(g) /\ pub[g].at = "next" /\ UNCHANGED batches
    BY <1>11 DEF NextItem, Publishing
  <2>3. PublisherOK(pub[g], revs)
        /\ DOMAIN pub[g] = {"at", "batch", "rev", "todo", "items", "found", "rows", "prows"}
    BY <2>2 DEF ReviewInv, PublishersOK, PublisherOK, Publishing
  <2>4. There(revs, r)
    BY <2>2, <2>3 DEF PublisherOK, Publishing
  <2>5. ASSUME NEW status, pub' = [pub EXCEPT ![g] = marked(status)]
        PROVE  ReviewInv' /\ RevsKept(revs, revs')
    <3> DEFINE p == marked(status)
    <3>1. DOMAIN p = DOMAIN pub[g] /\ p.rows = pub[g].rows /\ p.at = "next"
          /\ p.todo \subseteq pub[g].todo /\ DOMAIN p.items = DOMAIN pub[g].items
      BY <2>2, <2>3
    <3>2. pub' = [pub EXCEPT ![g] = p]
      BY <2>5
    <3> HIDE DEF p
    <3> QED
      BY <2>2, <3>1, <3>2, NotedKeeps
  <2>6. ASSUME Passes(g, r), pub' = [pub EXCEPT ![g] = begun]
        PROVE  ReviewInv' /\ RevsKept(revs, revs')
    <3>1. DOMAIN begun = DOMAIN pub[g] /\ begun.rows = pub[g].rows /\ begun.rev = r
          /\ begun.todo \subseteq pub[g].todo /\ begun.items = pub[g].items
      BY <2>3
    <3>2. Judged(revs, r)
      BY <2>4, <2>6, PassesIsJudged
    <3> HIDE DEF begun
    <3> QED
      BY <2>2, <2>6, <3>1, <3>2, NotedKeeps
  <2>7. \/ Passes(g, r) /\ pub' = [pub EXCEPT ![g] = begun]
        \/ pub' = [pub EXCEPT ![g] = marked("blocked")]
        \/ pub' = [pub EXCEPT ![g] = marked("published")]
    <3>1. CASE ~ Passes(g, r)
      BY <2>1, <3>1
    <3>2. CASE Passes(g, r) /\ ProjSeen(g, r).status = "published"
      BY <2>1, <3>2
    <3>3. CASE Passes(g, r) /\ ProjSeen(g, r).status # "published"
      BY <2>1, <3>3
    <3> QED
      BY <3>1, <3>2, <3>3
  <2> QED
    BY <2>5, <2>6, <2>7
<1>12. ASSUME RollBack(g) PROVE ReviewInv' /\ RevsKept(revs, revs')
  BY <1>12, <1>2 DEF RollBack
<1>13. ASSUME LoadRows(g) PROVE ReviewInv' /\ RevsKept(revs, revs')
  <2>1. PICK found : pub' = [pub EXCEPT ![g].at = "revisions", ![g].found = found]
    BY <1>13 DEF LoadRows
  <2> DEFINE p == [pub[g] EXCEPT !.at = "revisions", !.found = found]
  <2>2. /\ Publishing(g) /\ pub[g].at # "next" /\ UNCHANGED batches
        /\ pub' = [pub EXCEPT ![g] = p]
    BY <1>13, <2>1 DEF LoadRows, Publishing, ReviewInv, PublishersOK
  <2>3. PublisherOK(pub[g], revs)
        /\ DOMAIN pub[g] = {"at", "batch", "rev", "todo", "items", "found", "rows", "prows"}
    BY <2>2 DEF ReviewInv, PublishersOK, PublisherOK, Publishing
  <2>4. DOMAIN p = DOMAIN pub[g] /\ p.rows = pub[g].rows
        /\ p.todo = pub[g].todo /\ p.items = pub[g].items /\ p.rev = pub[g].rev
    BY <2>3
  <2>5. Judged(revs, p.rev)
    BY <2>2, <2>3, <2>4 DEF PublisherOK, Publishing
  <2> HIDE DEF p
  <2> QED
    BY <2>2, <2>4, <2>5, NotedKeeps
<1> QED
  BY <1>3, <1>4, <1>5, <1>6, <1>7, <1>8, <1>9, <1>10, <1>11, <1>12, <1>13 DEF PublisherStep

LEMMA PreviewKeeps ==
  ASSUME ReviewInv, NEW b \in BatchIds, NEW chosen \in SUBSET Active,
         PreviewBatch(b, chosen), UNCHANGED reviewVars
  PROVE  ReviewInv' /\ RevsKept(revs, revs')
<1>1. PICK items : /\ DOMAIN items = chosen
                   /\ batches' = [batches EXCEPT ![b] =
                        [status |-> "preview", snapshot |-> {}, items |-> items]]
  <2> DEFINE items == [r \in chosen |->
               IF projs[r] # None /\ PublicationGateOf(revs[r], Rels, projs[r]) = {}
               THEN "publishable" ELSE "blocked"]
  <2>1. batches' = [batches EXCEPT ![b] =
                      [status |-> "preview", snapshot |-> {}, items |-> items]]
    BY DEF PreviewBatch
  <2>2. DOMAIN items = chosen
    OBVIOUS
  <2> HIDE DEF items
  <2> QED
    BY <2>1, <2>2
<1>2. UNCHANGED <<revs, tasks, decisions, req, pub>>
  BY DEF PreviewBatch, reviewVars
<1>3. \A r \in chosen : There(revs, r)
  BY DEF Active, There
<1>4. \A c \in BatchIds : batches'[c] = batches[c] \/ BatchOK(batches'[c], revs')
  BY <1>1, <1>2, <1>3 DEF ReviewInv, PublishersOK, BatchOK
<1>5. /\ DOMAIN batches' = BatchIds
      /\ DOMAIN req' = Threads /\ \A h \in Threads : req'[h] = req[h]
      /\ DOMAIN pub' = Publishers /\ \A g \in Publishers : pub'[g] = pub[g]
  BY <1>1, <1>2 DEF ReviewInv, PublishersOK, RequestsOK
<1> QED
  BY <1>2, <1>4, <1>5, QuietRows, StepKeeps

(* A publication changes the life cycle of approved revisions only.           *)
LEMMA SeenRow ==
  ASSUME ReviewInv, NEW g \in Publishers, Publishing(g), NEW r \in Revs, revs[r] # None
  PROVE  /\ RowSeen(g, r) \in RevisionRow
         /\ RevisionKept(revs[r], RowSeen(g, r))
         /\ revs[r].status = "candidate" => RowSeen(g, r).status = "candidate"
<1> DEFINE c == revs[r]
<1>1. c \in RevisionRow /\ c.version \in Nat
  BY DEF ReviewInv, RowsOK, RevisionRow
<1>2. CASE r \in DOMAIN pub[g].rows
  <2> DEFINE status == pub[g].rows[r]
             eligible == EligibleAfter(c.eligible, status)
             d == [c EXCEPT !.status = status, !.eligible = eligible]
  <2>1. Judged(revs, r) /\ status \in WrittenStatuses
    BY <1>2 DEF ReviewInv, PublishersOK, PublisherOK, Publishing
  <2>2. RowSeen(g, r) = d
    BY <1>2 DEF RowSeen
  <2>3. eligible \in BOOLEAN /\ status \in Lifecycles
    BY <1>1, <2>1 DEF Lifecycles, WrittenStatuses, EligibleAfter, RevisionRow
  <2> HIDE DEF eligible, status
  <2>4. d \in RevisionRow
    BY <1>1, <2>3 DEF RevisionRow
  <2>5. /\ d.status = status /\ d.version = c.version
        /\ d.sources = c.sources /\ d.items = c.items
    BY <1>1 DEF RevisionRow
  <2>6. Facts(d) = Facts(c)
    <3> DEFINE plain == {[i EXCEPT !.status = ""] : i \in c.items}
    <3>1. Facts(d) = [d EXCEPT !.status = "", !.eligible = FALSE, !.items = plain]
      BY <2>5 DEF Facts
    <3>2. Facts(c) = [c EXCEPT !.status = "", !.eligible = FALSE, !.items = plain]
      BY DEF Facts
    <3> HIDE DEF plain
    <3> QED
      BY <3>1, <3>2, <1>1, <2>3, ZenonT(60) DEF RevisionRow
  <2>7. d # None /\ c.status # "candidate" /\ d.status # "candidate"
    BY <2>1, <2>4, <2>5, ReviewAssumption DEF Judged, WrittenStatuses
  <2>8. RevisionKept(c, d)
    <3> HIDE DEF d
    <3> QED
      BY <1>1, <2>5, <2>6, <2>7 DEF RevisionKept, Uncited
  <2> HIDE DEF d
  <2> QED
    BY <2>2, <2>4, <2>7, <2>8
<1>3. CASE r \notin DOMAIN pub[g].rows
  <2>1. RowSeen(g, r) = c
    BY <1>3 DEF RowSeen
  <2> QED
    BY <2>1, <1>1, SameIsKept
<1> QED
  BY <1>2, <1>3

LEMMA CommitKeeps ==
  ASSUME ReviewInv, NEW g \in Publishers, CommitPublication(g)
  PROVE  ReviewInv' /\ RevsKept(revs, revs')
<1> DEFINE b == pub[g].batch
<1>1. /\ Publishing(g)
      /\ pub' = [pub EXCEPT ![g] = Resting]
      /\ UNCHANGED <<tasks, decisions, req>>
  BY DEF CommitPublication, Publishing
<1>2. CASE UNCHANGED <<revs, batches>>
  BY <1>1, <1>2, RestingIsOK, Notes
<1>3. CASE /\ revs' = [r \in Revs |-> RowSeen(g, r)]
           /\ UNCHANGED batches \/ batches' = [batches EXCEPT ![b] = Finished(g)]
  <2>1. ASSUME NEW r \in Revs, revs[r] = None PROVE revs'[r] = None
    <3>1. r \notin DOMAIN pub[g].rows
      BY <1>1, <2>1 DEF ReviewInv, PublishersOK, PublisherOK, Publishing, Judged, There
    <3> QED
      BY <1>3, <2>1, <3>1 DEF RowSeen
  <2>2. \A r \in Revs : revs[r] # None =>
          /\ revs'[r] \in RevisionRow
          /\ RevisionKept(revs[r], revs'[r])
          /\ revs[r].status = "candidate" <=> revs'[r].status = "candidate"
    BY <1>1, <1>3, SeenRow DEF RevisionKept
  <2>3. \A r : There(revs', r) <=> There(revs, r)
    BY <2>1, <2>2 DEF There, RevisionKept
  <2>4. revs' \in [Revs -> RevisionRow \cup {None}]
    <3>1. \A r \in Revs : revs'[r] \in RevisionRow \cup {None}
      BY <2>1, <2>2
    <3>2. revs' = [r \in Revs |-> revs'[r]]
      BY <1>3
    <3> QED
      BY <3>1, <3>2
  <2>5. RowsOK' /\ Decisions'
    BY <1>1, <2>3, <2>4 DEF ReviewInv, RowsOK, Decisions
  <2>6. Approvals'
    <3>1. \A r : ApprovalsOf(r)' = ApprovalsOf(r)
      BY <1>1 DEF ApprovalsOf
    <3>2. Active' = Active
      BY <2>3 DEF Active, There
    <3>3. \A r \in Active : revs[r].status = "candidate" <=> revs'[r].status = "candidate"
      BY <2>2 DEF Active
    <3> QED
      BY <1>1, <3>1, <3>2, <3>3 DEF ReviewInv, Approvals
  <2>7. RevsKept(revs, revs') /\ TasksKept(tasks, tasks')
    BY <1>1, <2>2, RowsStay DEF ReviewInv, RevsKept
  <2>8. BatchOK(Finished(g), revs')
    <3>1. \A r \in DOMAIN pub[g].items : There(revs, r)
      BY <1>1 DEF ReviewInv, PublishersOK, PublisherOK, Publishing
    <3>2. Finished(g).items = pub[g].items
      BY DEF Finished
    <3> QED
      BY <2>3, <3>1, <3>2 DEF BatchOK
  <2>9. /\ DOMAIN batches' = BatchIds
        /\ \A c \in BatchIds : batches'[c] = batches[c] \/ BatchOK(batches'[c], revs')
    BY <1>3, <2>8 DEF ReviewInv, PublishersOK
  <2>10. /\ DOMAIN pub' = Publishers
         /\ \A k \in Publishers : pub'[k] = pub[k] \/ PublisherOK(pub'[k], revs')
    BY <1>1, RestingIsOK DEF ReviewInv, PublishersOK
  <2>11. DOMAIN req' = Threads /\ \A h \in Threads : req'[h] = req[h]
    BY <1>1 DEF ReviewInv, RequestsOK
  <2> QED
    BY <2>5, <2>6, <2>7, <2>9, <2>10, <2>11, StepKeeps
<1> QED
  BY <1>2, <1>3 DEF CommitPublication

-------------------------------------------------------------------------------
LEMMA ReviewStepKeeps ==
  ASSUME ReviewInv, NEW h \in Threads, ReviewStep(h), UNCHANGED publishVars
  PROVE  ReviewInv' /\ RevsKept(revs, revs')
<1>1. UNCHANGED <<pub, batches>>
  BY DEF publishVars
<1>2. CASE \E r \in Revs, n \in Numbers : EvidenceEdits(h, r, n)
  BY <1>1, <1>2, EvidenceEditKeeps
<1>3. CASE \E r \in Revs : RevisionEdits(h, r)
  BY <1>1, <1>3, RevisionEditKeeps
<1>4. CASE \/ \E r \in Active, to \in {"human_verified", "rejected"} :
                \/ \E i \in revs[r].items : ReviewEvidence(h, r, i, to)
                \/ \E x \in RelationIds : ReviewRelation(h, r, x, to)
           \/ \E r \in Revs : Submit(h, r) \/ CreateRevision(h, r)
           \/ \E t \in Tasks, kind \in Kinds : Decide(h, t, kind)
           \/ Abandon(h)
  BY <1>1, <1>4, ReviewAsks
<1>5. CASE \E r \in Revs : SaveRevision(h, r)
  BY <1>1, <1>5, SaveRevisionKeeps
<1>6. CASE SaveEdit(h) \/ SaveReview(h) \/ SaveSubmit(h) \/ SaveDecide(h)
  BY <1>1, <1>6, SaveEditKeeps, SaveReviewKeeps, SaveSubmitKeeps, SaveDecideKeeps
<1> QED
  BY <1>2, <1>3, <1>4, <1>5, <1>6 DEF ReviewStep

LEMMA InitIsSound == CatalogInit => ReviewInv
<1> SUFFICES ASSUME CatalogInit PROVE ReviewInv
  OBVIOUS
<1> USE DEF CatalogInit, ReviewInit, PublicationInit
<1>1. RowsOK
  BY DEF RowsOK
<1>2. Approvals
  BY DEF Approvals, ApprovalsOf, Active
<1>3. Decisions
  BY DEF Decisions
<1>4. RequestsOK
  BY IdleIsOK DEF RequestsOK
<1>5. PublishersOK
  BY RestingIsOK DEF PublishersOK, BatchOK
<1> QED
  BY <1>1, <1>2, <1>3, <1>4, <1>5 DEF ReviewInv

LEMMA NextKeeps == ReviewInv /\ CatalogNext => ReviewInv' /\ RevsKept(revs, revs')
<1> SUFFICES ASSUME ReviewInv, CatalogNext PROVE ReviewInv' /\ RevsKept(revs, revs')
  OBVIOUS
<1>1. CASE ReviewNext /\ UNCHANGED publishVars
  BY <1>1, ReviewStepKeeps DEF ReviewNext
<1>2. CASE PublicationStep /\ UNCHANGED reviewVars
  BY <1>2, PublisherKeeps, PreviewKeeps DEF PublicationStep
<1>3. CASE \E g \in Publishers : CommitPublication(g)
  BY <1>3, CommitKeeps
<1> QED
  BY <1>1, <1>2, <1>3 DEF CatalogNext

LEMMA StutterKeeps ==
  ReviewInv /\ UNCHANGED catalogVars => ReviewInv' /\ RevsKept(revs, revs')
<1> SUFFICES ASSUME ReviewInv, UNCHANGED catalogVars PROVE ReviewInv' /\ RevsKept(revs, revs')
  OBVIOUS
<1>1. UNCHANGED <<revs, tasks, decisions, req, pub, batches>>
  BY DEF catalogVars, reviewVars, publishVars
<1>2. /\ DOMAIN req' = Threads /\ \A h \in Threads : req'[h] = req[h]
      /\ DOMAIN pub' = Publishers /\ \A g \in Publishers : pub'[g] = pub[g]
      /\ DOMAIN batches' = BatchIds /\ \A b \in BatchIds : batches'[b] = batches[b]
  BY <1>1 DEF ReviewInv, RequestsOK, PublishersOK
<1> QED
  BY <1>1, <1>2, QuietRows, StepKeeps

LEMMA AlwaysSound == CatalogSpec => []ReviewInv
<1>1. ReviewInv /\ [CatalogNext]_catalogVars => ReviewInv'
  BY NextKeeps, StutterKeeps
<1> QED
  BY <1>1, InitIsSound, PTL DEF CatalogSpec

LEMMA SoundIsDecidedOnce == ReviewInv => DecidedOnce
<1> SUFFICES ASSUME ReviewInv PROVE DecidedOnce
  OBVIOUS
<1>1. OneApproval
  <2> SUFFICES ASSUME NEW r \in Active
               PROVE  Cardinality(ApprovalsOf(r)) =
                        (IF revs[r].status = "candidate" THEN 0 ELSE 1)
    BY DEF OneApproval, ApprovalsOf
  <2>1. CASE revs[r].status = "candidate"
    BY <2>1, FS_EmptySet DEF ReviewInv, Approvals
  <2>2. CASE revs[r].status # "candidate"
    BY <2>2, FS_Singleton DEF ReviewInv, Approvals
  <2> QED
    BY <2>1, <2>2
<1> QED
  BY <1>1 DEF DecidedOnce, ReviewInv, Decisions

-------------------------------------------------------------------------------
(* However many reviewers decide at the same time, and however many tasks are *)
(* open for a revision: it is approved once, and by the decision its task     *)
(* shows.                                                                     *)
THEOREM ApprovalsAreSingle == CatalogSpec => []DecidedOnce
  BY AlwaysSound, SoundIsDecidedOnce, PTL

(* No request changes the facts of a revision after it was approved.          *)
THEOREM ApprovedStaysFrozen == CatalogSpec => ApprovedIsFrozen
<1>1. ReviewInv /\ [CatalogNext]_catalogVars =>
        [\A r \in Active : revs[r].status # "candidate" => Facts(revs'[r]) = Facts(revs[r])]_reviewVars
  <2> SUFFICES ASSUME ReviewInv, [CatalogNext]_catalogVars, NEW r \in Active,
                      revs[r].status # "candidate"
               PROVE  Facts(revs'[r]) = Facts(revs[r])
    OBVIOUS
  <2>1. RevsKept(revs, revs')
    BY NextKeeps, StutterKeeps
  <2> QED
    BY <2>1 DEF RevsKept, RevisionKept, Active
<1> QED
  BY <1>1, AlwaysSound, PTL DEF CatalogSpec, ApprovedIsFrozen

(* No source is taken from a revision whose active evidence cites it.         *)
THEOREM CitedSourcesStay == CatalogSpec => DetachedIsUncited
<1>1. ReviewInv /\ [CatalogNext]_catalogVars =>
        [\A r \in Active : \A s \in revs[r].sources \ revs'[r].sources :
           \A i \in revs'[r].items : i.active => i.source # s]_reviewVars
  <2> SUFFICES ASSUME ReviewInv, [CatalogNext]_catalogVars, NEW r \in Active,
                      NEW s \in revs[r].sources \ revs'[r].sources,
                      NEW i \in revs'[r].items, i.active
               PROVE  i.source # s
    OBVIOUS
  <2>1. RevsKept(revs, revs')
    BY NextKeeps, StutterKeeps
  <2> QED
    BY <2>1 DEF RevsKept, RevisionKept, Active, Uncited
<1> QED
  BY <1>1, AlwaysSound, PTL DEF CatalogSpec, DetachedIsUncited
===============================================================================
