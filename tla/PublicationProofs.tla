--------------------------- MODULE PublicationProofs ----------------------------
(***************************************************************************)
(* Publications of any number of revisions, by any number of publishers,   *)
(* beside reviews: as long as they do not overlap, a place has one         *)
(* published revision and what was retired stays retired; overlapping or   *)
(* not, a finished batch tells what it published; numbers and nodes are    *)
(* given once.  And the two gates, of the reviewer and of the publication, *)
(* agree about every revision.                                             *)
(***************************************************************************)
EXTENDS ReviewProofs, FiniteSetTheorems

-------------------------------------------------------------------------------
(* The status a publisher with writes p sees of a revision, of a projection.   *)
RowBy(p, r) == IF r \in DOMAIN p.rows THEN p.rows[r] ELSE revs[r].status
ProjBy(p, r) == IF r \in DOMAIN p.prows THEN p.prows[r] ELSE projs[r].status

RowOut(p, r) == revs[r] # None /\ RowBy(p, r) = "published"
ProjOut(p, r) == projs[r] # None /\ ProjBy(p, r) = "published"

InHand(p) == p.at \in {"next", "load", "revisions", "projections", "own"}

(* Projections are of approved revisions, and so is what a publisher is about. *)
ProjsOK ==
  /\ projs \in [Revs -> ProjectionRow \cup {None}]
  /\ \A r \in Revs : projs[r] # None => Judged(revs, r)

AllPrepared(items) ==
  \A r \in DOMAIN items : items[r] = "publishable" => projs[r] # None

HandOK(p) ==
  /\ p.at = "prepare" =>
       \A r \in DOMAIN p.new :
         Judged(revs, r) /\ p.new[r] \in ProjectionRow /\ p.new[r].status = "candidate"
  /\ InHand(p) =>
       /\ \A r \in DOMAIN p.prows : r \in Revs /\ projs[r] # None
                                      /\ p.prows[r] \in {"candidate", "published", "retired"}
       /\ \A r \in p.todo : projs[r] # None
       /\ AllPrepared(p.items)
       /\ p.at # "next" => projs[p.rev] # None

ItemsOK == \A b \in BatchIds : batches[b] # None => AllPrepared(batches[b].items)

(* What is committed, and what a publisher that is alone has made of it: one    *)
(* published revision and its projection; in between, first the other          *)
(* revisions and then the other projections are retired.                       *)
Allowed(c) == c.status \in {"human_verified", "published"} => c.eligible
OneIsOut ==
  /\ \A r \in Revs : revs[r] # None => Allowed(revs[r])
  /\ \A r \in Revs : (revs[r] # None /\ revs[r].status = "published")
                       <=> (projs[r] # None /\ projs[r].status = "published")
  /\ \A r, q \in Published : r = q

OneOutBy(p) ==
  /\ p.at \in {"next", "load", "revisions"} =>
       /\ \A r \in Revs : RowOut(p, r) <=> ProjOut(p, r)
       /\ \A r, q \in Revs : RowOut(p, r) /\ RowOut(p, q) => r = q
  /\ p.at \in {"projections", "own"} => \A r \in Revs : RowOut(p, r) => r = p.rev
  /\ p.at = "own" => \A r \in Revs : ProjOut(p, r) => r = p.rev
  /\ p.at = "load" => ~ ProjOut(p, p.rev)
  /\ p.at \in {"revisions", "projections", "own"} =>
       p.found.row # "published" /\ p.found.proj # "published"

(* It publishes nothing that is retired.                                       *)
NoneRevived(p) ==
  /\ \A r \in DOMAIN p.rows : p.rows[r] # "retired" => revs[r].status # "retired"
  /\ \A r \in DOMAIN p.prows : p.prows[r] # "retired" => projs[r].status # "retired"
  /\ p.at # "next" => revs[p.rev].status # "retired" /\ projs[p.rev].status # "retired"

InTurn ==
  ~ overlapped =>
    /\ \A g, k \in Publishers : Publishing(g) /\ Publishing(k) => g = k
    /\ OneIsOut
    /\ \A g \in Publishers : Publishing(g) => OneOutBy(pub[g]) /\ NoneRevived(pub[g])

(* Batches have items, and their results are told.                             *)
ToldBy(batch, b, ss) ==
  LET done == {r \in DOMAIN batch.items : batch.items[r] = "published"} IN
  /\ batch.snapshot = done
  /\ batch.status = "published" <=> (done = DOMAIN batch.items)
  /\ batch.status = "partial_failed" <=> (done # {} /\ done # DOMAIN batch.items)
  /\ done # {} => [content |-> done, batch |-> b] \in ss
Told(batch, b) == ToldBy(batch, b, snaps)
BatchesTold ==
  /\ \A b \in BatchIds : batches[b] # None =>
       DOMAIN batches[b].items # {} /\ Told(batches[b], b)
  /\ \A g \in Publishers : Publishing(g) /\ pub[g].batch # None => DOMAIN pub[g].items # {}

PublicationInv ==
  ProjsOK /\ (\A g \in Publishers : HandOK(pub[g])) /\ ItemsOK /\ InTurn /\ BatchesTold
-------------------------------------------------------------------------------
(* What a publisher sees are its own writes.                                   *)
LEMMA StatusSeen ==
  ASSUME ReviewInv, NEW g \in Publishers, NEW r, There(revs, r)
  PROVE  /\ Publishing(g) => RowSeen(g, r).status = RowBy(pub[g], r)
         /\ ~ Publishing(g) => RowSeen(g, r) = revs[r]
<1>1. revs[r] \in RevisionRow
  BY DEF ReviewInv, RowsOK, There
<1>2. CASE Publishing(g) /\ r \in DOMAIN pub[g].rows
  BY <1>1, <1>2 DEF RowSeen, RowBy, RevisionRow
<1>3. CASE ~ (Publishing(g) /\ r \in DOMAIN pub[g].rows)
  BY <1>3 DEF RowSeen, RowBy
<1> QED
  BY <1>2, <1>3

LEMMA ProjectionSeen ==
  ASSUME ProjsOK, NEW g \in Publishers, HandOK(pub[g]), NEW r \in Revs
  PROVE  /\ projs[r] = None => ProjSeen(g, r) = None
         /\ projs[r] # None =>
              /\ ProjSeen(g, r) \in ProjectionRow /\ ProjSeen(g, r) # None
              /\ Publishing(g) => ProjSeen(g, r).status = ProjBy(pub[g], r)
              /\ ~ Publishing(g) => ProjSeen(g, r) = projs[r]
<1>1. projs[r] # None => projs[r] \in ProjectionRow
  BY DEF ProjsOK
<1>2. Publishing(g) => InHand(pub[g])
  BY DEF Publishing, InHand
<1>3. CASE Publishing(g) /\ r \in DOMAIN pub[g].prows
  <2>1. projs[r] # None /\ pub[g].prows[r] \in {"candidate", "published", "retired"}
    BY <1>2, <1>3 DEF HandOK, AllPrepared
  <2>2. ProjSeen(g, r) = [projs[r] EXCEPT !.status = pub[g].prows[r]]
    BY <1>3 DEF ProjSeen
  <2>3. ProjSeen(g, r) \in ProjectionRow /\ ProjSeen(g, r).status = pub[g].prows[r]
    BY <1>1, <2>1, <2>2 DEF ProjectionRow
  <2> QED
    BY <1>3, <2>1, <2>3, PublicationAssumption DEF ProjBy
<1>4. CASE ~ (Publishing(g) /\ r \in DOMAIN pub[g].prows)
  BY <1>1, <1>4 DEF ProjSeen, ProjBy
<1> QED
  BY <1>3, <1>4

(* The gate stops what is retired.                                             *)
LEMMA GateNeedsLiveProjection ==
  ASSUME NEW c, NEW rels, NEW p, NEW records, Gate(c, rels, p, records) = {}
  PROVE  p.status # "retired"
<1> SUFFICES ASSUME p.status = "retired" PROVE FALSE
  OBVIOUS
<1>1. "PROJECTION_NOT_ACTIVE" \in Code("PROJECTION_NOT_ACTIVE", p.status = "retired")
  BY DEF Code
<1>2. Code("PROJECTION_NOT_ACTIVE", p.status = "retired") \subseteq Gate(c, rels, p, records)
  BY Zenon DEF Gate
<1> QED
  BY <1>1, <1>2

LEMMA PassesIsLive ==
  ASSUME NEW g, NEW r, Passes(g, r)
  PROVE  /\ RowSeen(g, r).status \in {"human_verified", "published"}
         /\ ProjSeen(g, r).status # "retired"
  BY GateNeedsApproval, GateNeedsLiveProjection DEF Passes, PublicationGateOf

-------------------------------------------------------------------------------
(* Reviews neither publish nor retire, nor undo either; an approval makes what *)
(* it approves eligible.                                                       *)
LifeKept(rs, rt) ==
  \A r \in Revs :
    /\ rs[r] # None => /\ rt[r] # None
                       /\ rt[r].status = "published" <=> rs[r].status = "published"
                       /\ rt[r].status = "retired" <=> rs[r].status = "retired"
                       /\ Allowed(rs[r]) => Allowed(rt[r])
    /\ rs[r] = None /\ rt[r] # None => rt[r].status = "candidate"

LEMMA ReviewSparesLife ==
  ASSUME ReviewInv, NEW h \in Threads, ReviewStep(h)
  PROVE  LifeKept(revs, revs')
<1>1. revs \in [Revs -> RevisionRow \cup {None}]
  BY DEF ReviewInv, RowsOK
<1>2. CASE UNCHANGED revs
  BY <1>2 DEF LifeKept
<1>3. ASSUME NEW r \in Revs, revs[r] # None, NEW d, d # None,
             d.status = revs[r].status \/ {d.status, revs[r].status}
                                            \subseteq {"candidate", "human_verified"},
             Allowed(revs[r]) => Allowed(d),
             revs' = [revs EXCEPT ![r] = d]
      PROVE  LifeKept(revs, revs')
  <2>1. \A q \in Revs : revs'[q] = IF q = r THEN d ELSE revs[q]
    BY <1>1, <1>3
  <2> QED
    BY <1>3, <2>1 DEF LifeKept
<1>4. CASE SaveEdit(h)
  <2> DEFINE q == req[h]
             d == Edited(revs[q.rev], q.change)
  <2>1. q.at = "edit"
    BY <1>4 DEF SaveEdit
  <2>2. EditOK(q, revs)
    BY <2>1 DEF ReviewInv, RequestsOK, RequestOK
  <2>3. q.rev \in Revs /\ revs[q.rev] # None /\ revs[q.rev] \in RevisionRow /\ ChangeOK(q.change)
    BY <1>1, <2>2 DEF EditOK, There
  <2>4. d \in RevisionRow /\ d.status = revs[q.rev].status
    BY <2>3, EditedRow
  <2>5. d # None
    BY <2>4, ReviewAssumption
  <2>6. UNCHANGED revs \/ (Candidate(q.rev) /\ revs' = [revs EXCEPT ![q.rev] = d])
    BY <1>4, <2>3 DEF SaveEdit, AtVersion, Candidate, Active
  <2>7. Candidate(q.rev) => Allowed(d)
    BY <2>4 DEF Candidate, Allowed
  <2> HIDE DEF d
  <2> QED
    BY <1>2, <1>3, <2>3, <2>4, <2>5, <2>6, <2>7
<1>5. CASE SaveReview(h)
  <2> DEFINE q == req[h]
             c == revs[q.rev]
             found == {i \in ById(c, q.item) : i.active}
             d == Verdict(c, found, q.to)
  <2>1. q.at = "evidence"
    BY <1>5 DEF SaveReview
  <2>2. There(revs, q.rev) /\ q.to \in EvidenceStatuses
    BY <2>1 DEF ReviewInv, RequestsOK, RequestOK, EvidenceStatuses
  <2>3. q.rev \in Revs /\ c # None /\ c \in RevisionRow
    BY <1>1, <2>2 DEF There
  <2>4. found \subseteq c.items
    BY DEF ById, RowsOf
  <2>5. revs' = [revs EXCEPT ![q.rev] = d]
    BY <1>1, <2>3, <1>5 DEF SaveReview, Verdict
  <2>6. d \in RevisionRow /\ d.status = c.status
    <3> HIDE DEF found, c, q
    <3> QED
      BY <2>2, <2>3, <2>4, VerdictRow
  <2>7. d # None
    BY <2>6, ReviewAssumption
  <2>8. d.eligible = c.eligible
    BY <2>3 DEF Verdict, RevisionRow
  <2>9. Allowed(c) => Allowed(d)
    BY <2>6, <2>8 DEF Allowed
  <2> HIDE DEF d
  <2> QED
    BY <1>3, <2>3, <2>5, <2>6, <2>7, <2>9
<1>6. CASE SaveDecide(h)
  <2> DEFINE r == tasks[req[h].task].rev
             d == [revs[r] EXCEPT !.status = "human_verified", !.eligible = TRUE]
  <2>1. req[h].at = "decide"
    BY <1>6 DEF SaveDecide
  <2>2. req[h].task \in Tasks /\ tasks[req[h].task] # None
    BY <2>1 DEF ReviewInv, RequestsOK, RequestOK, DecideOK
  <2>3. r \in Revs /\ revs[r] # None /\ revs[r] \in RevisionRow
    BY <1>1, <2>2 DEF ReviewInv, RowsOK, There
  <2> DEFINE new == [revs EXCEPT ![r].status = "human_verified", ![r].eligible = TRUE]
             goes == /\ Unmoved(req[h].task, req[h].version)
                     /\ req[h].kind # "approve" \/ StillCandidate(r)
  <2>4. UNCHANGED revs \/ (revs[r].status = "candidate" /\ revs' = new)
    <3>1. IF goes THEN revs' = IF req[h].kind # "approve" THEN revs ELSE new
          ELSE UNCHANGED <<revs, tasks, decisions>>
      BY <1>6, Zenon DEF SaveDecide
    <3>2. goes /\ req[h].kind = "approve" => revs[r].status = "candidate"
      BY DEF StillCandidate, Candidate
    <3> HIDE DEF new, goes
    <3> QED
      BY <3>1, <3>2
  <2>5. d \in RevisionRow
    BY <2>3, ZenonT(60) DEF RevisionRow, Lifecycles
  <2>6. d.status = "human_verified" /\ Allowed(d)
    BY <2>3 DEF RevisionRow, Allowed
  <2>7. d # None
    BY <2>5, ReviewAssumption
  <2>8. new = [revs EXCEPT ![r] = d]
    BY <1>1, <2>3
  <2> HIDE DEF d, r, new
  <2> QED
    BY <1>2, <1>3, <2>3, <2>4, <2>6, <2>7, <2>8
<1>7. ASSUME NEW r \in Revs, SaveRevision(h, r)
      PROVE  LifeKept(revs, revs')
  <2>1. req[h].row.status = "candidate" /\ revs[r] = None
    BY <1>7 DEF SaveRevision, ReviewInv, RequestsOK, RequestOK
  <2>2. \/ UNCHANGED revs
        \/ \A q \in Revs : revs'[q] = IF q = r THEN req[h].row ELSE revs[q]
    BY <1>1, <1>7 DEF SaveRevision
  <2>3. CASE \A q \in Revs : revs'[q] = IF q = r THEN req[h].row ELSE revs[q]
    BY <2>1, <2>3 DEF LifeKept
  <2> QED
    BY <1>2, <2>2, <2>3
<1>8. CASE \E r \in Revs, n \in Numbers : EvidenceEdits(h, r, n)
  <2>1. \A r, change : Begin(h, r, change) => UNCHANGED revs
    BY DEF Begin
  <2>2. \A r, kind, n, s, columns :
          Create(h, r, kind, n, s, columns) \/ Update(h, r, kind, n, s, columns) => UNCHANGED revs
    BY <2>1, Zenon DEF Create, Update
  <2>3. \A r, kind, n : Retire(h, r, kind, n) => UNCHANGED revs
    BY <2>1, Zenon DEF Retire
  <2>4. UNCHANGED revs
    BY <1>8, <2>2, <2>3, ZenonT(60) DEF EvidenceEdits, CreateGeometry, UpdateGeometry,
         RetireGeometry, CreateAccessPoint, UpdateAccessPoint, RetireAccessPoint, CreateTimeRule,
         UpdateTimeRule, RetireTimeRule, CreateClosure, UpdateClosure, RetireClosure,
         CreateDateException, UpdateDateException, RetireDateException
  <2> QED
    BY <1>2, <2>4
<1>9. CASE \E r \in Revs : RevisionEdits(h, r)
  BY <1>2, <1>9 DEF RevisionEdits, Begin, GenerateHolidayExceptions, CreateSourceRecord,
       DetachSourceRecord, UpdateRevision, ResolveSourceConflicts, ConfirmNoRelations,
       ResolveRelation
<1>10. CASE \/ \E r \in Active, to \in {"human_verified", "rejected"} :
                 \/ \E i \in revs[r].items : ReviewEvidence(h, r, i, to)
                 \/ \E x \in RelationIds : ReviewRelation(h, r, x, to)
            \/ \E r \in Revs : Submit(h, r) \/ CreateRevision(h, r)
            \/ \E t \in Tasks, kind \in Kinds : Decide(h, t, kind)
            \/ SaveSubmit(h) \/ Abandon(h)
  BY <1>2, <1>10 DEF ReviewEvidence, ReviewRelation, Submit, CreateRevision, Decide, SaveSubmit,
       Abandon
<1> QED
  BY <1>4, <1>5, <1>6, <1>7, <1>8, <1>9, <1>10 DEF ReviewStep
-------------------------------------------------------------------------------
(* Steps of a review leave publications as they are.                           *)
LEMMA ReviewsSparePublications ==
  ASSUME ReviewInv, PublicationInv, LifeKept(revs, revs'), RevsKept(revs, revs'),
         UNCHANGED publishVars
  PROVE  PublicationInv'
<1> USE DEF publishVars
<1>1. \A r : Judged(revs, r) => Judged(revs', r)
  BY DEF Judged, There, RevsKept, RevisionKept
<1>2. ProjsOK' /\ (\A g \in Publishers : HandOK(pub[g])') /\ ItemsOK' /\ BatchesTold'
  BY <1>1 DEF PublicationInv, ProjsOK, HandOK, AllPrepared, InHand, ItemsOK, BatchesTold, Told, ToldBy, Publishing
<1>3. ASSUME ~ overlapped
      PROVE  /\ \A g, k \in Publishers : Publishing(g) /\ Publishing(k) => g = k
             /\ OneIsOut
             /\ \A g \in Publishers : Publishing(g) => OneOutBy(pub[g]) /\ NoneRevived(pub[g])
  BY <1>3 DEF PublicationInv, InTurn
<1>4. \A r \in Revs : (revs'[r] # None /\ revs'[r].status = "published")
                        <=> (revs[r] # None /\ revs[r].status = "published")
  BY DEF LifeKept
<1>5. OneIsOut => OneIsOut'
  <2>1. ASSUME OneIsOut, NEW r \in Revs, revs'[r] # None PROVE Allowed(revs'[r])
    <3>1. CASE revs[r] = None
      BY <2>1, <3>1 DEF LifeKept, Allowed
    <3>2. CASE revs[r] # None
      BY <2>1, <3>2 DEF LifeKept, OneIsOut
    <3> QED
      BY <3>1, <3>2
  <2> QED
    BY <1>4, <2>1 DEF OneIsOut, Published, Active
<1>6. ASSUME NEW g \in Publishers, Publishing(g), OneOutBy(pub[g]), NoneRevived(pub[g])
      PROVE  OneOutBy(pub[g])' /\ NoneRevived(pub[g])'
  <2> DEFINE p == pub[g]
  <2>1. /\ \A r \in DOMAIN p.rows : Judged(revs, r)
        /\ p.at # "next" => Judged(revs, p.rev)
    BY <1>6 DEF ReviewInv, PublishersOK, PublisherOK, Publishing
  <2>2. \A r \in Revs : RowOut(p, r)' <=> RowOut(p, r)
    <3> SUFFICES ASSUME NEW r \in Revs PROVE RowOut(p, r)' <=> RowOut(p, r)
      OBVIOUS
    <3>1. CASE r \in DOMAIN p.rows
      BY <1>1, <2>1, <3>1 DEF RowOut, RowBy, Judged, There
    <3>2. CASE r \notin DOMAIN p.rows
      BY <1>4, <3>2 DEF RowOut, RowBy
    <3> QED
      BY <3>1, <3>2
  <2>3. \A r \in Revs : ProjOut(p, r)' <=> ProjOut(p, r)
    BY DEF ProjOut, ProjBy
  <2>4. \A r : Judged(revs, r) => (revs'[r].status = "retired" <=> revs[r].status = "retired")
    BY DEF Judged, There, LifeKept
  <2>5. ProjOut(p, p.rev)' <=> ProjOut(p, p.rev)
    BY DEF ProjOut, ProjBy
  <2>6. OneOutBy(p)'
    BY <1>6, <2>2, <2>3, <2>5 DEF OneOutBy
  <2> QED
    BY <1>6, <2>1, <2>4, <2>6 DEF NoneRevived
<1>7. InTurn'
  BY <1>3, <1>5, <1>6 DEF InTurn, Publishing
<1> QED
  BY <1>2, <1>7 DEF PublicationInv

(* A publisher that notes what it will write, or puts it away: what it has in  *)
(* hand is of its own.                                                         *)
LEMMA PublisherMoves ==
  ASSUME ReviewInv, PublicationInv, NEW g \in Publishers, NEW p, pub' = [pub EXCEPT ![g] = p],
         UNCHANGED <<revs, projs, batches, snaps>>,
         ~ overlapped' => ~ overlapped
                            /\ (InHand(p) => /\ \A k \in Publishers \ {g} : ~ Publishing(k)
                                             /\ OneOutBy(p) /\ NoneRevived(p)),
         HandOK(p), InHand(p) /\ p.batch # None => DOMAIN p.items # {}
  PROVE  PublicationInv'
<1>1. \A k \in Publishers : pub'[k] = IF k = g THEN p ELSE pub[k]
  BY DEF ReviewInv, PublishersOK
<1>2. \A k \in Publishers : Publishing(k)' <=> IF k = g THEN InHand(p) ELSE Publishing(k)
  BY <1>1 DEF Publishing, InHand
<1>3. ProjsOK' /\ ItemsOK'
  BY DEF PublicationInv, ProjsOK, ItemsOK, AllPrepared, Judged, There
<1>4. \A k \in Publishers : HandOK(pub[k])'
  <2>1. \A q : HandOK(q) <=> HandOK(q)'
    BY DEF HandOK, AllPrepared, InHand, Judged, There
  <2>2. \A k \in Publishers : HandOK(pub'[k])
    BY <1>1 DEF PublicationInv
  <2> QED
    BY <2>2 DEF HandOK, AllPrepared, InHand, Judged, There
<1>5. BatchesTold'
  <2>1. \A k \in Publishers : Publishing(k)' /\ pub'[k].batch # None => DOMAIN pub'[k].items # {}
    BY <1>1, <1>2 DEF PublicationInv, BatchesTold
  <2> QED
    BY <2>1 DEF PublicationInv, BatchesTold, Told, ToldBy
<1>6. ASSUME ~ overlapped'
      PROVE  /\ \A h, k \in Publishers : Publishing(h)' /\ Publishing(k)' => h = k
             /\ OneIsOut'
             /\ \A k \in Publishers : Publishing(k)' => OneOutBy(pub[k])' /\ NoneRevived(pub[k])'
  <2>1. /\ \A h, k \in Publishers : Publishing(h) /\ Publishing(k) => h = k
        /\ OneIsOut
        /\ \A k \in Publishers : Publishing(k) => OneOutBy(pub[k]) /\ NoneRevived(pub[k])
    BY <1>6 DEF PublicationInv, InTurn
  <2>2. OneIsOut'
    BY <2>1 DEF OneIsOut, Published, Active
  <2>3. \A k \in Publishers : Publishing(k)' => OneOutBy(pub'[k]) /\ NoneRevived(pub'[k])
    BY <1>1, <1>2, <1>6, <2>1
  <2>4. \A k \in Publishers : Publishing(k)' => OneOutBy(pub[k])' /\ NoneRevived(pub[k])'
    BY <2>3 DEF OneOutBy, NoneRevived, RowOut, ProjOut, RowBy, ProjBy
  <2> QED
    BY <1>2, <1>6, <2>1, <2>2, <2>4
<1>7. InTurn'
  BY <1>6 DEF InTurn
<1> QED
  BY <1>3, <1>4, <1>5, <1>7 DEF PublicationInv

(* Projections that are prepared are of approved revisions.                    *)
LEMMA PreparingKeeps ==
  ASSUME ReviewInv, PublicationInv, NEW g \in Publishers, UNCHANGED reviewVars,
         \/ \E r \in Active : \E a, d \in VerifiedPoints(revs[r]) : PrepareProjection(g, r, a, d)
         \/ \E chosen \in SUBSET Active : PrepareProjections(g, chosen)
  PROVE  PublicationInv'
<1>1. ASSUME NEW r \in Active, Preparable(r), NEW node \in FreeNodes,
             NEW a \in VerifiedPoints(revs[r]), NEW d \in VerifiedPoints(revs[r])
      PROVE  /\ Judged(revs, r)
             /\ Prepared(r, node, a, d) \in ProjectionRow
             /\ Prepared(r, node, a, d).status = "candidate"
  <2>1. Judged(revs, r)
    BY <1>1 DEF Judged, There, Active, Preparable
  <2>2. revs[r].items \subseteq Item
    BY <2>1 DEF ReviewInv, RowsOK, RevisionRow, Judged, There
  <2>3. a.n \in Numbers /\ d.n \in Numbers
    BY <2>2 DEF VerifiedPoints, Of, Item
  <2>4. node \in Nodes
    BY DEF FreeNodes
  <2> DEFINE p == [node |-> node, arrival |-> a.n, departure |-> d.n,
                   status |-> "candidate", verified |-> FALSE]
             good == PreparationGate(revs[r], Rels, p) = {}
  <2>5. Prepared(r, node, a, d) = [p EXCEPT !.verified = good]
    BY DEF Prepared
  <2>6. good \in BOOLEAN
    OBVIOUS
  <2> HIDE DEF good
  <2> QED
    BY <2>1, <2>3, <2>4, <2>5, <2>6 DEF ProjectionRow
<1>2. PICK new : /\ pub' = [pub EXCEPT ![g] = [at |-> "prepare", new |-> new]]
                 /\ \A r \in DOMAIN new : /\ Judged(revs, r) /\ new[r] \in ProjectionRow
                                          /\ new[r].status = "candidate"
  <2>1. CASE \E r \in Active : \E a, d \in VerifiedPoints(revs[r]) : PrepareProjection(g, r, a, d)
    <3>0. PICK r \in Active : \E a, d \in VerifiedPoints(revs[r]) : PrepareProjection(g, r, a, d)
      BY <2>1
    <3>1. PICK a \in VerifiedPoints(revs[r]), d \in VerifiedPoints(revs[r]) :
                 PrepareProjection(g, r, a, d)
      BY <3>0
    <3>2. PICK node \in FreeNodes :
                 pub' = [pub EXCEPT ![g] =
                   [at |-> "prepare", new |-> [q \in {r} |-> Prepared(r, node, a, d)]]]
      BY <3>1 DEF PrepareProjection
    <3>3. Preparable(r)
      BY <3>1 DEF PrepareProjection
    <3> DEFINE fresh == [q \in {r} |-> Prepared(r, node, a, d)]
    <3>4. \A q \in DOMAIN fresh : /\ Judged(revs, q) /\ fresh[q] \in ProjectionRow
                                  /\ fresh[q].status = "candidate"
      BY <1>1, <3>3
    <3>5. pub' = [pub EXCEPT ![g] = [at |-> "prepare", new |-> fresh]]
      BY <3>2
    <3> HIDE DEF fresh
    <3> QED
      BY <3>4, <3>5
  <2>2. CASE \E chosen \in SUBSET Active : PrepareProjections(g, chosen)
    <3>1. PICK chosen \in SUBSET Active : PrepareProjections(g, chosen)
      BY <2>2
    <3>2. \A r \in chosen : Preparable(r)
      BY <3>1 DEF PrepareProjections
    <3> DEFINE points == UNION {VerifiedPoints(revs[r]) : r \in chosen}
               takes(node, a, d) ==
                 /\ \A r \in chosen : {a[r], d[r]} \subseteq VerifiedPoints(revs[r])
                 /\ pub' = [pub EXCEPT ![g] =
                      [at |-> "prepare",
                       new |-> [r \in chosen |-> Prepared(r, node[r], a[r], d[r])]]]
    <3>3. PICK node \in [chosen -> FreeNodes] :
            \E a, d \in [chosen -> points] : InOrder(node, chosen) /\ takes(node, a, d)
      BY <3>1 DEF PrepareProjections
    <3>4. PICK a \in [chosen -> points], d \in [chosen -> points] : takes(node, a, d)
      BY <3>3
    <3> DEFINE fresh == [r \in chosen |-> Prepared(r, node[r], a[r], d[r])]
    <3>5. \A q \in DOMAIN fresh : /\ Judged(revs, q) /\ fresh[q] \in ProjectionRow
                                  /\ fresh[q].status = "candidate"
      <4> SUFFICES ASSUME NEW q \in chosen
                   PROVE  /\ Judged(revs, q) /\ Prepared(q, node[q], a[q], d[q]) \in ProjectionRow
                          /\ Prepared(q, node[q], a[q], d[q]).status = "candidate"
        OBVIOUS
      <4>1. /\ q \in Active /\ Preparable(q) /\ node[q] \in FreeNodes
            /\ a[q] \in VerifiedPoints(revs[q]) /\ d[q] \in VerifiedPoints(revs[q])
        BY <3>2, <3>4
      <4> QED
        BY <1>1, <4>1
    <3>6. pub' = [pub EXCEPT ![g] = [at |-> "prepare", new |-> fresh]]
      BY <3>4
    <3> HIDE DEF fresh
    <3> QED
      BY <3>5, <3>6
  <2> QED
    BY <2>1, <2>2
<1> DEFINE p == [at |-> "prepare", new |-> new]
<1>3. HandOK(p) /\ ~ InHand(p)
  BY <1>2 DEF HandOK, AllPrepared, InHand
<1>4. UNCHANGED <<revs, projs, batches, snaps, overlapped>>
  BY DEF reviewVars, PrepareProjection, PrepareProjections
<1>5. pub' = [pub EXCEPT ![g] = p]
  BY <1>2
<1> HIDE DEF p
<1> QED
  BY <1>3, <1>4, <1>5, PublisherMoves

(* Projections that are saved were not there, and are candidates.              *)
LEMMA SavingKeeps ==
  ASSUME ReviewInv, PublicationInv, NEW g \in Publishers, SaveProjections(g), UNCHANGED reviewVars
  PROVE  PublicationInv'
<1> DEFINE new == pub[g].new
<1>1. /\ pub' = [pub EXCEPT ![g] = Resting] /\ pub[g].at = "prepare"
      /\ UNCHANGED <<revs, batches, snaps, overlapped>>
  BY DEF SaveProjections, reviewVars
<1>2. HandOK(Resting) /\ ~ InHand(Resting)
  BY DEF HandOK, AllPrepared, InHand, Resting
<1>3. CASE UNCHANGED projs
  BY <1>1, <1>2, <1>3, PublisherMoves
<1>4. CASE /\ \A r \in DOMAIN new : projs[r] = None
           /\ projs' = [r \in Revs |-> IF r \in DOMAIN new THEN new[r] ELSE projs[r]]
  <2>1. /\ projs \in [Revs -> ProjectionRow \cup {None}]
        /\ \A r \in Revs : projs[r] # None => Judged(revs, r)
    BY DEF PublicationInv, ProjsOK
  <2>2. \A r \in DOMAIN new : Judged(revs, r) /\ new[r] \in ProjectionRow
                                /\ new[r].status = "candidate"
    BY <1>1 DEF PublicationInv, HandOK, AllPrepared
  <2> HIDE DEF new
  <2>3. \A r \in Revs :
          /\ projs[r] # None => projs'[r] = projs[r]
          /\ projs[r] = None /\ projs'[r] # None =>
               Judged(revs, r) /\ projs'[r] \in ProjectionRow /\ projs'[r].status = "candidate"
    BY <1>4, <2>2
  <2>4. projs' \in [Revs -> ProjectionRow \cup {None}]
    <3>1. \A r \in Revs : projs'[r] \in ProjectionRow \cup {None}
      BY <2>1, <2>3
    <3>2. projs' = [r \in Revs |-> projs'[r]]
      BY <1>4
    <3> QED
      BY <3>1, <3>2
  <2>5. ProjsOK' /\ ItemsOK'
    <3>1. ProjsOK'
      BY <1>1, <2>1, <2>3, <2>4 DEF ProjsOK, Judged, There
    <3>2. \A b \in BatchIds : batches[b] # None => \A r \in DOMAIN batches[b].items : r \in Revs
      BY DEF ReviewInv, PublishersOK, BatchOK, There
    <3>3. ItemsOK'
      BY <1>1, <2>3, <3>2 DEF PublicationInv, ItemsOK, AllPrepared
    <3> QED
      BY <3>1, <3>3
  <2>6. \A k \in Publishers : pub'[k] = IF k = g THEN Resting ELSE pub[k]
    BY <1>1 DEF ReviewInv, PublishersOK
  <2>7. \A k \in Publishers : Publishing(k)' => k # g /\ Publishing(k) /\ pub'[k] = pub[k]
    BY <2>6 DEF Publishing, Resting
  <2>8. \A k \in Publishers : HandOK(pub[k])'
    <3> SUFFICES ASSUME NEW k \in Publishers, k # g PROVE HandOK(pub[k])'
      BY <1>2, <2>6 DEF HandOK, AllPrepared, InHand, Resting
    <3>1. HandOK(pub[k]) /\ PublisherOK(pub[k], revs)
      BY DEF PublicationInv, ReviewInv, PublishersOK
    <3> DEFINE q == pub[k]
    <3>2. InHand(q) => /\ \A r \in q.todo : r \in Revs
                       /\ \A r \in DOMAIN q.items : r \in Revs
                       /\ q.at # "next" => q.rev \in Revs
      BY <3>1 DEF PublisherOK, InHand, Judged, There
    <3>3. /\ pub'[k] = q
          /\ \A r : Judged(revs, r) => Judged(revs, r)'
      BY <1>1, <2>6 DEF Judged, There
    <3>4. \A r \in Revs : projs[r] # None => projs'[r] # None
      BY <2>3
    <3> HIDE DEF q
    <3>5. HandOK(q) /\ InHand(q) =>
            \A r \in DOMAIN q.items : q.items[r] = "publishable" => projs'[r] # None
      BY <3>2, <3>4 DEF HandOK, AllPrepared
    <3> QED
      BY <3>1, <3>2, <3>3, <3>4, <3>5 DEF HandOK, AllPrepared, InHand, q
  <2>9. BatchesTold'
    BY <1>1, <2>7 DEF PublicationInv, BatchesTold, Told, ToldBy
  <2>10. InTurn'
    <3> SUFFICES ASSUME ~ overlapped
                 PROVE  /\ \A h, k \in Publishers : Publishing(h)' /\ Publishing(k)' => h = k
                        /\ OneIsOut'
                        /\ \A k \in Publishers :
                             Publishing(k)' => OneOutBy(pub[k])' /\ NoneRevived(pub[k])'
      BY <1>1 DEF InTurn
    <3>1. /\ \A h, k \in Publishers : Publishing(h) /\ Publishing(k) => h = k
          /\ OneIsOut
          /\ \A k \in Publishers : Publishing(k) => OneOutBy(pub[k]) /\ NoneRevived(pub[k])
      BY DEF PublicationInv, InTurn
    <3>2. \A r \in Revs : (projs'[r] # None /\ projs'[r].status = "published")
                            <=> (projs[r] # None /\ projs[r].status = "published")
      BY <2>3
    <3>3. OneIsOut'
      BY <1>1, <3>1, <3>2 DEF OneIsOut, Published, Active
    <3>4. ASSUME NEW k \in Publishers, Publishing(k)'
          PROVE  OneOutBy(pub[k])' /\ NoneRevived(pub[k])'
      <4> DEFINE p == pub[k]
      <4>1. OneOutBy(p) /\ NoneRevived(p) /\ pub'[k] = p /\ Publishing(k)
        BY <2>7, <3>1, <3>4
      <4>2. /\ \A r \in DOMAIN p.prows : r \in Revs /\ projs[r] # None
            /\ p.at # "next" => p.rev \in Revs /\ projs[p.rev] # None
        BY <4>1 DEF PublicationInv, HandOK, AllPrepared, InHand, Publishing, ReviewInv, PublishersOK,
                    PublisherOK, Judged, There
      <4>3. \A r \in Revs : ProjOut(p, r)' <=> ProjOut(p, r)
        <5> SUFFICES ASSUME NEW r \in Revs
                     PROVE  (projs'[r] # None /\
                              (IF r \in DOMAIN p.prows THEN p.prows[r] ELSE projs'[r].status) = "published")
                              <=> ProjOut(p, r)
          BY <4>1 DEF ProjOut, ProjBy
        <5> QED
          BY <2>3, <4>2 DEF ProjOut, ProjBy
      <4>4. \A r \in Revs : RowOut(p, r)' <=> RowOut(p, r)
        BY <1>1, <4>1 DEF RowOut, RowBy
      <4>5. OneOutBy(p)'
        BY <4>1, <4>2, <4>3, <4>4 DEF OneOutBy
      <4>6. NoneRevived(p)'
        BY <1>1, <2>3, <4>1, <4>2 DEF NoneRevived
      <4> QED
        BY <4>5, <4>6
    <3> QED
      BY <2>7, <3>1, <3>3, <3>4
  <2> QED
    BY <2>5, <2>8, <2>9, <2>10 DEF PublicationInv
<1>5. UNCHANGED projs \/ ( /\ \A r \in DOMAIN new : projs[r] = None
                           /\ projs' = [r \in Revs |-> IF r \in DOMAIN new THEN new[r] ELSE projs[r]])
  BY DEF SaveProjections
<1> QED
  BY <1>3, <1>4, <1>5

(* A publication begins with what is committed.                                *)
LEMMA StartingKeeps ==
  ASSUME ReviewInv, PublicationInv, NEW g \in Publishers, UNCHANGED reviewVars,
         (\E r \in Active : PublishRevision(g, r)) \/ (\E b \in BatchIds : ExecuteBatch(g, b))
  PROVE  PublicationInv'
<1>1. ASSUME NEW batch, NEW at \in {"next", "load"}, NEW rev, NEW todo, NEW items,
             Start(g, batch, at, rev, todo, items),
             \A r \in todo : projs[r] # None,
             batch # None => DOMAIN items # {}, AllPrepared(items),
             at # "next" => /\ projs[rev] # None /\ projs[rev].status # "published"
                            /\ revs[rev].status # "retired" /\ projs[rev].status # "retired"
      PROVE  PublicationInv'
  <2> DEFINE p == [at |-> at, batch |-> batch, rev |-> rev, todo |-> todo, items |-> items,
                   found |-> Nothing, rows |-> Nothing, prows |-> Nothing]
  <2>1. /\ pub' = [pub EXCEPT ![g] = p]
        /\ UNCHANGED <<revs, projs, batches, snaps>>
        /\ pub[g] = Resting
    BY <1>1 DEF Start, reviewVars
  <2>2. /\ p.at = at /\ p.batch = batch /\ p.rev = rev /\ p.todo = todo /\ p.items = items
        /\ DOMAIN p.rows = {} /\ DOMAIN p.prows = {}
    BY DEF Nothing
  <2>3. HandOK(p) /\ (p.batch # None => DOMAIN p.items # {})
    BY <1>1, <2>2 DEF HandOK, AllPrepared, InHand
  <2>4. overlapped' = (overlapped \/ \E k \in Publishers : Publishing(k))
    BY <1>1 DEF Start
  <2> HIDE DEF p
  <2>5. OneIsOut => OneOutBy(p)
    BY <1>1, <2>2 DEF OneIsOut, OneOutBy, Published, Active, RowOut, ProjOut, RowBy, ProjBy
  <2>6. NoneRevived(p)
    BY <1>1, <2>2 DEF NoneRevived
  <2>7. ~ overlapped' => ~ overlapped /\ \A k \in Publishers : ~ Publishing(k)
    BY <2>4, Zenon
  <2>8. ~ overlapped => OneIsOut
    BY DEF PublicationInv, InTurn
  <2> QED
    BY <2>1, <2>3, <2>5, <2>6, <2>7, <2>8, PublisherMoves
<1>2. ~ Publishing(g)
  BY DEF PublishRevision, ExecuteBatch, Start, Publishing, Resting
<1>3. ASSUME NEW r \in Active, PublishRevision(g, r)
      PROVE  PublicationInv'
  <2>1. /\ projs[r] # None /\ projs[r].status # "published"
        /\ Passes(g, r) /\ Start(g, None, "load", r, {}, Nothing)
    BY <1>3 DEF PublishRevision
  <2>2. RowSeen(g, r) = revs[r] /\ ProjSeen(g, r) = projs[r]
    BY <1>2 DEF RowSeen, ProjSeen
  <2>3. revs[r].status # "retired" /\ projs[r].status # "retired"
    BY <2>1, <2>2, PassesIsLive
  <2> DEFINE todo == {}
             items == Nothing
  <2>4. Start(g, None, "load", r, todo, items) /\ \A q \in todo : projs[q] # None
    BY <2>1
  <2>5. AllPrepared(items)
    BY DEF AllPrepared, Nothing
  <2> HIDE DEF todo, items
  <2> QED
    BY <1>1, <2>1, <2>3, <2>4, <2>5
<1>4. ASSUME NEW b \in BatchIds, ExecuteBatch(g, b)
      PROVE  PublicationInv'
  <2> DEFINE items == batches[b].items
             todo == {r \in DOMAIN items : items[r] = "publishable"}
  <2>1. batches[b] # None /\ Start(g, b, "next", None, todo, items)
    BY <1>4 DEF ExecuteBatch
  <2>2. (\A r \in todo : projs[r] # None) /\ DOMAIN items # {} /\ AllPrepared(items)
    BY <2>1 DEF PublicationInv, ItemsOK, AllPrepared, BatchesTold
  <2> HIDE DEF items, todo
  <2> QED
    BY <1>1, <2>1, <2>2
<1> QED
  BY <1>3, <1>4

(* A publication goes on: first it retires, then it publishes.                 *)
LEMMA PublishingKeeps ==
  ASSUME ReviewInv, PublicationInv, NEW g \in Publishers, UNCHANGED reviewVars,
         LoadRows(g) \/ RetireRevisions(g) \/ RetireProjections(g) \/ PublishOwn(g) \/ NextItem(g)
  PROVE  PublicationInv'
<1> DEFINE o == pub[g]
<1>1. Publishing(g) /\ InHand(o)
  BY DEF LoadRows, RetireRevisions, RetireProjections, PublishOwn, NextItem, Publishing, InHand
<1>2. /\ DOMAIN o = {"at", "batch", "rev", "todo", "items", "found", "rows", "prows"}
      /\ \A r \in DOMAIN o.rows : Judged(revs, r) /\ o.rows[r] \in WrittenStatuses
      /\ \A r \in o.todo : There(revs, r)
      /\ o.at # "next" => Judged(revs, o.rev)
  BY <1>1 DEF ReviewInv, PublishersOK, PublisherOK, Publishing
<1>3. /\ HandOK(o) /\ ProjsOK
      /\ o.batch # None => DOMAIN o.items # {}
  BY <1>1 DEF PublicationInv, BatchesTold
<1>4. /\ \A r \in DOMAIN o.prows : r \in Revs /\ projs[r] # None
                                     /\ o.prows[r] \in {"candidate", "published", "retired"}
      /\ \A r \in o.todo : projs[r] # None
      /\ AllPrepared(o.items)
      /\ o.at # "next" => projs[o.rev] # None
  BY <1>1, <1>3 DEF HandOK, AllPrepared
<1>5. UNCHANGED <<revs, projs, batches, snaps, overlapped>>
  BY DEF LoadRows, RetireRevisions, RetireProjections, PublishOwn, NextItem, reviewVars
<1>6. ~ overlapped => /\ \A k \in Publishers \ {g} : ~ Publishing(k)
                      /\ OneOutBy(o) /\ NoneRevived(o)
  BY <1>1 DEF PublicationInv, InTurn
<1>7. ASSUME NEW p, pub' = [pub EXCEPT ![g] = p], InHand(p),
             \A r \in DOMAIN p.prows : r \in Revs /\ projs[r] # None
                                         /\ p.prows[r] \in {"candidate", "published", "retired"},
             p.todo \subseteq o.todo, p.at # "next" => projs[p.rev] # None,
             p.batch = o.batch, DOMAIN p.items = DOMAIN o.items,
             \A r \in DOMAIN p.items : p.items[r] \in {o.items[r], "published", "blocked"},
             OneOutBy(o) /\ NoneRevived(o) => OneOutBy(p) /\ NoneRevived(p)
      PROVE  PublicationInv'
  <2>1. AllPrepared(p.items)
    BY <1>4, <1>7 DEF AllPrepared
  <2>2. HandOK(p)
    BY <1>4, <1>7, <2>1 DEF HandOK, AllPrepared, InHand
  <2> QED
    BY <1>3, <1>5, <1>6, <1>7, <2>2, PublisherMoves
<1> HIDE DEF o
<1>8. CASE RetireRevisions(g)
  <2> DEFINE targets == Others(g, o.rev)
             p == [o EXCEPT !.at = "projections", !.rows = Noting(@, targets, "retired")]
  <2>1. o.at = "revisions" /\ pub' = [pub EXCEPT ![g] = p]
    <3>1. pub' = [pub EXCEPT ![g].at = "projections",
                             ![g].rows = Noting(@, Others(g, pub[g].rev), "retired")]
      BY <1>8 DEF RetireRevisions
    <3>2. DOMAIN pub = Publishers
      BY DEF ReviewInv, PublishersOK
    <3> QED
      BY <1>8, <3>1, <3>2 DEF RetireRevisions, o
  <2>2. \A r \in Revs : r \notin targets /\ RowOut(o, r) => r = o.rev
    <3> SUFFICES ASSUME NEW r \in Revs, RowOut(o, r), r # o.rev PROVE r \in targets
      OBVIOUS
    <3>1. There(revs, r) /\ r \in Active
      BY DEF RowOut, There, Active
    <3>2. RowSeen(g, r).status = "published"
      BY <1>1, <3>1, StatusSeen DEF RowOut, o
    <3> QED
      BY <3>1, <3>2 DEF Others
  <2> HIDE DEF targets
  <2>3. /\ p.at = "projections" /\ p.batch = o.batch /\ p.rev = o.rev /\ p.todo = o.todo
        /\ p.found = o.found /\ p.items = o.items /\ p.prows = o.prows /\ p.rows = Noting(o.rows, targets, "retired")
    BY <1>2
  <2> HIDE DEF p
  <2>4. \A r : r \in DOMAIN p.rows => IF r \in targets THEN p.rows[r] = "retired"
                                      ELSE r \in DOMAIN o.rows /\ p.rows[r] = o.rows[r]
    BY <2>3 DEF Noting
  <2>5. \A r : r \notin targets => (r \in DOMAIN p.rows <=> r \in DOMAIN o.rows)
    BY <2>3 DEF Noting
  <2>6. \A r \in targets : r \in DOMAIN p.rows
    BY <2>3 DEF Noting
  <2>7. \A r \in Revs : RowOut(p, r) => r \notin targets /\ RowOut(o, r)
    BY <2>4, <2>5, <2>6 DEF RowOut, RowBy
  <2>8. OneOutBy(o) => OneOutBy(p)
    BY <2>1, <2>2, <2>3, <2>7 DEF OneOutBy
  <2>9. NoneRevived(o) => NoneRevived(p)
    BY <2>1, <2>3, <2>4 DEF NoneRevived
  <2> QED
    BY <1>4, <1>7, <2>1, <2>3, <2>8, <2>9 DEF InHand
<1>9. CASE RetireProjections(g)
  <2> DEFINE targets == {q \in Revs \ {o.rev} : projs[q] # None
                                                 /\ ProjSeen(g, q).status = "published"}
             p == [o EXCEPT !.at = "own", !.prows = Noting(@, targets, "retired")]
  <2>1. o.at = "projections" /\ pub' = [pub EXCEPT ![g] = p]
    <3>1. pub' = [pub EXCEPT ![g].at = "own", ![g].prows = Noting(@, targets, "retired")]
      BY <1>9 DEF RetireProjections, o
    <3>2. DOMAIN pub = Publishers
      BY DEF ReviewInv, PublishersOK
    <3> HIDE DEF targets
    <3> QED
      BY <1>9, <3>1, <3>2 DEF RetireProjections, o
  <2>2. \A r \in Revs : r \notin targets /\ ProjOut(o, r) => r = o.rev
    <3> SUFFICES ASSUME NEW r \in Revs, ProjOut(o, r), r # o.rev PROVE r \in targets
      OBVIOUS
    <3>1. ProjSeen(g, r).status = "published"
      BY <1>1, <1>3, ProjectionSeen DEF ProjOut, o
    <3> QED
      BY <3>1 DEF ProjOut
  <2>3. \A r \in targets : r \in Revs /\ projs[r] # None
    OBVIOUS
  <2> HIDE DEF targets
  <2>4. /\ p.at = "own" /\ p.batch = o.batch /\ p.rev = o.rev /\ p.todo = o.todo
        /\ p.found = o.found /\ p.items = o.items /\ p.rows = o.rows /\ p.prows = Noting(o.prows, targets, "retired")
    BY <1>2
  <2> HIDE DEF p
  <2>5. \A r : r \in DOMAIN p.prows => IF r \in targets THEN p.prows[r] = "retired"
                                       ELSE r \in DOMAIN o.prows /\ p.prows[r] = o.prows[r]
    BY <2>4 DEF Noting
  <2>6. \A r : /\ r \notin targets => (r \in DOMAIN p.prows <=> r \in DOMAIN o.prows)
               /\ r \in targets => r \in DOMAIN p.prows
    BY <2>4 DEF Noting
  <2>7. \A r \in Revs : ProjOut(p, r) => r \notin targets /\ ProjOut(o, r)
    BY <2>5, <2>6 DEF ProjOut, ProjBy
  <2>8. \A r \in Revs : RowOut(p, r) <=> RowOut(o, r)
    BY <2>4 DEF RowOut, RowBy
  <2>9. OneOutBy(o) => OneOutBy(p)
    BY <2>1, <2>2, <2>4, <2>7, <2>8 DEF OneOutBy
  <2>10. NoneRevived(o) => NoneRevived(p)
    BY <2>1, <2>4, <2>5 DEF NoneRevived
  <2>11. \A r \in DOMAIN p.prows : r \in Revs /\ projs[r] # None
                                     /\ p.prows[r] \in {"candidate", "published", "retired"}
    BY <1>4, <2>3, <2>5
  <2> QED
    BY <1>4, <1>7, <2>1, <2>4, <2>9, <2>10, <2>11 DEF InHand
<1>10. CASE PublishOwn(g)
  <2> DEFINE r == o.rev
             row == Assigned(o.found.row, RowSeen(g, r).status)
             proj == Assigned(o.found.proj, ProjSeen(g, r).status)
             items == IF r \in DOMAIN o.items THEN [o.items EXCEPT ![r] = "published"] ELSE o.items
             p == [o EXCEPT !.at = "next", !.rows = Noting(@, {r}, row),
                            !.prows = Noting(@, {r}, proj), !.found = Nothing, !.items = items]
  <2>1. o.at = "own" /\ pub' = [pub EXCEPT ![g] = p]
    <3>1. pub' = [pub EXCEPT ![g].at = "next",
                             ![g].rows = Noting(@, {r}, row),
                             ![g].prows = Noting(@, {r}, proj),
                             ![g].found = Nothing,
                             ![g].items = IF r \in DOMAIN @ THEN [@ EXCEPT ![r] = "published"] ELSE @]
      BY <1>10 DEF PublishOwn, o
    <3>2. DOMAIN pub = Publishers
      BY DEF ReviewInv, PublishersOK
    <3> HIDE DEF row, proj
    <3> QED
      BY <1>10, <3>1, <3>2, <1>2 DEF PublishOwn, o
  <2>2. Judged(revs, r) /\ r \in Revs /\ revs[r] # None /\ projs[r] # None
    BY <1>2, <1>4, <2>1 DEF Judged, There
  <2>3. /\ DOMAIN items = DOMAIN o.items
        /\ \A q \in DOMAIN items : items[q] \in {o.items[q], "published", "blocked"}
    OBVIOUS
  <2>4. proj \in {"candidate", "published", "retired"}
    <3>1. ProjSeen(g, r) \in ProjectionRow
      BY <1>3, <2>2, ProjectionSeen DEF o
    <3> QED
      BY <3>1 DEF Assigned, ProjectionRow
  <2>5. OneOutBy(o) => row = "published" /\ proj = "published"
    BY <2>1 DEF OneOutBy, Assigned
  <2> HIDE DEF items, row, proj
  <2>6. /\ p.at = "next" /\ p.batch = o.batch /\ p.todo = o.todo /\ p.items = items
        /\ p.rows = Noting(o.rows, {r}, row) /\ p.prows = Noting(o.prows, {r}, proj)
    BY <1>2
  <2> HIDE DEF p, r
  <2>7. \A q : /\ q \in DOMAIN p.rows <=> q = r \/ q \in DOMAIN o.rows
               /\ q \in DOMAIN p.rows => p.rows[q] = IF q = r THEN row ELSE o.rows[q]
               /\ q \in DOMAIN p.prows <=> q = r \/ q \in DOMAIN o.prows
               /\ q \in DOMAIN p.prows => p.prows[q] = IF q = r THEN proj ELSE o.prows[q]
    BY <2>6 DEF Noting
  <2>8. ASSUME OneOutBy(o) PROVE OneOutBy(p)
    <3>1. \A q \in Revs : RowOut(p, q) <=> q = r \/ RowOut(o, q)
      BY <2>2, <2>5, <2>7, <2>8 DEF RowOut, RowBy
    <3>2. \A q \in Revs : ProjOut(p, q) <=> q = r \/ ProjOut(o, q)
      BY <2>2, <2>5, <2>7, <2>8 DEF ProjOut, ProjBy
    <3>3. \A q \in Revs : (RowOut(o, q) => q = r) /\ (ProjOut(o, q) => q = r)
      BY <2>1, <2>8 DEF OneOutBy, r
    <3> QED
      BY <2>6, <3>1, <3>2, <3>3 DEF OneOutBy
  <2>9. NoneRevived(o) => NoneRevived(p)
    BY <2>1, <2>6, <2>7 DEF NoneRevived, r
  <2>10. \A q \in DOMAIN p.prows : q \in Revs /\ projs[q] # None
                                     /\ p.prows[q] \in {"candidate", "published", "retired"}
    BY <1>4, <2>2, <2>4, <2>7
  <2> QED
    BY <1>4, <1>7, <2>1, <2>3, <2>6, <2>8, <2>9, <2>10 DEF InHand
<1>11. CASE NextItem(g)
  <2>1. o.at = "next"
    BY <1>11 DEF NextItem, o
  <2>2. PICK r \in o.todo :
          \/ \E status \in {"published", "blocked"} : pub' = [pub EXCEPT ![g] = [o EXCEPT !.todo = o.todo \ {r}, !.items[r] = status]]
          \/ /\ Passes(g, r)
             /\ ProjSeen(g, r).status # "published"
             /\ pub' = [pub EXCEPT ![g] = [o EXCEPT !.todo = o.todo \ {r}, !.rev = r, !.at = "load"]]
    BY <1>11 DEF NextItem, o
  <2>3. There(revs, r) /\ projs[r] # None /\ r \in Revs
    BY <1>2, <1>4 DEF There
  <2>4. CASE \E status \in {"published", "blocked"} : pub' = [pub EXCEPT ![g] = [o EXCEPT !.todo = o.todo \ {r}, !.items[r] = status]]
    <3>1. PICK status \in {"published", "blocked"} :
            pub' = [pub EXCEPT ![g] = [o EXCEPT !.todo = o.todo \ {r}, !.items[r] = status]]
      BY <2>4
    <3> DEFINE p == [o EXCEPT !.todo = o.todo \ {r}, !.items[r] = status]
    <3>2. /\ p.at = o.at /\ p.batch = o.batch /\ p.rev = o.rev /\ p.todo = o.todo \ {r}
          /\ DOMAIN p.items = DOMAIN o.items /\ p.rows = o.rows /\ p.prows = o.prows
          /\ \A q \in DOMAIN p.items : p.items[q] \in {o.items[q], "published", "blocked"}
      BY <1>2
    <3>3. pub' = [pub EXCEPT ![g] = p]
      BY <3>1
    <3> HIDE DEF p
    <3>4. OneOutBy(o) /\ NoneRevived(o) => OneOutBy(p) /\ NoneRevived(p)
      BY <2>1, <3>2 DEF OneOutBy, NoneRevived, RowOut, ProjOut, RowBy, ProjBy
    <3> QED
      BY <1>4, <1>7, <2>1, <3>2, <3>3, <3>4 DEF InHand
  <2>5. CASE /\ Passes(g, r)
             /\ ProjSeen(g, r).status # "published"
             /\ pub' = [pub EXCEPT ![g] = [o EXCEPT !.todo = o.todo \ {r}, !.rev = r, !.at = "load"]]
    <3> DEFINE p == [o EXCEPT !.todo = o.todo \ {r}, !.rev = r, !.at = "load"]
    <3>1. /\ p.at = "load" /\ p.batch = o.batch /\ p.rev = r /\ p.todo = o.todo \ {r}
          /\ p.items = o.items /\ p.rows = o.rows /\ p.prows = o.prows
      BY <1>2
    <3>2. pub' = [pub EXCEPT ![g] = p]
      BY <2>5
    <3> HIDE DEF p
    <3>3. OneOutBy(o) => OneOutBy(p)
      <4>1. ~ ProjOut(p, r)
        BY <1>1, <1>3, <2>3, <2>5, <3>1, ProjectionSeen DEF ProjOut, ProjBy, o
      <4> QED
        BY <2>1, <3>1, <4>1 DEF OneOutBy, RowOut, ProjOut, RowBy, ProjBy
    <3>4. /\ RowBy(o, r) \in {"human_verified", "published"}
          /\ ProjBy(o, r) # "retired"
      <4>1. RowSeen(g, r).status \in {"human_verified", "published"}
            /\ ProjSeen(g, r).status # "retired"
        BY <2>5, PassesIsLive
      <4>2. RowSeen(g, r).status = RowBy(o, r) /\ ProjSeen(g, r).status = ProjBy(o, r)
        BY <1>1, <1>3, <2>3, StatusSeen, ProjectionSeen DEF o
      <4> QED
        BY <4>1, <4>2
    <3>5. NoneRevived(o) => revs[r].status # "retired" /\ projs[r].status # "retired"
      <4>1. NoneRevived(o) => revs[r].status # "retired"
        BY <1>2, <3>4 DEF NoneRevived, RowBy
      <4>2. NoneRevived(o) => projs[r].status # "retired"
        BY <1>4, <3>4 DEF NoneRevived, ProjBy
      <4> QED
        BY <4>1, <4>2
    <3>6. NoneRevived(o) => NoneRevived(p)
      BY <3>1, <3>5 DEF NoneRevived
    <3> QED
      BY <1>4, <1>7, <2>3, <3>1, <3>2, <3>3, <3>6 DEF InHand
  <2> QED
    BY <2>2, <2>4, <2>5
<1>12. CASE LoadRows(g)
  <2> DEFINE r == o.rev
             found == [row |-> RowSeen(g, r).status, proj |-> ProjSeen(g, r).status]
             p == [o EXCEPT !.at = "revisions", !.found = found]
  <2>1. o.at = "load" /\ pub' = [pub EXCEPT ![g] = p]
    <3>1. pub' = [pub EXCEPT ![g].at = "revisions", ![g].found = found]
      BY <1>12 DEF LoadRows, o
    <3>2. DOMAIN pub = Publishers
      BY DEF ReviewInv, PublishersOK
    <3> HIDE DEF found
    <3> QED
      BY <1>12, <3>1, <3>2, <1>2 DEF LoadRows, o
  <2>2. There(revs, r) /\ projs[r] # None /\ r \in Revs
    BY <1>2, <1>4, <2>1 DEF Judged, There
  <2>3. found.row = RowBy(o, r) /\ found.proj = ProjBy(o, r)
    BY <1>1, <1>3, <2>2, StatusSeen, ProjectionSeen DEF o
  <2> HIDE DEF found
  <2>4. /\ p.at = "revisions" /\ p.batch = o.batch /\ p.rev = o.rev /\ p.todo = o.todo
        /\ p.found = found /\ p.items = o.items /\ p.rows = o.rows /\ p.prows = o.prows
    BY <1>2
  <2> HIDE DEF p
  <2>5. ASSUME OneOutBy(o) PROVE OneOutBy(p)
    <3>1. ~ ProjOut(o, r) /\ ~ RowOut(o, r)
      BY <2>1, <2>2, <2>5 DEF OneOutBy
    <3>2. found.row # "published" /\ found.proj # "published"
      BY <2>2, <2>3, <3>1 DEF RowOut, ProjOut, There
    <3> QED
      BY <2>1, <2>4, <2>5, <3>2 DEF OneOutBy, RowOut, ProjOut, RowBy, ProjBy
  <2>6. NoneRevived(o) => NoneRevived(p)
    BY <2>1, <2>4 DEF NoneRevived
  <2> QED
    BY <1>4, <1>7, <2>1, <2>2, <2>4, <2>5, <2>6 DEF InHand
<1> QED
  BY <1>8, <1>9, <1>10, <1>11, <1>12
(* A publisher that dies, or is rolled back, leaves everything as committed.   *)
LEMMA PublisherStepKeeps ==
  ASSUME ReviewInv, PublicationInv, NEW g \in Publishers, PublisherStep(g), UNCHANGED reviewVars
  PROVE  PublicationInv'
<1>1. HandOK(Resting) /\ ~ InHand(Resting)
  BY DEF HandOK, InHand, Resting
<1>2. CASE RollBack(g)
  <2>1. pub' = [pub EXCEPT ![g] = Resting] /\ UNCHANGED <<revs, projs, batches, snaps, overlapped>>
    BY <1>2 DEF RollBack, reviewVars
  <2> QED
    BY <1>1, <2>1, PublisherMoves
<1>3. CASE \/ \E r \in Active : \E a, d \in VerifiedPoints(revs[r]) : PrepareProjection(g, r, a, d)
           \/ \E chosen \in SUBSET Active : PrepareProjections(g, chosen)
  BY <1>3, PreparingKeeps
<1>4. CASE (\E r \in Active : PublishRevision(g, r)) \/ (\E b \in BatchIds : ExecuteBatch(g, b))
  BY <1>4, StartingKeeps
<1>5. CASE \/ LoadRows(g) \/ RetireRevisions(g) \/ RetireProjections(g) \/ PublishOwn(g)
           \/ NextItem(g)
  BY <1>5, PublishingKeeps
<1>6. CASE SaveProjections(g)
  BY <1>6, SavingKeeps
<1> QED
  BY <1>2, <1>3, <1>4, <1>5, <1>6, Zenon DEF PublisherStep

(* A preview is a new batch, of which nothing is published.                    *)
LEMMA PreviewingKeeps ==
  ASSUME ReviewInv, PublicationInv, NEW b \in BatchIds, NEW chosen \in SUBSET Active,
         PreviewBatch(b, chosen), UNCHANGED reviewVars
  PROVE  PublicationInv'
<1> DEFINE items == [r \in chosen |->
                       IF projs[r] # None /\ PublicationGateOf(revs[r], Rels, projs[r]) = {}
                       THEN "publishable" ELSE "blocked"]
           batch == [status |-> "preview", snapshot |-> {}, items |-> items]
<1>1. /\ batches' = [batches EXCEPT ![b] = batch]
      /\ UNCHANGED <<revs, projs, snaps, pub, overlapped>> /\ chosen # {}
  BY DEF PreviewBatch, reviewVars
<1>2. /\ DOMAIN items = chosen
      /\ \A r \in chosen : items[r] # "published" /\ (items[r] = "publishable" => projs[r] # None)
  OBVIOUS
<1> HIDE DEF items
<1>3. batch.items = items /\ batch.snapshot = {} /\ batch.status = "preview"
  OBVIOUS
<1> HIDE DEF batch
<1>4. \A c \in BatchIds : batches'[c] = IF c = b THEN batch ELSE batches[c]
  BY <1>1 DEF ReviewInv, PublishersOK
<1>5. Told(batch, b)
  BY <1>1, <1>2, <1>3 DEF Told, ToldBy
<1>6. AllPrepared(batch.items)
  BY <1>2, <1>3 DEF AllPrepared
<1>7. /\ \A c \in BatchIds : batches'[c] # None =>
           DOMAIN batches'[c].items # {} /\ Told(batches'[c], c) /\ AllPrepared(batches'[c].items)
  BY <1>1, <1>2, <1>3, <1>4, <1>5, <1>6 DEF PublicationInv, ItemsOK, BatchesTold
<1>8. ItemsOK' /\ BatchesTold'
  <2>1. ItemsOK'
    BY <1>1, <1>7 DEF ItemsOK, AllPrepared
  <2>2. \A c \in BatchIds : batches'[c] # None => DOMAIN batches'[c].items # {} /\ Told(batches[c], c)'
    BY <1>1, <1>7 DEF Told
  <2>3. \A h \in Publishers : (Publishing(h) /\ pub[h].batch # None => DOMAIN pub[h].items # {})'
    BY <1>1 DEF PublicationInv, BatchesTold, Publishing
  <2> QED
    BY <2>1, <2>2, <2>3 DEF BatchesTold
<1>9. ProjsOK' /\ (\A g \in Publishers : HandOK(pub[g])')
  BY <1>1 DEF PublicationInv, ProjsOK, HandOK, AllPrepared, InHand, Judged, There
<1>10. InTurn'
  BY <1>1 DEF PublicationInv, InTurn, OneIsOut, Published, Active, OneOutBy, NoneRevived, RowOut,
              ProjOut, RowBy, ProjBy, Publishing
<1> QED
  BY <1>8, <1>9, <1>10 DEF PublicationInv
(* What a publisher commits is what it saw.                                    *)
LEMMA Committed ==
  ASSUME ReviewInv, PublicationInv, NEW g \in Publishers, Publishing(g),
         revs' = [r \in Revs |-> RowSeen(g, r)], projs' = [r \in Revs |-> ProjSeen(g, r)]
  PROVE  /\ \A r \in Revs : /\ revs[r] = None <=> revs'[r] = None
                            /\ revs[r] # None =>
                                 /\ revs'[r].status = RowBy(pub[g], r)
                                 /\ revs[r].eligible /\ RowBy(pub[g], r) # "retired"
                                      => revs'[r].eligible
         /\ \A r \in Revs : /\ projs[r] = None <=> projs'[r] = None
                            /\ projs[r] # None => /\ projs'[r] \in ProjectionRow
                                                  /\ projs'[r].status = ProjBy(pub[g], r)
<1>1. ASSUME NEW r \in Revs
      PROVE  /\ revs[r] = None <=> revs'[r] = None
             /\ revs[r] # None => /\ revs'[r].status = RowBy(pub[g], r)
                                  /\ revs[r].eligible /\ RowBy(pub[g], r) # "retired"
                                       => revs'[r].eligible
  <2>1. revs'[r] = RowSeen(g, r)
    OBVIOUS
  <2>2. CASE revs[r] = None
    <3>1. r \notin DOMAIN pub[g].rows
      BY <2>2 DEF ReviewInv, PublishersOK, PublisherOK, Publishing, Judged, There
    <3> QED
      BY <2>1, <2>2, <3>1 DEF RowSeen
  <2>3. CASE revs[r] # None
    <3>1. There(revs, r)
      BY <2>3 DEF There
    <3>2. RowSeen(g, r) \in RevisionRow
      BY <2>3, SeenRow
    <3>3. revs[r].eligible /\ RowBy(pub[g], r) # "retired" => RowSeen(g, r).eligible
      <4>1. revs[r] \in RevisionRow
        BY <2>3 DEF ReviewInv, RowsOK
      <4> QED
        BY <4>1 DEF RowSeen, RowBy, EligibleAfter, RevisionRow
    <3> QED
      BY <2>1, <2>3, <3>1, <3>2, <3>3, StatusSeen, ReviewAssumption
  <2> QED
    BY <2>2, <2>3
<1>2. ASSUME NEW r \in Revs
      PROVE  /\ projs[r] = None <=> projs'[r] = None
             /\ projs[r] # None => /\ projs'[r] \in ProjectionRow
                                   /\ projs'[r].status = ProjBy(pub[g], r)
  <2>1. projs'[r] = ProjSeen(g, r) /\ ProjsOK /\ HandOK(pub[g])
    BY DEF PublicationInv
  <2> QED
    BY <2>1, ProjectionSeen
<1> QED
  BY <1>1, <1>2

(* A batch that ends tells what was published of it.                           *)
LEMMA FinishedIsTold ==
  ASSUME NEW g \in Publishers, NEW b, DOMAIN pub[g].items # {},
         snaps' = IF Finished(g).snapshot = {} THEN snaps
                  ELSE snaps \cup {[content |-> Finished(g).snapshot, batch |-> b]}
  PROVE  ToldBy(Finished(g), b, snaps')
<1> DEFINE items == pub[g].items
           done == {r \in DOMAIN items : items[r] = "published"}
           f == Finished(g)
<1>1. /\ f.items = items /\ f.snapshot = done
      /\ f.status = IF done = {} THEN "failed"
                    ELSE IF AllPublished(items) THEN "published" ELSE "partial_failed"
  BY DEF Finished
<1>2. AllPublished(items) <=> done = DOMAIN items
  BY DEF AllPublished, Range
<1>3. done # {} => [content |-> done, batch |-> b] \in snaps'
  BY <1>1
<1> HIDE DEF f
<1>4. /\ f.snapshot = {r \in DOMAIN f.items : f.items[r] = "published"}
      /\ f.status = "published" <=> (done = DOMAIN f.items)
      /\ f.status = "partial_failed" <=> (done # {} /\ done # DOMAIN f.items)
  BY <1>1, <1>2
<1> QED
  BY <1>1, <1>3, <1>4 DEF f, ToldBy
(* A commit, or the refusal of a snapshot that is there already.               *)
LEMMA CommittingKeeps ==
  ASSUME ReviewInv, PublicationInv, NEW g \in Publishers, CommitPublication(g)
  PROVE  PublicationInv'
<1> DEFINE o == pub[g]
           b == o.batch
           f == Finished(g)
<1>1. /\ Publishing(g) /\ InHand(o) /\ o.at = "next"
      /\ pub' = [pub EXCEPT ![g] = Resting] /\ UNCHANGED overlapped
  BY DEF CommitPublication, Publishing, InHand
<1>2. CASE UNCHANGED <<revs, projs, batches, snaps>>
  <2>1. HandOK(Resting) /\ ~ InHand(Resting)
    BY DEF HandOK, InHand, Resting
  <2> QED
    BY <1>1, <1>2, <2>1, PublisherMoves
<1>3. ASSUME revs' = [r \in Revs |-> RowSeen(g, r)], projs' = [r \in Revs |-> ProjSeen(g, r)],
             \/ UNCHANGED <<batches, snaps>>
             \/ /\ b # None
                /\ batches' = [batches EXCEPT ![b] = f]
                /\ snaps' = IF f.snapshot = {} THEN snaps
                            ELSE snaps \cup {[content |-> f.snapshot, batch |-> b]}
      PROVE  PublicationInv'
  <2>1. /\ \A r \in Revs : /\ revs[r] = None <=> revs'[r] = None
                           /\ revs[r] # None => /\ revs'[r].status = RowBy(o, r)
                                                /\ revs[r].eligible /\ RowBy(o, r) # "retired"
                                                     => revs'[r].eligible
        /\ \A r \in Revs : /\ projs[r] = None <=> projs'[r] = None
                           /\ projs[r] # None => /\ projs'[r] \in ProjectionRow
                                                 /\ projs'[r].status = ProjBy(o, r)
    BY <1>1, <1>3, Committed
  <2>2. \A r : Judged(revs, r) => Judged(revs', r)
    <3>1. RevsKept(revs, revs')
      BY CommitKeeps
    <3> QED
      BY <3>1 DEF Judged, There, RevsKept, RevisionKept
  <2>3. \A k \in Publishers : pub'[k] = IF k = g THEN Resting ELSE pub[k]
    BY <1>1 DEF ReviewInv, PublishersOK
  <2>4. ProjsOK'
    <3>1. \A r \in Revs : projs'[r] \in ProjectionRow \cup {None}
      BY <2>1
    <3>2. projs' = [r \in Revs |-> projs'[r]]
      BY <1>3
    <3>3. projs' \in [Revs -> ProjectionRow \cup {None}]
      BY <3>1, <3>2
    <3>4. \A r \in Revs : projs'[r] # None => Judged(revs', r)
      BY <2>1, <2>2 DEF PublicationInv, ProjsOK
    <3> QED
      BY <3>3, <3>4 DEF ProjsOK
  <2>5. \A items : AllPrepared(items) /\ (\A r \in DOMAIN items : r \in Revs)
                     => \A r \in DOMAIN items : items[r] = "publishable" => projs'[r] # None
    BY <2>1 DEF AllPrepared
  <2>6. \A k \in Publishers : HandOK(pub[k])'
    <3> SUFFICES ASSUME NEW k \in Publishers, k # g PROVE HandOK(pub[k])'
      BY <2>3 DEF HandOK, InHand, Resting
    <3> DEFINE q == pub[k]
    <3>1. HandOK(q) /\ PublisherOK(q, revs)
      BY DEF PublicationInv, ReviewInv, PublishersOK
    <3>2. InHand(q) => /\ \A r \in q.todo : r \in Revs
                       /\ \A r \in DOMAIN q.items : r \in Revs
                       /\ q.at # "next" => q.rev \in Revs
      BY <3>1 DEF PublisherOK, InHand, Judged, There
    <3>3. pub'[k] = q
      BY <2>3
    <3> HIDE DEF q
    <3>4. HandOK(q) /\ InHand(q) =>
            \A r \in DOMAIN q.items : q.items[r] = "publishable" => projs'[r] # None
      BY <2>5, <3>2 DEF HandOK
    <3> QED
      BY <2>1, <2>2, <3>1, <3>2, <3>3, <3>4 DEF HandOK, AllPrepared, InHand, q
  <2>7. \A c \in BatchIds : \/ batches'[c] = batches[c] /\ (Told(batches[c], c) => Told(batches[c], c)')
                            \/ c = b /\ b # None /\ batches'[c] = f
                               /\ snaps' = IF f.snapshot = {} THEN snaps
                                           ELSE snaps \cup {[content |-> f.snapshot, batch |-> b]}
    <3>1. DOMAIN batches = BatchIds
      BY DEF ReviewInv, PublishersOK
    <3>2. snaps \subseteq snaps'
      BY <1>3
    <3>3. \A c \in BatchIds : ToldBy(batches[c], c, snaps) => ToldBy(batches[c], c, snaps')
      BY <3>2 DEF ToldBy
    <3> HIDE DEF f, b
    <3>4. \A c \in BatchIds : batches'[c] = batches[c] =>
                                (Told(batches[c], c) => Told(batches[c], c)')
      BY <3>3 DEF Told
    <3> QED
      BY <1>3, <3>1, <3>4
  <2>8. BatchesTold'
    <3>1. \A c \in BatchIds : batches'[c] # None =>
            DOMAIN batches'[c].items # {} /\ Told(batches[c], c)'
      <4> SUFFICES ASSUME NEW c \in BatchIds, batches'[c] # None
                   PROVE  DOMAIN batches'[c].items # {} /\ Told(batches[c], c)'
        OBVIOUS
      <4>1. CASE batches'[c] = batches[c] /\ (Told(batches[c], c) => Told(batches[c], c)')
        BY <4>1 DEF PublicationInv, BatchesTold
      <4>2. CASE /\ c = b /\ b # None /\ batches'[c] = f
                 /\ snaps' = IF f.snapshot = {} THEN snaps
                             ELSE snaps \cup {[content |-> f.snapshot, batch |-> b]}
        <5>1. DOMAIN pub[g].items # {}
          BY <1>1, <4>2 DEF PublicationInv, BatchesTold
        <5>2. ToldBy(f, b, snaps') /\ f.items = pub[g].items
          BY <4>2, <5>1, FinishedIsTold DEF Finished
        <5> HIDE DEF f
        <5> QED
          BY <4>2, <5>1, <5>2 DEF Told
      <4> QED
        BY <2>7, <4>1, <4>2
    <3>2. \A k \in Publishers : Publishing(k)' /\ pub'[k].batch # None => DOMAIN pub'[k].items # {}
      <4>1. \A k \in Publishers : Publishing(k)' => k # g /\ Publishing(k) /\ pub'[k] = pub[k]
        BY <2>3 DEF Publishing, Resting
      <4> QED
        BY <4>1 DEF PublicationInv, BatchesTold
    <3> QED
      BY <3>1, <3>2 DEF BatchesTold
  <2>9. ItemsOK'
    <3> SUFFICES ASSUME NEW c \in BatchIds, batches'[c] # None
                 PROVE  \A r \in DOMAIN batches'[c].items :
                          batches'[c].items[r] = "publishable" => projs'[r] # None
      BY DEF ItemsOK, AllPrepared
    <3>1. CASE batches'[c] = batches[c]
      <4>1. AllPrepared(batches[c].items) /\ \A r \in DOMAIN batches[c].items : r \in Revs
        BY <3>1 DEF PublicationInv, ItemsOK, ReviewInv, PublishersOK, BatchOK, There
      <4> QED
        BY <2>5, <3>1, <4>1
    <3>2. CASE batches'[c] = f
      <4>1. f.items = o.items
        BY DEF Finished
      <4>2. AllPrepared(o.items) /\ \A r \in DOMAIN o.items : r \in Revs
        BY <1>1 DEF PublicationInv, HandOK, ReviewInv, PublishersOK, PublisherOK, Publishing, There
      <4> HIDE DEF o, f
      <4> QED
        BY <2>5, <3>2, <4>1, <4>2
    <3> QED
      BY <2>7, <3>1, <3>2
  <2>10. InTurn'
    <3> SUFFICES ASSUME ~ overlapped
                 PROVE  /\ \A h, k \in Publishers : Publishing(h)' /\ Publishing(k)' => h = k
                        /\ OneIsOut'
                        /\ \A k \in Publishers :
                             Publishing(k)' => OneOutBy(pub[k])' /\ NoneRevived(pub[k])'
      BY <1>1 DEF InTurn
    <3>1. /\ OneIsOut /\ OneOutBy(o) /\ NoneRevived(o)
          /\ \A k \in Publishers : Publishing(k) => k = g
      BY <1>1 DEF PublicationInv, InTurn
    <3>2. \A k \in Publishers : ~ Publishing(k)'
      BY <2>3, <3>1 DEF Publishing, Resting
    <3>3. \A r \in Revs : /\ (revs'[r] # None /\ revs'[r].status = "published") <=> RowOut(o, r)
                          /\ (projs'[r] # None /\ projs'[r].status = "published") <=> ProjOut(o, r)
      BY <2>1 DEF RowOut, ProjOut
    <3>4. ASSUME NEW r \in Revs, revs'[r] # None PROVE Allowed(revs'[r])
      <4> SUFFICES ASSUME revs'[r].status \in {"human_verified", "published"}
                   PROVE  revs'[r].eligible
        BY DEF Allowed
      <4>1. revs[r] # None /\ RowBy(o, r) # "retired" /\ RowBy(o, r) = revs'[r].status
        BY <2>1, <3>4
      <4>2. revs[r] \in RevisionRow
        BY <4>1 DEF ReviewInv, RowsOK
      <4>3. r \in DOMAIN o.rows => revs[r].status \in {"human_verified", "published"}
        <5>1. r \in DOMAIN o.rows => Judged(revs, r)
          BY <1>1 DEF ReviewInv, PublishersOK, PublisherOK, Publishing
        <5> QED
          BY <3>1, <4>1, <4>2, <5>1 DEF NoneRevived, RowBy, Judged, RevisionRow, Lifecycles
      <4>4. r \notin DOMAIN o.rows => revs[r].status = revs'[r].status
        BY <4>1 DEF RowBy
      <4>5. revs[r].eligible
        BY <3>1, <4>1, <4>3, <4>4 DEF OneIsOut, Allowed
      <4> QED
        BY <2>1, <4>1, <4>5
    <3>5. OneIsOut'
      <4>1. \A r \in Revs : revs'[r] # None => Allowed(revs[r])'
        BY <3>4 DEF Allowed
      <4>2. \A r \in Revs : (revs'[r] # None /\ revs'[r].status = "published")
                              <=> (projs'[r] # None /\ projs'[r].status = "published")
        BY <1>1, <3>1, <3>3 DEF OneOutBy
      <4>3. \A r, q \in Published' : r = q
        BY <1>1, <3>1, <3>3 DEF OneOutBy, Published, Active
      <4> QED
        BY <4>1, <4>2, <4>3 DEF OneIsOut
    <3> QED
      BY <3>2, <3>5
  <2> QED
    BY <2>4, <2>6, <2>8, <2>9, <2>10 DEF PublicationInv
<1>4. \/ UNCHANGED <<revs, projs, batches, snaps>>
      \/ /\ revs' = [r \in Revs |-> RowSeen(g, r)] /\ projs' = [r \in Revs |-> ProjSeen(g, r)]
         /\ \/ UNCHANGED <<batches, snaps>>
            \/ /\ b # None
               /\ batches' = [batches EXCEPT ![b] = f]
               /\ snaps' = IF f.snapshot = {} THEN snaps
                           ELSE snaps \cup {[content |-> f.snapshot, batch |-> b]}
  BY DEF CommitPublication
<1> QED
  BY <1>2, <1>3, <1>4
-------------------------------------------------------------------------------
LEMMA PublicationsBegin == CatalogInit => PublicationInv
<1> SUFFICES ASSUME CatalogInit PROVE PublicationInv
  OBVIOUS
<1> USE DEF CatalogInit, ReviewInit, PublicationInit
<1>1. /\ revs \in [Revs -> RevisionRow \cup {None}]
      /\ \A r \in Revs : revs[r] # None => revs[r].status = "candidate"
      /\ \A r \in Revs : projs[r] = None
      /\ \A b \in BatchIds : batches[b] = None
      /\ \A g \in Publishers : pub[g] = Resting /\ ~ InHand(pub[g]) /\ ~ Publishing(g)
  BY DEF Active, Resting, InHand, Publishing
<1>2. ProjsOK /\ ItemsOK /\ BatchesTold
  BY <1>1 DEF ProjsOK, ItemsOK, BatchesTold
<1>3. \A g \in Publishers : HandOK(pub[g])
  BY <1>1 DEF HandOK, Resting
<1>4. InTurn
  BY <1>1 DEF InTurn, OneIsOut, Published, Active, Allowed
<1> QED
  BY <1>2, <1>3, <1>4 DEF PublicationInv

LEMMA PublicationsKeep ==
  ASSUME ReviewInv, PublicationInv, [CatalogNext]_catalogVars
  PROVE  PublicationInv'
<1>1. CASE ReviewNext /\ UNCHANGED publishVars
  <2>1. LifeKept(revs, revs')
    BY <1>1, ReviewSparesLife DEF ReviewNext
  <2>2. RevsKept(revs, revs')
    BY <1>1, NextKeeps DEF CatalogNext
  <2> QED
    BY <1>1, <2>1, <2>2, ReviewsSparePublications
<1>2. CASE PublicationStep /\ UNCHANGED reviewVars
  BY <1>2, PublisherStepKeeps, PreviewingKeeps DEF PublicationStep
<1>3. CASE \E g \in Publishers : CommitPublication(g)
  BY <1>3, CommittingKeeps
<1>4. CASE UNCHANGED catalogVars
  <2>1. UNCHANGED <<revs, publishVars>>
    BY <1>4 DEF catalogVars, reviewVars
  <2>2. LifeKept(revs, revs')
    BY <2>1 DEF LifeKept
  <2>3. RevsKept(revs, revs')
    BY <1>4, StutterKeeps
  <2> QED
    BY <2>1, <2>2, <2>3, ReviewsSparePublications
<1> QED
  BY <1>1, <1>2, <1>3, <1>4 DEF CatalogNext

LEMMA PublicationsAreSound == CatalogSpec => [](ReviewInv /\ PublicationInv)
<1>1. ReviewInv /\ PublicationInv /\ [CatalogNext]_catalogVars => ReviewInv' /\ PublicationInv'
  BY NextKeeps, StutterKeeps, PublicationsKeep
<1>2. CatalogInit => ReviewInv /\ PublicationInv
  BY InitIsSound, PublicationsBegin
<1> QED
  BY <1>1, <1>2, PTL DEF CatalogSpec

(* As long as no publication began while another was under way, a place has   *)
(* one published revision at most, and the published projections are those of *)
(* the published revisions: the two UPDATE statements of publish_projection   *)
(* and its own rows end in the same life cycle, whatever reviewers do; and    *)
(* publishing, which sets no solver_eligible, finds it set.                   *)
THEOREM PublicationsInTurn == CatalogSpec => []InTurnOnePublished
<1>1. ReviewInv /\ PublicationInv => InTurnOnePublished
  <2> SUFFICES ASSUME ReviewInv, PublicationInv, ~ overlapped
               PROVE  /\ OnePublishedPerPlace
                      /\ Published = {r \in Active : projs[r] # None
                                                       /\ projs[r].status = "published"}
                      /\ \A r \in Active : Allowed(revs[r])
    BY DEF InTurnOnePublished, Allowed
  <2>1. OneIsOut
    BY DEF PublicationInv, InTurn
  <2>2. Published = {r \in Active : projs[r] # None /\ projs[r].status = "published"}
    BY <2>1 DEF OneIsOut, Published, Active
  <2>3. OnePublishedPerPlace
    <3>1. CASE Published = {}
      BY <3>1, FS_EmptySet DEF OnePublishedPerPlace
    <3>2. CASE Published # {}
      <4>1. PICK r : Published = {r}
        BY <2>1, <3>2 DEF OneIsOut
      <4> QED
        BY <4>1, FS_Singleton DEF OnePublishedPerPlace
    <3> QED
      BY <3>1, <3>2
  <2>4. \A r \in Active : Allowed(revs[r])
    BY <2>1 DEF OneIsOut, Active
  <2> QED
    BY <2>2, <2>3, <2>4
<1> QED
  BY <1>1, PublicationsAreSound, PTL

(* A batch with results tells what it published, also when executions of it   *)
(* and other publications overlap, fail at its snapshot or roll back.         *)
THEOREM BatchesTellTruth == CatalogSpec => []BatchTellsTruth
<1>1. PublicationInv => BatchTellsTruth
  BY DEF PublicationInv, BatchesTold, Told, ToldBy, BatchTellsTruth
<1> QED
  BY <1>1, PublicationsAreSound, PTL

(* What is retired remains so.                                                *)
LEMMA RetiredRemains ==
  ASSUME ReviewInv, PublicationInv, [CatalogNext]_catalogVars, ~ overlapped', NEW r \in Active
  PROVE  /\ revs[r].status = "retired" => revs'[r].status = "retired"
         /\ projs[r] # None /\ projs[r].status = "retired" => projs'[r].status = "retired"
<1>0. r \in Revs /\ revs[r] # None
  BY DEF Active
<1>1. CASE ReviewNext /\ UNCHANGED publishVars
  <2>1. LifeKept(revs, revs') /\ UNCHANGED projs
    BY <1>1, ReviewSparesLife DEF ReviewNext, publishVars
  <2> QED
    BY <1>0, <2>1 DEF LifeKept
<1>2. CASE PublicationStep /\ UNCHANGED reviewVars
  <2>1. UNCHANGED revs
    BY <1>2 DEF reviewVars
  <2>2. UNCHANGED projs \/ \E g \in Publishers : SaveProjections(g)
    <3>1. \A g, q, a, d : PrepareProjection(g, q, a, d) => UNCHANGED projs
      BY DEF PrepareProjection
    <3>2. \A g, chosen : PrepareProjections(g, chosen) => UNCHANGED projs
      BY DEF PrepareProjections
    <3>3. \A g : /\ \A q : PublishRevision(g, q) => UNCHANGED projs
                 /\ \A b : ExecuteBatch(g, b) => UNCHANGED projs
      BY DEF PublishRevision, ExecuteBatch, Start
    <3>4. \A g : LoadRows(g) \/ RetireRevisions(g) \/ RetireProjections(g) \/ PublishOwn(g) \/ NextItem(g)
                   \/ RollBack(g) => UNCHANGED projs
      BY DEF LoadRows, RetireRevisions, RetireProjections, PublishOwn, NextItem, RollBack
    <3>5. \A b, chosen : PreviewBatch(b, chosen) => UNCHANGED projs
      BY DEF PreviewBatch
    <3> QED
      BY <1>2, <3>1, <3>2, <3>3, <3>4, <3>5, Zenon DEF PublicationStep, PublisherStep
  <2>3. ASSUME NEW g \in Publishers, SaveProjections(g), projs[r] # None
        PROVE  projs'[r] = projs[r]
    BY <1>0, <2>3 DEF SaveProjections
  <2> QED
    BY <2>1, <2>2, <2>3
<1>3. CASE \E g \in Publishers : CommitPublication(g)
  <2>1. PICK g \in Publishers : CommitPublication(g)
    BY <1>3
  <2>2. Publishing(g) /\ pub[g].at = "next" /\ ~ overlapped
    BY <2>1 DEF CommitPublication, Publishing
  <2>3. NoneRevived(pub[g]) /\ PublisherOK(pub[g], revs) /\ HandOK(pub[g]) /\ InHand(pub[g])
    BY <2>2 DEF PublicationInv, InTurn, ReviewInv, PublishersOK, Publishing, InHand
  <2>4. CASE UNCHANGED <<revs, projs>>
    BY <2>4
  <2>5. CASE revs' = [q \in Revs |-> RowSeen(g, q)] /\ projs' = [q \in Revs |-> ProjSeen(g, q)]
    <3>1. /\ revs'[r].status = RowBy(pub[g], r)
          /\ projs[r] # None => projs'[r].status = ProjBy(pub[g], r)
      BY <1>0, <2>2, <2>5, Committed
    <3> QED
      BY <2>3, <3>1 DEF NoneRevived, RowBy, ProjBy
  <2> QED
    BY <2>1, <2>4, <2>5 DEF CommitPublication
<1>4. CASE UNCHANGED catalogVars
  BY <1>4 DEF catalogVars, reviewVars, publishVars
<1> QED
  BY <1>1, <1>2, <1>3, <1>4 DEF CatalogNext

(* As long as publications do not overlap, nothing that was retired is        *)
(* published again: a batch that names it finds the gate closed.              *)
THEOREM RetiredStaysRetired == CatalogSpec => InTurnRetiredIsFinal
<1>1. ReviewInv /\ PublicationInv /\ [CatalogNext]_catalogVars =>
        [~ overlapped' =>
           \A r \in Active :
             /\ revs[r].status = "retired" => revs'[r].status = "retired"
             /\ projs[r] # None /\ projs[r].status = "retired"
                  => projs'[r].status = "retired"]_catalogVars
  BY RetiredRemains
<1> QED
  BY <1>1, PublicationsAreSound, PTL DEF CatalogSpec, InTurnRetiredIsFinal
-------------------------------------------------------------------------------
(* What else the tables keep: a revision is eligible for planning only         *)
(* while it is approved, its number is its own, and so is a projection's node.  *)
EligibleFits(c) == c.eligible => c.status \in {"human_verified", "published"}
RowsFit ==
  /\ \A r \in Active : EligibleFits(revs[r])
  /\ \A r, q \in Active : revs[r].number = revs[q].number => r = q
  /\ relations \in [RelationIds -> RelationRow]

ResolutionFits(change) ==
  \/ change.relation = None
  \/ change.relation \in RelationIds /\ change.to \in {"pending", "resolved", "not_required"}
AskFits(q) ==
  /\ q.at = "create" => ~ q.row.eligible
  /\ q.at = "edit" => ResolutionFits(q.change)
ReviewTyped == RowsFit /\ \A h \in Threads : AskFits(req[h])

BatchFits(b) ==
  /\ b.status \in BatchStatuses
  /\ \A r \in DOMAIN b.items : b.items[r] \in ItemStatuses
  /\ b.snapshot \in SUBSET Revs
PubFits(p) ==
  /\ p.at = "prepare" => \A r, q \in DOMAIN p.new : p.new[r].node = p.new[q].node => r = q
  /\ InHand(p) => /\ p.batch \in BatchIds \cup {None}
                  /\ \A r \in DOMAIN p.items : p.items[r] \in ItemStatuses
NodesFit ==
  \A r, q \in Revs : projs[r] # None /\ projs[q] # None /\ projs[r].node = projs[q].node => r = q
PublicationTyped ==
  /\ NodesFit
  /\ \A b \in BatchIds : batches[b] # None => BatchFits(batches[b])
  /\ snaps \subseteq [content : SUBSET Revs, batch : BatchIds]
  /\ \A g \in Publishers : PubFits(pub[g])

(* A row is replaced by one of its number.                                     *)
LEMMA RowReplaced ==
  ASSUME ReviewInv, RowsFit, NEW r \in Revs, revs[r] # None, NEW d, d # None, EligibleFits(d),
         d.number = revs[r].number, revs' = [revs EXCEPT ![r] = d],
         relations' \in [RelationIds -> RelationRow]
  PROVE  RowsFit'
<1>1. \A q \in Revs : revs'[q] = IF q = r THEN d ELSE revs[q]
  BY DEF ReviewInv, RowsOK
<1>2. Active' = Active
  BY <1>1 DEF Active
<1>3. \A q \in Active : q \in Revs
  BY DEF Active
<1>4. \A q \in Active : EligibleFits(revs'[q]) /\ revs'[q].number = revs[q].number
  BY <1>1, <1>3 DEF RowsFit
<1> QED
  BY <1>2, <1>4 DEF RowsFit, EligibleFits

LEMMA RowsUnchanged ==
  ASSUME RowsFit, revs' = revs, relations' \in [RelationIds -> RelationRow]
  PROVE  RowsFit'
  BY DEF RowsFit, EligibleFits, Active

LEMMA AskPut ==
  ASSUME ReviewInv, ReviewTyped, RowsFit', NEW h \in Threads, NEW q, AskFits(q),
         req' = [req EXCEPT ![h] = q]
  PROVE  ReviewTyped'
<1>1. \A k \in Threads : req'[k] = IF k = h THEN q ELSE req[k]
  BY DEF ReviewInv, RequestsOK
<1>2. \A k \in Threads : AskFits(req'[k])
  BY <1>1 DEF ReviewTyped
<1> QED
  BY <1>2 DEF ReviewTyped, AskFits, ResolutionFits

LEMMA IdleFits == AskFits(Idle)
  BY DEF AskFits, Idle

LEMMA BegunFits ==
  ASSUME ReviewInv, ReviewTyped, NEW h \in Threads, NEW r, NEW change, Begin(h, r, change),
         ResolutionFits(change)
  PROVE  ReviewTyped'
<1> DEFINE q == [at |-> "edit", rev |-> r, version |-> revs[r].version, change |-> change]
<1>1. req' = [req EXCEPT ![h] = q] /\ UNCHANGED <<revs, relations>>
  BY DEF Begin
<1>2. AskFits(q)
  BY DEF AskFits
<1> HIDE DEF q
<1>3. RowsFit'
  BY <1>1, RowsUnchanged DEF ReviewTyped, RowsFit
<1> QED
  BY <1>1, <1>2, <1>3, AskPut

LEMMA EditBegunFits ==
  ASSUME ReviewInv, ReviewTyped, NEW h \in Threads,
         \/ \E r \in Revs, n \in Numbers : EvidenceEdits(h, r, n)
         \/ \E r \in Revs : RevisionEdits(h, r)
  PROVE  ReviewTyped'
<1>1. ASSUME NEW r, NEW kind, NEW n, NEW s, NEW columns,
             Create(h, r, kind, n, s, columns) \/ Update(h, r, kind, n, s, columns)
      PROVE  ReviewTyped'
  <2> DEFINE change == [NoChange EXCEPT !.put = {NewItem(kind, n, s)}, !.columns = columns]
  <2>1. Begin(h, r, change)
    BY <1>1 DEF Create, Update
  <2>2. ResolutionFits(change)
    BY DEF ResolutionFits, NoChange
  <2> HIDE DEF change
  <2> QED
    BY <2>1, <2>2, BegunFits
<1>2. ASSUME NEW r, NEW kind, NEW n, Retire(h, r, kind, n)
      PROVE  ReviewTyped'
  <2>1. PICK i : Begin(h, r, [NoChange EXCEPT
                                !.put = {[i EXCEPT !.active = FALSE, !.status = "rejected"]}])
    BY <1>2 DEF Retire
  <2> DEFINE change == [NoChange EXCEPT
                          !.put = {[i EXCEPT !.active = FALSE, !.status = "rejected"]}]
  <2>2. ResolutionFits(change)
    BY DEF ResolutionFits, NoChange
  <2>3. Begin(h, r, change)
    BY <2>1
  <2> HIDE DEF change
  <2> QED
    BY <2>2, <2>3, BegunFits
<1>3. CASE \E r \in Revs, n \in Numbers : EvidenceEdits(h, r, n)
  BY <1>1, <1>2, <1>3, ZenonT(60) DEF EvidenceEdits, CreateGeometry, UpdateGeometry,
     RetireGeometry, CreateAccessPoint, UpdateAccessPoint, RetireAccessPoint, CreateTimeRule,
     UpdateTimeRule, RetireTimeRule, CreateClosure, UpdateClosure, RetireClosure,
     CreateDateException, UpdateDateException, RetireDateException
<1>4. ASSUME NEW r \in Revs, NEW columns, Begin(h, r, [NoChange EXCEPT !.columns = columns])
      PROVE  ReviewTyped'
  <2>1. ResolutionFits([NoChange EXCEPT !.columns = columns])
    BY DEF ResolutionFits, NoChange
  <2> QED
    BY <1>4, <2>1, BegunFits
<1>5. ASSUME NEW r \in Revs, NEW s, GenerateHolidayExceptions(h, r, s)
      PROVE  ReviewTyped'
  <2>1. PICK put, bumps : Begin(h, r, [NoChange EXCEPT !.put = put, !.bumps = bumps])
    BY <1>5, Zenon DEF GenerateHolidayExceptions
  <2>2. ResolutionFits([NoChange EXCEPT !.put = put, !.bumps = bumps])
    BY DEF ResolutionFits, NoChange
  <2> QED
    BY <2>1, <2>2, BegunFits
<1>6. ASSUME NEW r \in Revs, NEW s, CreateSourceRecord(h, r, s)
      PROVE  ReviewTyped'
  <2>1. ResolutionFits([NoChange EXCEPT !.attach = {s}])
    BY DEF ResolutionFits, NoChange
  <2> QED
    BY <1>6, <2>1, BegunFits DEF CreateSourceRecord
<1>7. ASSUME NEW r \in Revs, NEW s, DetachSourceRecord(h, r, s)
      PROVE  ReviewTyped'
  <2>1. ResolutionFits([NoChange EXCEPT !.detach = {s}])
    BY DEF ResolutionFits, NoChange
  <2> QED
    BY <1>7, <2>1, BegunFits DEF DetachSourceRecord
<1>8. ASSUME NEW r \in Revs, NEW x \in RelationIds, NEW to \in {"pending", "resolved", "not_required"},
             ResolveRelation(h, r, x, to)
      PROVE  ReviewTyped'
  <2> DEFINE change == [NoChange EXCEPT !.relation = x, !.to = to]
  <2>1. ResolutionFits(change)
    BY DEF ResolutionFits, NoChange
  <2>2. Begin(h, r, change)
    BY <1>8 DEF ResolveRelation
  <2> HIDE DEF change
  <2> QED
    BY <2>1, <2>2, BegunFits
<1>9. ASSUME NEW r \in Revs, NEW v, UpdateRevision(h, r, v) \/ ResolveSourceConflicts(h, r, v)
      PROVE  ReviewTyped'
  BY <1>4, <1>9 DEF UpdateRevision, ResolveSourceConflicts
<1>10. ASSUME NEW r \in Revs, ConfirmNoRelations(h, r)
       PROVE  ReviewTyped'
  BY <1>4, <1>10 DEF ConfirmNoRelations
<1>11. CASE \E r \in Revs : RevisionEdits(h, r)
  BY <1>5, <1>6, <1>7, <1>8, <1>9, <1>10, <1>11, Zenon DEF RevisionEdits
<1> QED
  BY <1>3, <1>11

LEMMA RelationKept ==
  ASSUME RowsFit, NEW x \in RelationIds, NEW status \in EvidenceStatuses \cup {"pending"},
         NEW to \in {"pending", "resolved", "not_required"}
  PROVE  /\ [relations EXCEPT ![x].status = status] \in [RelationIds -> RelationRow]
         /\ [relations EXCEPT ![x].resolution = to, ![x].status = status]
              \in [RelationIds -> RelationRow]
<1>1. relations \in [RelationIds -> RelationRow] /\ relations[x] \in RelationRow
  BY DEF RowsFit
<1>2. [relations[x] EXCEPT !.status = status] \in RelationRow
  BY <1>1 DEF RelationRow
<1>3. [relations[x] EXCEPT !.resolution = to, !.status = status] \in RelationRow
  BY <1>1 DEF RelationRow
<1>4. [relations EXCEPT ![x].status = status]
        = [relations EXCEPT ![x] = [relations[x] EXCEPT !.status = status]]
  BY <1>1
<1>5. [relations EXCEPT ![x].resolution = to, ![x].status = status]
        = [relations EXCEPT ![x] = [relations[x] EXCEPT !.resolution = to, !.status = status]]
  BY <1>1
<1> QED
  BY <1>1, <1>2, <1>3, <1>4, <1>5

(* Every row a review writes fits; a new one has a number of its own.          *)
LEMMA ReviewFits ==
  ASSUME ReviewInv, ReviewTyped, NEW h \in Threads, ReviewStep(h)
  PROVE  ReviewTyped'
<1>1. /\ revs \in [Revs -> RevisionRow \cup {None}] /\ RowsFit
      /\ relations \in [RelationIds -> RelationRow] /\ DOMAIN req = Threads
  BY DEF ReviewInv, RowsOK, ReviewTyped, RowsFit, RequestsOK
<1>2. CASE \/ \E r \in Revs, n \in Numbers : EvidenceEdits(h, r, n)
           \/ \E r \in Revs : RevisionEdits(h, r)
  BY <1>2, EditBegunFits
<1>3. ASSUME UNCHANGED <<revs, relations>>, NEW q, AskFits(q), req' = [req EXCEPT ![h] = q]
      PROVE  ReviewTyped'
  BY <1>1, <1>3, RowsUnchanged, AskPut
<1>4. ASSUME NEW r \in Active, NEW to \in {"human_verified", "rejected"}, NEW x \in RelationIds,
             ReviewRelation(h, r, x, to)
      PROVE  ReviewTyped'
  <2>1. revs' = revs /\ req' = req /\ relations' = [relations EXCEPT ![x].status = to]
    BY <1>4 DEF ReviewRelation
  <2>2. to \in EvidenceStatuses \cup {"pending"}
    BY DEF EvidenceStatuses
  <2>3. RowsFit'
    BY <1>1, <2>1, <2>2, RelationKept, RowsUnchanged
  <2> QED
    BY <2>1, <2>3 DEF ReviewTyped, AskFits, ResolutionFits
<1>5. CASE \/ \E r \in Active, to \in {"human_verified", "rejected"} :
                \E i \in revs[r].items : ReviewEvidence(h, r, i, to)
           \/ \E r \in Revs : Submit(h, r)
           \/ \E t \in Tasks, kind \in Kinds : Decide(h, t, kind)
           \/ SaveSubmit(h) \/ Abandon(h)
  <2>1. UNCHANGED <<revs, relations>>
    BY <1>5 DEF ReviewEvidence, Submit, Decide, SaveSubmit, Abandon
  <2>2. \E q : req' = [req EXCEPT ![h] = q] /\ (q.at \in {"evidence", "submit", "decide"} \/ q = Idle)
    BY <1>5 DEF ReviewEvidence, Submit, Decide, SaveSubmit, Abandon
  <2> QED
    BY <1>3, <2>1, <2>2, IdleFits DEF AskFits
<1>6. ASSUME NEW r \in Revs, CreateRevision(h, r)
      PROVE  ReviewTyped'
  <2>1. PICK n \in NextNumbers :
          req' = [req EXCEPT ![h] =
            [at |-> "create",
             row |-> [revs[r] EXCEPT
               !.number = n, !.version = 1,
               !.status = "candidate", !.eligible = FALSE, !.resolved = FALSE,
               !.relationReview = "pending",
               !.items = {[i EXCEPT !.status = "candidate"] : i \in {j \in @ : j.active}}]]]
    BY <1>6 DEF CreateRevision
  <2>2. revs[r] \in RevisionRow /\ UNCHANGED <<revs, relations>>
    BY <1>1, <1>6 DEF CreateRevision, Active
  <2> DEFINE row == [revs[r] EXCEPT
               !.number = n, !.version = 1,
               !.status = "candidate", !.eligible = FALSE, !.resolved = FALSE,
               !.relationReview = "pending",
               !.items = {[i EXCEPT !.status = "candidate"] : i \in {j \in @ : j.active}}]
  <2>3. ~ row.eligible
    BY <2>2 DEF RevisionRow
  <2>4. req' = [req EXCEPT ![h] = [at |-> "create", row |-> row]]
    BY <2>1
  <2> HIDE DEF row
  <2>5. AskFits([at |-> "create", row |-> row])
    BY <2>3 DEF AskFits
  <2> QED
    BY <1>3, <2>2, <2>4, <2>5
<1>7. ASSUME NEW r \in Revs, SaveRevision(h, r)
      PROVE  ReviewTyped'
  <2> DEFINE row == req[h].row
  <2>1. /\ req[h].at = "create" /\ revs[r] = None /\ UNCHANGED relations
        /\ revs' = IF NumberFree(row.number) THEN [revs EXCEPT ![r] = row] ELSE revs
        /\ req' = [req EXCEPT ![h] = Idle]
    BY <1>7 DEF SaveRevision
  <2>2. ~ row.eligible /\ row.status = "candidate" /\ row \in RevisionRow
    BY <2>1 DEF ReviewTyped, AskFits, ReviewInv, RequestsOK, RequestOK
  <2> HIDE DEF row
  <2>3. CASE ~ NumberFree(row.number)
    BY <1>3, <2>1, <2>3, IdleFits
  <2>4. CASE NumberFree(row.number)
    <3>1. \A q \in Revs : revs'[q] = IF q = r THEN row ELSE revs[q]
      BY <1>1, <2>1, <2>4
    <3>2. row # None
      BY <2>2, ReviewAssumption
    <3>3. Active' = Active \cup {r} /\ r \notin Active
      BY <2>1, <3>1, <3>2 DEF Active
    <3>4. \A q \in Active : q \in Revs /\ revs'[q] = revs[q] /\ revs'[q].number # row.number
      BY <2>4, <3>1, <3>3 DEF Active, NumberFree
    <3>5. revs'[r] = row /\ EligibleFits(row)
      BY <2>2, <3>1 DEF EligibleFits
    <3>6. \A q \in Active' : EligibleFits(revs'[q])
      BY <1>1, <3>3, <3>4, <3>5 DEF RowsFit
    <3>7. \A q, s \in Active' : revs'[q].number = revs'[s].number => q = s
      BY <1>1, <3>3, <3>4, <3>5 DEF RowsFit
    <3>8. RowsFit'
      BY <1>1, <2>1, <3>6, <3>7 DEF RowsFit, EligibleFits
    <3> QED
      BY <2>1, <3>8, IdleFits, AskPut
  <2> QED
    BY <2>3, <2>4
<1>8. CASE SaveEdit(h)
  <2> DEFINE q == req[h]
             d == Edited(revs[q.rev], q.change)
  <2>1. q.at = "edit" /\ req' = [req EXCEPT ![h] = Idle]
    BY <1>8 DEF SaveEdit
  <2>2. EditOK(q, revs) /\ ResolutionFits(q.change)
    BY <2>1 DEF ReviewInv, RequestsOK, RequestOK, ReviewTyped, AskFits
  <2>3. q.rev \in Revs /\ revs[q.rev] # None /\ revs[q.rev] \in RevisionRow /\ ChangeOK(q.change)
    BY <1>1, <2>2 DEF EditOK, There
  <2>4. CASE UNCHANGED <<revs, relations>>
    BY <1>3, <2>1, <2>4, IdleFits
  <2>5. CASE /\ AtVersion(q) /\ revs' = [revs EXCEPT ![q.rev] = d]
             /\ relations' = IF q.change.relation = None THEN relations
                  ELSE [relations EXCEPT ![q.change.relation].resolution = q.change.to,
                                         ![q.change.relation].status = "pending"]
    <3>1. d \in RevisionRow /\ d.status = "candidate"
      BY <2>3, <2>5, EditedRow DEF AtVersion
    <3>2. ~ d.eligible /\ d.number = revs[q.rev].number
      BY <2>3 DEF Edited, RevisionRow
    <3>3. relations' \in [RelationIds -> RelationRow]
      BY <1>1, <2>2, <2>5, RelationKept DEF ResolutionFits
    <3>4. d # None
      BY <3>1, ReviewAssumption
    <3>5. revs' = [revs EXCEPT ![q.rev] = d]
      BY <2>5
    <3> HIDE DEF d, q
    <3>6. RowsFit'
      BY <1>1, <2>3, <3>1, <3>2, <3>3, <3>4, <3>5, RowReplaced DEF EligibleFits
    <3> QED
      BY <2>1, <3>6, IdleFits, AskPut
  <2> QED
    BY <1>8, <2>4, <2>5 DEF SaveEdit
<1>9. CASE SaveReview(h)
  <2> DEFINE q == req[h]
             c == revs[q.rev]
             found == {i \in ById(c, q.item) : i.active}
             d == Verdict(c, found, q.to)
  <2>1. q.at = "evidence" /\ req' = [req EXCEPT ![h] = Idle] /\ UNCHANGED relations
    BY <1>9 DEF SaveReview
  <2>2. There(revs, q.rev) /\ q.to \in EvidenceStatuses
    BY <2>1 DEF ReviewInv, RequestsOK, RequestOK, EvidenceStatuses
  <2>3. q.rev \in Revs /\ c # None /\ c \in RevisionRow
    BY <1>1, <2>2 DEF There
  <2>4. found \subseteq c.items
    BY DEF ById, RowsOf
  <2>5. revs' = [revs EXCEPT ![q.rev] = d]
    BY <1>1, <2>3, <1>9 DEF SaveReview, Verdict
  <2>6. EligibleFits(c)
    BY <1>1, <2>3 DEF RowsFit, Active
  <2>7. d \in RevisionRow /\ EligibleFits(d) /\ d.number = c.number
    <3> HIDE DEF found, c, q
    <3>1. d \in RevisionRow
      BY <2>2, <2>3, <2>4, VerdictRow
    <3>2. d.eligible = c.eligible /\ d.status = c.status /\ d.number = c.number
      BY <2>3 DEF Verdict, RevisionRow
    <3> QED
      BY <2>6, <3>1, <3>2 DEF EligibleFits
  <2>8. d # None
    BY <2>7, ReviewAssumption
  <2>9. RowsFit'
    <3> HIDE DEF d
    <3> QED
      BY <1>1, <2>1, <2>3, <2>5, <2>7, <2>8, RowReplaced
  <2> QED
    BY <2>1, <2>9, IdleFits, AskPut
<1>10. CASE SaveDecide(h)
  <2> DEFINE r == tasks[req[h].task].rev
             d == [revs[r] EXCEPT !.status = "human_verified", !.eligible = TRUE]
             new == [revs EXCEPT ![r].status = "human_verified", ![r].eligible = TRUE]
  <2>1. req[h].at = "decide" /\ req' = [req EXCEPT ![h] = Idle] /\ UNCHANGED relations
    BY <1>10 DEF SaveDecide
  <2>2. req[h].task \in Tasks /\ tasks[req[h].task] # None
    BY <2>1 DEF ReviewInv, RequestsOK, RequestOK, DecideOK
  <2>3. r \in Revs /\ revs[r] # None /\ revs[r] \in RevisionRow
    BY <1>1, <2>2 DEF ReviewInv, RowsOK, There
  <2>4. UNCHANGED revs \/ revs' = new
    BY <1>10, Zenon DEF SaveDecide
  <2>5. d \in RevisionRow
    BY <2>3, ZenonT(60) DEF RevisionRow, Lifecycles
  <2>6. EligibleFits(d) /\ d.number = revs[r].number
    BY <2>3 DEF RevisionRow, EligibleFits
  <2>7. d # None
    BY <2>5, ReviewAssumption
  <2>8. new = [revs EXCEPT ![r] = d]
    BY <1>1, <2>3
  <2> HIDE DEF d, r, new
  <2>9. CASE UNCHANGED revs
    BY <1>3, <2>1, <2>9, IdleFits
  <2>10. CASE revs' = new
    <3>1. RowsFit'
      BY <1>1, <2>1, <2>3, <2>6, <2>7, <2>8, <2>10, RowReplaced
    <3> QED
      BY <2>1, <3>1, IdleFits, AskPut
  <2> QED
    BY <2>4, <2>9, <2>10
<1> QED
  BY <1>2, <1>4, <1>5, <1>6, <1>7, <1>8, <1>9, <1>10, Zenon DEF ReviewStep

-------------------------------------------------------------------------------
(* Who takes the free nodes in the order of the revisions shares none.         *)
LEMMA InOrderIsOnce ==
  ASSUME NEW chosen \in SUBSET Revs, NEW node \in [chosen -> FreeNodes], InOrder(node, chosen),
         NEW r \in chosen, NEW q \in chosen, node[r] = node[q]
  PROVE  r = q
<1> DEFINE upTo(s) == {k \in chosen : k <= s}
<1>1. r \in Nat /\ q \in Nat /\ chosen \subseteq Nat
  BY PublicationAssumption
<1>2. \A s \in chosen : IsFiniteSet(upTo(s))
  BY PublicationAssumption, FS_Subset
<1>3. Cardinality(upTo(r)) = Cardinality(upTo(q))
  BY DEF InOrder
<1>4. upTo(r) = upTo(q)
  <2>1. upTo(r) \subseteq upTo(q) \/ upTo(q) \subseteq upTo(r)
    <3>1. ASSUME NEW s \in chosen, NEW t \in chosen, s <= t
          PROVE  upTo(s) \subseteq upTo(t)
      <4>1. \A k \in chosen : k \in Nat /\ s \in Nat /\ t \in Nat
        BY <1>1
      <4> QED
        BY <3>1, <4>1
    <3>2. r <= q \/ q <= r
      BY <1>1
    <3> QED
      BY <3>1, <3>2
  <2> HIDE DEF upTo
  <2> QED
    BY <1>2, <1>3, <2>1, FS_Subset
<1>5. r \in upTo(r) /\ q \in upTo(q)
  BY <1>1
<1> QED
  BY <1>1, <1>4, <1>5

LEMMA PublisherFits ==
  ASSUME ReviewInv, PublicationTyped, NEW g \in Publishers, NEW p,
         pub' = [pub EXCEPT ![g] = p], PubFits(p), UNCHANGED <<batches, snaps>>, NodesFit'
  PROVE  PublicationTyped'
<1>1. \A k \in Publishers : pub'[k] = IF k = g THEN p ELSE pub[k]
  BY DEF ReviewInv, PublishersOK
<1>2. \A k \in Publishers : PubFits(pub'[k])
  BY <1>1 DEF PublicationTyped
<1> QED
  BY <1>2 DEF PublicationTyped, PubFits, InHand, BatchFits

LEMMA RestingFits == PubFits(Resting)
  BY DEF PubFits, InHand, Resting

LEMMA NodesUnchanged == NodesFit /\ UNCHANGED projs => NodesFit'
  BY DEF NodesFit

LEMMA PreparedFits ==
  ASSUME ReviewInv, PublicationTyped, NEW g \in Publishers,
         \/ \E r \in Active : \E a, d \in VerifiedPoints(revs[r]) : PrepareProjection(g, r, a, d)
         \/ \E chosen \in SUBSET Active : PrepareProjections(g, chosen)
  PROVE  PublicationTyped'
<1>1. ASSUME NEW r, NEW node, NEW a, NEW d
      PROVE  Prepared(r, node, a, d).node = node
  <2> DEFINE p == [node |-> node, arrival |-> a.n, departure |-> d.n,
                   status |-> "candidate", verified |-> FALSE]
  <2>1. PICK good : Prepared(r, node, a, d) = [p EXCEPT !.verified = good]
    BY DEF Prepared
  <2> QED
    BY <2>1
<1>2. ASSUME NEW new, pub' = [pub EXCEPT ![g] = [at |-> "prepare", new |-> new]],
             \A r, q \in DOMAIN new : new[r].node = new[q].node => r = q
      PROVE  PublicationTyped'
  <2> DEFINE p == [at |-> "prepare", new |-> new]
  <2>1. PubFits(p)
    BY <1>2 DEF PubFits, InHand
  <2>2. UNCHANGED <<projs, batches, snaps>>
    BY DEF PrepareProjection, PrepareProjections
  <2>3. pub' = [pub EXCEPT ![g] = p]
    BY <1>2
  <2> HIDE DEF p
  <2> QED
    BY <2>1, <2>2, <2>3, NodesUnchanged, PublisherFits DEF PublicationTyped
<1>3. ASSUME NEW r \in Active, NEW a, NEW d, PrepareProjection(g, r, a, d)
      PROVE  PublicationTyped'
  <2>1. PICK node \in FreeNodes :
          pub' = [pub EXCEPT ![g] =
            [at |-> "prepare", new |-> [q \in {r} |-> Prepared(r, node, a, d)]]]
    BY <1>3 DEF PrepareProjection
  <2> DEFINE new == [q \in {r} |-> Prepared(r, node, a, d)]
  <2>2. \A s, q \in DOMAIN new : new[s].node = new[q].node => s = q
    OBVIOUS
  <2>3. pub' = [pub EXCEPT ![g] = [at |-> "prepare", new |-> new]]
    BY <2>1
  <2> HIDE DEF new
  <2> QED
    BY <1>2, <2>2, <2>3
<1>4. ASSUME NEW chosen \in SUBSET Active, PrepareProjections(g, chosen)
      PROVE  PublicationTyped'
  <2> DEFINE points == UNION {VerifiedPoints(revs[r]) : r \in chosen}
             takes(node, a, d) ==
               /\ \A r \in chosen : {a[r], d[r]} \subseteq VerifiedPoints(revs[r])
               /\ pub' = [pub EXCEPT ![g] =
                    [at |-> "prepare",
                     new |-> [r \in chosen |-> Prepared(r, node[r], a[r], d[r])]]]
  <2>1. PICK node \in [chosen -> FreeNodes] :
          \E a, d \in [chosen -> points] : InOrder(node, chosen) /\ takes(node, a, d)
    BY <1>4 DEF PrepareProjections
  <2>2. PICK a \in [chosen -> points], d \in [chosen -> points] : takes(node, a, d)
    BY <2>1
  <2> DEFINE new == [r \in chosen |-> Prepared(r, node[r], a[r], d[r])]
  <2>3. pub' = [pub EXCEPT ![g] = [at |-> "prepare", new |-> new]]
    BY <2>2
  <2>4. \A r \in chosen : new[r].node = node[r]
    BY <1>1
  <2>5. DOMAIN new = chosen /\ chosen \subseteq Revs /\ InOrder(node, chosen)
    BY <2>1 DEF Active
  <2> HIDE DEF new, takes
  <2>6. \A r, q \in DOMAIN new : new[r].node = new[q].node => r = q
    <3> SUFFICES ASSUME NEW r \in chosen, NEW q \in chosen, node[r] = node[q] PROVE r = q
      BY <2>4, <2>5
    <3> QED
      BY <2>5, InOrderIsOnce
  <2> QED
    BY <1>2, <2>3, <2>6
<1> QED
  BY <1>3, <1>4

LEMMA SavedFits ==
  ASSUME ReviewInv, PublicationTyped, NEW g \in Publishers, SaveProjections(g)
  PROVE  PublicationTyped'
<1> DEFINE new == pub[g].new
<1>1. /\ pub' = [pub EXCEPT ![g] = Resting] /\ pub[g].at = "prepare"
      /\ UNCHANGED <<batches, snaps>>
  BY DEF SaveProjections
<1>2. \/ UNCHANGED projs
      \/ /\ \A r \in DOMAIN new : NodeFree(new[r])
         /\ projs' = [r \in Revs |-> IF r \in DOMAIN new THEN new[r] ELSE projs[r]]
  BY DEF SaveProjections
<1>3. \A r, q \in DOMAIN new : new[r].node = new[q].node => r = q
  BY <1>1 DEF PublicationTyped, PubFits
<1> HIDE DEF new
<1>4. NodesFit'
  <2>1. CASE UNCHANGED projs
    BY <2>1, NodesUnchanged DEF PublicationTyped
  <2>2. CASE /\ \A r \in DOMAIN new : NodeFree(new[r])
             /\ projs' = [r \in Revs |-> IF r \in DOMAIN new THEN new[r] ELSE projs[r]]
    <3>1. \A r \in Revs : projs'[r] = IF r \in DOMAIN new THEN new[r] ELSE projs[r]
      BY <2>2
    <3>2. \A r \in DOMAIN new, q \in Revs : projs[q] # None => projs[q].node # new[r].node
      BY <2>2 DEF NodeFree
    <3> QED
      BY <1>3, <3>1, <3>2 DEF PublicationTyped, NodesFit
  <2> QED
    BY <1>2, <2>1, <2>2
<1> QED
  BY <1>1, <1>4, RestingFits, PublisherFits

LEMMA PublishingFits ==
  ASSUME ReviewInv, PublicationTyped, NEW g \in Publishers,
         \/ \E r \in Active : PublishRevision(g, r)
         \/ \E b \in BatchIds : ExecuteBatch(g, b)
         \/ LoadRows(g) \/ RetireRevisions(g) \/ RetireProjections(g) \/ PublishOwn(g)
         \/ NextItem(g) \/ RollBack(g)
  PROVE  PublicationTyped'
<1>1. UNCHANGED <<projs, batches, snaps>>
  BY DEF PublishRevision, ExecuteBatch, Start, LoadRows, RetireRevisions, RetireProjections, PublishOwn,
         NextItem, RollBack
<1>2. ASSUME NEW p, pub' = [pub EXCEPT ![g] = p], PubFits(p)
      PROVE  PublicationTyped'
  BY <1>1, <1>2, NodesUnchanged, PublisherFits DEF PublicationTyped
<1>3. ASSUME NEW batch \in BatchIds \cup {None}, NEW at \in {"next", "load"}, NEW rev, NEW todo,
             NEW items, Start(g, batch, at, rev, todo, items),
             \A r \in DOMAIN items : items[r] \in ItemStatuses
      PROVE  PublicationTyped'
  <2> DEFINE p == [at |-> at, batch |-> batch, rev |-> rev, todo |-> todo, items |-> items,
                   found |-> Nothing, rows |-> Nothing, prows |-> Nothing]
  <2>1. PubFits(p)
    BY <1>3 DEF PubFits
  <2>2. pub' = [pub EXCEPT ![g] = p]
    BY <1>3 DEF Start
  <2> HIDE DEF p
  <2> QED
    BY <1>2, <2>1, <2>2
<1>4. CASE \E r \in Active : PublishRevision(g, r)
  <2>1. PICK r \in Active : Start(g, None, "load", r, {}, Nothing)
    BY <1>4 DEF PublishRevision
  <2>2. \A q \in DOMAIN Nothing : Nothing[q] \in ItemStatuses
    BY DEF Nothing
  <2> DEFINE todo == {}
             items == Nothing
  <2>3. Start(g, None, "load", r, todo, items) /\ \A q \in DOMAIN items : items[q] \in ItemStatuses
    BY <2>1, <2>2
  <2> HIDE DEF todo, items
  <2> QED
    BY <1>3, <2>3
<1>5. CASE \E b \in BatchIds : ExecuteBatch(g, b)
  <2>1. PICK b \in BatchIds : ExecuteBatch(g, b)
    BY <1>5
  <2> DEFINE items == batches[b].items
             todo == {r \in DOMAIN items : items[r] = "publishable"}
  <2>2. batches[b] # None /\ Start(g, b, "next", None, todo, items)
    BY <2>1 DEF ExecuteBatch
  <2>3. \A r \in DOMAIN items : items[r] \in ItemStatuses
    BY <2>2 DEF PublicationTyped, BatchFits
  <2> HIDE DEF items, todo
  <2> QED
    BY <1>3, <2>2, <2>3
<1>6. CASE RollBack(g)
  <2>1. pub' = [pub EXCEPT ![g] = Resting]
    BY <1>6 DEF RollBack
  <2> QED
    BY <1>2, <2>1, RestingFits
<1>7. CASE \/ LoadRows(g) \/ RetireRevisions(g) \/ RetireProjections(g) \/ PublishOwn(g)
           \/ NextItem(g)
  <2> DEFINE o == pub[g]
  <2>1. Publishing(g) /\ InHand(o) /\ PubFits(o)
    BY <1>7 DEF LoadRows, RetireRevisions, RetireProjections, PublishOwn, NextItem, Publishing, InHand,
                PublicationTyped
  <2>2. /\ DOMAIN o = {"at", "batch", "rev", "todo", "items", "found", "rows", "prows"}
        /\ DOMAIN pub = Publishers
    BY <2>1 DEF ReviewInv, PublishersOK, PublisherOK, Publishing
  <2>3. ASSUME NEW p, pub' = [pub EXCEPT ![g] = p], p.at # "prepare", p.batch = o.batch,
               DOMAIN p.items = DOMAIN o.items,
               \A r \in DOMAIN o.items : p.items[r] \in {o.items[r], "published", "blocked"}
        PROVE  PublicationTyped'
    <3>1. PubFits(p)
      BY <2>1, <2>3 DEF PubFits, ItemStatuses
    <3> QED
      BY <1>2, <2>3, <3>1
  <2>4. CASE RetireRevisions(g)
    <3> DEFINE p == [o EXCEPT !.at = "projections",
                              !.rows = Noting(@, Others(g, o.rev), "retired")]
    <3>1. pub' = [pub EXCEPT ![g] = p]
      BY <2>2, <2>4 DEF RetireRevisions
    <3>2. p.at = "projections" /\ p.batch = o.batch /\ p.items = o.items
      BY <2>2
    <3> HIDE DEF p, o
    <3> QED
      BY <2>3, <3>1, <3>2
  <2>5. CASE RetireProjections(g)
    <3> DEFINE targets == {q \in Revs \ {o.rev} : projs[q] # None
                                                    /\ ProjSeen(g, q).status = "published"}
               p == [o EXCEPT !.at = "own", !.prows = Noting(@, targets, "retired")]
    <3>1. pub' = [pub EXCEPT ![g] = p]
      BY <2>2, <2>5 DEF RetireProjections
    <3>2. p.at = "own" /\ p.batch = o.batch /\ p.items = o.items
      BY <2>2
    <3> HIDE DEF p, o
    <3> QED
      BY <2>3, <3>1, <3>2
  <2>6. CASE PublishOwn(g)
    <3> DEFINE r == o.rev
               items == IF r \in DOMAIN o.items THEN [o.items EXCEPT ![r] = "published"] ELSE o.items
               row == Assigned(o.found.row, RowSeen(g, r).status)
               proj == Assigned(o.found.proj, ProjSeen(g, r).status)
               p == [o EXCEPT !.at = "next", !.rows = Noting(@, {r}, row),
                              !.prows = Noting(@, {r}, proj), !.found = Nothing,
                              !.items = items]
    <3>1. pub' = [pub EXCEPT ![g] = p]
      <4>1. pub' = [pub EXCEPT ![g].at = "next", ![g].rows = Noting(@, {r}, row),
               ![g].prows = Noting(@, {r}, proj), ![g].found = Nothing,
               ![g].items = IF r \in DOMAIN @ THEN [@ EXCEPT ![r] = "published"] ELSE @]
        BY <2>6 DEF PublishOwn
      <4> HIDE DEF row, proj
      <4> QED
        BY <2>2, <4>1
    <3>2. /\ DOMAIN items = DOMAIN o.items
          /\ \A q \in DOMAIN o.items : items[q] \in {o.items[q], "published", "blocked"}
      OBVIOUS
    <3> HIDE DEF items
    <3>3. p.at = "next" /\ p.batch = o.batch /\ p.items = items
      BY <2>2
    <3> HIDE DEF p, o
    <3> QED
      BY <2>3, <3>1, <3>2, <3>3
  <2>7. CASE NextItem(g)
    <3> DEFINE rest(r) == o.todo \ {r}
               marked(r, status) == [o EXCEPT !.todo = rest(r), !.items[r] = status]
               turned(r) == [o EXCEPT !.todo = rest(r), !.rev = r, !.at = "load"]
    <3>1. PICK r \in o.todo :
            pub' = [pub EXCEPT ![g] =
              IF ~ Passes(g, r) THEN marked(r, "blocked")
              ELSE IF ProjSeen(g, r).status = "published" THEN marked(r, "published")
              ELSE turned(r)]
      BY <2>7 DEF NextItem
    <3>2. PICK p : /\ pub' = [pub EXCEPT ![g] = p]
                   /\ p \in {marked(r, "blocked"), marked(r, "published"), turned(r)}
      BY <3>1
    <3>3. o.at = "next"
      BY <2>7 DEF NextItem
    <3>4. ASSUME NEW status \in {"blocked", "published"}, p = marked(r, status)
          PROVE  PublicationTyped'
      <4> DEFINE items == [o.items EXCEPT ![r] = status]
      <4>1. p = [o EXCEPT !.todo = rest(r), !.items = items]
        BY <2>2, <3>4
      <4>2. /\ DOMAIN items = DOMAIN o.items
            /\ \A q \in DOMAIN o.items : items[q] \in {o.items[q], "published", "blocked"}
        OBVIOUS
      <4> HIDE DEF items
      <4>3. p.at = "next" /\ p.batch = o.batch /\ p.items = items
        BY <2>2, <3>3, <4>1
      <4> HIDE DEF o
      <4> QED
        BY <2>3, <3>2, <4>2, <4>3
    <3>5. CASE p = turned(r)
      <4>1. p.at = "load" /\ p.batch = o.batch /\ p.items = o.items
        BY <2>2, <3>5
      <4> HIDE DEF o
      <4> QED
        BY <2>3, <3>2, <4>1
    <3> QED
      BY <3>2, <3>4, <3>5
  <2>8. CASE LoadRows(g)
    <3> DEFINE found == [row |-> RowSeen(g, o.rev).status, proj |-> ProjSeen(g, o.rev).status]
               p == [o EXCEPT !.at = "revisions", !.found = found]
    <3>1. pub' = [pub EXCEPT ![g] = p]
      <4>1. pub' = [pub EXCEPT ![g].at = "revisions", ![g].found = found]
        BY <2>8 DEF LoadRows
      <4> HIDE DEF found
      <4> QED
        BY <2>2, <4>1
    <3> HIDE DEF found
    <3>2. p.at = "revisions" /\ p.batch = o.batch /\ p.items = o.items
      BY <2>2
    <3> HIDE DEF p, o
    <3> QED
      BY <2>3, <3>1, <3>2
  <2> QED
    BY <1>7, <2>4, <2>5, <2>6, <2>7, <2>8
<1> QED
  BY <1>4, <1>5, <1>6, <1>7

LEMMA PreviewFits ==
  ASSUME ReviewInv, PublicationTyped, NEW b \in BatchIds, NEW chosen \in SUBSET Active,
         PreviewBatch(b, chosen)
  PROVE  PublicationTyped'
<1> DEFINE items == [r \in chosen |->
                       IF projs[r] # None /\ PublicationGateOf(revs[r], Rels, projs[r]) = {}
                       THEN "publishable" ELSE "blocked"]
           batch == [status |-> "preview", snapshot |-> {}, items |-> items]
<1>1. /\ batches' = [batches EXCEPT ![b] = batch]
      /\ UNCHANGED <<projs, snaps, pub>>
  BY DEF PreviewBatch
<1>2. \A r \in DOMAIN items : items[r] \in ItemStatuses
  BY DEF ItemStatuses
<1> HIDE DEF items
<1>3. BatchFits(batch)
  BY <1>2 DEF BatchFits, BatchStatuses
<1> HIDE DEF batch
<1>4. \A c \in BatchIds : batches'[c] = IF c = b THEN batch ELSE batches[c]
  BY <1>1 DEF ReviewInv, PublishersOK
<1>5. \A c \in BatchIds : batches'[c] # None => BatchFits(batches'[c])
  BY <1>3, <1>4 DEF PublicationTyped
<1> QED
  BY <1>1, <1>5 DEF PublicationTyped, BatchFits, PubFits, InHand, NodesFit

(* A commit writes what the publisher saw: rows keep their number, and are     *)
(* no longer eligible when it retired them; projections keep their node.       *)
LEMMA CommitFits ==
  ASSUME ReviewInv, PublicationInv, ReviewTyped, PublicationTyped, NEW g \in Publishers,
         CommitPublication(g)
  PROVE  ReviewTyped' /\ PublicationTyped'
<1> DEFINE o == pub[g]
           b == o.batch
           f == Finished(g)
<1>1. /\ Publishing(g) /\ InHand(o) /\ UNCHANGED <<relations, req>>
      /\ pub' = [pub EXCEPT ![g] = Resting]
  BY DEF CommitPublication, Publishing, InHand
<1>2. CASE UNCHANGED <<revs, projs, batches, snaps>>
  <2>1. ReviewTyped'
    BY <1>1, <1>2, RowsUnchanged DEF ReviewTyped, RowsFit, AskFits, ResolutionFits
  <2> QED
    BY <1>1, <1>2, <2>1, NodesUnchanged, RestingFits, PublisherFits DEF PublicationTyped
<1>3. ASSUME revs' = [r \in Revs |-> RowSeen(g, r)], projs' = [r \in Revs |-> ProjSeen(g, r)],
             \/ UNCHANGED <<batches, snaps>>
             \/ /\ b # None
                /\ batches' = [batches EXCEPT ![b] = f]
                /\ snaps' = IF f.snapshot = {} THEN snaps
                            ELSE snaps \cup {[content |-> f.snapshot, batch |-> b]}
      PROVE  ReviewTyped' /\ PublicationTyped'
  <2>1. /\ \A r \in Revs : revs[r] = None <=> revs'[r] = None
        /\ \A r \in Revs : projs[r] = None <=> projs'[r] = None
    BY <1>1, <1>3, Committed
  <2>2. ASSUME NEW r \in Active
        PROVE  EligibleFits(revs'[r]) /\ revs'[r].number = revs[r].number
    <3>1. r \in Revs /\ revs[r] \in RevisionRow /\ EligibleFits(revs[r])
      BY DEF Active, ReviewInv, RowsOK, ReviewTyped, RowsFit
    <3>2. revs'[r] = RowSeen(g, r)
      BY <1>3, <3>1
    <3>3. CASE r \in DOMAIN o.rows
      <4> DEFINE status == o.rows[r]
                 eligible == EligibleAfter(revs[r].eligible, status)
                 d == [revs[r] EXCEPT !.status = status, !.eligible = eligible]
      <4>1. status \in WrittenStatuses
        BY <1>1, <3>3 DEF ReviewInv, PublishersOK, PublisherOK, Publishing
      <4>2. RowSeen(g, r) = d
        BY <1>1, <3>3 DEF RowSeen
      <4> HIDE DEF status
      <4>3. eligible => status \in {"human_verified", "published"}
        BY <4>1 DEF EligibleAfter, WrittenStatuses
      <4> HIDE DEF eligible
      <4>4. d.status = status /\ d.eligible = eligible /\ d.number = revs[r].number
        BY <3>1 DEF RevisionRow
      <4> HIDE DEF d
      <4> QED
        BY <3>2, <4>2, <4>3, <4>4 DEF EligibleFits
    <3>4. CASE r \notin DOMAIN o.rows
      BY <3>1, <3>2, <3>4 DEF RowSeen
    <3> QED
      BY <3>3, <3>4
  <2>3. ReviewTyped'
    <3>1. Active' = Active
      BY <2>1 DEF Active
    <3>2. relations' \in [RelationIds -> RelationRow]
      BY <1>1 DEF ReviewTyped, RowsFit
    <3>3. RowsFit'
      BY <2>2, <3>1, <3>2 DEF ReviewTyped, RowsFit, EligibleFits
    <3> QED
      BY <1>1, <3>3 DEF ReviewTyped, AskFits, ResolutionFits
  <2>4. NodesFit'
    <3>1. ASSUME NEW r \in Revs, projs[r] # None
          PROVE  projs'[r].node = projs[r].node
      <4>1. projs[r] \in ProjectionRow /\ projs'[r] = ProjSeen(g, r)
        BY <1>3, <3>1 DEF PublicationInv, ProjsOK
      <4>2. ProjSeen(g, r) = projs[r] \/ \E status : ProjSeen(g, r) = [projs[r] EXCEPT !.status = status]
        BY DEF ProjSeen
      <4> QED
        BY <4>1, <4>2 DEF ProjectionRow
    <3> QED
      BY <2>1, <3>1 DEF PublicationTyped, NodesFit
  <2>5. /\ f.items = o.items /\ f.snapshot \subseteq DOMAIN o.items /\ f.status \in BatchStatuses
    BY DEF Finished, BatchStatuses
  <2>6. DOMAIN o.items \subseteq Revs
    BY <1>1 DEF ReviewInv, PublishersOK, PublisherOK, Publishing, There
  <2>7. b \in BatchIds \cup {None} /\ \A r \in DOMAIN o.items : o.items[r] \in ItemStatuses
    BY <1>1 DEF PublicationTyped, PubFits
  <2> HIDE DEF f
  <2>8. BatchFits(f)
    BY <2>5, <2>6, <2>7 DEF BatchFits
  <2>9. \A c \in BatchIds : batches'[c] # None => BatchFits(batches'[c])
    <3>1. DOMAIN batches = BatchIds
      BY DEF ReviewInv, PublishersOK
    <3>2. \A c \in BatchIds : batches'[c] \in {batches[c], f}
      BY <1>3, <3>1
    <3> QED
      BY <2>8, <3>2 DEF PublicationTyped
  <2>10. snaps' \subseteq [content : SUBSET Revs, batch : BatchIds]
    <3>1. snaps \subseteq [content : SUBSET Revs, batch : BatchIds] /\ f.snapshot \in SUBSET Revs
      BY <2>5, <2>6 DEF PublicationTyped
    <3>2. CASE UNCHANGED snaps
      BY <3>1, <3>2
    <3>3. CASE b # None /\ snaps' = IF f.snapshot = {} THEN snaps
                                     ELSE snaps \cup {[content |-> f.snapshot, batch |-> b]}
      <4>1. b \in BatchIds
        BY <2>7, <3>3
      <4> HIDE DEF b
      <4> QED
        BY <3>1, <3>3, <4>1
    <3> QED
      BY <1>3, <3>2, <3>3
  <2>11. \A k \in Publishers : PubFits(pub'[k])
    BY <1>1, RestingFits DEF ReviewInv, PublishersOK, PublicationTyped
  <2> QED
    BY <2>3, <2>4, <2>9, <2>10, <2>11 DEF PublicationTyped, BatchFits, PubFits, InHand
<1>4. \/ UNCHANGED <<revs, projs, batches, snaps>>
      \/ /\ revs' = [r \in Revs |-> RowSeen(g, r)] /\ projs' = [r \in Revs |-> ProjSeen(g, r)]
         /\ \/ UNCHANGED <<batches, snaps>>
            \/ /\ b # None
               /\ batches' = [batches EXCEPT ![b] = f]
               /\ snaps' = IF f.snapshot = {} THEN snaps
                           ELSE snaps \cup {[content |-> f.snapshot, batch |-> b]}
  BY DEF CommitPublication
<1> QED
  BY <1>2, <1>3, <1>4

LEMMA TypesBegin == CatalogInit => ReviewTyped /\ PublicationTyped
<1> SUFFICES ASSUME CatalogInit PROVE ReviewTyped /\ PublicationTyped
  OBVIOUS
<1> USE DEF CatalogInit, ReviewInit, PublicationInit
<1>1. RowsFit
  BY DEF RowsFit, EligibleFits
<1>2. ReviewTyped
  BY <1>1, IdleFits DEF ReviewTyped
<1>3. PublicationTyped
  BY RestingFits DEF PublicationTyped, NodesFit
<1> QED
  BY <1>2, <1>3

LEMMA TypesKeep ==
  ASSUME ReviewInv, PublicationInv, ReviewTyped, PublicationTyped, [CatalogNext]_catalogVars
  PROVE  ReviewTyped' /\ PublicationTyped'
<1>1. UNCHANGED publishVars => PublicationTyped'
  BY DEF publishVars, PublicationTyped, NodesFit, BatchFits, PubFits, InHand
<1>2. UNCHANGED reviewVars => ReviewTyped'
  BY DEF reviewVars, ReviewTyped, RowsFit, EligibleFits, Active, AskFits, ResolutionFits
<1>3. CASE ReviewNext /\ UNCHANGED publishVars
  BY <1>1, <1>3, ReviewFits DEF ReviewNext
<1>4. CASE PublicationStep /\ UNCHANGED reviewVars
  <2>1. ASSUME NEW g \in Publishers, PublisherStep(g)
        PROVE  PublicationTyped'
    BY <2>1, PreparedFits, SavedFits, PublishingFits, Zenon DEF PublisherStep
  <2> QED
    BY <1>2, <1>4, <2>1, PreviewFits DEF PublicationStep
<1>5. CASE \E g \in Publishers : CommitPublication(g)
  BY <1>5, CommitFits
<1>6. CASE UNCHANGED catalogVars
  BY <1>1, <1>2, <1>6 DEF catalogVars
<1> QED
  BY <1>3, <1>4, <1>5, <1>6 DEF CatalogNext

(* Every row of the catalog keeps its type for any number of requests and      *)
(* publishers: a revision's number is its own however many are created at once, *)
(* it may be planned with only while it is approved, and no two projections    *)
(* share a node, although nodes are chosen before they are saved.              *)
THEOREM CatalogTypes == CatalogSpec => [](ReviewTypeOK /\ PublicationTypeOK)
<1> DEFINE IInv == ReviewInv /\ PublicationInv /\ ReviewTyped /\ PublicationTyped
<1>1. CatalogInit => IInv
  BY InitIsSound, PublicationsBegin, TypesBegin
<1>2. IInv /\ [CatalogNext]_catalogVars => IInv'
  BY NextKeeps, StutterKeeps, PublicationsKeep, TypesKeep
<1>3. IInv => ReviewTypeOK
  BY DEF ReviewInv, RowsOK, ReviewTyped, RowsFit, EligibleFits, ReviewTypeOK
<1>4. IInv => PublicationTypeOK
  <2> SUFFICES ASSUME IInv PROVE PublicationTypeOK
    OBVIOUS
  <2>1. \A b \in BatchIds : batches[b] # None => Range(batches[b].items) \subseteq ItemStatuses
    BY DEF PublicationTyped, BatchFits, Range
  <2> QED
    BY <2>1 DEF PublicationInv, ProjsOK, Judged, There, PublicationTyped, NodesFit, BatchFits,
                PublicationTypeOK
<1> HIDE DEF IInv
<1> QED
  BY <1>1, <1>2, <1>3, <1>4, PTL DEF CatalogSpec

-------------------------------------------------------------------------------
(* The gate as the conditions it asks for.                                     *)
Good(c, own, kind) == {i \in Of(c, {kind}) : Verified(i) /\ i.source \in own}
Points(c) == {i.n : i \in Of(c, {"access_point"})}
Own(c, records) == {r \in records : r.active /\ r.place = c.place}

RowPasses(c, p) ==
  /\ c.place \in ActivePlaces /\ c.status \in {"human_verified", "published"}
  /\ c.eligible /\ p.status # "retired" /\ c.supported
SourcesPass(c, rels, records) ==
  /\ \A r \in records \cap (CitedByGate(c) \cup {x.source : x \in rels}) : r.place = c.place
  /\ c.sources # {} /\ \A r \in c.sources : r \in records /\ r.active
  /\ Conflict(records) => c.resolved
EvidencePasses(c, p, own) ==
  /\ \E i \in Good(c, own, "geometry") : i.fits
  /\ {p.arrival, p.departure} \subseteq Points(c)
  /\ ({p.arrival, p.departure} \cap Points(c)) \subseteq {i.n : i \in Good(c, own, "access_point")}
  /\ c.open \/ Good(c, own, "time_rule") # {}
  /\ ~ (c.show /\ Cardinality({i \in Good(c, own, "time_rule") : i.fits}) # 1)
RelationsPass(c, rels) ==
  /\ ~ \E x \in Live(rels) : x.overlap /\ x.resolution = "pending"
  /\ ~ (c.relationReview = "pending" /\ Live(rels) = {})

LEMMA GateAsks ==
  ASSUME NEW c, NEW rels, NEW p, NEW records
  PROVE  Gate(c, rels, p, records) = {} <=>
           /\ RowPasses(c, p) /\ SourcesPass(c, rels, records)
           /\ EvidencePasses(c, p, Own(c, records)) /\ RelationsPass(c, rels)
<1> DEFINE own == Own(c, records)
           s1 == Code("PLACE_NOT_ACTIVE", c.place \notin ActivePlaces)
           s2 == Code("REVISION_NOT_HUMAN_VERIFIED", c.status \notin {"human_verified", "published"})
           s3 == Code("PLACE_NOT_SOLVER_ELIGIBLE", ~ c.eligible)
           s4 == Code("PROJECTION_NOT_ACTIVE", p.status = "retired")
           s5 == Code("UNSUPPORTED_PLACE_KIND", ~ c.supported)
           s6 == Code("SOURCE_RECORD_PLACE_MISMATCH",
                      \E r \in records \cap (CitedByGate(c) \cup {x.source : x \in rels}) :
                        r.place # c.place)
           s7 == Code("MISSING_SOURCE_RECORD",
                      c.sources = {} \/ \E r \in c.sources : r \notin records \/ ~ r.active)
           s8 == Code("MISSING_VERIFIED_GEOMETRY", ~ \E i \in Good(c, own, "geometry") : i.fits)
           s9 == Code("MISSING_ACCESS_POINT", ~ {p.arrival, p.departure} \subseteq Points(c))
           s10 == Code("ACCESS_POINT_NOT_HUMAN_VERIFIED",
                       ~ ({p.arrival, p.departure} \cap Points(c))
                            \subseteq {i.n : i \in Good(c, own, "access_point")})
           s11 == Code("TIME_RULE_UNRESOLVED", ~ c.open /\ Good(c, own, "time_rule") = {})
           s12 == Code("FIXED_SESSION",
                       c.show /\ Cardinality({i \in Good(c, own, "time_rule") : i.fits}) # 1)
           s13 == Code("SOURCE_CONFLICT_UNRESOLVED", Conflict(records) /\ ~ c.resolved)
           s14 == Code("OVERLAPPING_SELECTION_UNRESOLVED",
                       \E x \in Live(rels) : x.overlap /\ x.resolution = "pending")
           s15 == Code("RELATION_REVIEW_REQUIRED", c.relationReview = "pending" /\ Live(rels) = {})
<1>1. Gate(c, rels, p, records) = s1 \cup s2 \cup s3 \cup s4 \cup s5 \cup s6 \cup s7 \cup s8
        \cup s9 \cup s10 \cup s11 \cup s12 \cup s13 \cup s14 \cup s15
  BY DEF Gate, Good, Own, Points
<1>2. /\ s1 = {} <=> c.place \in ActivePlaces
      /\ s2 = {} <=> c.status \in {"human_verified", "published"}
      /\ s3 = {} <=> c.eligible
      /\ s4 = {} <=> p.status # "retired"
      /\ s5 = {} <=> c.supported
  BY DEF Code
<1>3. /\ s6 = {} <=> \A r \in records \cap (CitedByGate(c) \cup {x.source : x \in rels}) :
                      r.place = c.place
      /\ s7 = {} <=> c.sources # {} /\ \A r \in c.sources : r \in records /\ r.active
      /\ s13 = {} <=> (Conflict(records) => c.resolved)
  BY DEF Code
<1>4. /\ s8 = {} <=> \E i \in Good(c, own, "geometry") : i.fits
      /\ s9 = {} <=> {p.arrival, p.departure} \subseteq Points(c)
      /\ s10 = {} <=> ({p.arrival, p.departure} \cap Points(c))
                        \subseteq {i.n : i \in Good(c, own, "access_point")}
      /\ s11 = {} <=> (c.open \/ Good(c, own, "time_rule") # {})
      /\ s12 = {} <=> ~ (c.show /\ Cardinality({i \in Good(c, own, "time_rule") : i.fits}) # 1)
  BY DEF Code
<1>5. /\ s14 = {} <=> ~ \E x \in Live(rels) : x.overlap /\ x.resolution = "pending"
      /\ s15 = {} <=> ~ (c.relationReview = "pending" /\ Live(rels) = {})
  BY DEF Code
<1> HIDE DEF s1, s2, s3, s4, s5, s6, s7, s8, s9, s10, s11, s12, s13, s14, s15
<1>6. Gate(c, rels, p, records) = {} <=>
        /\ s1 = {} /\ s2 = {} /\ s3 = {} /\ s4 = {} /\ s5 = {} /\ s6 = {} /\ s7 = {} /\ s8 = {}
        /\ s9 = {} /\ s10 = {} /\ s11 = {} /\ s12 = {} /\ s13 = {} /\ s14 = {} /\ s15 = {}
  BY <1>1
<1>7. s1 = {} /\ s2 = {} /\ s3 = {} /\ s4 = {} /\ s5 = {} <=> RowPasses(c, p)
  BY <1>2, Zenon DEF RowPasses
<1>8. s6 = {} /\ s7 = {} /\ s13 = {} <=> SourcesPass(c, rels, records)
  BY <1>3, Zenon DEF SourcesPass
<1>9. s8 = {} /\ s9 = {} /\ s10 = {} /\ s11 = {} /\ s12 = {} <=> EvidencePasses(c, p, own)
  BY <1>4, Zenon DEF EvidencePasses
<1>10. s14 = {} /\ s15 = {} <=> RelationsPass(c, rels)
  BY <1>5, Zenon DEF RelationsPass
<1> QED
  BY <1>6, <1>7, <1>8, <1>9, <1>10, Zenon
(* The two ways of loading records agree on those of the revision's own place. *)
LEMMA LoadedAlike ==
  ASSUME NEW c, NEW rels, \A r \in Cited(c, rels) : r.place = c.place,
         NEW records \in {Loaded(c, rels), CitedByGate(c)}
  PROVE  /\ records \subseteq Loaded(c, rels) /\ c.sources \subseteq records
         /\ Loaded(c, rels) = Cited(c, rels)
         /\ \A i \in Of(c, GateKinds) : i.source \in Own(c, records) <=> i.source.active
<1>1. CitedByGate(c) \subseteq Cited(c, rels) /\ c.sources \subseteq CitedByGate(c)
      /\ \A i \in Of(c, GateKinds) : i.source \in CitedByGate(c)
  BY DEF CitedByGate, Cited, Of
<1>2. Loaded(c, rels) = Cited(c, rels)
  BY DEF Loaded
<1>3. records \in {Cited(c, rels), CitedByGate(c)}
  BY <1>2
<1>4. \A i \in Of(c, GateKinds) : i.source \in records /\ i.source.place = c.place
  BY <1>1, <1>3
<1>5. \A i \in Of(c, GateKinds) : i.source \in Own(c, records) <=> i.source.active
  BY <1>4 DEF Own
<1> QED
  BY <1>1, <1>2, <1>3, <1>5

(* What the reviewer's checks say of the evidence, the gate finds good.        *)
LEMMA ReadyIsGood ==
  ASSUME NEW c, NEW rels, \A r \in Cited(c, rels) : r.place = c.place, Ready(c, rels),
         NEW records \in {Loaded(c, rels), CitedByGate(c)}
  PROVE  \A kind \in GateKinds : Good(c, Own(c, records), kind) = Of(c, {kind})
<1> SUFFICES ASSUME NEW kind \in GateKinds, NEW i \in Of(c, {kind})
             PROVE  Verified(i) /\ i.source \in Own(c, records)
  BY DEF Good
<1>1. i \in Of(c, GateKinds)
  BY DEF Of
<1>2. Verified(i) /\ i.source.active
  <2>1. CASE kind = "geometry"
    BY <2>1 DEF Ready, GeometryChecked, AllVerified, Backed
  <2>2. CASE kind = "access_point"
    BY <2>2 DEF Ready, AccessChecked, AllVerified, Backed
  <2>3. CASE kind = "time_rule"
    <3>1. i \in Of(c, TimeKinds)
      BY <2>3 DEF Of, TimeKinds
    <3> QED
      BY <3>1 DEF Ready, TimeChecked, AllVerified, Backed
  <2> QED
    BY <2>1, <2>2, <2>3 DEF GateKinds
<1> QED
  BY <1>1, <1>2, LoadedAlike

(* The columns of a revision that the two gates read.                          *)
ReadOfRevision ==
  {"place", "status", "eligible", "sources", "items", "flagged", "resolved", "pointOnly", "open",
   "show", "relationReview", "supported"}

LEMMA ReadyPasses ==
  ASSUME NEW c, NEW rels, ReadOfRevision \subseteq DOMAIN c
  PROVE  ReadyMeansPublishable(c, rels)
<1> DEFINE e == [c EXCEPT !.status = "human_verified", !.eligible = TRUE]
<1> SUFFICES ASSUME Ready(c, rels), c.supported, c.place \in ActivePlaces,
                    \A r \in Cited(c, rels) : r.place = c.place,
                    NEW a \in VerifiedPoints(c), NEW d \in VerifiedPoints(c),
                    NEW records \in {Loaded(e, rels), CitedByGate(e)}
             PROVE  Gate(e, rels, [status |-> "candidate", arrival |-> a.n, departure |-> d.n],
                         records) = {}
  BY DEF ReadyMeansPublishable, PreparationGate, PublicationGateOf
<1> DEFINE p == [status |-> "candidate", arrival |-> a.n, departure |-> d.n]
<1>1. /\ e.status = "human_verified" /\ e.eligible = TRUE
      /\ e.place = c.place /\ e.sources = c.sources /\ e.items = c.items /\ e.open = c.open
      /\ e.resolved = c.resolved /\ e.show = c.show /\ e.relationReview = c.relationReview
      /\ e.supported = c.supported
  BY DEF ReadOfRevision
<1>2. p.status = "candidate" /\ p.arrival = a.n /\ p.departure = d.n
  OBVIOUS
<1> HIDE DEF e, p
<1>3. /\ Cited(e, rels) = Cited(c, rels) /\ Loaded(e, rels) = Loaded(c, rels)
      /\ CitedByGate(e) = CitedByGate(c)
      /\ \A kinds : Of(e, kinds) = Of(c, kinds)
  BY <1>1 DEF Cited, Loaded, CitedByGate, Of
<1>4. records \in {Loaded(c, rels), CitedByGate(c)}
  BY <1>3
<1>5. /\ records \subseteq Loaded(c, rels) /\ c.sources \subseteq records
      /\ Loaded(c, rels) = Cited(c, rels)
  BY <1>4, LoadedAlike
<1>6. RowPasses(e, p)
  BY <1>1, <1>2 DEF RowPasses
<1>7. SourcesPass(e, rels, records)
  <2>1. \A r \in records : r.place = c.place
    BY <1>5
  <2>2. Conflict(records) => Conflict(Loaded(c, rels))
    BY <1>5 DEF Conflict
  <2>3. c.sources # {} /\ (\A r \in c.sources : r.active) /\ (Conflict(Loaded(c, rels)) => c.resolved)
    BY DEF Ready, SourceChecked
  <2> QED
    BY <1>1, <1>5, <2>1, <2>2, <2>3 DEF SourcesPass
<1>8. EvidencePasses(e, p, Own(e, records))
  <2>1. \A kind \in GateKinds : Good(c, Own(c, records), kind) = Of(c, {kind})
    BY <1>4, ReadyIsGood
  <2>2. \A kind \in GateKinds : Good(e, Own(e, records), kind) = Of(c, {kind})
    BY <1>1, <1>3, <2>1 DEF Good, Own
  <2>3. Good(e, Own(e, records), "geometry") = Of(c, {"geometry"})
        /\ Good(e, Own(e, records), "access_point") = Of(c, {"access_point"})
        /\ Good(e, Own(e, records), "time_rule") = Of(c, {"time_rule"})
    BY <2>2 DEF GateKinds
  <2>4. Points(e) = {i.n : i \in Of(c, {"access_point"})}
    BY <1>3 DEF Points
  <2>5. \E i \in Of(c, {"geometry"}) : i.fits
    BY DEF Ready, GeometryChecked
  <2>6. {p.arrival, p.departure} \subseteq Points(e)
    BY <1>2, <2>4 DEF VerifiedPoints
  <2>7. c.open \/ Of(c, {"time_rule"}) # {}
    BY DEF Ready, TimeChecked
  <2>8. ~ (c.show /\ Cardinality({i \in Of(c, {"time_rule"}) : i.fits}) # 1)
    BY DEF Ready, TimeChecked
  <2> QED
    BY <1>1, <2>3, <2>4, <2>5, <2>6, <2>7, <2>8 DEF EvidencePasses
<1>9. RelationsPass(e, rels)
  BY <1>1 DEF RelationsPass, Ready, RelationChecked
<1> QED
  BY <1>6, <1>7, <1>8, <1>9, GateAsks DEF p

LEMMA PreparedPasses ==
  ASSUME NEW c, NEW rels
  PROVE  PreparedMeansPublishable(c, rels)
<1> SUFFICES ASSUME \A r \in Cited(c, rels) : r.place = c.place, NEW p,
                    PreparationGate(c, rels, p) = {}
             PROVE  PublicationGateOf(c, rels, p) = {}
  BY DEF PreparedMeansPublishable
<1> DEFINE own(records) == Own(c, records)
           loaded == Loaded(c, rels)
           asked == CitedByGate(c)
<1>1. /\ RowPasses(c, p) /\ SourcesPass(c, rels, loaded) /\ RelationsPass(c, rels)
      /\ EvidencePasses(c, p, own(loaded))
  BY GateAsks DEF PreparationGate
<1>2. /\ asked \subseteq loaded /\ c.sources \subseteq asked /\ loaded = Cited(c, rels)
      /\ \A i \in Of(c, GateKinds) : i.source \in own(loaded) <=> i.source.active
      /\ \A i \in Of(c, GateKinds) : i.source \in own(asked) <=> i.source.active
  BY LoadedAlike
<1> HIDE DEF own, loaded, asked
<1>3. SourcesPass(c, rels, asked)
  <2>1. Conflict(asked) => Conflict(loaded)
    BY <1>2 DEF Conflict
  <2> QED
    BY <1>1, <1>2, <2>1 DEF SourcesPass
<1>4. \A kind \in GateKinds : Good(c, own(asked), kind) = Good(c, own(loaded), kind)
  <2>1. \A kind \in GateKinds : Of(c, {kind}) \subseteq Of(c, GateKinds)
    BY DEF Of
  <2> QED
    BY <1>2, <2>1 DEF Good
<1>5. EvidencePasses(c, p, own(asked))
  <2>1. /\ Good(c, own(asked), "geometry") = Good(c, own(loaded), "geometry")
        /\ Good(c, own(asked), "access_point") = Good(c, own(loaded), "access_point")
        /\ Good(c, own(asked), "time_rule") = Good(c, own(loaded), "time_rule")
    BY <1>4 DEF GateKinds
  <2> QED
    BY <1>1, <2>1 DEF EvidencePasses
<1> QED
  BY <1>1, <1>3, <1>5, GateAsks DEF PublicationGateOf, own, asked

(* Two gates written apart agree, whatever a revision's row, its evidence and  *)
(* the relations of its place are: what evaluate_review_readiness lets a       *)
(* reviewer approve, evaluate_projection_publication lets be published, and    *)
(* what it found in order at preparation it does not stop at publication.      *)
THEOREM GatesAgreeAlways ==
  \A c, rels : ReadOfRevision \subseteq DOMAIN c =>
    ReadyMeansPublishable(c, rels) /\ PreparedMeansPublishable(c, rels)
  BY ReadyPasses, PreparedPasses
===============================================================================
