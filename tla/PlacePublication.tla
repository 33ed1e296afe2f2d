---------------------------- MODULE PlacePublication ----------------------------
(***************************************************************************)
(* From an approved revision to the catalog that plans are solved with:    *)
(* preparing projections, publishing one revision, previewing and          *)
(* executing batches.  A publication is a transaction of several           *)
(* statements: what it has written is seen by itself only, until it        *)
(* commits, and its rows stay locked.  An UPDATE passes by a row that      *)
(* another transaction has changed but that does not match as committed,   *)
(* and waits for one that does.                                            *)
(*                                                                         *)
(* One snapshot version is modelled, so that a revision has at most one    *)
(* projection.  A preview reads its revisions in one step: its execution   *)
(* checks every one again.  gate_reason_codes and hashes are left out.     *)
(***************************************************************************)
EXTENDS PlaceReview

CONSTANTS Publishers, BatchIds

VARIABLES
  projs,       (* solver_place_projections, by their revision, or None       *)
  batches,     (* publication_batches with their items, or None              *)
  snaps,       (* research_snapshots                                         *)
  pub,         (* the request of each publisher                              *)
  overlapped   (* history: a publication began while another was under way   *)

publishVars == <<projs, batches, snaps, pub, overlapped>>
catalogVars == <<reviewVars, publishVars>>

Nodes == 1 .. Cardinality(Revs)
ProjectionRow == [node : Nodes, arrival : Numbers, departure : Numbers,
                  status : {"candidate", "published", "retired"}, verified : BOOLEAN]
ItemStatuses == {"publishable", "blocked", "failed", "published"}
BatchStatuses == {"preview", "published", "partial_failed", "failed"}

ASSUME PublicationAssumption ==
  /\ None \notin ProjectionRow
  /\ Revs \subseteq Nat /\ IsFiniteSet(Revs)     (* in the order of their ids *)

(* Every row of the publication tables is one the code can write; a projection *)
(* is not there before its revision was approved.                              *)
PublicationTypeOK ==
  /\ projs \in [Revs -> ProjectionRow \cup {None}]
  /\ \A r \in Revs : projs[r] # None => revs[r] # None /\ revs[r].status # "candidate"
  /\ \A r, q \in Revs : projs[r] # None /\ projs[q] # None /\ projs[r].node = projs[q].node => r = q
  /\ \A b \in BatchIds : batches[b] # None =>
       /\ batches[b].status \in BatchStatuses
       /\ Range(batches[b].items) \subseteq ItemStatuses
       /\ batches[b].snapshot \in SUBSET Revs
  /\ snaps \subseteq [content : SUBSET Revs, batch : BatchIds]

Resting == [at |-> "idle"]
Nothing == [r \in {} |-> "none"]

PublicationInit ==
  /\ projs = [r \in Revs |-> None]
  /\ batches = [b \in BatchIds |-> None]
  /\ snaps = {}
  /\ pub = [g \in Publishers |-> Resting]
  /\ overlapped = FALSE

Publishing(g) == pub[g].at \in {"next", "load", "revisions", "projections", "own"}

-------------------------------------------------------------------------------
(* What a publisher sees: its own writes, else what is committed.  Retiring a *)
(* revision clears solver_eligible; publishing one does not set it.           *)
EligibleAfter(eligible, status) == eligible /\ status # "retired"
RowSeen(g, r) ==
  IF Publishing(g) /\ r \in DOMAIN pub[g].rows
  THEN [revs[r] EXCEPT !.status = pub[g].rows[r],
                       !.eligible = EligibleAfter(@, pub[g].rows[r])]
  ELSE revs[r]
ProjSeen(g, r) ==
  IF Publishing(g) /\ r \in DOMAIN pub[g].prows
  THEN [projs[r] EXCEPT !.status = pub[g].prows[r]] ELSE projs[r]

(* An UPDATE's rows as a publisher notes them.                                *)
Noting(rows, targets, status) ==
  [q \in targets \cup DOMAIN rows |-> IF q \in targets THEN status ELSE rows[q]]

RowsFreeOf(g, targets) ==
  \A k \in Publishers \ {g} : Publishing(k) => targets \cap DOMAIN pub[k].rows = {}
ProjsFreeOf(g, targets) ==
  \A k \in Publishers \ {g} : Publishing(k) => targets \cap DOMAIN pub[k].prows = {}

Passes_Any(g, r) == TRUE                \* mutant: the gate is not asked
Passes(g, r) == PublicationGateOf(RowSeen(g, r), Rels, ProjSeen(g, r)) = {}

-------------------------------------------------------------------------------
(* prepare_projection takes the smallest free node and judges what it read;   *)
(* arrival and departure are any two of the verified points.  The script      *)
(* prepare_candidate_projections.py does it for several revisions in one      *)
(* transaction (started here with the same lowest node).                      *)
Preparable(r) ==
  /\ r \in Active
  /\ revs[r].status = "human_verified"
  /\ projs[r] = None
  /\ VerifiedPoints(revs[r]) # {}

FreeNodes == {n \in Nodes : \A q \in Revs : projs[q] # None => projs[q].node # n}
Prepared(r, node, arrival, departure) ==
  LET p == [node |-> node, arrival |-> arrival.n, departure |-> departure.n,
            status |-> "candidate", verified |-> FALSE] IN
  [p EXCEPT !.verified = PreparationGate(revs[r], Rels, p) = {}]

PrepareProjection(g, r, arrival, departure) ==
  /\ pub[g] = Resting
  /\ Preparable(r)
  /\ {arrival, departure} \subseteq VerifiedPoints(revs[r])
  /\ \E node \in FreeNodes :
       /\ \A m \in FreeNodes : node <= m
       /\ pub' = [pub EXCEPT ![g] =
            [at |-> "prepare", new |-> [q \in {r} |-> Prepared(r, node, arrival, departure)]]]
  /\ UNCHANGED <<projs, batches, snaps, overlapped>>

(* The revisions take the free nodes in their order.                          *)
InOrder(node, chosen) ==
  \A r \in chosen :
    Cardinality({m \in FreeNodes : m <= node[r]}) = Cardinality({q \in chosen : q <= r})

PrepareProjections(g, chosen) ==
  LET points == UNION {VerifiedPoints(revs[r]) : r \in chosen} IN
  /\ pub[g] = Resting
  /\ chosen # {} /\ \A r \in chosen : Preparable(r)
  /\ \E node \in [chosen -> FreeNodes], arrival, departure \in [chosen -> points] :
       /\ InOrder(node, chosen)
       /\ \A r \in chosen : {arrival[r], departure[r]} \subseteq VerifiedPoints(revs[r])
       /\ pub' = [pub EXCEPT ![g] =
            [at |-> "prepare",
             new |-> [r \in chosen |-> Prepared(r, node[r], arrival[r], departure[r])]]]
  /\ UNCHANGED <<projs, batches, snaps, overlapped>>

(* A projection or a node that was taken in the meantime fails all of them.   *)
NodeFree(row) == \A q \in Revs : projs[q] # None => projs[q].node # row.node

SaveProjections(g) ==
  LET new == pub[g].new IN
  /\ pub[g].at = "prepare"
  /\ projs' = IF \A r \in DOMAIN new : projs[r] = None /\ NodeFree(new[r])
              THEN [r \in Revs |-> IF r \in DOMAIN new THEN new[r] ELSE projs[r]] ELSE projs
  /\ pub' = [pub EXCEPT ![g] = Resting]
  /\ UNCHANGED <<batches, snaps, overlapped>>

-------------------------------------------------------------------------------
Start(g, batch, at, rev, todo, items) ==
  /\ pub[g] = Resting
  /\ pub' = [pub EXCEPT ![g] =
       [at |-> at, batch |-> batch, rev |-> rev, todo |-> todo, items |-> items,
        found |-> Nothing, rows |-> Nothing, prows |-> Nothing]]
  /\ overlapped' = (overlapped \/ \E k \in Publishers : Publishing(k))
  /\ UNCHANGED <<projs, batches, snaps>>

(* publish_revision: nothing is written unless the gate passes; a projection  *)
(* that is published already is the answer.                                   *)
PublishRevision(g, r) ==
  /\ projs[r] # None
  /\ Passes(g, r)
  /\ projs[r].status # "published"
  /\ Start(g, None, "load", r, {}, Nothing)

(* publish_projection: the two rows to be written are loaded, ...             *)
LoadRows(g) ==
  LET r == pub[g].rev IN
  /\ pub[g].at = "load"
  /\ pub' = [pub EXCEPT ![g].at = "revisions",
       ![g].found = [row |-> RowSeen(g, r).status, proj |-> ProjSeen(g, r).status]]
  /\ UNCHANGED <<projs, batches, snaps, overlapped>>

(* ... the place's other published revisions are retired, ...                 *)
Others_None(g, r) == {}                 \* mutant: nothing is retired
Others(g, r) == {q \in Active \ {r} : RowSeen(g, q).status = "published"}

RetireRevisions(g) ==
  LET targets == Others(g, pub[g].rev) IN
  /\ pub[g].at = "revisions"
  /\ RowsFreeOf(g, targets)
  /\ pub' = [pub EXCEPT ![g].at = "projections",
                        ![g].rows = Noting(@, targets, "retired")]
  /\ UNCHANGED <<projs, batches, snaps, overlapped>>

(* ... then its published projections, ...                                    *)
RetireProjections(g) ==
  LET targets == {q \in Revs \ {pub[g].rev} : projs[q] # None
                                               /\ ProjSeen(g, q).status = "published"} IN
  /\ pub[g].at = "projections"
  /\ ProjsFreeOf(g, targets)
  /\ pub' = [pub EXCEPT ![g].at = "own", ![g].prows = Noting(@, targets, "retired")]
  /\ UNCHANGED <<projs, batches, snaps, overlapped>>

(* ... and this revision and its projection are published, whatever status    *)
(* they have by now; but a column that was loaded as "published" is not        *)
(* written, and stays as it has become.                                       *)
Assigned(found, now) == IF found = "published" THEN now ELSE "published"
PublishOwn(g) ==
  LET r == pub[g].rev IN
  /\ pub[g].at = "own"
  /\ RowsFreeOf(g, {r}) /\ ProjsFreeOf(g, {r})
  /\ pub' = [pub EXCEPT ![g].at = "next",
                        ![g].rows = Noting(@, {r}, Assigned(pub[g].found.row,
                                                            RowSeen(g, r).status)),
                        ![g].prows = Noting(@, {r}, Assigned(pub[g].found.proj,
                                                             ProjSeen(g, r).status)),
                        ![g].found = Nothing,
                        ![g].items = IF r \in DOMAIN @ THEN [@ EXCEPT ![r] = "published"] ELSE @]
  /\ UNCHANGED <<projs, batches, snaps, overlapped>>

-------------------------------------------------------------------------------
PreviewBatch(b, chosen) ==
  /\ batches[b] = None
  /\ chosen # {}
  /\ batches' = [batches EXCEPT ![b] =
       [status |-> "preview", snapshot |-> {},
        items |-> [r \in chosen |->
          IF projs[r] # None /\ PublicationGateOf(revs[r], Rels, projs[r]) = {}
          THEN "publishable" ELSE "blocked"]]]
  /\ UNCHANGED <<projs, snaps, pub, overlapped>>

(* execute_publication_batch, unless the batch has its snapshot already.      *)
ExecuteBatch(g, b) ==
  /\ batches[b] # None
  /\ batches[b].snapshot = {}
  /\ Start(g, b, "next", None,
           {r \in DOMAIN batches[b].items : batches[b].items[r] = "publishable"},
           batches[b].items)

(* The next item: it is gone, no longer publishable, published already, or    *)
(* published now.                                                             *)
NextItem(g) ==
  /\ pub[g].at = "next"
  /\ \E r \in pub[g].todo :
       LET rest == pub[g].todo \ {r}
           marked(status) == [pub[g] EXCEPT !.todo = rest, !.items[r] = status] IN
       /\ \A q \in pub[g].todo : r <= q
       /\ pub' = [pub EXCEPT ![g] =
            IF ~ Passes(g, r) THEN marked("blocked")
            ELSE IF ProjSeen(g, r).status = "published" THEN marked("published")
            ELSE [pub[g] EXCEPT !.todo = rest, !.rev = r, !.at = "load"]]
  /\ UNCHANGED <<projs, batches, snaps, overlapped>>

AllPublished_Any(items) == TRUE         \* mutant: blocked items are forgotten
AllPublished(items) == Range(items) = {"published"}

Finished(g) ==
  LET done == {r \in DOMAIN pub[g].items : pub[g].items[r] = "published"} IN
  [items |-> pub[g].items, snapshot |-> done,
   status |-> IF done = {} THEN "failed"
              ELSE IF AllPublished(pub[g].items) THEN "published" ELSE "partial_failed"]

(* A snapshot with the content of an earlier one fails the whole batch.       *)
ContentFree(content) == \A s \in snaps : s.content # content

CommitPublication(g) ==
  LET b == pub[g].batch IN
  /\ pub[g].at = "next"
  /\ pub[g].todo = {}
  /\ IF b = None \/ ContentFree(Finished(g).snapshot)
     THEN /\ revs' = [r \in Revs |-> RowSeen(g, r)]
          /\ projs' = [r \in Revs |-> ProjSeen(g, r)]
          /\ IF b = None THEN UNCHANGED <<batches, snaps>>
             ELSE /\ batches' = [batches EXCEPT ![b] = Finished(g)]
                  /\ snaps' = IF Finished(g).snapshot = {} THEN snaps
                       ELSE snaps \cup {[content |-> Finished(g).snapshot, batch |-> b]}
     ELSE UNCHANGED <<revs, projs, batches, snaps>>
  /\ pub' = [pub EXCEPT ![g] = Resting]
  /\ UNCHANGED <<relations, tasks, decisions, req, overlapped>>

(* The process dies, or the database ends a deadlock: nothing was written.    *)
RollBack(g) ==
  /\ pub[g] # Resting
  /\ pub' = [pub EXCEPT ![g] = Resting]
  /\ UNCHANGED <<projs, batches, snaps, overlapped>>

PublisherStep(g) ==
  \/ \E r \in Active : \/ \E a, d \in VerifiedPoints(revs[r]) : PrepareProjection(g, r, a, d)
                       \/ PublishRevision(g, r)
  \/ \E chosen \in SUBSET Active : Cardinality(chosen) > 1 /\ PrepareProjections(g, chosen)
  \/ SaveProjections(g)
  \/ LoadRows(g) \/ RetireRevisions(g) \/ RetireProjections(g) \/ PublishOwn(g)
  \/ \E b \in BatchIds : ExecuteBatch(g, b)
  \/ NextItem(g)
  \/ RollBack(g)

PublicationStep ==
  \/ \E g \in Publishers : PublisherStep(g)
  \/ \E b \in BatchIds, chosen \in SUBSET Active : PreviewBatch(b, chosen)

CatalogInit == ReviewInit /\ PublicationInit
CatalogNext ==
  \/ ReviewNext /\ UNCHANGED publishVars
  \/ PublicationStep /\ UNCHANGED reviewVars
  \/ \E g \in Publishers : CommitPublication(g)

CatalogSpec == CatalogInit /\ [][CatalogNext]_catalogVars

-------------------------------------------------------------------------------
Published == {r \in Active : revs[r].status = "published"}

(* A place has one published revision at a time, and plans are solved with    *)
(* the projection of that revision.  The code means this to hold always.      *)
OnePublishedPerPlace == Cardinality(Published) <= 1

(* It does hold as long as publications do not overlap; then also the         *)
(* projections that are published are those of the published revisions, and   *)
(* every approved revision may be planned with.  Publications that overlap    *)
(* may leave a published revision that is not solver_eligible, or none that   *)
(* is published.                                                              *)
InTurnOnePublished ==
  ~ overlapped =>
    /\ OnePublishedPerPlace
    /\ Published = {r \in Active : projs[r] # None /\ projs[r].status = "published"}
    /\ \A r \in Active : revs[r].status \in {"human_verified", "published"} => revs[r].eligible

(* What was retired does not come back, whatever batch still names it.        *)
InTurnRetiredIsFinal ==
  [][~ overlapped' =>
       \A r \in Active :
         /\ revs[r].status = "retired" => revs'[r].status = "retired"
         /\ projs[r] # None /\ projs[r].status = "retired" => projs'[r].status = "retired"]_catalogVars

(* A finished batch tells what happened, also when two executions of it or    *)
(* other publications overlap: it has a snapshot exactly if it published      *)
(* something, the snapshot holds its published items, and it is called        *)
(* published exactly if every item was.                                       *)
BatchTellsTruth ==
  \A b \in BatchIds : batches[b] # None =>
    LET items == batches[b].items
        done == {r \in DOMAIN items : items[r] = "published"} IN
    /\ batches[b].snapshot = done
    /\ batches[b].status = "published" <=> (done = DOMAIN items)
    /\ batches[b].status = "partial_failed" <=> (done # {} /\ done # DOMAIN items)
    /\ done # {} => [content |-> done, batch |-> b] \in snaps
===============================================================================
