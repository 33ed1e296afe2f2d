----------------------------- MODULE MCPlaceCatalog -----------------------------
(* One place for TLC.  A focus bounds which steps a behaviour takes:           *)
(*   edit     two requests at once edit one kind of evidence of a candidate,   *)
(*            or verify it, submit it and decide about it, under one task;     *)
(*   decide   two requests at once submit and decide, under two tasks;         *)
(*   create   two requests at once create revisions;                           *)
(*   publish  two publishers at once, of two approved revisions;               *)
(*   gates    nothing moves: the two gates judge a sample;                     *)
(*   life     one request at a time, from the first revision as a candidate to *)
(*            the publication of a second one in its place.                    *)
EXTENDS PlacePublication

VARIABLES focus,
          sample     (* gates: a revision and relations as the database may hold them *)

First == 1
Second == 2
Third == 3
MCRevs == {First, Second, Third}
SourceOf(name, content) ==
  [id |-> name, place |-> "home", active |-> TRUE, of |-> "registry", content |-> content]
MCSources == {SourceOf("s1", 1), SourceOf("s2", 2)}
Withdrawn == [SourceOf("s3", 1) EXCEPT !.active = FALSE]
MCPlaces == {"home", "other"}

Evidence(kind, status) ==
  [kind |-> kind, n |-> 1, active |-> TRUE, status |-> status, source |-> SourceOf("s1", 1),
   fits |-> TRUE]
Row(number, status, items) ==
  [number |-> number, version |-> 1, place |-> "home", status |-> status,
   eligible |-> status # "candidate", show |-> FALSE, open |-> TRUE, flagged |-> FALSE,
   pointOnly |-> FALSE, supported |-> TRUE, sources |-> {SourceOf("s1", 1)},
   resolved |-> FALSE, relationReview |-> "no_relations", items |-> items]
Relation(active) ==
  [ends |-> {"home", "other"}, active |-> active, overlap |-> TRUE, resolution |-> "pending",
   status |-> "candidate", source |-> SourceOf("s1", 1)]


Good == {Evidence("geometry", "human_verified"), Evidence("access_point", "human_verified")}
NotYet == {Evidence("geometry", "human_verified"), Evidence("access_point", "candidate")}
Candidates(sources, items) ==
  (First :> [Row(1, "candidate", items) EXCEPT !.sources = sources])
    @@ [r \in Revs |-> None]

Focus(name, kind) == focus = [on |-> name, kind |-> kind]
Closed(kind) == IF kind = "date_exception" THEN {Evidence("closure", "human_verified")} ELSE {}
OneSource == {SourceOf("s1", 1)}
Editing ==
  /\ \/ /\ \E kind \in AllKinds, sources \in {OneSource, MCSources} :
             /\ sources = OneSource \/ kind = "access_point"
             /\ Focus("edit", kind)
             /\ \/ revs = Candidates(sources, Closed(kind) \cup {i \in Good : i.kind # kind})
                \/ revs = Candidates(sources, Closed(kind) \cup Good \cup
                     IF kind \in TimeKinds THEN {Evidence(kind, "candidate")} ELSE {})
        /\ relations = [x \in RelationIds |-> Relation(FALSE)]
     \/ /\ Focus("edit", "relation")
        /\ revs = Candidates(OneSource, Good)
        /\ relations = [x \in RelationIds |-> Relation(TRUE)]
     \/ /\ Focus("decide", "none") \/ Focus("create", "none")
        /\ revs = Candidates(OneSource, Good)
        /\ relations = [x \in RelationIds |-> Relation(FALSE)]
     \/ /\ Focus("life", "none")
        /\ revs = Candidates(OneSource, NotYet)
        /\ relations = [x \in RelationIds |-> Relation(FALSE)]
  /\ tasks = [t \in Tasks |-> None]
  /\ decisions = {}

Approved ==
  /\ Focus("publish", "none") \/ Focus("gates", "none")
  /\ revs = [r \in Revs |-> IF r = Third THEN None ELSE Row(r, "human_verified", Good)]
  /\ relations = [x \in RelationIds |-> Relation(FALSE)]
  /\ tasks = [t \in Tasks |-> [rev |-> t, status |-> "approved", version |-> 2]]
  /\ decisions = {[task |-> t, rev |-> t, kind |-> "approve", version |-> 1] : t \in Tasks}

(* What may be there of each kind of evidence, of sources and of relations.    *)
Some(kind, fits, statuses, from) ==
  {{}} \cup {{[Evidence(kind, st) EXCEPT !.fits = f, !.source = s]} :
              st \in statuses, f \in fits, s \in from}
Both == {"candidate", "human_verified"}
Samples ==
  [c : {[Row(1, "human_verified", geometry \cup point \cup rule) EXCEPT
           !.show = show, !.open = open, !.sources = sources, !.resolved = resolved,
           !.relationReview = review] :
          geometry \in Some("geometry", BOOLEAN, Both, MCSources \cup {Withdrawn}),
          point \in Some("access_point", {TRUE}, Both, MCSources),
          rule \in Some("time_rule", BOOLEAN, {"human_verified"}, MCSources),
          show \in BOOLEAN, open \in BOOLEAN, resolved \in BOOLEAN,
          review \in {"pending", "no_relations"},
          sources \in {{}, OneSource, MCSources, {Withdrawn}}},
   rels : {{}} \cup {{[Relation(TRUE) EXCEPT !.resolution = to, !.status = st]} :
                     to \in {"pending", "resolved"}, st \in Both}]

MCInit ==
  /\ \/ (Editing \/ Approved) /\ focus.on # "gates" /\ sample = None
     \/ Approved /\ focus.on = "gates" /\ sample \in Samples
  /\ req = [h \in Threads |-> Idle]
  /\ PublicationInit

Asks(at) == {h \in Threads : req'[h].at = at}
Approvals == \A h \in Asks("decide") : req'[h].kind = "approve"
Focused ==
  /\ UNCHANGED <<focus, sample>>
  /\ CASE focus.on = "edit" ->
            /\ UNCHANGED publishVars
            /\ Asks("create") = {} /\ tasks'[2] = None /\ Approvals
            /\ \A h \in Asks("edit") : \A i \in req'[h].change.put : i.kind = focus.kind
            /\ focus.kind = "relation" => \A h \in Asks("edit") : req'[h].change.relation # None
            /\ focus.kind = "relation" \/ UNCHANGED relations
       [] focus.on = "decide" ->
            /\ UNCHANGED publishVars
            /\ Asks("create") \cup Asks("edit") \cup Asks("evidence") = {}
       [] focus.on = "create" ->
            UNCHANGED publishVars /\ Asks("create") = {h \in Threads : req'[h] # Idle}
       [] focus.on = "publish" -> UNCHANGED req
       [] focus.on = "life" ->
            /\ Cardinality({h \in Threads : req'[h] # Idle}
                             \cup {g \in Publishers : pub'[g] # Resting}) <= 1
            /\ Asks("edit") = {} /\ batches' = batches /\ revs'[Third] = None /\ Approvals
            /\ \A h \in Asks("evidence") : req'[h].to = "human_verified"

(* What a reviewer may approve can be published, and what was prepared in      *)
(* order can be, whatever the database holds of the revision.                  *)
GatesAgree ==
  sample # None =>
    ReadyMeansPublishable(sample.c, sample.rels) /\ PreparedMeansPublishable(sample.c, sample.rels)

MCNext == focus.on # "gates" /\ CatalogNext /\ Focused
MCSpec == MCInit /\ [][MCNext]_<<catalogVars, focus, sample>>
Symmetry == Permutations(Threads) \cup Permutations(Publishers)
===============================================================================
