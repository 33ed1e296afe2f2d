---------------------------- MODULE PublicationGate ----------------------------
(***************************************************************************)
(* What a revision must show before a reviewer may approve it (the six     *)
(* checks of evaluate_review_readiness), and before a projection of it may *)
(* be published (evaluate_projection_publication): functions of its row,   *)
(* its evidence and the relations of its place.                            *)
(*                                                                         *)
(* A source record is [id, place, active, of, content]: of is its          *)
(* source_id, content its fingerprint.  An item is a row of evidence; fits *)
(* says that a geometry has the revision's geometry_kind, that a time rule *)
(* is a fixed_session.  A projection is built from the revision's row,     *)
(* which no longer changes then: the PROJECTION_*_MISMATCH codes cannot    *)
(* arise and are left out.                                                 *)
(***************************************************************************)
EXTENDS Naturals, FiniteSets

CONSTANTS ActivePlaces      \* places with status "active"

AllKinds == {"geometry", "access_point", "time_rule", "closure", "date_exception"}
TimeKinds == {"time_rule", "closure", "date_exception"}

Verified(i) == i.status = "human_verified"
Of(c, kinds) == {i \in c.items : i.active /\ i.kind \in kinds}
Live(rels) == {x \in rels : x.active}

(* A governed source with two versions of its content.                       *)
Conflict(recs) == \E r, s \in recs : r.of = s.of /\ r.content # s.content

-------------------------------------------------------------------------------
(* load_revision_evidence: every record that the revision, its evidence or   *)
(* the relations cite is loaded, if its place is this one or a related one.  *)
Cited(c, rels) ==
  c.sources \cup {i.source : i \in c.items} \cup {x.source : x \in rels}
Loaded(c, rels) ==
  {r \in Cited(c, rels) : r.place \in {c.place} \cup UNION {x.ends : x \in rels}}

Backed(c, rels, i) == i.source.active /\ i.source \in Loaded(c, rels)
AllVerified(c, rels, items) == \A i \in items : Verified(i) /\ Backed(c, rels, i)

BasicChecked(c) == c.status \in {"human_verified", "published"} \/ ~ c.flagged

SourceChecked(c, rels) ==
  /\ c.sources # {}
  /\ Cited(c, rels) \subseteq Loaded(c, rels)
  /\ \A r \in c.sources : r.active
  /\ ~ (Conflict(Loaded(c, rels)) /\ ~ c.resolved)

GeometryChecked(c, rels) ==
  /\ AllVerified(c, rels, Of(c, {"geometry"}))
  /\ \E i \in Of(c, {"geometry"}) : i.fits
  /\ ~ c.pointOnly

AccessChecked(c, rels) ==
  /\ AllVerified(c, rels, Of(c, {"access_point"}))
  /\ Of(c, {"access_point"}) # {}

TimeChecked_Sessions(c, rels) ==        \* mutant: a show needs some rule only
  /\ AllVerified(c, rels, Of(c, TimeKinds))
  /\ ~ (~ c.open /\ Of(c, {"time_rule"}) = {})
TimeChecked(c, rels) ==
  /\ AllVerified(c, rels, Of(c, TimeKinds))
  /\ ~ (~ c.open /\ Of(c, {"time_rule"}) = {})
  /\ ~ (c.show /\ Cardinality({i \in Of(c, {"time_rule"}) : i.fits}) # 1)

RelationChecked(c, rels) ==
  IF Live(rels) # {}
  THEN AllVerified(c, rels, Live(rels)) /\ \A x \in Live(rels) : x.resolution # "pending"
  ELSE c.relationReview \in {"no_relations", "not_required"}

Ready(c, rels) ==
  /\ BasicChecked(c) /\ SourceChecked(c, rels) /\ GeometryChecked(c, rels)
  /\ AccessChecked(c, rels) /\ TimeChecked(c, rels) /\ RelationChecked(c, rels)

-------------------------------------------------------------------------------
(* prepare_projection takes arrival and departure from the verified points   *)
(* (the order of preference among their kinds is left out) and judges what   *)
(* load_revision_evidence returned; load_publication_context returns every   *)
(* record the revision, its geometries, points and rules cite.               *)
VerifiedPoints(c) == {i \in Of(c, {"access_point"}) : Verified(i)}

GateKinds == {"geometry", "access_point", "time_rule"}
CitedByGate(c) == c.sources \cup {i.source : i \in {j \in c.items : j.kind \in GateKinds}}

Code(code, fails) == IF fails THEN {code} ELSE {}

(* The reason codes that keep projection p of c from being published, given  *)
(* the loaded records.                                                       *)
Gate(c, rels, p, records) ==
  LET own == {r \in records : r.active /\ r.place = c.place}
      good(kind) == {i \in Of(c, {kind}) : Verified(i) /\ i.source \in own}
      points == {i.n : i \in Of(c, {"access_point"})}
      sessions == Cardinality({i \in good("time_rule") : i.fits})
  IN   Code("PLACE_NOT_ACTIVE", c.place \notin ActivePlaces)
  \cup Code("REVISION_NOT_HUMAN_VERIFIED", c.status \notin {"human_verified", "published"})
  \cup Code("PLACE_NOT_SOLVER_ELIGIBLE", ~ c.eligible)
  \cup Code("PROJECTION_NOT_ACTIVE", p.status = "retired")
  \cup Code("UNSUPPORTED_PLACE_KIND", ~ c.supported)
  \cup Code("SOURCE_RECORD_PLACE_MISMATCH",
            \E r \in records \cap (CitedByGate(c) \cup {x.source : x \in rels}) : r.place # c.place)
  \cup Code("MISSING_SOURCE_RECORD",
            c.sources = {} \/ \E r \in c.sources : r \notin records \/ ~ r.active)
  \cup Code("MISSING_VERIFIED_GEOMETRY", ~ \E i \in good("geometry") : i.fits)
  \cup Code("MISSING_ACCESS_POINT", ~ {p.arrival, p.departure} \subseteq points)
  \cup Code("ACCESS_POINT_NOT_HUMAN_VERIFIED",
            ~ ({p.arrival, p.departure} \cap points) \subseteq {i.n : i \in good("access_point")})
  \cup Code("TIME_RULE_UNRESOLVED", ~ c.open /\ good("time_rule") = {})
  \cup Code("FIXED_SESSION", c.show /\ sessions # 1)
  \cup Code("SOURCE_CONFLICT_UNRESOLVED", Conflict(records) /\ ~ c.resolved)
  \cup Code("OVERLAPPING_SELECTION_UNRESOLVED",
            \E x \in Live(rels) : x.overlap /\ x.resolution = "pending")
  \cup Code("RELATION_REVIEW_REQUIRED", c.relationReview = "pending" /\ Live(rels) = {})

PreparationGate(c, rels, p) == Gate(c, rels, p, Loaded(c, rels))
PublicationGateOf(c, rels, p) == Gate(c, rels, p, CitedByGate(c))

-------------------------------------------------------------------------------
(* Two gates written apart agree.  A revision whose evidence and relations   *)
(* cite records of its own place, and that passes the reviewer's six checks, *)
(* passes the gate once approved, whichever of its points are taken: what a  *)
(* reviewer may approve can be published.                                    *)
ReadyMeansPublishable(c, rels) ==
  LET approved == [c EXCEPT !.status = "human_verified", !.eligible = TRUE] IN
  Ready(c, rels) /\ c.supported /\ c.place \in ActivePlaces
    /\ (\A r \in Cited(c, rels) : r.place = c.place) =>
  \A a, d \in VerifiedPoints(c) :
    LET p == [status |-> "candidate", arrival |-> a.n, departure |-> d.n]
    IN PreparationGate(approved, rels, p) = {} /\ PublicationGateOf(approved, rels, p) = {}

(* A projection that preparation found in order, and so marked data_verified, *)
(* is not stopped at publication while its evidence stays the same.          *)
PreparedMeansPublishable(c, rels) ==
  (\A r \in Cited(c, rels) : r.place = c.place) =>
  \A a, d \in VerifiedPoints(c) :
    LET p == [status |-> "candidate", arrival |-> a.n, departure |-> d.n]
    IN PreparationGate(c, rels, p) = {} => PublicationGateOf(c, rels, p) = {}
===============================================================================
