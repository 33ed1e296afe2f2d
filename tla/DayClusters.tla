------------------------------ MODULE DayClusters ------------------------------
(***************************************************************************)
(* How the solver gateway proposes a day for every chosen attraction       *)
(* (infrastructure/solver/gateway.py): groups of attractions that are      *)
(* close to each other, as even in number as they can be, then less uneven *)
(* in duration, then one day for each group.  The code runs alone and is   *)
(* deterministic: each step takes the first of its candidates in an order  *)
(* of fractions, numbers and ids, here a sequence of <<numerator,          *)
(* denominator>>.                                                          *)
(***************************************************************************)
EXTENDS Integers, Sequences, FiniteSets, FiniteSetsExt

CONSTANTS Ids,        (* of the attractions, positive numbers                *)
          Dates,      (* of the trip, numbers in their order                 *)
          Penalty,    (* DEFAULT_OD_DURATION_REBALANCE_MAX_SYMMETRIC_PENALTY_MIN *)
          NoRoute

VARIABLES
  travel,    (* the published directed travel times: minutes or NoRoute     *)
  visit,     (* suggested duration of each attraction                       *)
  energy,    (* its energy level                                            *)
  capacity,  (* minutes of each date that has room, 0 of the others         *)
  groups,    (* the clusters; their union is always Ids                     *)
  dateOf,    (* preferred date of each attraction placed                    *)
  stage      (* merge, sizes, durations, dates, done, failed                *)

clusterVars == <<travel, visit, energy, capacity, groups, dateOf, stage>>

Usable == {d \in Dates : capacity[d] > 0}
Count == Min({Cardinality(Usable), Cardinality(Ids)})
Ceiling(n, m) == (n + m - 1) \div m
MaxSize == Ceiling(Cardinality(Ids), Count)
Total(f, S) == MapThenSumSet(LAMBDA i : f[i], S)

(* Exact comparison of fractions with positive denominators, and of keys.    *)
Less(p, q) == p[1] * q[2] < q[1] * p[2]
Before(k, l) ==
  \E n \in DOMAIN k :
    /\ Less(k[n], l[n])
    /\ \A m \in 1 .. n - 1 : ~ Less(k[m], l[m]) /\ ~ Less(l[m], k[m])
First(S, Key(_)) ==
  LET keyed == {<<Key(s), s>> : s \in S} IN
  (CHOOSE k \in keyed : \A l \in keyed : ~ Before(l[1], k[1]))[2]
Whole(n) == <<n, 1>>

(* Sorted tuples of ids, of one length, compare as these numbers do.         *)
Rank(S) == MapThenSumSet(LAMBDA i : 2 ^ (Max(Ids) - i), Ids \ S)

(* _symmetric_od_cost: an edge of one direction only is dear, no edge dearer. *)
Symmetric(i, j) ==
  LET there == travel[i][j]
      back == travel[j][i] IN
  CASE there # NoRoute /\ back # NoRoute -> there + back
    [] there = NoRoute /\ back = NoRoute -> 10000
    [] OTHER -> Max({4 * (IF back = NoRoute THEN there ELSE back), 240})

(* _average_cluster_od_cost, _average_attraction_cluster_cost                *)
Affinity(A, B) ==
  <<MapThenSumSet(LAMBDA p : Symmetric(p[1], p[2]), A \X B),
    Cardinality(A) * Cardinality(B)>>
Minus(p, q) == <<p[1] * q[2] - q[1] * p[2], p[2] * q[2]>>

ClustersInit(costs, durations, levels, rooms) ==
  /\ travel \in costs
  /\ visit \in durations
  /\ energy \in levels
  /\ capacity \in rooms
  /\ groups = {{i} : i \in Ids}
  /\ dateOf = << >>
  /\ stage = IF Usable = {} THEN "done" ELSE "merge"

Fixed == UNCHANGED <<travel, visit, energy, capacity>>

-------------------------------------------------------------------------------
(* _cluster_attractions_by_od                                                *)
Mergeable == {p \in kSubset(2, groups) : Cardinality(UNION p) <= MaxSize}
MergeKey(p) ==
  LET A == CHOOSE A \in p : TRUE
      B == CHOOSE B \in p : B # A IN
  <<Affinity(A, B), Whole(Cardinality(A \cup B)), Whole(Rank(A \cup B))>>

Merge ==
  /\ stage = "merge"
  /\ Cardinality(groups) > Count
  /\ Mergeable # {}
  /\ LET p == First(Mergeable, MergeKey) IN groups' = (groups \ p) \cup {UNION p}
  /\ UNCHANGED <<dateOf, stage>> /\ Fixed

(* RuntimeError("unable to form capacity-safe OD clusters")                  *)
Stuck ==
  /\ stage = "merge"
  /\ Cardinality(groups) > Count
  /\ Mergeable = {}
  /\ stage' = "failed"
  /\ UNCHANGED <<groups, dateOf>> /\ Fixed

Proceed(from, to) ==
  /\ stage = from
  /\ stage' = to
  /\ UNCHANGED <<groups, dateOf>> /\ Fixed

Merged == Proceed("merge", "sizes") /\ Cardinality(groups) <= Count

(* One attraction moves from a group to another.                             *)
Moves == {m \in groups \X groups \X Ids : m[3] \in m[1] /\ m[1] # m[2]}
Moved(m) == (groups \ {m[1], m[2]}) \cup {m[1] \ {m[3]}, m[2] \cup {m[3]}}
Joining(m) == Affinity({m[3]}, m[2])
Strain(m) == Minus(Joining(m), Affinity({m[3]}, m[1] \ {m[3]}))
Sizes == {Cardinality(g) : g \in groups}

(* _rebalance_od_cluster_sizes: from a largest to a smallest group.          *)
SizeMoves ==
  IF Max(Sizes) - Min(Sizes) <= 1 THEN {}
  ELSE {m \in Moves : Cardinality(m[1]) = Max(Sizes) /\ Cardinality(m[2]) = Min(Sizes)}
SizeKey(m) == <<Strain(m), Joining(m), Whole(m[3]), Whole(Min(m[2]))>>

EvenSizes ==
  /\ stage = "sizes"
  /\ SizeMoves # {}
  /\ groups' = Moved(First(SizeMoves, SizeKey))
  /\ UNCHANGED <<dateOf, stage>> /\ Fixed

Even == Proceed("sizes", "durations") /\ SizeMoves = {}

(* _rebalance_od_cluster_durations: the gap between the longest and the      *)
(* shortest group shrinks, sizes stay even, nothing close is torn apart.     *)
Spread(gs) ==
  LET loads == {Total(visit, g) : g \in gs} IN Max(loads) - Min(loads)
DurationMoves_Equal ==                  \* mutant: the gap may stay as it is
  {m \in Moves :
     /\ Cardinality(m[1]) > Cardinality(Ids) \div Cardinality(groups)
     /\ Cardinality(m[2]) < Ceiling(Cardinality(Ids), Cardinality(groups))
     /\ Spread(Moved(m)) <= Spread(groups)
     /\ ~ Less(Whole(Penalty), Strain(m))}
DurationMoves ==
  {m \in Moves :
     /\ Cardinality(m[1]) > Cardinality(Ids) \div Cardinality(groups)
     /\ Cardinality(m[2]) < Ceiling(Cardinality(Ids), Cardinality(groups))
     /\ Spread(Moved(m)) < Spread(groups)
     /\ ~ Less(Whole(Penalty), Strain(m))}
DurationKey(m) == <<Whole(Spread(Moved(m))), Strain(m), Whole(m[3]), Whole(Min(m[2]))>>

EvenDurations ==
  /\ stage = "durations"
  /\ DurationMoves # {}
  /\ groups' = Moved(First(DurationMoves, DurationKey))
  /\ UNCHANGED <<dateOf, stage>> /\ Fixed

DurationsSettled == Proceed("durations", "dates") /\ DurationMoves = {}

-------------------------------------------------------------------------------
(* _balanced_default_preferred_dates: the longest group first, to the date   *)
(* it fills least.                                                           *)
Unplaced == {g \in groups : g \cap DOMAIN dateOf = {}}
GroupKey(g) == <<Whole(-Total(visit, g)), Whole(-Total(energy, g)), Whole(Min(g))>>
On(d) == {i \in DOMAIN dateOf : dateOf[i] = d}
DateKey(d, g) ==
  <<<<Total(visit, On(d) \cup g), capacity[d]>>, Whole(Total(energy, On(d) \cup g)),
    Whole(Cardinality(On(d) \cup g)), Whole(d)>>

Place ==
  /\ stage = "dates"
  /\ Unplaced # {}
  /\ LET g == First(Unplaced, GroupKey)
         d == First(Usable, LAMBDA e : DateKey(e, g)) IN
     dateOf' = [i \in DOMAIN dateOf \cup g |-> IF i \in g THEN d ELSE dateOf[i]]
  /\ UNCHANGED <<groups, stage>> /\ Fixed

Placed == Proceed("dates", "done") /\ Unplaced = {}

ClustersNext ==
  Merge \/ Stuck \/ Merged \/ EvenSizes \/ Even \/ EvenDurations \/ DurationsSettled \/ Place \/ Placed

-------------------------------------------------------------------------------
(* docs/specs/trip-solver.md:84 and docs/specs/solver-p1-contract.md:229: a  *)
(* trip whose dates have room gets its attractions in groups that differ by  *)
(* one attraction at most, one group for each date with room.                *)
GroupsAreEven ==
  stage \in {"durations", "dates", "done", "failed"} =>
    \/ Usable = {}
    \/ /\ stage # "failed"
       /\ Cardinality(groups) = Count
       /\ UNION groups = Ids
       /\ \A g, h \in groups : Cardinality(g) - Cardinality(h) <= 1

(* Evening out durations ends, with every attraction on a date with room.    *)
EveryAttractionGetsADate ==
  <>(stage = "failed" \/
     (stage = "done" /\ (Usable = {} \/ (DOMAIN dateOf = Ids /\ \A i \in Ids : dateOf[i] \in Usable))))
===============================================================================
