---------------------------- MODULE MCDayClusters ----------------------------
(* Small instances of DayClusters for TLC.                                   *)
EXTENDS DayClusters

(* Attractions on a line, in minutes from its start.                         *)
Places == {[i \in Ids |-> 100 * ((i - 1) \div 2) + i],         \* close pairs
           [i \in Ids |-> (i * i * 7) % 40],                   \* scattered
           [i \in Ids |-> IF i = 1 THEN 300 ELSE 4 * i]}       \* one far away
Gap(x, y) == IF x < y THEN y - x ELSE x - y
OnALine(p, missing) ==
  [i \in Ids |-> [j \in Ids |-> IF <<i, j>> \in missing THEN NoRoute ELSE Gap(p[i], p[j])]]
Published == {OnALine(p, missing) : p \in Places, missing \in {{}, {<<1, 2>>, <<3, 4>>, <<4, 3>>}}}

Durations == {[i \in Ids |-> 60], [i \in Ids |-> 60 + (60 * (i % 3))]}
Levels == {[i \in Ids |-> 1 + (i % 2)]}
(* No room, or room on some of the last dates.                               *)
Capacities == {[d \in Dates |-> IF d < first THEN 0 ELSE 300 + 100 * d] :
                 first \in {1, 2, Max(Dates) + 1}}
Everywhere == {[d \in Dates |-> 600]}

LineSpec ==
  ClustersInit(Published, Durations, Levels, Everywhere) /\ [][ClustersNext]_clusterVars
===============================================================================
