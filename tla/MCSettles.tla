------------------------------ MODULE MCSettles ------------------------------
(* What must eventually happen, in the three parts that promise it: the planning *)
(* core, the calendar sync and the solver's proposal of dates.  They share no    *)
(* state: a behaviour picks one, its focus, and the others stay as they begin,   *)
(* where none of their fair actions is enabled.  Ids are numbers and are drawn   *)
(* in their order: which ids are drawn changes nothing.                          *)
EXTENDS Planning, MCDayClusters

CONSTANTS Jobs, CalendarIds, Workers       \* of the calendar sync

VARIABLES focus, jobs, calendars, audited, actor, crashes, outages

(* What the clients of the planning core send.                                   *)
ReadyFacts == {"confirmed"}
OneAttraction == {{CHOOSE a \in Attractions : TRUE}}

(* One worker may die, and the source may fail for a while.                      *)
H == INSTANCE HolidaySync WITH
       Years <- {2026}, Digests <- {"text"}, Operators <- {}, Modes <- {"preview", "sync"},
       LeasesHold <- TRUE, CancelsRace <- FALSE, MaxCrashes <- 1, MaxOutages <- 1
syncVars == <<jobs, calendars, audited, actor, crashes, outages>>

MCInit ==
  /\ focus \in {"planning", "sync", "clusters"}
  /\ Init
  /\ H!Init
  /\ IF focus = "clusters" THEN ClustersInit(Published, Durations, Levels, Capacities)
     ELSE ClustersInit({CHOOSE t \in Published : TRUE}, {CHOOSE v \in Durations : TRUE},
                       Levels, {[d \in Dates |-> 0]})

InOrder(rows) == \A i, j \in DOMAIN rows : i < j /\ rows[j] # None => rows[i] # None

MCNext ==
  /\ UNCHANGED focus
  /\ IF focus = "planning"
     THEN /\ Next
          /\ InOrder(drafts') /\ InOrder(intents') /\ InOrder(trips') /\ InOrder(revisions')
     ELSE UNCHANGED vars
  /\ IF focus = "sync" THEN H!Next /\ InOrder(calendars') ELSE UNCHANGED syncVars
  /\ IF focus = "clusters" THEN ClustersNext ELSE UNCHANGED clusterVars

(* The fairness of each part, as its module states it.                           *)
MCFairSpec ==
  /\ MCInit /\ [][MCNext]_<<focus, vars, syncVars, clusterVars>>
  /\ \A h \in Threads : WF_vars(Continue(h))
  /\ WF_syncVars(H!Tick)
  /\ \A w \in Workers : WF_syncVars(H!Run(w))
  /\ WF_clusterVars(ClustersNext)

(* Of the calendar sync: a queued job ends, past a dead worker and an outage.    *)
JobsSettle == H!JobsSettle
===============================================================================
