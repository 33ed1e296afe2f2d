------------------------------ MODULE MCServices ------------------------------
(* The parts of the backend that share no state with each other, in one          *)
(* instance: a behaviour picks one of them, its focus, and takes only its steps;  *)
(* the others stay as they begin.                                                *)
(*   starting  processes start on an empty database, and requests of             *)
(*             administrators who come one after the other;                      *)
(*   roles     two administrators change roles at once, each other's too;        *)
(*   unit      requests with a unit of work each, whose statements may fail;     *)
(*   chain, sharing, provider, jobs, day, trip: the module of each.              *)
EXTENDS AdminIdentity, RevisionChain, FeedbackSharing, ProviderGovernor, UnitOfWork, Itinerary,
        DaySchedule, TLC

CONSTANTS
  (* the calendar sync *)
  CalendarIds, Digests, Operators

VARIABLES
  focus,
  jobs, calendars, audited, actor, crashes, outages

(* Workers that outlive their leases, and an operator who cancels.               *)
J == INSTANCE HolidaySync WITH
       Years <- {2026}, Jobs <- {1}, None <- Absent, Modes <- {"sync"}, LeasesHold <- FALSE,
       CancelsRace <- TRUE, MaxCrashes <- 0, MaxOutages <- 0
jobVars == <<jobs, calendars, audited, actor, crashes, outages>>

-------------------------------------------------------------------------------
(* Two administrators, the second created by the first, both logged in.          *)
CONSTANTS a1, a2, s1, s2, i1
Administrator(l) == [login |-> l, version |-> 1, roles |-> Roles]
SessionOf(a) == [actor |-> a, version |-> 1, issued |-> Roles, over |-> FALSE]
Added(action, a, i) ==
  [action |-> action, target |-> a, revision |-> 1, roles |-> Roles, intent |-> i,
   succeeded |-> TRUE]
TwoAdministrators ==
  /\ actors = (a1 :> Administrator(BootLogin)
                 @@ a2 :> Administrator(CHOOSE l \in Logins : l # BootLogin))
  /\ sessions = (s1 :> SessionOf(a1) @@ s2 :> SessionOf(a2))
  /\ audits = {Added("boot", a1, Absent), Added("create", a2, i1)}
  /\ locked = [a \in ActorIds |-> Absent]
  /\ req = [h \in Threads |-> Idle]

OneRequest ==
  \A h, g \in Threads :
    h # g /\ req'[h].at # "idle" => req'[g].at = "idle" \/ {req'[h].at, req'[g].at} = {"boot"}
OneAfterTheOther == OneRequest /\ \A h \in Threads : req'[h].at # "roles"

(* Which principal, revision and intent one of the clients names does not matter; *)
(* another one asks for the same kind of row.                                    *)
CONSTANTS c1, c2, p1, b1
Owner == [b \in Subjects |-> IF b = b1 THEN p1 ELSE CHOOSE p \in Principals : p # p1]
SomeAsks ==
  /\ asks[c1].principal = p1
  /\ asks[c1].subject = b1
  /\ asks[c1].intent = CHOOSE i \in FeedbackIntents : TRUE
  /\ asks[c2].kind = asks[c1].kind
(* One copy, by another principal.                                               *)
OneCopy == UNCHANGED drafts \/ (drafts = {} /\ \A d \in drafts' : d.owner # p1)

(* Days with room for two visits in the daytime and one in the evening.          *)
Hours(open, close, last, suggested) ==
  [open |-> open, close |-> close, last |-> last, suggested |-> suggested,
   required |-> (3 * suggested + 4) \div 5]
DaytimeHours ==
  {Hours(540, 1020, 1020, 100), Hours(540, 1020, 1020, 250), Hours(780, 1080, 960, 100),
   Hours(0, 1440, 1440, 250)}
EveningHours == {Hours(1020, 1260, 1260, 100), Hours(1170, 1290, 1170, 100)}
Minutes(short, long) == [i \in 1 .. 3 |-> [j \in 1 .. 3 |-> IF j = 3 THEN long ELSE short]]
SomeDay ==
  /\ bounds \in {[start |-> 540, end |-> 1260], [start |-> 660, end |-> 1320]}
  /\ plan \in {<<p, q, e>> : p \in DaytimeHours, q \in DaytimeHours, e \in EveningHours}
  /\ ride \in {Minutes(30, 90), Minutes(60, 30), Minutes(30, NoRoute)}

(* Three attractions: one tiring, one long; closed days and bad weather.         *)
Sight(energy, need, preferred) ==
  [gate |-> "ok", energy |-> energy, need |-> need, preferred |-> preferred,
   blocked |-> [d \in Days |-> {}]]
Plain == <<Sight(2, 60, 1), Sight(1, 60, 1), Sight(1, 120, 2)>>
SomeTrips ==
  {Plain,
   [Plain EXCEPT ![3].gate = "INACTIVE"],
   [Plain EXCEPT ![1].blocked[1] = {"CLOSED_ON_DATE"}],
   [Plain EXCEPT ![2].blocked = [d \in Days |-> {"EXTREME_WEATHER_OUTDOOR"}]],
   [Plain EXCEPT ![1].blocked[2] = {"CLOSED_ON_DATE"}, ![3].need = 300]}
SomeRooms == {<<240, 240>>, <<NoDay, 120>>, <<120, 60>>}

-------------------------------------------------------------------------------
MCInit ==
  /\ focus \in {"starting", "roles", "chain", "sharing", "provider", "unit", "jobs", "day",
                "trip"}
  /\ IF focus = "roles" THEN TwoAdministrators ELSE AdminInit
  /\ Init
  /\ IF focus = "sharing" THEN SharingInit /\ SomeAsks
     ELSE SharingInit /\ asks = [c \in Clients |-> CHOOSE a \in Asked : TRUE]
  /\ GovernorInit
  /\ focus = "provider" \/ backend = "json"
  /\ UnitInit
  /\ J!Init
  /\ IF focus = "day" THEN SomeDay
     ELSE /\ bounds = [start |-> 0, end |-> 0]
          /\ plan = << >>
          /\ ride = << >>
  /\ DayInit
  /\ IF focus = "trip" THEN ItineraryInit(SomeTrips, SomeRooms, {"leisure", "normal", "speed"})
     ELSE ItineraryInit({Plain}, {[d \in Days |-> NoDay]}, {"normal"})

MCNext ==
  /\ UNCHANGED focus
  /\ IF focus \in {"starting", "roles"}
     THEN /\ AdminNext
          /\ focus = "starting" => OneAfterTheOther
          /\ focus = "roles" => UNCHANGED sessions
     ELSE UNCHANGED adminVars
  /\ IF focus = "chain" THEN Next ELSE UNCHANGED vars
  /\ IF focus = "sharing" THEN SharingNext /\ OneCopy
     ELSE UNCHANGED sharingVars
  /\ IF focus = "provider" THEN GovernorNext ELSE UNCHANGED govVars
  /\ IF focus = "unit" THEN UnitNext ELSE UNCHANGED unitVars
  /\ IF focus = "jobs" THEN J!Next ELSE UNCHANGED jobVars
  /\ IF focus = "day" THEN DayNext ELSE UNCHANGED dayVars
  /\ IF focus = "trip" THEN ItineraryNext ELSE UNCHANGED itineraryVars

MCSpec ==
  MCInit /\ [][MCNext]_<<focus, adminVars, vars, sharingVars, govVars, unitVars, jobVars, dayVars,
                        itineraryVars>>

(* Drawn ids and digests, and workers, of which there are the same everywhere.   *)
Symmetry == Permutations(Workers) \cup Permutations(CalendarIds) \cup Permutations(Digests)

-------------------------------------------------------------------------------
(* Rows and requests of every part are ones the code can write.                  *)
ServicesTypeOK ==
  AdminTypeOK /\ TypeOK /\ SharingTypeOK /\ GovernorTypeOK /\ UnitTypeOK /\ J!TypeOK
(* A sync job publishes one calendar version at most, however many workers and   *)
(* operators hold it.                                                            *)
JobPublishesOnce == J!JobPublishesOnce
===============================================================================
