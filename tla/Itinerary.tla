------------------------------- MODULE Itinerary -------------------------------
(***************************************************************************)
(* The solver from the chosen attractions to an outcome: the data gate,    *)
(* a date for each attraction (day_assignment.py), a route for each date,  *)
(* other dates for what the routes dropped, the routes again               *)
(* (itinerary.py), the accounting (quality.py) and the outcome             *)
(* (gateway.py).  DaySchedule opens up what is one search here: of the     *)
(* allocations of a date, in their order, it routes some and drops others. *)
(* The same search finds the same, unless its time limit cut it short.     *)
(***************************************************************************)
EXTENDS Integers, Sequences, FiniteSets, FiniteSetsExt, SequencesExt, Functions

CONSTANTS Sights,     (* chosen attractions, numbers                         *)
          Days,       (* of the trip, numbers in their order                 *)
          MayTimeOut, (* whether searches may run out of time                *)
          NoDay

ASSUME TripAssumption == IsFiniteSet(Sights)

VARIABLES
  input,     (* of each attraction: gate, energy, need, preferred, blocked  *)
  room,      (* minutes of each day, NoDay where the anchors leave none     *)
  mode,      (* travel mode                                                 *)
  step,      (* assign, initial, rescue, final, done                        *)
  allocated, (* the allocations of each day, in order                       *)
  routed,    (* what the last search of each day routed                     *)
  searched,  (* days whose search of this step has run                      *)
  dropped,   (* attractions to find another day for: [a, tried]             *)
  unplaced,  (* attractions given up, with the reason                       *)
  moved,     (* history: days that took in a dropped attraction             *)
  known,     (* what searches that were not cut short found                 *)
  timed      (* days of which some search ran out of time                   *)

itineraryVars == <<input, room, mode, step, allocated, routed, searched, dropped, unplaced,
                   moved, known, timed>>
Inputs == <<input, room, mode>>

(* Any trip, and the trips of some inputs.                                   *)
TripInit ==
  /\ step = "assign"
  /\ allocated = [d \in Days |-> << >>]
  /\ routed = [d \in Days |-> {}]
  /\ searched = {} /\ dropped = << >> /\ unplaced = << >> /\ moved = {}
  /\ known = << >> /\ timed = {}
ItineraryInit(inputs, rooms, modes) ==
  input \in inputs /\ room \in rooms /\ mode \in modes /\ TripInit

(* The order of keys that are sequences of numbers, and of a row's members;  *)
(* every row of a set's members.                                             *)
Under(k, l) == \E n \in DOMAIN k : k[n] < l[n] /\ \A m \in 1 .. n - 1 : k[m] = l[m]
Before(row, a, b) == \E m, n \in DOMAIN row : m < n /\ row[m] = a /\ row[n] = b
Enumerations(S) == Bijection(1 .. Cardinality(S), S)
Distance(d, e) == IF d < e THEN e - d ELSE d - e
Holding(d) == Range(allocated[d])

-------------------------------------------------------------------------------
(* filter_solver_inputs                                                      *)
Rejected == {a \in Sights : input[a].gate # "ok"}
Eligible == Sights \ Rejected
GivenUp == {unplaced[n].a : n \in DOMAIN unplaced}
Handled == (UNION {Holding(d) : d \in Days}) \cup GivenUp

Used(d) == MapThenSumSet(LAMBDA a : input[a].need, Holding(d))
EnergyOf(d) == MapThenSumSet(LAMBDA a : input[a].energy, Holding(d))

(* _date_rejection_reasons; blocked: closed, weather or opening hours.       *)
Full(a, d) == Used(d) + input[a].need > room[d]
Reasons(a, d) ==
  CASE room[d] = NoDay -> {"EMPTY_DAY_WINDOW"}
    [] room[d] # NoDay /\ input[a].blocked[d] # {} -> input[a].blocked[d]
    [] OTHER -> IF Full(a, d) THEN {"DAY_CAPACITY_EXCEEDED"} ELSE {}

(* _overall_rejection_code                                                   *)
Overall(a) ==
  CASE \A d \in Days : "DAY_CAPACITY_EXCEEDED" \in Reasons(a, d) -> "DAY_CAPACITY_EXCEEDED"
    [] \A d \in Days : "EXTREME_WEATHER_OUTDOOR" \in Reasons(a, d) -> "NO_WEATHER_SAFE_DATE"
    [] \A d \in Days : room[d] = NoDay -> "EMPTY_DAY_WINDOW"
    [] OTHER -> "NO_AVAILABLE_DATE"

(* _candidate_key                                                            *)
DayKey(a, d) ==
  LET far == Distance(d, input[a].preferred)
      energy == EnergyOf(d) + input[a].energy
      load == Used(d) + input[a].need IN
  CASE mode = "leisure" -> <<energy, far, load, d>>
    [] mode = "normal" -> <<far, energy, load, d>>
    [] mode = "speed" -> <<far, load, energy, d>>

GiveUp(a, code) == unplaced' = Append(unplaced, [a |-> a, code |-> code])

(* assign_days: the most tiring attraction first.                            *)
Tiring(a) == <<-input[a].energy, a>>
Assign ==
  LET waiting == Eligible \ Handled
      open(a) == {d \in Days : Reasons(a, d) = {}} IN
  /\ step = "assign"
  /\ \E a \in waiting :
       /\ \A b \in waiting \ {a} : Under(Tiring(a), Tiring(b))
       /\ \/ open(a) = {} /\ GiveUp(a, Overall(a)) /\ UNCHANGED allocated
          \/ \E day \in open(a) :
               /\ \A d \in open(a) \ {day} : Under(DayKey(a, day), DayKey(a, d))
               /\ allocated' = [allocated EXCEPT ![day] = Append(@, a)]
               /\ UNCHANGED unplaced
  /\ UNCHANGED <<Inputs, step, routed, searched, dropped, moved, known, timed>>

Assigned ==
  /\ step = "assign"
  /\ Eligible \subseteq Handled
  /\ step' = "initial"
  /\ UNCHANGED <<Inputs, allocated, routed, searched, dropped, unplaced, moved, known, timed>>

-------------------------------------------------------------------------------
Routable == {d \in Days : room[d] # NoDay}

(* route_segmented_day: what is routed of a day's allocations.               *)
Search(d, row, result) ==
  LET question == <<d, row>> IN
  \/ /\ question \in DOMAIN known
     /\ result = known[question]
     /\ UNCHANGED <<known, timed>>
  \/ /\ question \notin DOMAIN known
     /\ known' = [q \in DOMAIN known \cup {question} |-> IF q = question THEN result ELSE known[q]]
     /\ UNCHANGED timed
  \/ /\ MayTimeOut
     /\ timed' = timed \cup {d}
     /\ UNCHANGED known

(* Days are searched in their order.                                         *)
RouteDay ==
  LET left == Routable \ searched IN
  /\ step \in {"initial", "final"}
  /\ \E d \in left :
       /\ \A e \in left \ {d} : d < e
       /\ \E result \in SUBSET Holding(d) :
            /\ Search(d, allocated[d], result)
            /\ routed' = [routed EXCEPT ![d] = result]
       /\ searched' = searched \cup {d}
  /\ UNCHANGED <<Inputs, step, allocated, dropped, unplaced, moved>>

(* What the first routes dropped leaves its day and queues for another; what *)
(* they routed stays as it was allocated.                                    *)
Dropped(d) == Holding(d) \ routed[d]
Lost == UNION {Dropped(d) : d \in Routable}
SourceDay(a) == CHOOSE d \in Routable : a \in Dropped(d)
Retained(d) ==
  {row \in Enumerations(Holding(d) \cap routed[d]) :
     \A m, n \in DOMAIN row : m < n => Before(allocated[d], row[m], row[n])}
Collect ==
  /\ step = "initial"
  /\ Routable \subseteq searched
  /\ step' = "rescue"
  /\ searched' = {}
  /\ \E queue \in Enumerations(Lost) :
       /\ \A m, n \in DOMAIN queue : m < n =>
            Under(<<SourceDay(queue[m]), queue[m]>>, <<SourceDay(queue[n]), queue[n]>>)
       /\ dropped' = [n \in DOMAIN queue |-> [a |-> queue[n], tried |-> {SourceDay(queue[n])}]]
  /\ allocated' \in {rows \in [Days -> UNION {Retained(d) : d \in Days}] :
                       \A d \in Days : rows[d] \in Retained(d)}
  /\ UNCHANGED <<Inputs, routed, unplaced, moved, known, timed>>

Welcome(d, a, result) == result = Holding(d) \cup {a}

(* _precheck_target looks at dates, weather and hours, not at the room left.  *)
ShutOut(a, d) == input[a].blocked[d] # {}

(* A dropped attraction tries the other days, the nearest to its preferred    *)
(* first; a search of that day has to route everything.                      *)
Rescue ==
  LET x == Head(dropped)
      left == Routable \ x.tried
      near(d) == <<Distance(d, input[x.a].preferred), d>> IN
  /\ step = "rescue"
  /\ dropped # << >>
  /\ \/ /\ left = {}
        /\ GiveUp(x.a, "ROUTING_UNPLACED")
        /\ dropped' = Tail(dropped)
        /\ UNCHANGED <<allocated, moved, known, timed>>
     \/ \E d \in left :
          /\ \A e \in left \ {d} : Under(near(d), near(e))
          /\ LET TryNext ==
                   /\ dropped' = <<[x EXCEPT !.tried = @ \cup {d}]>> \o Tail(dropped)
                   /\ UNCHANGED <<allocated, moved>>
             IN \/ ShutOut(x.a, d) /\ TryNext /\ UNCHANGED <<known, timed>>
                \/ /\ ~ ShutOut(x.a, d)
                   /\ \E result \in SUBSET (Holding(d) \cup {x.a}) :
                        /\ Search(d, Append(allocated[d], x.a), result)
                        /\ IF Welcome(d, x.a, result)
                           THEN /\ allocated' = [allocated EXCEPT ![d] = Append(@, x.a)]
                                /\ moved' = moved \cup {d}
                                /\ dropped' = Tail(dropped)
                           ELSE TryNext
          /\ UNCHANGED unplaced
  /\ UNCHANGED <<Inputs, step, routed, searched>>

Rescued ==
  /\ step = "rescue"
  /\ dropped = << >>
  /\ step' = "final"
  /\ UNCHANGED <<Inputs, allocated, routed, searched, dropped, unplaced, moved, known, timed>>

(* What the last routes drop is not tried elsewhere.                         *)
LateDrops_Forgotten(lost) == {unplaced}   \* mutant: it is not listed either
LateDrops(lost) ==
  {unplaced \o [n \in DOMAIN row |-> [a |-> row[n], code |-> "ROUTING_UNPLACED"]] :
     row \in Enumerations(lost \ GivenUp)}

Finish ==
  /\ step = "final"
  /\ Routable \subseteq searched
  /\ step' = "done"
  /\ unplaced' \in LateDrops(Lost)
  /\ UNCHANGED <<Inputs, allocated, routed, searched, dropped, moved, known, timed>>

ItineraryNext ==
  Assign \/ Assigned \/ RouteDay \/ Collect \/ Rescue \/ Rescued \/ Finish

TripSpec == TripInit /\ [][ItineraryNext]_itineraryVars

-------------------------------------------------------------------------------
Scheduled == UNION {routed[d] : d \in Days}

(* quality.py:76 and docs/specs/trip-solver.md:86: at the end every chosen    *)
(* attraction is on exactly one day, given up once, or rejected by the data  *)
(* gate; and it is on a day it can be visited.                               *)
NothingIsLost ==
  step = "done" =>
    /\ Scheduled \cup GivenUp \cup Rejected = Sights
    /\ Scheduled \cap GivenUp = {}
    /\ (Scheduled \cup GivenUp) \cap Rejected = {}
    /\ Cardinality(GivenUp) = Len(unplaced)
    /\ \A d, e \in Days : d # e => routed[d] \cap routed[e] = {}
    /\ \A d \in Days : \A a \in routed[d] : room[d] # NoDay /\ input[a].blocked[d] = {}

(* itinerary.py:149-166: a day that took in a dropped attraction keeps it,   *)
(* and all it had, in the final route, unless a search of that day was cut   *)
(* short by its time limit.                                                  *)
RescueDisplacesNothing ==
  step = "done" =>
    \A d \in moved \ timed : routed[d] = Holding(d)

(* Every chosen attraction ends on one day, given up or rejected; a day that  *)
(* takes in one that another day dropped loses nothing by it.                 *)
TripIsAccountedFor == NothingIsLost /\ RescueDisplacesNothing
===============================================================================
