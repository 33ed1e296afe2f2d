------------------------------ MODULE DaySchedule ------------------------------
(***************************************************************************)
(* One day of the solver's second and third step: two searches, one for    *)
(* the attractions that open in the evening and one for the others, the    *)
(* two routes joined, visits lengthened and spread into the time that is   *)
(* left, and dinner put between them.  Times are minutes of the day.  What *)
(* OR-Tools returns is any route its constraints admit; stopped by its     *)
(* time limit it may leave out any attraction, or find nothing.            *)
(***************************************************************************)
EXTENDS Integers, Sequences, FiniteSets, FiniteSetsExt, SequencesExt

CONSTANTS Grid,        (* arrivals the search may choose                     *)
          NoRoute, NoDinner

ASSUME DayConstants == Grid \subseteq Nat /\ NoRoute \notin Int

VARIABLES
  bounds,    (* [start, end] of the day                                     *)
  plan,      (* its allocations by attraction: opening hours and durations  *)
  ride,      (* buffered travel time between attractions, or NoRoute        *)
  evening, daytime,   (* the routes found                                   *)
  cross,     (* buffered travel time between them                           *)
  merged,    (* the route before its refinement                             *)
  route,     (* the route                                                   *)
  dayStage

dayVars == <<bounds, plan, ride, evening, daytime, cross, merged, route, dayStage>>

EveningOpen == 17 * 60
LunchFrom == 11 * 60 + 30
LunchTo == 14 * 60
LunchTarget == 13 * 60
Lunch == 60
SpreadTarget == 16 * 60
SpreadDelay == 60
DinnerFrom == 16 * 60 + 30
DinnerTo == 22 * 60
FullDinner == 90
ReducedDinner == 60

(* last is the last entry, or the closing time where there is none.          *)
Allocation == [open : Nat, close : Nat, last : Nat, suggested : Nat, required : Nat]
Visit(a, at, stay, via) == [a |-> a, at |-> at, stay |-> stay, via |-> via]
Leave(v) == v.at + v.stay
LastOf(s) == s[Len(s)]

(* What route_day accepts (routing.py:81-102): attractions with their hours   *)
(* and a duration of three fifths of the suggested one at least, and travel   *)
(* times between any two of them, or none.                                    *)
DayGiven ==
  /\ bounds \in [start : Nat, end : Nat]
  /\ IsFiniteSet(DOMAIN plan)
  /\ \A a \in DOMAIN plan : plan[a] \in Allocation /\ 5 * plan[a].required >= 3 * plan[a].suggested
  /\ ride \in [DOMAIN plan -> [DOMAIN plan -> Nat \cup {NoRoute}]]

DayInit ==
  /\ DayGiven
  /\ evening = << >> /\ daytime = << >> /\ merged = << >> /\ route = << >>
  /\ cross = 0
  /\ dayStage = "evening"

Given == UNCHANGED <<bounds, plan, ride>>

-------------------------------------------------------------------------------
(* _times_fit: opening hours, last entry and the bounds of the day.          *)
Fits(v) ==
  LET p == plan[v.a] IN
  /\ Max({bounds.start, p.open}) <= v.at
  /\ v.at <= Min({p.last, p.close - v.stay, bounds.end - v.stay})
TimesFit(r) == \A n \in DOMAIN r : Fits(r[n])

(* evaluate_connection                                                       *)
Connected(r) ==
  \A n \in 1 .. Len(r) - 1 :
    /\ ride[r[n].a][r[n + 1].a] # NoRoute
    /\ r[n + 1].at >= Leave(r[n]) + ride[r[n].a][r[n + 1].a]

(* validate_routed_day, for the constraints a route can break: C2, C4, C6.   *)
Validated(r) ==
  /\ \A n \in DOMAIN r :
       LET p == plan[r[n].a] IN
       /\ p.open <= r[n].at /\ r[n].at <= Min({p.last, p.close - r[n].stay})
       /\ 5 * r[n].stay >= 3 * p.suggested
       /\ bounds.start <= r[n].at /\ Leave(r[n]) <= bounds.end
  /\ Connected(r)

(* route_day: a route through some of the attractions, others are dropped.   *)
Reachable(order) == \A n \in 1 .. Len(order) - 1 : ride[order[n]][order[n + 1]] # NoRoute
Along(order, at) ==
  [n \in DOMAIN order |->
     Visit(order[n], at[n], plan[order[n]].required,
           IF n = 1 THEN 0 ELSE ride[order[n - 1]][order[n]])]
Routes(S) ==
  UNION {{r \in {Along(order, at) : at \in [DOMAIN order -> Grid]} :
            TimesFit(r) /\ Connected(r)} :
         order \in {o \in SetToAllKPermutations(S) : Reachable(o)}}
InEvening == {a \in DOMAIN plan : plan[a].open >= EveningOpen}

SearchEvening ==
  /\ dayStage = "evening"
  /\ evening' \in Routes(InEvening)
  /\ dayStage' = "daytime"
  /\ UNCHANGED <<daytime, cross, merged, route>> /\ Given

SearchDaytime ==
  /\ dayStage = "daytime"
  /\ daytime' \in Routes(DOMAIN plan \ InEvening)
  /\ dayStage' = "merge"
  /\ UNCHANGED <<evening, cross, merged, route>> /\ Given

-------------------------------------------------------------------------------
(* _merge_segments: the evening is shifted until it can be reached, or given  *)
(* up as a whole.                                                            *)
JoinedUnshifted(via) ==                  \* mutant: the evening is not shifted
  daytime \o [n \in DOMAIN evening |-> IF n = 1 THEN [evening[1] EXCEPT !.via = via] ELSE evening[n]]
Shifted(r, by) == [n \in DOMAIN r |-> [r[n] EXCEPT !.at = @ + by]]
Joined(via) ==
  LET shift == Max({0, Leave(LastOf(daytime)) + via - evening[1].at}) IN
  daytime \o [Shifted(evening, shift) EXCEPT ![1].via = via]
WithoutEvening == daytime

Merge ==
  LET via == ride[LastOf(daytime).a][evening[1].a] IN
  /\ dayStage = "merge"
  /\ IF daytime = << >> \/ evening = << >>
     THEN merged' = daytime \o evening /\ cross' = 0
     ELSE IF via # NoRoute /\ TimesFit(Joined(via))
     THEN merged' = Joined(via) /\ cross' = via
     ELSE merged' = WithoutEvening /\ cross' = 0
  /\ dayStage' = "refine"
  /\ UNCHANGED <<evening, daytime, route>> /\ Given

-------------------------------------------------------------------------------
(* _expand_evening_durations: until closing, or until leaving for the next.   *)
Lengthened(r, k) ==
  [n \in DOMAIN r |->
     IF n <= k THEN r[n]
     ELSE LET next == IF n = Len(r) THEN bounds.end ELSE r[n + 1].at - r[n + 1].via
              until == Min({plan[r[n].a].close, next}) IN
          [r[n] EXCEPT !.stay = Max({@, Min({plan[r[n].a].suggested, until - r[n].at})})]]

(* When a visit of the day must be over, for the evening to be reached: with *)
(* a full dinner in between if finish allows it.                             *)
AfterDinner(r, k) == r[k + 1].at - cross - FullDinner
DinnerFits(r, k, finish) == Len(r) > k /\ AfterDinner(r, k) >= finish
Deadline(r, k, finish) ==
  IF Len(r) = k THEN bounds.end
  ELSE IF DinnerFits(r, k, finish) THEN Min({bounds.end, AfterDinner(r, k)})
  ELSE Min({bounds.end, r[k + 1].at - cross})

(* _expand_single_daytime_duration                                           *)
Alone(r) ==
  LET v == r[1]
      p == plan[v.a]
      deadline == Min({p.close, Deadline(r, 1, Leave(v))})
      stay == Min({p.suggested, deadline - v.at})
      longer == [r EXCEPT ![1].stay = stay]
      from == Max({bounds.start, LunchFrom})
      at == Max({v.at, from + Lunch, Min({SpreadTarget, deadline}) - stay})
      moved == [longer EXCEPT ![1].at = at] IN
  IF stay < v.stay \/ ~ TimesFit(longer) THEN r
  ELSE IF DinnerFits(r, 1, Leave(v)) /\ from + Lunch <= LunchTo
          /\ at <= Min({p.last, p.close - stay, bounds.end - stay, deadline - stay})
          /\ TimesFit(moved)
  THEN moved
  ELSE longer

(* _build_candidate: the visits of the day one after the other, at full      *)
(* length or not, the first gap near noon widened to a lunch or not; then    *)
(* the last one later.                                                       *)
Appended(b, v, full, withLunch) ==
  LET stay == IF full THEN Max({v.stay, plan[v.a].suggested}) ELSE v.stay
      ready == IF b.row = << >> THEN v.at ELSE Leave(LastOf(b.row)) + v.via
      lunchHere ==
        /\ withLunch /\ ~ b.lunch /\ b.row # << >>
        /\ Leave(LastOf(b.row)) <= LunchTo
        /\ ready + Lunch >= LunchFrom
        /\ ready < LunchTo
      at == IF lunchHere THEN Max({ready + Lunch, LunchTarget}) ELSE Max({ready, v.at}) IN
  [row |-> Append(b.row, Visit(v.a, at, stay, v.via)), lunch |-> b.lunch \/ lunchHere]
Candidate(visits, full, withLunch) ==
  LET built[n \in 0 .. Len(visits)] ==
        IF n = 0 THEN [row |-> << >>, lunch |-> FALSE]
        ELSE Appended(built[n - 1], visits[n], full, withLunch) IN
  built[Len(visits)]
Delayed(row, deadline) ==
  LET delay == Max({0, Min({SpreadDelay, Min({SpreadTarget, deadline}) - Leave(LastOf(row))})}) IN
  [row EXCEPT ![Len(row)].at = @ + delay]
Built(visits, full, withLunch, deadline) ==
  LET all == Candidate(visits, full, withLunch)
      row == Delayed(all.row, deadline) IN
  IF (withLunch /\ ~ all.lunch) \/ Leave(LastOf(row)) > deadline THEN << >> ELSE row

LunchGap(r) ==
  Max({0} \cup {Min({r[n + 1].at - r[n + 1].via, LunchTo}) - Max({Leave(r[n]), LunchFrom}) :
                n \in 1 .. Len(r) - 1})
Stays(r) ==
  LET total[n \in 0 .. Len(r)] == IF n = 0 THEN 0 ELSE total[n - 1] + r[n].stay IN
  total[Len(r)]
(* _minimum_finish                                                           *)
MinimumFinish(r) ==
  LET current[n \in 0 .. Len(r)] ==
        IF n = 0 THEN r[1].at
        ELSE current[n - 1] + (IF n = 1 THEN 0 ELSE r[n].via) + r[n].stay IN
  current[Len(r)]
Score(r, deadline) ==
  LET off == Leave(LastOf(r)) - Min({SpreadTarget, deadline}) IN
  <<IF LunchGap(r) >= Lunch THEN 1 ELSE 0, Stays(r), IF off > 0 THEN -off ELSE off,
    -Leave(LastOf(r))>>
Above(s, t) == \E n \in DOMAIN s : s[n] > t[n] /\ \A m \in 1 .. n - 1 : s[m] = t[m]

(* refine_daytime_schedule, several visits of the day: the best of four      *)
(* candidates that fit, the first of equals.                                 *)
Spread(r, k) ==
  LET visits == SubSeq(r, 1, k)
      deadline == Deadline(r, k, MinimumFinish(visits))
      built == [n \in 1 .. 4 |-> Built(visits, n <= 2, n \in {1, 3}, deadline)]
      whole(n) == built[n] \o SubSeq(r, k + 1, Len(r))
      good == {n \in 1 .. 4 : built[n] # << >> /\ TimesFit(whole(n))}
      score == [n \in good |-> Score(built[n], deadline)] IN
  IF good = {} THEN r
  ELSE whole(CHOOSE n \in good :
               \A m \in good \ {n} : ~ Above(score[m], score[n]) /\ (m < n => Above(score[n], score[m])))

Refine ==
  LET k == Len(daytime)
      longer == Lengthened(merged, k) IN
  /\ dayStage = "refine"
  /\ route' = CASE k = 0 -> longer [] k = 1 -> Alone(longer) [] OTHER -> Spread(longer, k)
  /\ dayStage' = "done"
  /\ UNCHANGED <<evening, daytime, cross, merged>> /\ Given

DayNext == SearchEvening \/ SearchDaytime \/ Merge \/ Refine
DaySpec == DayInit /\ [][DayNext]_dayVars

-------------------------------------------------------------------------------
(* _schedule_meal, _fit_meal: before the evening, after the last visit,      *)
(* before the first; a full dinner anywhere comes before a reduced one.      *)
Gaps(r) ==
  LET k == Len(daytime)
      gap(from, to, late) == [from |-> from, to |-> to, late |-> late] IN
  IF r = << >> THEN <<gap(bounds.start, bounds.end, FALSE)>>
  ELSE (IF k > 0 /\ Len(r) > k THEN <<gap(Leave(r[k]), r[k + 1].at - cross, TRUE)>> ELSE << >>)
         \o <<gap(Leave(LastOf(r)), bounds.end, FALSE), gap(bounds.start, r[1].at, TRUE)>>

Dinner(r) ==
  LET gaps == Gaps(r)
      from(n) == Max({gaps[n].from, DinnerFrom})
      to(n) == Min({gaps[n].to, DinnerTo})
      roomy(long) == {n \in DOMAIN gaps : to(n) - from(n) >= long}
      long == IF roomy(FullDinner) # {} THEN FullDinner ELSE ReducedDinner
      n == Min(roomy(long)) IN
  IF roomy(long) = {} THEN NoDinner
  ELSE LET start == IF gaps[n].late THEN to(n) - long ELSE from(n) IN
       [at |-> start, stay |-> long]

(* schedule_refinement.py:3-7, :33-38: the searches respect opening hours,    *)
(* the bounds of the day and travel times, and neither joining their routes  *)
(* nor refining the result breaks any; no visit is lost, reordered or cut    *)
(* short by refinement.                                                      *)
RouteStaysFeasible ==
  /\ Validated(evening) /\ Validated(daytime) /\ Validated(merged)
  /\ dayStage = "done" =>
       /\ Validated(route)
       /\ Len(route) = Len(merged)
       /\ \A n \in DOMAIN route : route[n].a = merged[n].a /\ route[n].stay >= merged[n].stay

(* docs/specs/solver-p1-contract.md:226: refinement leaves a full dinner     *)
(* before a fixed evening where there was one (an evening reached by the end  *)
(* of the dinner hours: a later one counts only the time to itself), moves no *)
(* evening visit, and dinner is taken while nobody visits or travels.         *)
DinnerIsKept ==
  dayStage = "done" =>
    LET k == Len(daytime)
        meal == Dinner(route)
        room(r) == Min({r[k + 1].at - cross, DinnerTo}) - Max({Leave(r[k]), DinnerFrom}) IN
    /\ k > 0 /\ Len(merged) > k =>
         /\ merged[k + 1].at - cross <= DinnerTo /\ room(merged) >= FullDinner =>
              room(route) >= FullDinner
         /\ \A n \in k + 1 .. Len(merged) : route[n].at = merged[n].at
    /\ meal # NoDinner =>
         \A n \in DOMAIN route :
           LET busy == route[n].at - (IF n = 1 THEN 0 ELSE route[n].via) IN
           meal.at + meal.stay <= busy \/ Leave(route[n]) <= meal.at

(* A day's route stays feasible when its two halves are joined and refined, and  *)
(* keeps the time for dinner.                                                    *)
DayIsFeasible == RouteStaysFeasible /\ DinnerIsKept
===============================================================================
