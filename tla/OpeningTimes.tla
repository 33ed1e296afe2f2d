----------------------------- MODULE OpeningTimes ------------------------------
(***************************************************************************)
(* When a place is open, three times over: as the reviewer's preview shows *)
(* it (review.py preview_time), as the solver gets it from the catalog     *)
(* (database_published.py, models.py, availability.py, time_windows.py),   *)
(* and as the data rules judge it that a record passes before it enters a  *)
(* published snapshot (data_validation.py, published_json.py).             *)
(*                                                                         *)
(* A rule is [kind, weekdays, start, end, last, from, to], an exception    *)
(* [date, kind, start, end, last], in minutes of the service day, up to    *)
(* the end of the next one.  Only active, verified rows are looked at, by  *)
(* preview and solver alike; rows are what the three are given here.       *)
(***************************************************************************)
EXTENDS Integers, FiniteSets, FiniteSetsExt

CONSTANTS Dates,       \* dates of a trip, consecutive
          Weekday(_),  \* of a date
          Unset        \* a NULL

DayMinutes == 24 * 60
Minutes == 0 .. 2 * DayMinutes

-------------------------------------------------------------------------------
(* What the catalog takes in.                                                *)
Ordered(start, end) == start = Unset \/ end = Unset \/ start < end
AcceptedRule(r) ==
  /\ r.weekdays # {}
  /\ {r.start, r.end, r.last} \ {Unset} \subseteq Minutes
  /\ r.start # Unset \/ r.end # Unset
  /\ Ordered(r.start, r.end)
  /\ r.from = Unset \/ r.to = Unset \/ r.from <= r.to
AcceptedException(x) ==
  /\ {x.start, x.end, x.last} \ {Unset} \subseteq Minutes
  /\ x.kind # "closed" => x.start # Unset /\ x.end # Unset
  /\ Ordered(x.start, x.end)

-------------------------------------------------------------------------------
(* preview_time: the hours of a date, none where it is closed, and several    *)
(* where the order of the rows' ids decides between them.                    *)
Hours(start, end, last) == [start |-> start, end |-> end, last |-> last]
AllDay == Hours(0, DayMinutes, Unset)

MatchesOn(r, d) ==
  /\ Weekday(d) \in r.weekdays
  /\ r.from = Unset \/ r.from <= d
  /\ r.to = Unset \/ d <= r.to

WeekHours(e, d) ==
  LET on == {r \in e.rules : MatchesOn(r, d)}
      opening == {r \in on : r.kind = "opening_hours"}
      first == {q.last : q \in {q \in on : q.kind = "last_entry"}}
  IN {Hours(r.start, IF r.end = Unset THEN DayMinutes ELSE r.end,
            IF last = Unset THEN r.last ELSE last) :
      r \in opening, last \in IF first = {} THEN {Unset} ELSE first}

Preview(e, d) ==
  LET of(kind) == {x \in e.exceptions : x.date = d /\ x.kind = kind}
      first == IF of("session_override") # {} THEN of("session_override")
               ELSE of("open_override")
  IN IF e.always THEN {AllDay}
     ELSE IF of("closed") # {} THEN {}
     ELSE IF first # {} THEN {Hours(x.start, x.end, x.last) : x \in first}
     ELSE IF Weekday(d) \in e.closures THEN {}
     ELSE WeekHours(e, d)

-------------------------------------------------------------------------------
(* TimeRule.from_strings: a rule of the solver, or none where it raises.     *)
FromStrings(open, close, last, crosses) ==
  LET end == IF close <= open THEN close + DayMinutes ELSE close
      until == IF last # Unset /\ crosses /\ last < open THEN last + DayMinutes ELSE last
  IN IF /\ (close <= open) = crosses
        /\ until # Unset => open <= until /\ until <= end
     THEN {Hours(open, end, until)} ELSE {}

(* _time_rules writes minutes as a clock, and one rule for the whole year    *)
(* for all weekly rows with the same hours.                                  *)
Clock(m) == IF m = Unset THEN Unset ELSE m % DayMinutes
Crosses_Later(end) == end > DayMinutes      \* mutant: midnight is of the same day
Crosses(end) == end >= DayMinutes
Triples(e) ==
  {Hours(r.start, r.end, r.last) : r \in {q \in e.rules : q.start # Unset /\ q.end # Unset}}
YearRule(t) == FromStrings(Clock(t.start), Clock(t.end), Clock(t.last), Crosses(t.end))

ExceptionDates(e, kind) == {x.date : x \in {y \in e.exceptions : y.kind = kind}}

(* _load_database raises, for every place of the city, when one rule or one  *)
(* attraction cannot be built.                                               *)
Loads(e) ==
  /\ \A t \in Triples(e) : YearRule(t) # {}
  /\ ExceptionDates(e, "open_override") \cap ExceptionDates(e, "closed") = {}
AttractionOf(e) ==
  [closeDays |-> e.closures,
   openOn |-> ExceptionDates(e, "open_override"), closedOn |-> ExceptionDates(e, "closed"),
   rules |-> UNION {YearRule(t) : t \in Triples(e)}, always |-> e.always]

IsOpenOn(a, d) ==
  d \notin a.closedOn /\ (d \in a.openOn \/ Weekday(d) \notin a.closeDays)

(* resolve_effective_window: no rule, and more than one, leave no window.    *)
EffectiveWindow(a) ==
  IF a.always THEN {AllDay} ELSE IF Cardinality(a.rules) = 1 THEN a.rules ELSE {}
SolverHours(e, d) ==
  IF IsOpenOn(AttractionOf(e), d) THEN EffectiveWindow(AttractionOf(e)) ELSE {}

(* evaluate_arrival, as the visits [at, leave] it permits.                   *)
Required(duration) == (3 * duration + 4) \div 5
LatestArrival(w, duration) ==
  Min({IF w.last = Unset THEN w.end ELSE w.last, w.end - Required(duration)})
Visits(w, duration, arrival) ==
  LET at == Max({arrival, w.start})
  IN IF at > LatestArrival(w, duration) THEN {}
     ELSE {[at |-> at, leave |-> at + Min({duration, w.end - at})]}

-------------------------------------------------------------------------------
(* Evidence as docs/domain describes the typical place: one set of hours     *)
(* whatever the weekday, each weekday open by a rule or closed, exceptions   *)
(* that close a date or repeat the hours, one to a date, and a last entry    *)
(* between them.  Open all day leaves no room for closures.                  *)
Regular(t) ==
  /\ t.start # Unset /\ t.end # Unset /\ t.start < DayMinutes
  /\ t.end <= t.start + DayMinutes
  /\ t.last = Unset \/ (t.start <= t.last /\ t.last <= t.end)
  /\ t.last # Unset /\ t.end >= DayMinutes => t.last < t.start + DayMinutes
Typical(e) ==
  /\ e.always => e.rules \cup e.exceptions = {} /\ e.closures = {}
  /\ ~ e.always => \E t \in Triples(e) :
       /\ Regular(t)
       /\ \A r \in e.rules :
            /\ r.kind = "opening_hours" /\ Hours(r.start, r.end, r.last) = t
            /\ r.from = Unset /\ r.to = Unset
       /\ \A d \in Dates : Weekday(d) \in e.closures \cup UNION {r.weekdays : r \in e.rules}
       /\ \A x \in e.exceptions :
            \/ x.kind = "closed"
            \/ x.kind = "open_override" /\ Hours(x.start, x.end, x.last) = t
  /\ \A x, y \in e.exceptions : x.date = y.date => x = y

(* ADM-5.2.2 of docs/product: the preview shows the hours the solver gets.   *)
(* It holds of typical evidence, on every date; of other evidence it does    *)
(* not, see the README.                                                      *)
PreviewIsSolved(e) ==
  Typical(e) => Loads(e) /\ \A d \in Dates : Preview(e, d) = SolverHours(e, d)

(* Whatever the evidence, a visit the solver permits lies within the hours   *)
(* it was built from, begins by the last entry and lasts three fifths of     *)
(* what is suggested.                                                        *)
VisitsStayInside(e, durations, arrivals) ==
  Loads(e) => \A d \in Dates, n \in durations, m \in arrivals : \A w \in SolverHours(e, d) :
    \A v \in Visits(w, n, m) :
      /\ m <= v.at /\ w.start <= v.at /\ v.leave <= w.end
      /\ w.last # Unset => v.at <= w.last
      /\ 5 * (v.leave - v.at) >= 3 * n
      /\ w.end - w.start <= DayMinutes

-------------------------------------------------------------------------------
(* The data rules, on records [dates, open, close, last, crosses] whose      *)
(* dates are days of the year, and the loader of published snapshots, which  *)
(* does not read crosses_midnight.                                           *)
TimeOrdered(r) == (r.close <= r.open) = r.crosses
LastEntryOrdered(r) ==
  LET end == IF r.crosses THEN r.close + DayMinutes ELSE r.close
      last == IF r.crosses /\ r.last # Unset /\ r.last < r.open
              THEN r.last + DayMinutes ELSE r.last
  IN last # Unset => r.open <= last /\ last <= end
RangeDays(r, year) ==
  IF r.from <= r.to THEN r.from .. r.to ELSE (r.from .. year) \cup (1 .. r.to)
Overlapping(r, q, year) == RangeDays(r, year) \cap RangeDays(q, year) # {}

(* validate_attraction_data, of its rules those about hours; rules has two.  *)
RulesPass(r, q, year) ==
  /\ \A x \in {r, q} : TimeOrdered(x) /\ LastEntryOrdered(x)
  /\ ~ Overlapping(r, q, year)

MatchesDay(r, day) ==
  IF r.from <= r.to THEN r.from <= day /\ day <= r.to ELSE day >= r.from \/ day <= r.to
JsonRule(r) == FromStrings(r.open, r.close, r.last, FALSE)

(* A record that passes the data rules loads, if it does not cross midnight, *)
(* and has one rule for a day at most: no TIME_RULE_CONFLICT.                *)
ValidatedLoads(r, q, year) ==
  RulesPass(r, q, year) =>
    /\ \A x \in {r, q} : (JsonRule(x) # {}) = ~ x.crosses
    /\ \A day \in 1 .. year : ~ (MatchesDay(r, day) /\ MatchesDay(q, day))
===============================================================================
