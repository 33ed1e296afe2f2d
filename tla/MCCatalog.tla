------------------------------- MODULE MCCatalog -------------------------------
(* The place catalog and what is made of it, one part at a time; the others     *)
(* stay as they begin.                                                         *)
(*   place   a place and its revisions: the focuses of MCPlaceCatalog;         *)
(*   times   nothing moves: preview, solver and data rules judge a sample;     *)
(*   routes  two builds of a route snapshot, of one pair in two modes; those   *)
(*           that share a JSON cache are followed while in their first mode;   *)
(*   files   the two scripts that write snapshots, and a server;               *)
(*   local   the database's catalog as the local server reads it.              *)
EXTENDS MCPlaceCatalog, PublishedSnapshot, RouteSnapshot

VARIABLES part, hours

-------------------------------------------------------------------------------
(* Three dates, the second of another weekday.                                 *)
MCWeekday(d) == ((d - 1) % 2) + 1
O == INSTANCE OpeningTimes WITH Dates <- 1 .. 3, Weekday <- MCWeekday, Unset <- None

Rule(kind, weekdays, start, end, last, from) ==
  [kind |-> kind, weekdays |-> weekdays, start |-> start, end |-> end, last |-> last,
   from |-> from, to |-> None]
Exception(d, kind, start, end, last) ==
  [date |-> d, kind |-> kind, start |-> start, end |-> end, last |-> last]
Rules ==
  {r \in {Rule(k, w, a, b, l, f) :
            k \in {"opening_hours", "fixed_session", "last_entry"}, w \in {{2}, {1, 2}},
            a \in {None, 540, 1080, 1500}, b \in {None, 1020, 1440, 1560, 2100},
            l \in {None, 480, 960, 1500}, f \in {None, 2}} : O!AcceptedRule(r)}
FewRules ==
  {Rule("opening_hours", {1, 2}, 540, 1020, l, None) : l \in {None, 960}}
    \cup {Rule("opening_hours", {2}, 540, 1020, 960, None),
          Rule("opening_hours", {1, 2}, 1080, 1560, None, None),
          Rule("fixed_session", {2}, 540, 1020, 960, None)}
OtherRules ==
  {{}, {Rule("opening_hours", {1}, 540, 1020, None, None)},
   {Rule("opening_hours", {1}, 540, 1020, 960, None)},
   {Rule("opening_hours", {1}, 1080, 1560, None, None)}}
Exceptions ==
  {Exception(2, "closed", None, None, None), Exception(1, "open_override", 540, 1020, 960),
   Exception(1, "open_override", 600, 1020, None), Exception(2, "open_override", 540, 1020, 960),
   Exception(3, "session_override", 540, 1020, None)}
Evidences ==
  LET evidence(always, rules, exceptions) ==
        [always : always, rules : {o \cup r : o \in OtherRules, r \in rules},
         closures : {{}, {1}}, exceptions : exceptions]
  IN evidence({FALSE}, {{r} : r \in Rules}, {{}, {Exception(2, "closed", None, None, None)}})
       \cup evidence(BOOLEAN, {{r} : r \in FewRules} \cup {{}},
                     {x \in SUBSET Exceptions : Cardinality(x) <= 2})
Year == 4
Records ==
  [from : {1, 3}, to : {1, 2, 4}, open : {0, 600}, close : {480, 1020, 1440},
   last : {None, 500, 1000}, crosses : BOOLEAN]
Hours == [of : {"place"}, e : Evidences]
           \cup [of : {"record"}, r : Records,
                 q : {x \in Records : x.open = 600 /\ x.last = None /\ ~ x.crosses}]

(* However the hours were written: what the preview shows of a typical place is *)
(* what the solver gets, visits lie within them, and records that pass the     *)
(* data rules load.                                                            *)
TimesAgree ==
  hours # None =>
    /\ hours.of = "place" =>
         /\ O!PreviewIsSolved(hours.e)
         /\ O!VisitsStayInside(hours.e, {60, 200}, {0, 700, 1000, 1500})
    /\ hours.of = "record" => O!ValidatedLoads(hours.r, hours.q, Year)

-------------------------------------------------------------------------------
MCModes == <<"walking", "transit">>
MCAnswers == {[minutes |-> 10, meters |-> 800]}
Followed ==
  store = "json" /\ sideBySide' =>
    \A b \in {c \in Builders : build'[c].at # "off"} :
      build'[b].at # "done" /\ build'[b].turn = 1

-------------------------------------------------------------------------------
(* Two cities, two versions; attractions one of which is not reviewed, has a   *)
(* night of its own, or is missing from the routes.                            *)
MCSettings == {<<"v1", "v2">>, <<"v2">>, <<"v2", "v1">>}
Full == {<<1, 2>>, <<2, 1>>}
Input == [ids |-> {1, 2}, gated |-> TRUE, reviewed |-> TRUE, overnight |-> FALSE,
          pairs |-> Full, fallback |-> FALSE, city |-> "hangzhou", days |-> {1, 2}]
MCInputs ==
  {Input, [Input EXCEPT !.ids = {1, 3}, !.pairs = {<<1, 3>>, <<3, 1>>}, !.days = {2, 3}],
   [Input EXCEPT !.reviewed = FALSE], [Input EXCEPT !.overnight = TRUE],
   [Input EXCEPT !.fallback = TRUE], [Input EXCEPT !.city = "shanghai"]}
(* One of the scripts may be given another path than its version; candidates    *)
(* are made of what is and what is not reviewed.                               *)
Scripted ==
  writer' # Gone =>
    LET s == writer'.snapshot IN
    /\ s.version = writer'.path \/ s.input = Input
    /\ s.status = "candidate" => s.input \in {Input, [Input EXCEPT !.reviewed = FALSE]}

(* The second place is published once; verdicts leave it whole or unusable.     *)
SecondPlace == catalog'[2] <= 1 /\ verdicts'[2] # "other"

-------------------------------------------------------------------------------
DataInit ==
  /\ part \in {"place", "times", "routes", "files", "local"}
  /\ MCInit
  /\ part # "place" => focus.on = "create"
  /\ IF part = "times" THEN hours \in Hours ELSE hours = None
  /\ RouteInit
  /\ part # "routes" => store = "json"
  /\ SnapshotInit

DataNext ==
  /\ UNCHANGED <<part, hours>>
  /\ part # "times"
  /\ IF part = "place" THEN MCNext ELSE UNCHANGED <<catalogVars, focus, sample>>
  /\ IF part = "routes" THEN RouteNext /\ Followed ELSE UNCHANGED routeVars
  /\ IF part = "files" THEN SnapshotNext /\ Scripted ELSE UNCHANGED fileVars
  /\ IF part = "local" THEN CatalogDataNext /\ SecondPlace ELSE UNCHANGED catalogDataVars

(* Rows of revisions, tasks, projections and batches are ones the code can write; *)
(* a build and a file are in a state the scripts can be in.                    *)
CatalogTypeOK ==
  /\ part = "place" => ReviewTypeOK /\ PublicationTypeOK
  /\ part = "routes" => RouteTypeOK
  /\ part \in {"files", "local"} => SnapshotTypeOK /\ SnapshotAssumption

DataSpec ==
  DataInit /\ [][DataNext]_<<part, hours, catalogVars, focus, sample, routeVars,
                              fileVars, catalogDataVars>>
CatalogSymmetry == Symmetry \cup Permutations(Builders)
===============================================================================
