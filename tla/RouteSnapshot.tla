------------------------------ MODULE RouteSnapshot ------------------------------
(***************************************************************************)
(* Building a snapshot of routes: build_gaode_od_snapshot.py asks the map  *)
(* service for every directed pair of attractions in every mode, through a *)
(* cache that outlives the build, a JSON file or Redis, so that a build    *)
(* that died, or was stopped by the governor, goes on where it was.        *)
(*                                                                         *)
(* The governor and the service are taken as they appear to a build: a     *)
(* request is let through after a while, or refused and the build ends;    *)
(* it is answered with a route or with a failure.                          *)
(***************************************************************************)
EXTENDS Integers, FiniteSets, SequencesExt

CONSTANTS
  Builders,
  Pairs,       \* number of directed pairs, asked in order
  Modes,       \* the enabled modes, in the order they are asked
  Answers,     \* minutes and meters of routes the service gives
  Failures,    \* codes of failures it gives
  Lifetime,    \* TTL of a cached route
  Horizon,     \* bound of the clock
  Missing,     \* nothing there
  Partial      \* a file written in part

VARIABLES
  store,       (* which cache is configured: "json" or "redis"                *)
  clock,
  cache,       (* the file or Redis: routes by key, or Partial               *)
  spare,       (* the file next to it that is written before it is renamed    *)
  build,       (* each build                                                  *)
  latest,      (* history: of each key, the route that was stored last        *)
  crossed,     (* builds with a file open that another one has had open too   *)
  sideBySide   (* history: two builds were under way at once                  *)

routeVars == <<store, clock, cache, spare, build, latest, crossed, sideBySide>>

Keys == (1 .. Pairs) \X Range(Modes)
Off == [at |-> "off"]
Nowhere == [k \in {} |-> Missing]
With(entries, k, route) ==
  [q \in DOMAIN entries \cup {k} |-> IF q = k THEN route ELSE entries[q]]
Without(entries, k) == [q \in DOMAIN entries \ {k} |-> entries[q]]
Expires(route) == route.fetched + Lifetime

RouteInit ==
  /\ store \in {"json", "redis"}
  /\ clock = 0
  /\ cache = Nowhere
  /\ spare = Missing
  /\ build = [b \in Builders |-> Off]
  /\ latest = [k \in Keys |-> Missing]
  /\ crossed = {}
  /\ sideBySide = FALSE

(* A cache holds routes by their keys; a build that waits for an answer or     *)
(* stores one is at a key that its results do not cover yet.                  *)
Cached == [mode : Range(Modes), takes : Answers, fetched : 0 .. Horizon, used : 0 .. Horizon,
           kept : 0 .. Horizon + Lifetime]
RouteCaches == UNION {[keys -> Cached] : keys \in SUBSET Keys}

ASSUME RouteAssumption ==
  /\ {Pairs, Lifetime, Len(Modes)} \subseteq Nat \ {0} /\ Horizon \in Nat
  /\ Modes \in Seq(Range(Modes)) /\ Answers \subseteq [minutes : Nat, meters : Nat]
  /\ Missing \notin Cached \cup RouteCaches \cup {Partial} /\ Partial \notin RouteCaches

IsCache(entries) ==
  /\ DOMAIN entries \subseteq Keys
  /\ \A k \in DOMAIN entries : entries[k] \in Cached /\ entries[k].mode = k[2]
RouteTypeOK ==
  /\ store \in {"json", "redis"} /\ clock \in 0 .. Horizon
  /\ cache = Partial \/ IsCache(cache)
  /\ spare \in {Missing, Partial} \/ IsCache(spare)
  /\ crossed \subseteq Builders
  /\ \A b \in Builders :
       \/ build[b] = Off
       \/ build[b].at = "done" /\ Len(build[b].results) = Pairs
       \/ /\ build[b].pair \in 1 .. Pairs /\ build[b].turn \in 1 .. Len(Modes)
          /\ IsCache(build[b].mem)
          /\ Len(build[b].results) = build[b].pair - 1
          /\ Cardinality(build[b].routes) < build[b].turn

Running(b) == build[b].at \notin {"off", "done"}
Key(b) == <<build[b].pair, Modes[build[b].turn]>>

-------------------------------------------------------------------------------
(* A build starts from the routes of the file; a torn one ends it.           *)
StartBuild(b) ==
  /\ ~ Running(b)
  /\ cache # Partial
  /\ build' = [build EXCEPT ![b] =
       [at |-> "look", read |-> clock, pair |-> 1, turn |-> 1,
        mem |-> IF store = "json" THEN cache ELSE Nowhere, file |-> "none",
        got |-> Missing, routes |-> {}, failed |-> {}, results |-> << >>]]
  /\ sideBySide' = (sideBySide \/ \E c \in Builders \ {b} : Running(c))
  /\ UNCHANGED <<store, clock, cache, spare, latest, crossed>>

(* _select_route: a short walk, else transit unless a car is a quarter of an  *)
(* hour faster, else a car, else the walk.                                   *)
Selected(routes) ==
  LET of(m) == {r \in routes : r.mode = m}
      near == {r \in of("walking") : r.takes.meters <= 2000 /\ r.takes.minutes <= 35}
      ride == {r \in of("transit") :
                 \A c \in of("driving") : r.takes.minutes <= c.takes.minutes + 15}
  IN IF near # {} THEN near
     ELSE IF ride # {} THEN ride
     ELSE IF of("driving") # {} THEN of("driving") ELSE routes

(* The pair's result, when its last mode has been asked: the route selected,  *)
(* or why there is none.                                                     *)
Priority == <<"rate_limited", "timeout", "http_error", "api_error", "no_route",
              "invalid_response">>
FallbackReason(failed) == SelectInSeq(Priority, LAMBDA code : code \in failed)
Result(routes, failed) ==
  IF routes # {} THEN [basis |-> "gaode", route |-> CHOOSE r \in Selected(routes) : TRUE]
  ELSE [basis |-> "approximate", reason |-> FallbackReason(failed)]

(* The next mode, the next pair, or the end; the clock is read for each key.  *)
Onward(b, routes, failed) ==
  IF build[b].turn < Len(Modes)
  THEN [build[b] EXCEPT !.at = "look", !.turn = @ + 1, !.got = Missing, !.routes = routes,
                        !.failed = failed, !.read = clock]
  ELSE LET results == Append(build[b].results, Result(routes, failed)) IN
       IF build[b].pair < Pairs
       THEN [build[b] EXCEPT !.at = "look", !.pair = @ + 1, !.turn = 1, !.got = Missing,
                             !.routes = {}, !.failed = {}, !.results = results,
                             !.read = clock]
       ELSE [at |-> "done", results |-> results]

(* get: the JSON cache answers from what the build has loaded and put, Redis  *)
(* from what is there; an entry that has expired is dropped.                 *)
Entries(b) == IF store = "json" THEN build[b].mem ELSE cache
Fresh_Any(route, now) == TRUE           \* mutant: it is as good as it is kept
Fresh(route, now) == Expires(route) > now

Hit(b) ==
  /\ build[b].at = "look"
  /\ Key(b) \in DOMAIN Entries(b)
  /\ Fresh(Entries(b)[Key(b)], build[b].read)
  /\ build' = [build EXCEPT ![b] =
       Onward(b, build[b].routes \cup {[Entries(b)[Key(b)] EXCEPT !.used = build[b].read]},
              build[b].failed)]
  /\ UNCHANGED <<store, clock, cache, spare, latest, crossed, sideBySide>>

Miss(b) ==
  /\ build[b].at = "look"
  /\ build' = [build EXCEPT ![b] =
       IF Key(b) \notin DOMAIN Entries(b) THEN [build[b] EXCEPT !.at = "ask"]
       ELSE IF store = "redis" THEN [build[b] EXCEPT !.at = "drop"]
       ELSE [build[b] EXCEPT !.at = "open", !.mem = Without(build[b].mem, Key(b))]]
  /\ Key(b) \in DOMAIN Entries(b) => ~ Fresh(Entries(b)[Key(b)], build[b].read)
  /\ UNCHANGED <<store, clock, cache, spare, latest, crossed, sideBySide>>

Drop(b) ==
  /\ build[b].at = "drop"
  /\ build' = [build EXCEPT ![b].at = "ask"]
  /\ cache' = Without(cache, Key(b))
  /\ UNCHANGED <<store, clock, spare, latest, crossed, sideBySide>>

-------------------------------------------------------------------------------
(* fetch: the request waits for its slot and is answered, and the route is    *)
(* dated by the clock as it was read before; ...                             *)
Answer(b, takes) ==
  LET route == [mode |-> Modes[build[b].turn], takes |-> takes,
                fetched |-> build[b].read, used |-> build[b].read, kept |-> 0] IN
  /\ build[b].at = "ask"
  /\ build' = [build EXCEPT ![b].at = IF store = "json" THEN "open" ELSE "set",
                            ![b].got = route,
                            ![b].mem = IF store = "json" THEN With(@, Key(b), route) ELSE @]
  /\ UNCHANGED <<store, clock, cache, spare, latest, crossed, sideBySide>>

(* ... or it fails, which is remembered, and the next mode is asked; ...      *)
Refuse(b, code) ==
  /\ build[b].at = "ask"
  /\ build' = [build EXCEPT ![b] = Onward(b, build[b].routes, build[b].failed \cup {code})]
  /\ UNCHANGED <<store, clock, cache, spare, latest, crossed, sideBySide>>

(* ... or the governor refuses it for the day or until its circuit closes,    *)
(* which ends the build, as does the end of its process.                     *)
Die(b) ==
  /\ Running(b)
  /\ build' = [build EXCEPT ![b] = Off]
  /\ crossed' = crossed \ {b}
  /\ UNCHANGED <<store, clock, cache, spare, latest, sideBySide>>

(* put in Redis: the entry is kept a lifetime from now.                       *)
Set(b) ==
  /\ build[b].at = "set"
  /\ cache' = With(cache, Key(b), [build[b].got EXCEPT !.kept = clock + Lifetime])
  /\ latest' = [latest EXCEPT ![Key(b)] = build[b].got]
  /\ build' = [build EXCEPT ![b] = Onward(b, build[b].routes \cup {build[b].got},
                                          build[b].failed)]
  /\ UNCHANGED <<store, clock, spare, crossed, sideBySide>>

(* _persist writes all of the build's entries next to the file, and renames.  *)
(* Every build uses the same name for it: it may empty, fill or rename what   *)
(* another one is writing, and of two texts written over each other the end  *)
(* of the longer one may stay.                                               *)
AlsoOpen(b) == {c \in Builders \ {b} : build[c].at = "fill" /\ build[c].file = "spare"}

Open(b) ==
  /\ build[b].at = "open"
  /\ spare' = Partial
  /\ build' = [build EXCEPT ![b].at = "fill", ![b].file = "spare"]
  /\ crossed' = IF AlsoOpen(b) = {} THEN crossed ELSE crossed \cup AlsoOpen(b) \cup {b}
  /\ UNCHANGED <<store, clock, cache, latest, sideBySide>>

Fill(b) ==
  /\ build[b].at = "fill"
  /\ \E text \in {build[b].mem} \cup (IF b \in crossed THEN {Partial} ELSE {}) :
       /\ cache' = IF build[b].file = "cache" THEN text ELSE cache
       /\ spare' = IF build[b].file = "spare" THEN text ELSE spare
  /\ build' = [build EXCEPT ![b].at = "rename"]
  /\ crossed' = crossed \ {b}
  /\ UNCHANGED <<store, clock, latest, sideBySide>>

Moved(file) == IF file = "spare" THEN "cache" ELSE "none"
Rename(b) ==
  LET then == IF build[b].got = Missing THEN [build[b] EXCEPT !.at = "ask"]
              ELSE Onward(b, build[b].routes \cup {build[b].got}, build[b].failed) IN
  /\ build[b].at = "rename"
  /\ IF spare = Missing
     THEN /\ build' = [build EXCEPT ![b] = Off]
          /\ UNCHANGED <<cache, spare, latest>>
     ELSE /\ build' = [c \in Builders |->
                         IF c = b THEN then
                         ELSE IF build[c].at = "fill" THEN [build[c] EXCEPT !.file = Moved(@)]
                         ELSE build[c]]
          /\ cache' = spare
          /\ spare' = Missing
          /\ latest' = [k \in Keys |-> IF build[b].got # Missing /\ k = Key(b)
                                       THEN build[b].got ELSE latest[k]]
  /\ UNCHANGED <<store, clock, crossed, sideBySide>>

(* Time passes, and Redis forgets.                                            *)
Tick ==
  /\ clock < Horizon
  /\ clock' = clock + 1
  /\ cache' = IF store = "redis"
              THEN [k \in {q \in DOMAIN cache : cache[q].kept > clock + 1} |-> cache[k]]
              ELSE cache
  /\ UNCHANGED <<store, spare, build, latest, crossed, sideBySide>>

RouteNext ==
  \/ Tick
  \/ \E b \in Builders :
       \/ StartBuild(b) \/ Hit(b) \/ Miss(b) \/ Drop(b) \/ Die(b)
       \/ Set(b) \/ Open(b) \/ Fill(b) \/ Rename(b)
       \/ \E takes \in Answers : Answer(b, takes)
       \/ \E code \in Failures : Refuse(b, code)

RouteSpec == RouteInit /\ [][RouteNext]_routeVars

-------------------------------------------------------------------------------
(* No route in a build is older than its lifetime when the build takes it,    *)
(* whichever cache it came from and however many builds there are.           *)
RoutesAreFresh ==
  \A b \in Builders :
    \A r \in (IF Running(b) THEN build[b].routes ELSE {})
             \cup {x.route : x \in (IF build[b].at = "off" THEN {}
                                     ELSE {y \in Range(build[b].results) : y.basis = "gaode"})} :
      r.used - r.fetched < Lifetime

(* Builds that follow each other resume where the last one stopped, wherever  *)
(* that was: the cache can be read, and a route that was stored and has not   *)
(* expired is not asked for again.  Builds that overlap do not keep this.     *)
BuildsResume ==
  ~ sideBySide =>
    /\ cache # Partial
    /\ \A b \in Builders : build[b].at = "ask" =>
         latest[Key(b)] = Missing \/ Expires(latest[Key(b)]) <= clock

(* What a build takes is fresh, and what it leaves is found again.            *)
RoutesAreKept == RoutesAreFresh /\ BuildsResume
===============================================================================
