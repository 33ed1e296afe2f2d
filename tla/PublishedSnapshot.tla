---------------------------- MODULE PublishedSnapshot ----------------------------
(***************************************************************************)
(* The data that plans are solved with.  In production: files that two     *)
(* build scripts write and a server process reads, once for each version   *)
(* (build_*_solver_snapshot.py, published_json.py, production.py).         *)
(* Locally: the catalog of the database, under a version that is a hash of *)
(* which projections are published (database_published.py).  The evidence  *)
(* shown of them and the day of the weather are not part of that version.  *)
(*                                                                         *)
(* An input is what the scripts are given: attractions with their reviewed *)
(* coordinates, routes and a forecast.  It is [ids, gated, reviewed,       *)
(* overnight, pairs, fallback, city, days]: gated when every attraction is *)
(* verified, active and without conflict, reviewed when every coordinate   *)
(* is, overnight when some hours cross midnight, pairs what the routes     *)
(* connect, fallback when some are approximate, city that of the forecast. *)
(* Files are not removed, nor written by anything else.                    *)
(***************************************************************************)
EXTENDS Naturals, Sequences, FiniteSets

CONSTANTS
  Versions,    \* also the paths: a snapshot is looked for under its version
  Inputs,      \* what the scripts are given
  Cities, City,  \* of snapshots, and the one this deployment serves
  Settings,    \* requested version and fallbacks, as sequences
  Intents,     \* ids of generation intents
  Places,      \* of the database's catalog
  MaxRevision, \* bound of the publications of a place
  MaxDay,      \* bound of the days
  MaxProcess,  \* bound of the processes of the local server
  MaxPromised, \* bound of the versions promised
  BuiltIn,     \* the version of the data built into the local server
  Gone,        \* nothing there
  Torn         \* a file written in part

VARIABLES
  file,        (* by path                                                    *)
  writer,      (* the script that is writing: [path, snapshot], or Gone      *)
  server,      (* the process: [selected, cache], or Gone                    *)
  intents,     (* stored intents with their outcome; own: by a process that   *)
               (* selected their version                                     *)
  served,      (* history: every snapshot a process has loaded, by version   *)
  catalog,     (* the publication of each place that is out; 0 is none       *)
  verdicts,    (* what verdicts leave of the evidence of the one that is out  *)
  promised,    (* local versions that intents were stored under              *)
  dayNow,      (* the day                                                    *)
  process,     (* the local server: its number and the day it began          *)
  loaded,      (* its cache: data by version                                 *)
  readings     (* history: all that any of them loaded                       *)

fileVars == <<file, writer, server, intents, served>>
catalogDataVars == <<catalog, verdicts, promised, dayNow, process, loaded, readings>>
snapshotVars == <<fileVars, catalogDataVars>>

Snapshot(status, v, city, x) == [status |-> status, version |-> v, city |-> city, input |-> x]
Snapshots == {Snapshot(status, v, city, x) :
                status \in {"published", "candidate"}, v \in Versions, city \in Cities, x \in Inputs}

Empty == [v \in {} |-> Gone]
SnapshotInit ==
  /\ file = [v \in Versions |-> Gone]
  /\ writer = Gone
  /\ server = Gone
  /\ intents = [i \in Intents |-> Gone]
  /\ served = [v \in Versions |-> {}]
  /\ catalog = [p \in Places |-> 0]
  /\ verdicts = [p \in Places |-> "whole"]
  /\ promised = {}
  /\ dayNow = 0
  /\ process = [number |-> 1, began |-> 0]
  /\ loaded = Empty
  /\ readings = {}

-------------------------------------------------------------------------------
(* The scripts.                                                              *)
DirectedPairs(ids) == {p \in ids \X ids : p[1] # p[2]}

(* build_published_snapshot takes only what is reviewed, routed and of the    *)
(* city; it does not look at the hours.                                      *)
Publishable(x, city) ==
  /\ x.gated /\ x.reviewed
  /\ x.pairs = DirectedPairs(x.ids) /\ ~ x.fallback
  /\ x.city = city
(* build_candidate_snapshot looks at the report of the routes only, and       *)
(* invents the weather.                                                      *)
Drafted(x, city) == ~ x.fallback /\ city = "hangzhou"

OpenNew_Over(path) == TRUE              \* mutant: a published file is written over
OpenNew(path) == file[path] = Gone
Publish(path, v, city, x) ==
  /\ writer = Gone
  /\ Publishable(x, city)
  /\ OpenNew(path)
  /\ writer' = [path |-> path, snapshot |-> Snapshot("published", v, city, x)]
  /\ file' = [file EXCEPT ![path] = Torn]
  /\ UNCHANGED <<server, intents, served, catalogDataVars>>

(* The candidate script writes over any file.                                *)
Draft(path, v, city, x) ==
  /\ writer = Gone
  /\ Drafted(x, city)
  /\ writer' = [path |-> path, snapshot |-> Snapshot("candidate", v, city, x)]
  /\ file' = [file EXCEPT ![path] = Torn]
  /\ UNCHANGED <<server, intents, served, catalogDataVars>>

Written ==
  /\ writer # Gone
  /\ file' = [file EXCEPT ![writer.path] = writer.snapshot]
  /\ writer' = Gone
  /\ UNCHANGED <<server, intents, served, catalogDataVars>>

(* A script that is killed leaves what it has written.                        *)
Killed ==
  /\ writer # Gone
  /\ writer' = Gone
  /\ UNCHANGED <<file, server, intents, served, catalogDataVars>>

-------------------------------------------------------------------------------
(* The loader, with allow_candidates off.  crosses_midnight is not read: the  *)
(* hours of an overnight attraction do not parse.                            *)
IsPublished(s) == s.status = "published"
Parses(s) ==
  /\ ~ s.input.overnight
  /\ Cardinality(s.input.ids) >= 2
  /\ s.input.pairs = DirectedPairs(s.input.ids)
Valid(path) ==
  /\ file[path] \notin {Gone, Torn}
  /\ file[path].version = path
  /\ IsPublished(file[path])
  /\ Parses(file[path])

(* load: the snapshot, Gone, or Torn for whatever is not a valid one; what is   *)
(* cached is not read again.                                                 *)
Load(cache, v) ==
  IF v \in DOMAIN cache THEN cache[v]
  ELSE IF Valid(v) \/ file[v] = Gone THEN file[v] ELSE Torn

Keep(cache, new) ==
  [v \in DOMAIN cache \cup DOMAIN new |-> IF v \in DOMAIN cache THEN cache[v] ELSE new[v]]
Only(v, data) == [w \in {v} |-> data]

(* build_production_http_app: the first of the versions that loads and is of  *)
(* this city; the ones before it that load are cached as well.               *)
Acceptable(v) == Valid(v) /\ file[v].city = City
StartAt(versions, at) ==
  LET read == {v \in {versions[k] : k \in 1 .. at} : Valid(v)} IN
  /\ server = Gone
  /\ Acceptable(versions[at])
  /\ \A k \in 1 .. at - 1 : ~ Acceptable(versions[k])
  /\ server' = [selected |-> versions[at], cache |-> [v \in read |-> file[v]]]
  /\ served' = [v \in Versions |-> served[v] \cup (IF v \in read THEN {file[v]} ELSE {})]
  /\ UNCHANGED <<file, writer, intents, catalogDataVars>>
StartServer(versions) == \E at \in DOMAIN versions : StartAt(versions, at)

Stop ==
  /\ server # Gone
  /\ server' = Gone
  /\ UNCHANGED <<file, writer, intents, served, catalogDataVars>>

(* An intent is stored under the version the process selected; its selection  *)
(* may be from a draft made with another one, its days are the user's.        *)
SubmitIntent(i, ids, days) ==
  /\ server # Gone
  /\ intents[i] = Gone
  /\ intents' = [intents EXCEPT ![i] = [version |-> server.selected, ids |-> ids, days |-> days,
                                        outcome |-> "waiting", own |-> FALSE]]
  /\ UNCHANGED <<file, writer, server, served, catalogDataVars>>

(* solve: the version may not be there, which may be tried again; may be no    *)
(* data, which solve does not catch; or lack a selected attraction or the     *)
(* weather of a day, which makes the input invalid.                          *)
Outcome(data, intent) ==
  IF data = Gone THEN "unavailable"
  ELSE IF data = Torn THEN "running"
  ELSE IF ~ (intent.ids \subseteq data.input.ids /\ intent.days \subseteq data.input.days)
          \/ data.city # City
  THEN "invalid_input" ELSE "solved"
Execute(i) ==
  LET data == Load(server.cache, intents[i].version) IN
  /\ server # Gone
  /\ intents[i] # Gone
  /\ intents[i].outcome \in {"waiting", "unavailable"}
  /\ intents' = [intents EXCEPT ![i].outcome = Outcome(data, intents[i]),
                                ![i].own = intents[i].version = server.selected]
  /\ IF data \notin {Gone, Torn}
     THEN /\ server' = [server EXCEPT !.cache = Keep(@, Only(intents[i].version, data))]
          /\ served' = [served EXCEPT ![intents[i].version] = @ \cup {data}]
     ELSE UNCHANGED <<server, served>>
  /\ UNCHANGED <<file, writer, catalogDataVars>>

-------------------------------------------------------------------------------
(* The database's catalog, locally: another revision of a place is published.   *)
PublishPlace(p) ==
  /\ catalog[p] < MaxRevision
  /\ catalog' = [catalog EXCEPT ![p] = @ + 1]
  /\ verdicts' = [verdicts EXCEPT ![p] = "whole"]
  /\ UNCHANGED <<fileVars, promised, dayNow, process, loaded, readings>>

(* review_evidence does not look at the revision's status: a verdict may still  *)
(* land on one that is published.  Of its evidence the load then shows other    *)
(* rows, or no verified access point, without which the place is left out.      *)
Shown == {"whole", "other", "none"}
LateVerdict(p, shown) ==
  /\ catalog[p] # 0 /\ verdicts[p] # shown
  /\ verdicts' = [verdicts EXCEPT ![p] = shown]
  /\ UNCHANGED <<fileVars, catalog, promised, dayNow, process, loaded, readings>>

NextDay ==
  /\ dayNow < MaxDay
  /\ dayNow' = dayNow + 1
  /\ UNCHANGED <<fileVars, catalog, verdicts, promised, process, loaded, readings>>

(* current_version, for an intent: the hash of the publications that are out; the *)
(* built-in version where there are none, and on any error of the database.     *)
Out == {p \in Places : catalog[p] # 0}
CatalogVersion == [p \in Out |-> catalog[p]]
Promise(v) ==
  /\ v = BuiltIn \/ (Out # {} /\ v = CatalogVersion)
  /\ Cardinality(promised \cup {v}) <= MaxPromised
  /\ promised' = promised \cup {v}
  /\ UNCHANGED <<fileVars, catalog, verdicts, dayNow, process, loaded, readings>>

(* load: what is cached, else what is there now if that is the version.  It is   *)
(* unavailable, and nothing is kept, while the database fails, when the catalog  *)
(* has moved on, and when no place is usable.  The built-in data are those of    *)
(* the day the process began.                                                   *)
Current_Any(v) == TRUE                  \* mutant: whatever is out is served as the version
Current(v) == v = CatalogVersion
Usable == {p \in Out : verdicts[p] # "none"}
Rows(v) ==
  IF v = BuiltIn THEN [places |-> Empty, day |-> process.began]
  ELSE [places |-> [p \in Usable |-> <<catalog[p], verdicts[p]>>], day |-> dayNow]
Answered(v) == IF v \in DOMAIN loaded THEN loaded[v] ELSE Rows(v)
LoadCatalog(v) ==
  /\ \/ v \in DOMAIN loaded
     \/ v = BuiltIn
     \/ Current(v) /\ Usable # {}
  /\ loaded' = Keep(loaded, Only(v, Rows(v)))
  /\ readings' = readings \cup {[version |-> v, process |-> process.number, data |-> Answered(v)]}
  /\ UNCHANGED <<fileVars, catalog, verdicts, promised, dayNow, process>>

Restart ==
  /\ process.number < MaxProcess
  /\ process' = [number |-> process.number + 1, began |-> dayNow]
  /\ loaded' = Empty
  /\ UNCHANGED <<fileVars, catalog, verdicts, promised, dayNow, readings>>

-------------------------------------------------------------------------------
SnapshotNext ==
  \/ \E path, v \in Versions, city \in Cities, x \in Inputs :
       Publish(path, v, city, x) \/ Draft(path, v, city, x)
  \/ Written \/ Killed
  \/ \E versions \in Settings : StartServer(versions)
  \/ Stop
  \/ \E i \in Intents :
       \/ \E x, y \in Inputs : SubmitIntent(i, x.ids, y.days)
       \/ Execute(i)
CatalogDataNext ==
  \/ \E p \in Places : PublishPlace(p) \/ \E shown \in Shown : LateVerdict(p, shown)
  \/ NextDay
  \/ \E v \in {BuiltIn, CatalogVersion} : Promise(v)
  \/ \E v \in promised : LoadCatalog(v)
  \/ Restart

SnapshotSpec == SnapshotInit /\ [][SnapshotNext \/ CatalogDataNext]_snapshotVars

(* A file that is being written is in part; a server has cached the version it *)
(* selected; only what was promised is loaded of the catalog.                 *)
Caches == UNION {[W -> Snapshots] : W \in SUBSET Versions}
IntentRow == [version : Versions, ids : {x.ids : x \in Inputs}, days : {x.days : x \in Inputs},
              outcome : {"waiting", "unavailable", "running", "invalid_input", "solved"},
              own : BOOLEAN]
SnapshotTypeOK ==
  /\ file \in [Versions -> Snapshots \cup {Gone, Torn}]
  /\ writer # Gone =>
       writer \in [path : Versions, snapshot : Snapshots] /\ file[writer.path] = Torn
  /\ server # Gone =>
       /\ server \in [selected : Versions, cache : Caches]
       /\ server.selected \in DOMAIN server.cache
       /\ \A v \in DOMAIN server.cache : server.cache[v] \in served[v]
  /\ intents \in [Intents -> IntentRow \cup {Gone}]
  /\ served \in [Versions -> SUBSET Snapshots]
  /\ catalog \in [Places -> 0 .. MaxRevision]
  /\ verdicts \in [Places -> Shown]
  /\ \A p \in Places \ Out : verdicts[p] = "whole"
  /\ dayNow \in 0 .. MaxDay
  /\ process.number \in 1 .. MaxProcess /\ process.began \in 0 .. dayNow
  /\ DOMAIN loaded \subseteq promised

(* What stands for nothing is none of the things that are there.              *)
SnapshotAssumption ==
  /\ Gone # Torn
  /\ {Gone, Torn} \cap Snapshots = {}
  /\ Settings \subseteq Seq(Versions)
  /\ MaxRevision \in Nat /\ MaxDay \in Nat /\ MaxProcess \in Nat \ {0}

-------------------------------------------------------------------------------
(* Who solves with a version, whenever and in whatever process, solves with the *)
(* same file: a published one is not written again.                             *)
VersionIsOneContent == \A v \in Versions : Cardinality(served[v]) <= 1

(* Locally a process solves all intents of a version with the same data, though *)
(* verdicts are passed, revisions published and days go by in between.  Two     *)
(* processes need not: but of each place both show only the revision that was   *)
(* out when the version was promised, never one published since.                *)
CatalogIsAsPromised ==
  \A x \in readings :
    /\ \A y \in readings : x.version = y.version /\ x.process = y.process => x.data = y.data
    /\ x.version # BuiltIn =>
         \A p \in DOMAIN x.data.places :
           p \in DOMAIN x.version /\ x.data.places[p][1] = x.version[p]

(* A process serves what it began with until it ends, whatever becomes of the  *)
(* files: an intent of its version is solved, unless its selection or days    *)
(* are not in the data.                                                      *)
PromisedIsServed ==
  \A i \in Intents : intents[i] # Gone /\ intents[i].own =>
    \A s \in served[intents[i].version] :
      intents[i].ids \subseteq s.input.ids /\ intents[i].days \subseteq s.input.days =>
        intents[i].outcome = "solved"

(* Nothing is served that was not reviewed, or whose routes are not all real.  *)
ServedIsReviewed ==
  \A v \in Versions : \A s \in served[v] :
    /\ s.version = v
    /\ s.input.gated /\ s.input.reviewed /\ ~ s.input.fallback
    /\ s.input.pairs = DirectedPairs(s.input.ids)
    /\ s.input.city = s.city

SnapshotsServe ==
  VersionIsOneContent /\ CatalogIsAsPromised /\ PromisedIsServed /\ ServedIsReviewed
===============================================================================
