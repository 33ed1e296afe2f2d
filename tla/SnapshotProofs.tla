----------------------------- MODULE SnapshotProofs -----------------------------
(***************************************************************************)
(* What plans are solved with: one content for a version, reviewed, and    *)
(* there for the intents of its process; for any versions, inputs,         *)
(* settings and places.  Then the hours in it: for any evidence.           *)
(***************************************************************************)
EXTENDS PublishedSnapshot, OpeningTimes, RouteSnapshot, FiniteSetTheorems, SequenceTheorems, TLAPS

Reviewed(s) ==
  /\ s.input.gated /\ s.input.reviewed /\ ~ s.input.fallback
  /\ s.input.pairs = DirectedPairs(s.input.ids)
  /\ s.input.city = s.city

(* A file that is published, or is being written to be, is reviewed; the latter *)
(* has a path that nothing was ever read from.                               *)
FilesReviewed ==
  /\ \A v \in Versions :
       file[v] \in Snapshots /\ file[v].status = "published" => Reviewed(file[v])
  /\ writer # Gone /\ writer.snapshot.status = "published" =>
       Reviewed(writer.snapshot) /\ served[writer.path] = {}

(* What was read from a path is one snapshot, and is what a path still has when *)
(* it can be read.                                                           *)
ReadOnce ==
  \A v \in Versions :
    /\ \A s, t \in served[v] : s = t
    /\ \A s \in served[v] : s.version = v /\ Reviewed(s)
    /\ served[v] # {} => file[v] # Gone
    /\ served[v] # {} /\ Valid(v) => file[v] \in served[v]

ServerOfCity == server # Gone => server.cache[server.selected].city = City

(* An intent of a process that selected its version has the outcome of the data *)
(* of this version.                                                          *)
OwnOutcomes ==
  \A i \in Intents : intents[i] # Gone /\ intents[i].own =>
    /\ served[intents[i].version] # {}
    /\ \A s \in served[intents[i].version] :
         s.city = City /\ intents[i].outcome = Outcome(s, intents[i])

(* What a process has read it has cached; of a place that is out there is the   *)
(* revision it was promised with.                                             *)
AsPromised(v, data) ==
  v # BuiltIn =>
    \A p \in DOMAIN data.places : p \in DOMAIN v /\ data.places[p][1] = v[p]
ReadingsTrue ==
  /\ \A x \in readings :
       /\ x.process \in Nat /\ x.process <= process.number
       /\ AsPromised(x.version, x.data)
       /\ x.process = process.number => x.version \in DOMAIN loaded /\ x.data = loaded[x.version]
  /\ \A x, y \in readings : x.version = y.version /\ x.process = y.process => x.data = y.data
  /\ \A v \in DOMAIN loaded : AsPromised(v, loaded[v])

FilesInv == FilesReviewed /\ ReadOnce /\ ServerOfCity /\ OwnOutcomes
SnapshotInv == SnapshotTypeOK /\ FilesInv /\ ReadingsTrue

-------------------------------------------------------------------------------
LEMMA SnapshotMade ==
  ASSUME NEW status \in {"published", "candidate"}, NEW v \in Versions, NEW city \in Cities,
         NEW x \in Inputs
  PROVE  /\ Snapshot(status, v, city, x) \in Snapshots
         /\ Snapshot(status, v, city, x).status = status
         /\ Snapshot(status, v, city, x).city = city
         /\ Snapshot(status, v, city, x).input = x
  BY DEF Snapshot, Snapshots

(* A file that can be read is a published snapshot of its path, and reviewed.  *)
LEMMA ReadIsReviewed ==
  ASSUME SnapshotAssumption, SnapshotInv, NEW v \in Versions, Valid(v)
  PROVE  file[v] \in Snapshots /\ file[v].version = v /\ Reviewed(file[v])
  BY DEF SnapshotInv, FilesInv, SnapshotTypeOK, FilesReviewed, Valid, IsPublished

LEMMA ReadingsStay ==
  ASSUME ReadingsTrue, UNCHANGED catalogDataVars
  PROVE  ReadingsTrue'
  BY DEF ReadingsTrue, AsPromised, catalogDataVars

LEMMA InitHolds == ASSUME SnapshotAssumption PROVE SnapshotInit => SnapshotInv
<1> SUFFICES ASSUME SnapshotInit PROVE SnapshotInv
  OBVIOUS
<1> USE DEF SnapshotInit, SnapshotAssumption
<1>1. SnapshotTypeOK
  <2>1. catalog \in [Places -> 0 .. MaxRevision] /\ verdicts \in [Places -> Shown]
    BY DEF SnapshotInit, Shown
  <2>2. /\ \A p \in Places \ Out : verdicts[p] = "whole"
        /\ dayNow \in 0 .. MaxDay
        /\ process.number \in 1 .. MaxProcess /\ process.began \in 0 .. dayNow
    BY DEF SnapshotInit
  <2> QED
    BY <2>1, <2>2 DEF SnapshotTypeOK, Empty
<1>2. FilesReviewed /\ ReadOnce /\ ServerOfCity /\ OwnOutcomes /\ ReadingsTrue
  BY DEF FilesReviewed, ReadOnce, ServerOfCity, OwnOutcomes, ReadingsTrue, Empty
<1> QED
  BY <1>1, <1>2 DEF SnapshotInv, FilesInv

-------------------------------------------------------------------------------
(* A script begins to write: on a new path if it publishes.                   *)
LEMMA Opened ==
  ASSUME SnapshotAssumption, SnapshotInv, NEW path \in Versions, NEW s \in Snapshots,
         writer = Gone, file' = [file EXCEPT ![path] = Torn],
         writer' = [path |-> path, snapshot |-> s],
         s.status = "published" => Reviewed(s) /\ file[path] = Gone,
         UNCHANGED <<server, intents, served, catalogDataVars>>
  PROVE  SnapshotInv'
<1> USE DEF SnapshotAssumption, SnapshotInv, FilesInv, SnapshotTypeOK, catalogDataVars, Out
<1>1. \A v \in Versions : file'[v] = IF v = path THEN Torn ELSE file[v]
  OBVIOUS
<1>2. SnapshotTypeOK'
  <2>1. file' \in [Versions -> Snapshots \cup {Gone, Torn}]
    OBVIOUS
  <2>2. writer' \in [path : Versions, snapshot : Snapshots] /\ file'[writer'.path] = Torn
    BY <1>1
  <2> QED
    BY <2>1, <2>2
<1>3. FilesReviewed'
  BY <1>1 DEF FilesReviewed, Reviewed, ReadOnce
<1>4. ReadOnce'
  BY <1>1 DEF ReadOnce, Reviewed, Valid, IsPublished, Parses
<1>5. ServerOfCity' /\ OwnOutcomes'
  BY ONLY SnapshotInv, UNCHANGED <<server, intents, served>>
     DEF SnapshotInv, FilesInv, ServerOfCity, OwnOutcomes, Outcome
<1>6. ReadingsTrue'
  BY ReadingsStay
<1> QED
  BY <1>2, <1>3, <1>4, <1>5, <1>6

LEMMA Finished == ASSUME SnapshotAssumption, SnapshotInv, Written PROVE SnapshotInv'
<1> USE DEF SnapshotAssumption, SnapshotInv, FilesInv, SnapshotTypeOK, catalogDataVars, Out
<1>1. /\ writer \in [path : Versions, snapshot : Snapshots] /\ writer' = Gone
      /\ file' = [file EXCEPT ![writer.path] = writer.snapshot]
      /\ UNCHANGED <<server, intents, served, catalogDataVars>>
  BY DEF Written
<1>2. writer.snapshot \in Snapshots /\ writer.path \in Versions /\ writer # Gone
  BY <1>1 DEF Written
<1>3. \A v \in Versions : file'[v] = IF v = writer.path THEN writer.snapshot ELSE file[v]
  BY <1>1, <1>2
<1>4. SnapshotTypeOK'
  BY <1>1, <1>2
<1>5. FilesReviewed'
  BY <1>1, <1>2, <1>3 DEF FilesReviewed, Reviewed
<1>6. ReadOnce'
  <2> SUFFICES ASSUME NEW v \in Versions
      PROVE /\ \A s, t \in served[v] : s = t
            /\ \A s \in served[v] : s.version = v /\ Reviewed(s)
            /\ served[v] # {} => file'[v] # Gone
            /\ served[v] # {} /\ Valid(v)' => file'[v] \in served[v]
    BY <1>1 DEF ReadOnce, Reviewed
  <2>1. CASE v = writer.path
    <3>1. writer.snapshot.status = "published" => served[v] = {}
      BY <1>2, <2>1 DEF FilesReviewed
    <3>2. Valid(v)' => writer.snapshot.status = "published"
      BY <1>3, <2>1 DEF Valid, IsPublished
    <3> QED
      BY <1>2, <1>3, <2>1, <3>1, <3>2 DEF ReadOnce
  <2>2. CASE v # writer.path
    <3>1. file'[v] = file[v] /\ (Valid(v)' <=> Valid(v))
      BY <1>3, <2>2 DEF Valid, IsPublished, Parses
    <3> QED
      BY <3>1 DEF ReadOnce
  <2> QED
    BY <2>1, <2>2
<1>7. ServerOfCity' /\ OwnOutcomes'
  BY <1>1 DEF ServerOfCity, OwnOutcomes, Outcome
<1>8. ReadingsTrue'
  BY <1>1, ReadingsStay
<1> QED
  BY <1>4, <1>5, <1>6, <1>7, <1>8

-------------------------------------------------------------------------------
(* Reading files that can be read adds to what was read of a path only if that *)
(* was nothing.                                                              *)
LEMMA FilesRead ==
  ASSUME SnapshotAssumption, SnapshotInv, UNCHANGED <<file, writer>>,
         served' \in [Versions -> SUBSET Snapshots],
         \A v \in Versions :
           served'[v] = served[v] \/ (Valid(v) /\ served'[v] = served[v] \cup {file[v]})
  PROVE  /\ FilesReviewed' /\ ReadOnce'
         /\ \A v \in Versions : served[v] # {} => served'[v] = served[v]
<1> USE DEF SnapshotInv, FilesInv, SnapshotTypeOK
<1>1. \A v \in Versions : Valid(v)' <=> Valid(v)
  BY DEF Valid, IsPublished, Parses
<1>2. \A v \in Versions : served[v] # {} => served'[v] = served[v]
  <2> SUFFICES ASSUME NEW v \in Versions, served[v] # {} PROVE served'[v] = served[v]
    OBVIOUS
  <2>1. Valid(v) => file[v] \in served[v]
    BY DEF ReadOnce
  <2>2. file[v] \in served[v] => served[v] \cup {file[v]} = served[v]
    OBVIOUS
  <2>3. served'[v] = served[v] \/ (Valid(v) /\ served'[v] = served[v] \cup {file[v]})
    OBVIOUS
  <2> HIDE DEF SnapshotInv, FilesInv, SnapshotTypeOK
  <2> QED
    BY <2>1, <2>2, <2>3
<1>3. ReadOnce'
  <2> SUFFICES ASSUME NEW v \in Versions
      PROVE /\ \A s, t \in served'[v] : s = t
            /\ \A s \in served'[v] : s.version = v /\ Reviewed(s)
            /\ served'[v] # {} => file[v] # Gone
            /\ served'[v] # {} /\ Valid(v) => file[v] \in served'[v]
    BY <1>1 DEF ReadOnce, Reviewed
  <2>1. CASE served'[v] = served[v]
    BY <2>1 DEF ReadOnce
  <2>2. CASE served[v] = {} /\ Valid(v) /\ served'[v] = {file[v]}
    BY <2>2, ReadIsReviewed DEF Valid
  <2> QED
    BY <1>2, <2>1, <2>2
<1>4. FilesReviewed'
  <2>1. writer # Gone => file[writer.path] = Torn /\ writer.path \in Versions
    OBVIOUS
  <2>2. writer # Gone => ~ Valid(writer.path)
    BY <2>1 DEF Valid
  <2> QED
    BY <2>1, <2>2 DEF FilesReviewed, Reviewed
<1> QED
  BY <1>2, <1>3, <1>4

(* What is read never changes the outcomes of intents that have one.            *)
OwnOutcome(row) ==
  row # Gone /\ row.own =>
    /\ served[row.version] # {}
    /\ \A s \in served[row.version] : s.city = City /\ row.outcome = Outcome(s, row)

LEMMA OwnOutcomesAre == OwnOutcomes <=> \A i \in Intents : OwnOutcome(intents[i])
  BY DEF OwnOutcomes, OwnOutcome

LEMMA OutcomesKept ==
  ASSUME OwnOutcomes, intents \in [Intents -> IntentRow \cup {Gone}],
         \A v \in Versions : served[v] # {} => served'[v] = served[v],
         NEW i \in Intents, intents'[i] = intents[i]
  PROVE  OwnOutcome(intents[i])'
<1>1. OwnOutcome(intents[i])
  BY OwnOutcomesAre
<1>2. intents[i] # Gone => intents[i].version \in Versions
  BY DEF IntentRow
<1> QED
  BY <1>1, <1>2 DEF OwnOutcome

(* A process caches what it reads of its settings.                            *)
LEMMA Started ==
  ASSUME SnapshotAssumption, SnapshotInv, NEW versions \in Settings,
         NEW at \in DOMAIN versions, StartAt(versions, at)
  PROVE  SnapshotInv'
<1> USE DEF SnapshotAssumption, SnapshotInv, FilesInv, SnapshotTypeOK, catalogDataVars, Out
<1> DEFINE read == {v \in {versions[k] : k \in 1 .. at} : Valid(v)}
           kept == [v \in read |-> file[v]]
<1>1. versions \in Seq(Versions) /\ at \in 1 .. Len(versions)
  OBVIOUS
<1>2. /\ Acceptable(versions[at])
      /\ server' = [selected |-> versions[at], cache |-> kept]
      /\ served' = [v \in Versions |-> served[v] \cup (IF v \in read THEN {file[v]} ELSE {})]
      /\ UNCHANGED <<file, writer, intents, catalogDataVars>>
  BY DEF StartAt
<1>3. read \subseteq Versions /\ \A v \in read : Valid(v)
  BY <1>1
<1>4. \A v \in read : file[v] \in Snapshots
  BY <1>3, ReadIsReviewed
<1>5. versions[at] \in read /\ file[versions[at]].city = City
  BY <1>1, <1>2 DEF Acceptable
<1> HIDE DEF read
<1>6. served' \in [Versions -> SUBSET Snapshots]
  BY <1>2, <1>4
<1>7. \A v \in Versions :
        served'[v] = served[v] \/ (Valid(v) /\ served'[v] = served[v] \cup {file[v]})
  BY <1>2, <1>3
<1>8. /\ FilesReviewed' /\ ReadOnce'
      /\ \A v \in Versions : served[v] # {} => served'[v] = served[v]
  BY <1>2, <1>6, <1>7, FilesRead
<1>9. kept \in Caches
  BY <1>3, <1>4 DEF Caches
<1>10. /\ server'.selected = versions[at] /\ server'.cache = kept
       /\ server' \in [selected : Versions, cache : Caches]
  <2> HIDE DEF kept
  <2> QED
    BY <1>1, <1>2, <1>3, <1>5, <1>9
<1>11. SnapshotTypeOK'
  <2>1. \A v \in read : v \in Versions /\ kept[v] = file[v] /\ file[v] \in served'[v]
    BY <1>2, <1>3
  <2>2. DOMAIN kept = read
    OBVIOUS
  <2> HIDE DEF kept
  <2> QED
    BY <1>2, <1>5, <1>6, <1>10, <2>1, <2>2
<1>12. ServerOfCity'
  BY <1>5, <1>10 DEF ServerOfCity
<1>13. ReadingsTrue'
  BY <1>2, ReadingsStay
<1>14. OwnOutcomes'
  <2>1. \A i \in Intents : OwnOutcome(intents[i])'
    BY <1>2, <1>8, OutcomesKept
  <2> QED
    BY <2>1 DEF OwnOutcomes, OwnOutcome
<1> QED
  BY <1>8, <1>11, <1>12, <1>13, <1>14

(* An intent is solved with what its process has cached or can read.           *)
LEMMA Executed ==
  ASSUME SnapshotAssumption, SnapshotInv, NEW i \in Intents, Execute(i)
  PROVE  SnapshotInv'
<1> USE DEF SnapshotAssumption, SnapshotInv, FilesInv, SnapshotTypeOK, catalogDataVars, Out
<1> DEFINE v == intents[i].version
           data == Load(server.cache, v)
           own == v = server.selected
           row == [intents[i] EXCEPT !.outcome = Outcome(data, intents[i]), !.own = own]
<1>1. /\ server # Gone /\ intents[i] # Gone
      /\ intents[i].outcome \in {"waiting", "unavailable"}
      /\ intents' = [intents EXCEPT ![i].outcome = Outcome(data, intents[i]), ![i].own = own]
      /\ UNCHANGED <<file, writer, catalogDataVars>>
  BY DEF Execute
<1>2. intents[i] \in IntentRow /\ v \in Versions
  BY <1>1 DEF IntentRow
<1>3. /\ server \in [selected : Versions, cache : Caches]
      /\ server.selected \in DOMAIN server.cache
      /\ \A w \in DOMAIN server.cache : server.cache[w] \in served[w]
  BY <1>1
<1>4. PICK W \in SUBSET Versions : server.cache \in [W -> Snapshots]
  BY <1>3 DEF Caches
<1>5. /\ data \notin {Gone, Torn} => data \in Snapshots
      /\ data \notin {Gone, Torn} => data \in served[v] \/ (Valid(v) /\ data = file[v])
      /\ own => v \in DOMAIN server.cache /\ data = server.cache[v] /\ data \in served[v]
  <2>1. CASE v \in DOMAIN server.cache
    BY <1>2, <1>3, <1>4, <2>1 DEF Load
  <2>2. CASE v \notin DOMAIN server.cache
    BY <1>2, <1>3, <2>2, ReadIsReviewed DEF Load
  <2> QED
    BY <2>1, <2>2
<1>6. row \in IntentRow /\ row.version = v /\ row.ids = intents[i].ids
      /\ row.days = intents[i].days /\ row.own = own /\ row.outcome = Outcome(data, intents[i])
  BY <1>2 DEF IntentRow, Outcome
<1>7. intents' = [intents EXCEPT ![i] = row]
  BY <1>1
<1>8. own => data.city = City /\ data \in Snapshots
  BY <1>1, <1>3, <1>4, <1>5 DEF ServerOfCity
<1>9. /\ served' \in [Versions -> SUBSET Snapshots]
      /\ \A w \in Versions :
           served'[w] = served[w] \/ (Valid(w) /\ served'[w] = served[w] \cup {file[w]})
      /\ data \notin {Gone, Torn} => data \in served'[v]
  <2>1. CASE data \in {Gone, Torn}
    BY <2>1 DEF Execute
  <2>2. CASE data \notin {Gone, Torn}
    <3>1. served' = [served EXCEPT ![v] = @ \cup {data}]
      BY <2>2 DEF Execute
    <3> HIDE DEF data, v
    <3> QED
      BY <1>2, <1>5, <2>2, <3>1
  <2> QED
    BY <2>1, <2>2
<1>10. /\ FilesReviewed' /\ ReadOnce'
       /\ \A w \in Versions : served[w] # {} => served'[w] = served[w]
  BY <1>1, <1>9, FilesRead
<1>11. /\ server' \in [selected : Versions, cache : Caches]
       /\ server'.selected = server.selected
       /\ server.selected \in DOMAIN server'.cache
       /\ server'.cache[server.selected] = server.cache[server.selected]
       /\ \A w \in DOMAIN server'.cache : w \in Versions /\ server'.cache[w] \in served'[w]
  <2>1. CASE data \in {Gone, Torn}
    <3>1. UNCHANGED server
      BY <2>1 DEF Execute
    <3> QED
      BY <1>3, <1>4, <1>10, <3>1
  <2>2. CASE data \notin {Gone, Torn}
    <3> DEFINE new == Keep(server.cache, Only(v, data))
    <3>1. server' = [server EXCEPT !.cache = new]
      BY <2>2 DEF Execute
    <3>2. new = [w \in W \cup {v} |-> IF w \in W THEN server.cache[w] ELSE data]
      BY <1>4 DEF Keep, Only
    <3> HIDE DEF new, data, v
    <3>3. new \in [W \cup {v} -> Snapshots] /\ W \cup {v} \in SUBSET Versions
      BY <1>2, <1>4, <1>5, <2>2, <3>2
    <3>4. new \in Caches
      <4>1. [W \cup {v} -> Snapshots] \in {[X -> Snapshots] : X \in SUBSET Versions}
        BY <3>3
      <4> QED
        BY <3>3, <4>1 DEF Caches
    <3>5. server'.selected = server.selected /\ server'.cache = new
          /\ server' \in [selected : Versions, cache : Caches]
      BY <1>3, <3>1, <3>4
    <3>6. \A w \in W \cup {v} : new[w] \in served'[w]
      <4> SUFFICES ASSUME NEW w \in W \cup {v} PROVE new[w] \in served'[w]
        OBVIOUS
      <4>1. CASE w \in W
        BY <1>3, <1>4, <1>10, <3>2, <4>1
      <4>2. CASE w \notin W
        BY <1>9, <2>2, <3>2, <4>2
      <4> QED
        BY <4>1, <4>2
    <3>7. DOMAIN new = W \cup {v} /\ W \cup {v} \subseteq Versions
          /\ server.selected \in W /\ new[server.selected] = server.cache[server.selected]
      BY <1>3, <1>4, <3>2, <3>3
    <3> QED
      BY <3>5, <3>6, <3>7
  <2> QED
    BY <2>1, <2>2
<1>12. SnapshotTypeOK'
  <2>1. intents' \in [Intents -> IntentRow \cup {Gone}]
    BY <1>6, <1>7
  <2> QED
    BY <1>1, <1>9, <1>11, <2>1
<1>13. ServerOfCity'
  BY <1>1, <1>11 DEF ServerOfCity
<1>14. OwnOutcomes'
  <2> SUFFICES ASSUME NEW j \in Intents, intents'[j] # Gone, intents'[j].own
      PROVE /\ served'[intents'[j].version] # {}
            /\ \A s \in served'[intents'[j].version] :
                 s.city = City /\ intents'[j].outcome = Outcome(s, intents'[j])
    BY DEF OwnOutcomes, Outcome
  <2>1. CASE j = i
    <3>1. intents'[j] = row /\ own
      BY <1>6, <1>7, <2>1
    <3>2. served'[v] = served[v] /\ data \in served[v] /\ \A s \in served[v] : s = data
      BY <1>2, <1>5, <1>10, <3>1 DEF ReadOnce
    <3>3. Outcome(data, row) = Outcome(data, intents[i])
      BY <1>6 DEF Outcome
    <3> QED
      BY <1>6, <1>8, <3>1, <3>2, <3>3
  <2>2. CASE j # i
    <3>1. intents'[j] = intents[j] /\ intents[j] \in IntentRow /\ intents[j].version \in Versions
      BY <1>7, <2>2 DEF IntentRow
    <3> QED
      BY <1>10, <3>1 DEF OwnOutcomes
  <2> QED
    BY <2>1, <2>2
<1>15. ReadingsTrue'
  BY <1>1, ReadingsStay
<1> QED
  BY <1>10, <1>12, <1>13, <1>14, <1>15

LEMMA Preserved ==
  ASSUME SnapshotAssumption
  PROVE  SnapshotInv /\ [SnapshotNext \/ CatalogDataNext]_snapshotVars => SnapshotInv'
<1> SUFFICES ASSUME SnapshotInv, [SnapshotNext \/ CatalogDataNext]_snapshotVars
             PROVE  SnapshotInv'
  OBVIOUS
<1> USE DEF SnapshotInv, FilesInv, SnapshotTypeOK, catalogDataVars, fileVars
<1>1. ASSUME NEW path \in Versions, NEW v \in Versions, NEW city \in Cities, NEW x \in Inputs,
             Publish(path, v, city, x)
      PROVE  SnapshotInv'
  <2> DEFINE s == Snapshot("published", v, city, x)
  <2>1. s \in Snapshots /\ Reviewed(s)
    BY <1>1, SnapshotMade DEF Publish, Publishable, Reviewed
  <2> HIDE DEF s
  <2> QED
    BY <1>1, <2>1, Opened DEF Publish, OpenNew, s
<1>2. ASSUME NEW path \in Versions, NEW v \in Versions, NEW city \in Cities, NEW x \in Inputs,
             Draft(path, v, city, x)
      PROVE  SnapshotInv'
  <2> DEFINE s == Snapshot("candidate", v, city, x)
  <2>1. s \in Snapshots /\ s.status = "candidate"
    BY SnapshotMade
  <2>2. /\ writer = Gone /\ file' = [file EXCEPT ![path] = Torn]
        /\ writer' = [path |-> path, snapshot |-> s]
        /\ UNCHANGED <<server, intents, served, catalogDataVars>>
    BY <1>2 DEF Draft
  <2> HIDE DEF s
  <2> QED
    BY <2>1, <2>2, Opened
<1>3. CASE Written
  BY <1>3, Finished
<1>4. CASE Killed
  BY <1>4, ReadingsStay DEF Killed, FilesReviewed, Reviewed, ReadOnce, Valid, IsPublished, Parses, ServerOfCity,
     OwnOutcomes, Outcome, Out
<1>5. ASSUME NEW versions \in Settings, StartServer(versions) PROVE SnapshotInv'
  BY <1>5, Started DEF StartServer
<1>6. CASE Stop
  BY <1>6, ReadingsStay DEF Stop, FilesReviewed, Reviewed, ReadOnce, Valid, IsPublished, Parses, ServerOfCity,
     OwnOutcomes, Outcome, Out
<1>7. ASSUME NEW i \in Intents, NEW x \in Inputs, NEW y \in Inputs, SubmitIntent(i, x.ids, y.days)
      PROVE  SnapshotInv'
  <2> DEFINE row == [version |-> server.selected, ids |-> x.ids, days |-> y.days,
                     outcome |-> "waiting", own |-> FALSE]
  <2>1. server # Gone /\ intents' = [intents EXCEPT ![i] = row]
        /\ UNCHANGED <<file, writer, server, served, catalogDataVars>>
    BY <1>7 DEF SubmitIntent
  <2>2. row \in IntentRow /\ row.own = FALSE
    BY <2>1 DEF IntentRow
  <2>3. \A j \in Intents : intents'[j] = IF j = i THEN row ELSE intents[j]
    BY <2>1
  <2> HIDE DEF row
  <2>4. intents' \in [Intents -> IntentRow \cup {Gone}]
    BY <2>1, <2>2
  <2>5. OwnOutcomes'
    <3> SUFFICES ASSUME NEW j \in Intents PROVE OwnOutcome(intents[j])'
      BY DEF OwnOutcomes, OwnOutcome
    <3>1. CASE j = i
      BY <2>2, <2>3, <3>1 DEF OwnOutcome
    <3>2. CASE j # i
      BY <2>1, <2>3, <3>2, OutcomesKept
    <3> QED
      BY <3>1, <3>2
  <2> QED
    BY <2>1, <2>4, <2>5, ReadingsStay DEF FilesReviewed, Reviewed, ReadOnce, Valid, IsPublished, Parses,
       ServerOfCity, Out
<1>8. ASSUME NEW i \in Intents, Execute(i) PROVE SnapshotInv'
  BY <1>8, Executed
<1>9. ASSUME UNCHANGED fileVars PROVE FilesInv'
  BY <1>9 DEF FilesReviewed, Reviewed, ReadOnce, Valid, IsPublished, Parses, ServerOfCity,
     OwnOutcomes, Outcome
<1>10. ASSUME NEW p \in Places, PublishPlace(p) PROVE SnapshotInv'
  <2>1. catalog' = [catalog EXCEPT ![p] = @ + 1] /\ verdicts' = [verdicts EXCEPT ![p] = "whole"]
        /\ catalog[p] < MaxRevision
        /\ UNCHANGED <<fileVars, promised, dayNow, process, loaded, readings>>
    BY <1>10 DEF PublishPlace
  <2>2. catalog' \in [Places -> 0 .. MaxRevision] /\ verdicts' \in [Places -> Shown]
    BY <2>1 DEF SnapshotAssumption, Shown
  <2>3. \A q \in Places \ Out' : verdicts'[q] = "whole"
    BY <2>1 DEF Out
  <2>4. ReadingsTrue'
    BY <2>1 DEF ReadingsTrue, AsPromised
  <2> QED
    BY <1>9, <2>1, <2>2, <2>3, <2>4
<1>11. ASSUME NEW p \in Places, NEW shown \in Shown, LateVerdict(p, shown) PROVE SnapshotInv'
  <2>1. catalog[p] # 0 /\ verdicts' = [verdicts EXCEPT ![p] = shown]
        /\ UNCHANGED <<fileVars, catalog, promised, dayNow, process, loaded, readings>>
    BY <1>11 DEF LateVerdict
  <2>2. verdicts' \in [Places -> Shown] /\ \A q \in Places \ Out' : verdicts'[q] = "whole"
    BY <2>1 DEF Out
  <2>3. ReadingsTrue'
    BY <2>1 DEF ReadingsTrue, AsPromised
  <2> QED
    BY <1>9, <2>1, <2>2, <2>3
<1>12. ASSUME NEW v, Promise(v) PROVE SnapshotInv'
  BY <1>9, <1>12 DEF Promise, ReadingsTrue, AsPromised, Out
<1>13. ASSUME NEW v \in promised, LoadCatalog(v) PROVE SnapshotInv'
  <2>1. /\ v \in DOMAIN loaded \/ v = BuiltIn \/ v = CatalogVersion
        /\ loaded' = Keep(loaded, Only(v, Rows(v)))
        /\ readings' =
             readings \cup {[version |-> v, process |-> process.number, data |-> Answered(v)]}
        /\ UNCHANGED <<fileVars, catalog, verdicts, promised, dayNow, process>>
    BY <1>13 DEF LoadCatalog, Current
  <2>2. /\ DOMAIN loaded' = DOMAIN loaded \cup {v}
        /\ \A w \in DOMAIN loaded : loaded'[w] = loaded[w]
        /\ loaded'[v] = Answered(v)
    BY <2>1 DEF Keep, Only, Answered
  <2>3. AsPromised(v, Answered(v))
    <3>1. CASE v \in DOMAIN loaded
      BY <3>1 DEF ReadingsTrue, Answered
    <3>2. CASE v \notin DOMAIN loaded /\ v # BuiltIn
      <4>1. v = CatalogVersion /\ Answered(v) = Rows(v)
        BY <2>1, <3>2 DEF Answered
      <4>2. \A p \in DOMAIN Rows(v).places : p \in Out /\ Rows(v).places[p][1] = catalog[p]
        BY <3>2 DEF Rows, Usable
      <4> QED
        BY <4>1, <4>2 DEF AsPromised, CatalogVersion
    <3> QED
      BY <3>1, <3>2 DEF AsPromised
  <2> DEFINE new == [version |-> v, process |-> process.number, data |-> Answered(v)]
  <2>4. /\ new.version = v /\ new.process = process.number /\ new.data = Answered(v)
        /\ readings' = readings \cup {new}
    BY <2>1
  <2> HIDE DEF new
  <2>5. ReadingsTrue'
    <3>1. \A x \in readings' :
            /\ x.process \in Nat /\ x.process <= process.number
            /\ AsPromised(x.version, x.data)
            /\ x.process = process.number =>
                 x.version \in DOMAIN loaded' /\ x.data = loaded'[x.version]
      BY <2>2, <2>3, <2>4 DEF ReadingsTrue
    <3>2. \A x, y \in readings' :
            x.version = y.version /\ x.process = y.process => x.data = y.data
      <4> SUFFICES ASSUME NEW x \in readings', NEW y \in readings', x.version = y.version,
                          x.process = y.process
                   PROVE  x.data = y.data
        OBVIOUS
      <4>1. CASE x \in readings /\ y \in readings
        BY <4>1 DEF ReadingsTrue
      <4>2. CASE x = new \/ y = new
        BY <2>4, <3>1, <4>2
      <4> QED
        BY <2>4, <4>1, <4>2
    <3>3. \A w \in DOMAIN loaded' : AsPromised(w, loaded'[w])
      BY <2>2, <2>3 DEF ReadingsTrue
    <3> QED
      BY <2>1, <3>1, <3>2, <3>3 DEF ReadingsTrue, AsPromised
  <2>6. DOMAIN loaded' \subseteq promised'
    BY <2>1, <2>2
  <2> QED
    BY <1>9, <2>1, <2>5, <2>6 DEF Out
<1>14. CASE NextDay
  BY <1>9, <1>14 DEF NextDay, ReadingsTrue, AsPromised, Out, SnapshotAssumption
<1>15. CASE Restart
  <2>1. /\ process.number < MaxProcess
        /\ process' = [number |-> process.number + 1, began |-> dayNow] /\ loaded' = Empty
        /\ UNCHANGED <<fileVars, catalog, verdicts, promised, dayNow, readings>>
    BY <1>15 DEF Restart
  <2>2. process'.number = process.number + 1 /\ process'.began = dayNow /\ DOMAIN loaded' = {}
    BY <2>1 DEF Empty
  <2>3. ReadingsTrue'
    BY <2>1, <2>2 DEF ReadingsTrue, AsPromised, SnapshotAssumption
  <2> QED
    BY <1>9, <2>1, <2>2, <2>3 DEF Out, SnapshotAssumption
<1>16. CASE UNCHANGED snapshotVars
  BY <1>9, <1>16, ReadingsStay DEF snapshotVars, Out
<1> QED
  BY <1>1, <1>2, <1>3, <1>4, <1>5, <1>6, <1>7, <1>8, <1>10, <1>11, <1>12, <1>13, <1>14, <1>15, <1>16
     DEF SnapshotNext, CatalogDataNext

-------------------------------------------------------------------------------
LEMMA AtMostOne ==
  ASSUME NEW S, \A x, y \in S : x = y
  PROVE  Cardinality(S) <= 1
<1>1. CASE S = {}
  BY <1>1, FS_EmptySet
<1>2. CASE S # {}
  <2>1. PICK x : S = {x}
    BY <1>2
  <2> QED
    BY <2>1, FS_Singleton
<1> QED
  BY <1>1, <1>2

(* Files, what processes have read of them and intents keep their types.       *)
THEOREM SnapshotTypes ==
  ASSUME SnapshotAssumption
  PROVE  SnapshotSpec => []SnapshotTypeOK
<1>1. SnapshotInv => SnapshotTypeOK
  BY DEF SnapshotInv
<1> QED
  BY <1>1, InitHolds, Preserved, PTL DEF SnapshotSpec

(* Files that scripts write and a process reads, and a catalog that goes on:   *)
(* a version of files is one content wherever it was read, all of it reviewed,  *)
(* and the intents of a process are solved with it whatever becomes of the     *)
(* file.  A version of the catalog is one content within a process; what any   *)
(* process shows of it are the revisions that were out when it was promised.   *)
THEOREM DataIsServed ==
  ASSUME SnapshotAssumption
  PROVE  SnapshotSpec => []SnapshotsServe
<1>1. ASSUME SnapshotInv PROVE SnapshotsServe
  <2> USE <1>1 DEF SnapshotInv, FilesInv, SnapshotTypeOK
  <2>1. VersionIsOneContent
    BY AtMostOne DEF VersionIsOneContent, ReadOnce
  <2>2. PromisedIsServed
    <3> SUFFICES ASSUME NEW i \in Intents, intents[i] # Gone, intents[i].own,
                        NEW s \in served[intents[i].version],
                        intents[i].ids \subseteq s.input.ids, intents[i].days \subseteq s.input.days
                 PROVE  intents[i].outcome = "solved"
      BY DEF PromisedIsServed
    <3>1. s.city = City /\ intents[i].outcome = Outcome(s, intents[i])
      BY DEF OwnOutcomes
    <3>2. s \in Snapshots
      BY DEF IntentRow
    <3> QED
      BY <3>1, <3>2 DEF Outcome, SnapshotAssumption
  <2>3. ServedIsReviewed
    BY DEF ServedIsReviewed, ReadOnce, Reviewed
  <2>4. CatalogIsAsPromised
    BY DEF CatalogIsAsPromised, ReadingsTrue, AsPromised
  <2> QED
    BY <2>1, <2>2, <2>3, <2>4 DEF SnapshotsServe
<1> QED
  BY <1>1, InitHolds, Preserved, PTL DEF SnapshotSpec
-------------------------------------------------------------------------------
(* OpeningTimes.                                                             *)

(* The evidence of a place, of any rules and exceptions the catalog takes in.  *)
UnsetMinutes == Minutes \cup {Unset}
IsEvidence(e) ==
  /\ e.always \in BOOLEAN
  /\ \A r \in e.rules : {r.start, r.end, r.last} \subseteq UnsetMinutes /\ AcceptedRule(r)

(* A clock shows the minutes of a day.                                         *)
LEMMA ClockShows ==
  ASSUME NEW m \in Minutes
  PROVE  /\ m % DayMinutes \in 0 .. DayMinutes - 1
         /\ m < DayMinutes => m % DayMinutes = m
         /\ m >= DayMinutes /\ m < 2 * DayMinutes => m % DayMinutes = m - DayMinutes
<1>1. DayMinutes = 1440 /\ m \in Nat
  BY DEF Minutes, DayMinutes
<1>2. m % 1440 \in 0 .. 1439
  BY <1>1
<1>3. m < 1440 => m % 1440 = m
  BY <1>1
<1>4. m >= 1440 /\ m < 2880 => m % 1440 = m - 1440
  BY <1>1
<1> QED
  BY <1>1, <1>2, <1>3, <1>4

(* The hours of a rule are less than a day apart, its last entry between.      *)
LEMMA RuleIsADay ==
  ASSUME Unset \notin Int, NEW t, {t.start, t.end} \subseteq Minutes, t.last \in UnsetMinutes,
         NEW w \in YearRule(t)
  PROVE  /\ w.start \in Int /\ w.end \in Int /\ w.start < w.end /\ w.end - w.start <= DayMinutes
         /\ w.last = Unset \/ (w.last \in Int /\ w.start <= w.last /\ w.last <= w.end)
<1> DEFINE open == Clock(t.start)
           close == Clock(t.end)
           last == Clock(t.last)
           crosses == Crosses(t.end)
           end == IF close <= open THEN close + DayMinutes ELSE close
           until == IF last # Unset /\ crosses /\ last < open THEN last + DayMinutes ELSE last
<1>1. open \in 0 .. DayMinutes - 1 /\ close \in 0 .. DayMinutes - 1
  BY ClockShows DEF Clock, Minutes
<1>2. last = Unset \/ last \in Int
  BY ClockShows DEF Clock, UnsetMinutes
<1>3. w = Hours(open, end, until) /\ (until # Unset => open <= until /\ until <= end)
  BY DEF YearRule, FromStrings
<1> HIDE DEF open, close, last, crosses
<1>4. /\ end \in Int /\ open < end /\ end - open <= DayMinutes
      /\ until = Unset \/ until \in Int
  BY <1>1, <1>2 DEF DayMinutes
<1> HIDE DEF end, until
<1> QED
  BY <1>1, <1>3, <1>4 DEF Hours

(* The lesser and the greater of two numbers.                                  *)
LEMMA OfTwo ==
  ASSUME NEW a \in Int, NEW b \in Int
  PROVE  /\ Min({a, b}) = (IF a <= b THEN a ELSE b)
         /\ Max({a, b}) = (IF a >= b THEN a ELSE b)
<1>1. \E x \in {a, b} : \A y \in {a, b} : x <= y
  OBVIOUS
<1>2. \E x \in {a, b} : \A y \in {a, b} : x >= y
  OBVIOUS
<1> QED
  BY <1>1, <1>2 DEF Min, Max

(* What may be visited lies within the window.                                 *)
LEMMA VisitFits ==
  ASSUME Unset \notin Int, NEW w, w.start \in Int, w.end \in Int,
         w.last = Unset \/ (w.last \in Int /\ w.last <= w.end),
         NEW n \in Nat, NEW m \in Int, NEW v \in Visits(w, n, m)
  PROVE  /\ m <= v.at /\ w.start <= v.at /\ v.leave <= w.end
         /\ w.last # Unset => v.at <= w.last
         /\ 5 * (v.leave - v.at) >= 3 * n
<1> DEFINE at == IF m >= w.start THEN m ELSE w.start
           by == IF w.last = Unset THEN w.end ELSE w.last
           need == Required(n)
           rest == w.end - at
           stay == IF n <= rest THEN n ELSE rest
<1>1. need \in Nat /\ 5 * need >= 3 * n
  BY DEF Required
<1> HIDE DEF need
<1>2. at \in Int /\ m <= at /\ w.start <= at /\ by \in Int /\ by <= w.end
  OBVIOUS
<1>3. Max({m, w.start}) = at
  BY OfTwo
<1>4. Min({by, w.end - need}) = IF by <= w.end - need THEN by ELSE w.end - need
  BY <1>1, <1>2, OfTwo
<1>5. rest \in Int /\ Min({n, rest}) = stay
  BY <1>2, OfTwo
<1>6. /\ ~ (at > Min({by, w.end - need}))
      /\ v = [at |-> at, leave |-> at + Min({n, rest})]
  BY <1>3 DEF Visits, LatestArrival, need
<1>7. at <= by /\ at <= w.end - need /\ v.at = at /\ v.leave = at + stay
  BY <1>1, <1>2, <1>4, <1>5, <1>6
<1> HIDE DEF at, by
<1>8. stay \in Int /\ stay <= rest /\ 5 * stay >= 3 * n
  BY <1>1, <1>2, <1>5, <1>7
<1> HIDE DEF stay
<1> QED
  BY <1>2, <1>7, <1>8 DEF by

(* Whatever the evidence, how long a visit is meant to be and when one arrives, *)
(* what evaluate_arrival (solver/time_windows.py) permits lies within hours of  *)
(* a day at most, begins by the last entry and lasts three fifths of that.     *)
THEOREM VisitsLieInside ==
  ASSUME Unset \notin Int, NEW e, IsEvidence(e), NEW durations \in SUBSET Nat,
         NEW arrivals \in SUBSET Int
  PROVE  VisitsStayInside(e, durations, arrivals)
<1> SUFFICES ASSUME NEW d \in Dates, NEW n \in durations, NEW m \in arrivals,
                    NEW w \in SolverHours(e, d)
             PROVE  /\ w.end - w.start <= DayMinutes
                    /\ \A v \in Visits(w, n, m) :
                         /\ m <= v.at /\ w.start <= v.at /\ v.leave <= w.end
                         /\ w.last # Unset => v.at <= w.last
                         /\ 5 * (v.leave - v.at) >= 3 * n
  BY DEF VisitsStayInside
<1>1. /\ w.start \in Int /\ w.end \in Int /\ w.end - w.start <= DayMinutes
      /\ w.last = Unset \/ (w.last \in Int /\ w.last <= w.end)
  <2>1. CASE w = AllDay
    BY <2>1 DEF AllDay, Hours, DayMinutes
  <2>2. CASE w # AllDay
    <3>1. w \in AttractionOf(e).rules
      BY <2>2 DEF SolverHours, EffectiveWindow
    <3>2. PICK t \in Triples(e) : w \in YearRule(t)
      BY <3>1 DEF AttractionOf
    <3>3. {t.start, t.end} \subseteq Minutes /\ t.last \in UnsetMinutes
      BY DEF Triples, Hours, IsEvidence, UnsetMinutes
    <3> QED
      BY <3>2, <3>3, RuleIsADay
  <2> QED
    BY <2>1, <2>2
<1> QED
  BY <1>1, VisitFits

(* A record that passes the data rules (data_validation.py) is loaded unless it *)
(* crosses midnight, and two of one place never speak of the same day.         *)
Record == [from : Nat, to : Nat, open : Minutes, close : Minutes, last : UnsetMinutes,
           crosses : BOOLEAN]
THEOREM RecordsLoad ==
  ASSUME Unset \notin Int, NEW r \in Record, NEW q \in Record, NEW year \in Nat
  PROVE  ValidatedLoads(r, q, year)
<1> SUFFICES ASSUME RulesPass(r, q, year) PROVE ValidatedLoads(r, q, year)
  BY DEF ValidatedLoads
<1>1. ASSUME NEW x \in {r, q} PROVE (JsonRule(x) # {}) = ~ x.crosses
  <2>1. TimeOrdered(x) /\ LastEntryOrdered(x)
    BY <1>1 DEF RulesPass
  <2>2. /\ x.open \in Int /\ x.close \in Int /\ x.last \in Int \cup {Unset}
        /\ x.crosses \in BOOLEAN
    BY <1>1 DEF Record, Minutes, UnsetMinutes
  <2>3. CASE x.crosses
    BY <2>1, <2>2, <2>3 DEF TimeOrdered, JsonRule, FromStrings
  <2>4. CASE ~ x.crosses
    BY <2>1, <2>2, <2>4 DEF TimeOrdered, LastEntryOrdered, JsonRule, FromStrings
  <2> QED
    BY <2>3, <2>4
<1>2. ASSUME NEW day \in 1 .. year, MatchesDay(r, day), MatchesDay(q, day) PROVE FALSE
  <2>1. \A x \in {r, q} : x.from \in Nat /\ x.to \in Nat
    BY DEF Record
  <2>2. day \in RangeDays(r, year) /\ day \in RangeDays(q, year)
    BY <1>2, <2>1 DEF MatchesDay, RangeDays
  <2> QED
    BY <2>2 DEF RulesPass, Overlapping
<1> QED
  BY <1>1, <1>2 DEF ValidatedLoads
(* Regular hours survive the way through the clock.                            *)
LEMMA RegularHoursLoad ==
  ASSUME Unset \notin Int, NEW start \in Minutes, NEW end \in Minutes, NEW last \in UnsetMinutes,
         start < end, Regular(Hours(start, end, last))
  PROVE  YearRule(Hours(start, end, last)) = {Hours(start, end, last)}
<1> DEFINE t == Hours(start, end, last)
           close == Clock(end)
           crosses == Crosses(end)
           till == Clock(last)
           until == IF till # Unset /\ crosses /\ till < start THEN till + DayMinutes ELSE till
<1>1. /\ t.start = start /\ t.end = end /\ t.last = last /\ DayMinutes = 1440
      /\ start \in Nat /\ end \in Nat /\ last \in Nat \cup {Unset} /\ Unset \notin Nat
  BY DEF Hours, Minutes, UnsetMinutes, DayMinutes
<1>2. /\ start < DayMinutes /\ end <= start + DayMinutes
      /\ last = Unset \/ (start <= last /\ last <= end)
      /\ last # Unset /\ end >= DayMinutes => last < start + DayMinutes
  BY <1>1 DEF Regular
<1>3. Clock(start) = start
  BY <1>1, <1>2, ClockShows DEF Clock
<1>4. /\ close = IF end >= DayMinutes THEN end - DayMinutes ELSE end
      /\ crosses = (end >= DayMinutes)
      /\ crosses <=> end >= DayMinutes
  BY <1>1, <1>2, ClockShows DEF Clock, Crosses
<1>5. last # Unset => last \in Minutes
  BY DEF UnsetMinutes
<1>6. till = IF last = Unset THEN Unset ELSE IF last >= DayMinutes THEN last - DayMinutes ELSE last
  BY <1>1, <1>2, <1>5, ClockShows DEF Clock
<1> HIDE DEF close, crosses, till
<1>7. until = last
  <2>1. CASE last = Unset
    BY <1>6, <2>1
  <2>2. CASE last # Unset
    <3>1. /\ last \in Nat /\ start <= last /\ last <= end /\ till # Unset
          /\ till = IF last >= 1440 THEN last - 1440 ELSE last
      BY <1>1, <1>2, <1>6, <2>2
    <3>2. CASE crosses
      <4>1. last < start + 1440
        BY <1>1, <1>2, <1>4, <2>2, <3>2
      <4>2. IF last >= 1440 THEN till < start ELSE ~ (till < start)
        BY <1>1, <3>1, <4>1
      <4>3. CASE last >= 1440
        <5>1. until = till + DayMinutes
          BY <3>1, <3>2, <4>2, <4>3
        <5> QED
          BY <1>1, <3>1, <4>3, <5>1
      <4>4. CASE ~ (last >= 1440)
        BY <3>1, <4>2, <4>4
      <4> QED
        BY <4>3, <4>4
    <3>3. CASE ~ crosses
      <4>1. until = till
        BY <3>3
      <4>2. ~ (end >= 1440)
        BY <1>1, <1>4, <3>3
      <4> HIDE DEF until
      <4> QED
        BY <1>1, <3>1, <4>1, <4>2
    <3> QED
      BY <3>2, <3>3
  <2> QED
    BY <2>1, <2>2
<1>8. /\ (close <= start) = crosses
      /\ (IF close <= start THEN close + DayMinutes ELSE close) = end
  <2>1. (close <= start) <=> (end >= DayMinutes)
    BY <1>1, <1>2, <1>4
  <2>2. (close <= start) = (end >= DayMinutes)
    BY <2>1
  <2>3. crosses = (end >= DayMinutes)
    BY <1>4
  <2>4. (IF close <= start THEN close + DayMinutes ELSE close) = end
    BY <1>1, <1>2, <1>4
  <2> QED
    BY <2>2, <2>3, <2>4
<1>9. YearRule(t) = FromStrings(start, close, till, crosses)
  BY <1>1, <1>3 DEF YearRule, close, till, crosses
<1> HIDE DEF until
<1>10. FromStrings(start, close, till, crosses)
         = IF /\ (close <= start) = crosses
              /\ until # Unset => start <= until /\ until <= end
           THEN {Hours(start, end, until)} ELSE {}
  BY <1>8 DEF FromStrings, until
<1> QED
  BY <1>2, <1>7, <1>8, <1>9, <1>10

(* The hours of typical evidence are one set.                                  *)
LEMMA TypicalHours ==
  ASSUME Unset \notin Int, NEW e, IsEvidence(e), Typical(e), ~ e.always
  PROVE  \E t : /\ Triples(e) = {t} /\ YearRule(t) = {t} /\ t.end # Unset
                /\ \A r \in e.rules :
                     /\ r.kind = "opening_hours" /\ r.end # Unset
                     /\ Hours(r.start, r.end, r.last) = t
                     /\ r.from = Unset /\ r.to = Unset
                /\ \A x \in e.exceptions :
                     \/ x.kind = "closed"
                     \/ x.kind = "open_override" /\ Hours(x.start, x.end, x.last) = t
<1>1. PICK t \in Triples(e) :
        /\ Regular(t)
        /\ \A r \in e.rules :
             /\ r.kind = "opening_hours" /\ Hours(r.start, r.end, r.last) = t
             /\ r.from = Unset /\ r.to = Unset
        /\ \A x \in e.exceptions :
             \/ x.kind = "closed"
             \/ x.kind = "open_override" /\ Hours(x.start, x.end, x.last) = t
  BY DEF Typical
<1>2. Triples(e) = {t}
  BY <1>1 DEF Triples
<1>3. PICK r \in e.rules : r.start # Unset /\ r.end # Unset /\ t = Hours(r.start, r.end, r.last)
  BY <1>1 DEF Triples
<1>4. {r.start, r.end} \subseteq Minutes /\ r.last \in UnsetMinutes /\ r.start < r.end
  BY <1>3 DEF IsEvidence, UnsetMinutes, AcceptedRule, Ordered
<1>5. YearRule(t) = {t}
  BY <1>1, <1>3, <1>4, RegularHoursLoad
<1>6. t.end # Unset
  BY <1>1 DEF Regular
<1>7. ASSUME NEW q \in e.rules PROVE q.end # Unset
  BY <1>1, <1>6 DEF Hours
<1> QED
  BY <1>1, <1>2, <1>5, <1>6, <1>7

(* What the reviewer is shown (review.py preview_time) are the hours the solver  *)
(* gets from the catalog (database_published.py, time_windows.py), for any      *)
(* typical evidence and on any date, past midnight too.                        *)
THEOREM PreviewsAreSolved ==
  ASSUME Unset \notin Int, NEW e, IsEvidence(e)
  PROVE  PreviewIsSolved(e)
<1> SUFFICES ASSUME Typical(e)
             PROVE  Loads(e) /\ \A d \in Dates : Preview(e, d) = SolverHours(e, d)
  BY DEF PreviewIsSolved
<1> DEFINE a == AttractionOf(e)
<1>1. /\ a.closeDays = e.closures /\ a.always = e.always
      /\ a.openOn = ExceptionDates(e, "open_override") /\ a.closedOn = ExceptionDates(e, "closed")
      /\ a.rules = UNION {YearRule(t) : t \in Triples(e)}
  BY DEF AttractionOf
<1> HIDE DEF a
<1>2. \A x, y \in e.exceptions : x.date = y.date => x = y
  BY DEF Typical
<1>3. ExceptionDates(e, "open_override") \cap ExceptionDates(e, "closed") = {}
  BY <1>2 DEF ExceptionDates
<1>4. CASE e.always
  <2>1. e.rules = {} /\ e.exceptions = {} /\ e.closures = {}
    BY <1>4 DEF Typical
  <2>2. Loads(e)
    BY <1>3, <2>1 DEF Loads, Triples
  <2>3. ASSUME NEW d \in Dates PROVE Preview(e, d) = SolverHours(e, d)
    <3>1. IsOpenOn(a, d)
      BY <1>1, <2>1 DEF IsOpenOn, ExceptionDates
    <3>2. SolverHours(e, d) = {AllDay}
      BY <1>1, <1>4, <3>1 DEF SolverHours, EffectiveWindow, a
    <3> QED
      BY <1>4, <3>2 DEF Preview
  <2> QED
    BY <2>2, <2>3
<1>5. CASE ~ e.always
  <2>1. PICK t : /\ Triples(e) = {t} /\ YearRule(t) = {t} /\ t.end # Unset
                 /\ \A r \in e.rules :
                      /\ r.kind = "opening_hours" /\ r.end # Unset
                      /\ Hours(r.start, r.end, r.last) = t
                      /\ r.from = Unset /\ r.to = Unset
                 /\ \A x \in e.exceptions :
                      \/ x.kind = "closed"
                      \/ x.kind = "open_override" /\ Hours(x.start, x.end, x.last) = t
    BY <1>5, TypicalHours
  <2>2. Loads(e)
    BY <1>3, <2>1 DEF Loads
  <2>3. a.rules = {t}
    BY <1>1, <2>1
  <2>4. EffectiveWindow(a) = {t}
    <3>1. Cardinality({t}) = 1
      BY FS_Singleton
    <3> QED
      BY <1>1, <1>5, <2>3, <3>1 DEF EffectiveWindow
  <2>5. ASSUME NEW d \in Dates PROVE Preview(e, d) = SolverHours(e, d)
    <3> DEFINE on(kind) == {x \in e.exceptions : x.date = d /\ x.kind = kind}
    <3>1. SolverHours(e, d) = IF IsOpenOn(a, d) THEN {t} ELSE {}
      BY <2>4 DEF SolverHours, a
    <3>2. /\ d \in a.closedOn <=> on("closed") # {}
          /\ d \in a.openOn <=> on("open_override") # {}
          /\ on("session_override") = {}
      BY <1>1, <2>1 DEF ExceptionDates
    <3>3. Preview(e, d) =
            IF on("closed") # {} THEN {}
            ELSE IF on("open_override") # {}
                 THEN {Hours(x.start, x.end, x.last) : x \in on("open_override")}
            ELSE IF Weekday(d) \in e.closures THEN {} ELSE WeekHours(e, d)
      BY <1>5, <3>2 DEF Preview
    <3>4. on("open_override") # {} =>
            {Hours(x.start, x.end, x.last) : x \in on("open_override")} = {t}
      BY <2>1
    <3>5. Weekday(d) \notin e.closures => WeekHours(e, d) = {t}
      <4> DEFINE today == {r \in e.rules : MatchesOn(r, d)}
                 opening == {r \in today : r.kind = "opening_hours"}
                 first == {q.last : q \in {q \in today : q.kind = "last_entry"}}
      <4>1. first = {} /\ opening = today
        BY <2>1
      <4>2. WeekHours(e, d) = {Hours(r.start, r.end, r.last) : r \in today}
        <5>1. WeekHours(e, d) =
                {Hours(r.start, IF r.end = Unset THEN DayMinutes ELSE r.end,
                       IF last = Unset THEN r.last ELSE last) :
                 r \in opening, last \in IF first = {} THEN {Unset} ELSE first}
          BY DEF WeekHours
        <5>2. \A r \in today : r.end # Unset
          BY <2>1
        <5> HIDE DEF today, opening, first
        <5> QED
          BY <4>1, <5>1, <5>2
      <4>3. ASSUME Weekday(d) \notin e.closures PROVE today # {}
        <5>1. PICK r \in e.rules : Weekday(d) \in r.weekdays
          BY <1>5, <4>3 DEF Typical
        <5> QED
          BY <2>1, <5>1 DEF MatchesOn
      <4> QED
        BY <2>1, <4>2, <4>3
    <3> HIDE DEF on
    <3> QED
      BY <1>1, <3>1, <3>2, <3>3, <3>4, <3>5 DEF IsOpenOn
  <2> QED
    BY <2>2, <2>5
<1> QED
  BY <1>4, <1>5

-------------------------------------------------------------------------------
(* RouteSnapshot.                                                            *)

(* Routes that were fresh when they were taken, and what is made of them.      *)
Taken == {r \in Cached : r.used - r.fetched < Lifetime}
Excuses == {FallbackReason(failed) : failed \in SUBSET Failures}
Outcomes == [basis : {"gaode"}, route : Taken] \cup [basis : {"approximate"}, reason : Excuses]

BuildSteps == {"look", "ask", "drop", "set", "open", "fill", "rename"}
Ticks == 0 .. Horizon
PairNumbers == 1 .. Pairs
Turns == 1 .. Len(Modes)
Files == {"none", "spare", "cache"}
Gots == Cached \cup {Missing}
Gathered == SUBSET Taken
Failed == SUBSET Failures
ResultLists == Seq(Outcomes)
UnderWay ==
  [at : BuildSteps, read : Ticks, pair : PairNumbers, turn : Turns, mem : RouteCaches,
   file : Files, got : Gots, routes : Gathered, failed : Failed, results : ResultLists]
AtEnd == [at : {"done"}, results : ResultLists]
BuildRows == UnderWay \cup {Off} \cup AtEnd

RouteTypes ==
  /\ store \in {"json", "redis"} /\ clock \in Ticks /\ sideBySide \in BOOLEAN
  /\ cache \in RouteCaches \cup {Partial} /\ spare \in RouteCaches \cup {Missing, Partial}
  /\ build \in [Builders -> BuildRows]
  /\ latest \in [Keys -> Cached \cup {Missing}]

(* Redis keeps an entry until it has expired.                                  *)
RedisKeeps ==
  store = "redis" =>
    cache \in RouteCaches /\ \A k \in DOMAIN cache : Expires(cache[k]) <= cache[k].kept

(* What a build holds besides its entries.                                     *)
BuildFits(b) ==
  Running(b) =>
    /\ store = "json" => build[b].at \notin {"drop", "set"}
    /\ store = "redis" => build[b].at \notin {"open", "fill", "rename"}
    /\ build[b].read <= clock
    /\ build[b].at \in {"look", "ask", "drop"} => build[b].got = Missing
    /\ build[b].at = "set" => build[b].got # Missing
    /\ build[b].got # Missing => build[b].got \in Taken /\ build[b].got.fetched <= clock

(* All routes that have not expired are among some entries.                    *)
Outdated(k) == latest[k] = Missing \/ Expires(latest[k]) <= clock
Holds(entries) ==
  \A k \in Keys : \/ Outdated(k)
                  \/ k \in DOMAIN entries /\ entries[k].fetched = latest[k].fetched

(* A build that is alone holds them, as does the cache, but for the route it is *)
(* at; and its spare file is its own.                                          *)
BuildResumes(b) ==
  Running(b) =>
    /\ store = "json" => Holds(build[b].mem)
    /\ build[b].at # "look" => Outdated(Key(b))
    /\ build[b].at = "fill" => build[b].file = "spare"
    /\ build[b].at = "rename" => spare = build[b].mem
    /\ build[b].at \in {"open", "fill", "rename"} /\ build[b].got # Missing =>
         Key(b) \in DOMAIN build[b].mem /\ build[b].mem[Key(b)].fetched = build[b].got.fetched
InTurnHeld ==
  ~ sideBySide =>
    /\ \A b, c \in Builders : Running(b) /\ Running(c) => b = c
    /\ cache # Partial /\ Holds(cache)
    /\ \A b \in Builders : BuildResumes(b)

(* Only builds side by side have a file open at once.                          *)
CrossedTold == crossed \subseteq Builders /\ (crossed # {} => sideBySide)

RouteInv == RouteTypes /\ RedisKeeps /\ (\A b \in Builders : BuildFits(b)) /\ InTurnHeld

-------------------------------------------------------------------------------
(* Entries stay a cache when one is added or dropped.                          *)
LEMMA WithEntry ==
  ASSUME NEW entries \in RouteCaches, NEW k \in Keys, NEW route \in Cached
  PROVE  /\ With(entries, k, route) \in RouteCaches
         /\ DOMAIN With(entries, k, route) = DOMAIN entries \cup {k}
         /\ \A q \in DOMAIN entries \cup {k} :
              With(entries, k, route)[q] = IF q = k THEN route ELSE entries[q]
<1>1. PICK keys \in SUBSET Keys : entries \in [keys -> Cached]
  BY DEF RouteCaches
<1>2. With(entries, k, route) \in [keys \cup {k} -> Cached]
  BY <1>1 DEF With
<1>3. keys \cup {k} \in SUBSET Keys
  OBVIOUS
<1>4. With(entries, k, route) \in RouteCaches
  BY <1>2, <1>3 DEF RouteCaches
<1> QED
  BY <1>4 DEF With

LEMMA WithoutEntry ==
  ASSUME NEW entries \in RouteCaches, NEW k
  PROVE  /\ Without(entries, k) \in RouteCaches
         /\ DOMAIN Without(entries, k) = DOMAIN entries \ {k}
         /\ \A q \in DOMAIN entries \ {k} : Without(entries, k)[q] = entries[q]
<1>1. PICK keys \in SUBSET Keys : entries \in [keys -> Cached]
  BY DEF RouteCaches
<1>2. Without(entries, k) \in [keys \ {k} -> Cached]
  BY <1>1 DEF Without
<1>3. keys \ {k} \in SUBSET Keys
  OBVIOUS
<1>4. Without(entries, k) \in RouteCaches
  BY <1>2, <1>3 DEF RouteCaches
<1> QED
  BY <1>4 DEF Without

LEMMA EntriesFit ==
  ASSUME NEW entries \in RouteCaches
  PROVE  /\ DOMAIN entries \subseteq Keys
         /\ \A k \in DOMAIN entries : entries[k] \in Cached
  BY DEF RouteCaches

(* The numbers of a route.                                                     *)
LEMMA RouteNumbers ==
  ASSUME NEW r \in Cached
  PROVE  /\ r.fetched \in Nat /\ r.used \in Nat /\ r.kept \in Nat
         /\ r.fetched <= Horizon /\ r.used <= Horizon
         /\ Expires(r) \in Nat /\ Expires(r) = r.fetched + Lifetime
         /\ Lifetime \in Nat /\ Lifetime > 0 /\ Horizon \in Nat /\ r # Missing
  BY RouteAssumption DEF Cached, Expires

(* A build under way is at a pair and a mode.                                  *)
LEMMA BuildIsAt ==
  ASSUME RouteTypes, NEW b \in Builders
  PROVE  /\ Running(b) => build[b] \in UnderWay /\ Key(b) \in Keys /\ Modes[build[b].turn] \in Range(Modes)
         /\ build[b] \in UnderWay => Running(b)
         /\ ~ Running(b) => build[b] \in {Off} \cup AtEnd
<1>1. build[b] \in BuildRows
  BY DEF RouteTypes
<1>2. Running(b) <=> build[b] \in UnderWay
  BY <1>1 DEF Running, BuildRows, UnderWay, BuildSteps, Off, AtEnd
<1>3. ASSUME build[b] \in UnderWay
      PROVE  Key(b) \in Keys /\ Modes[build[b].turn] \in Range(Modes)
  <2>1. build[b].turn \in 1 .. Len(Modes) /\ build[b].pair \in 1 .. Pairs
    BY <1>3 DEF UnderWay, Turns, PairNumbers
  <2>2. DOMAIN Modes = 1 .. Len(Modes)
    BY RouteAssumption
  <2>3. Modes[build[b].turn] \in Range(Modes)
    BY <2>1, <2>2 DEF Range
  <2> QED
    BY <2>1, <2>3 DEF Key, Keys
<1> QED
  BY <1>1, <1>2, <1>3 DEF BuildRows

(* The route selected is one of those the modes gave.                          *)
LEMMA ResultIsTaken ==
  ASSUME NEW routes \in Gathered, NEW failed \in Failed
  PROVE  Result(routes, failed) \in Outcomes
<1>1. CASE routes = {}
  BY <1>1 DEF Result, Outcomes, Excuses, Failed
<1>2. CASE routes # {}
  <2>1. Selected(routes) \subseteq routes /\ Selected(routes) # {}
    BY <1>2 DEF Selected, Gathered
  <2>2. (CHOOSE r \in Selected(routes) : TRUE) \in Selected(routes)
    BY <2>1
  <2>3. (CHOOSE r \in Selected(routes) : TRUE) \in Taken
    BY <2>1, <2>2 DEF Gathered
  <2> QED
    BY <1>2, <2>3 DEF Result, Outcomes
<1> QED
  BY <1>1, <1>2

(* The next mode or pair is looked up by the clock as it is; or it is the end.  *)
LEMMA OnwardGoes ==
  ASSUME RouteTypes, NEW b \in Builders, Running(b),
         NEW routes \in Gathered, NEW failed \in Failed
  PROVE  LET new == Onward(b, routes, failed) IN
         \/ /\ new \in UnderWay /\ new.at = "look" /\ new.got = Missing /\ new.read = clock
            /\ new.mem = build[b].mem
         \/ new \in AtEnd
<1> DEFINE new == Onward(b, routes, failed)
           results == Append(build[b].results, Result(routes, failed))
<1>1. build[b] \in UnderWay /\ clock \in Ticks
  BY BuildIsAt DEF RouteTypes
<1>2. results \in ResultLists
  BY <1>1, ResultIsTaken DEF UnderWay, ResultLists
<1>3. /\ Pairs \in Nat /\ Len(Modes) \in Nat /\ Len(Modes) > 0
      /\ "look" \in BuildSteps /\ Missing \in Gots /\ {} \in Gathered /\ {} \in Failed /\ 1 \in Turns
  BY RouteAssumption DEF BuildSteps, Gots, Gathered, Failed, Turns
<1>4. CASE build[b].turn < Len(Modes)
  <2>1. build[b].turn + 1 \in Turns
    BY <1>1, <1>3, <1>4 DEF UnderWay, Turns
  <2>2. new = [build[b] EXCEPT !.at = "look", !.turn = @ + 1, !.got = Missing, !.routes = routes,
                               !.failed = failed, !.read = clock]
    BY <1>4 DEF Onward
  <2> QED
    BY <1>1, <1>3, <2>1, <2>2, ZenonT(30) DEF UnderWay
<1>5. CASE ~ (build[b].turn < Len(Modes)) /\ build[b].pair < Pairs
  <2>1. build[b].pair + 1 \in PairNumbers
    BY <1>1, <1>3, <1>5 DEF UnderWay, PairNumbers
  <2>2. new = [build[b] EXCEPT !.at = "look", !.pair = @ + 1, !.turn = 1, !.got = Missing,
                               !.routes = {}, !.failed = {}, !.results = results, !.read = clock]
    BY <1>5 DEF Onward
  <2> HIDE DEF results
  <2> QED
    BY <1>1, <1>2, <1>3, <2>1, <2>2, ZenonT(30) DEF UnderWay
<1>6. CASE ~ (build[b].turn < Len(Modes)) /\ ~ (build[b].pair < Pairs)
  <2>1. new = [at |-> "done", results |-> results]
    BY <1>6 DEF Onward
  <2> HIDE DEF results
  <2> QED
    BY <1>2, <2>1 DEF AtEnd
<1> QED
  BY <1>4, <1>5, <1>6

(* Nothing has been built.                                                     *)
LEMMA BuildsBegin == RouteInit => RouteInv
<1> SUFFICES ASSUME RouteInit PROVE RouteInv
  OBVIOUS
<1> USE DEF RouteInit
<1>1. \A b \in Builders : build[b] = Off /\ ~ Running(b)
  BY DEF Running, Off
<1>2. Nowhere \in RouteCaches /\ DOMAIN Nowhere = {}
  <2>1. Nowhere \in [{} -> Cached] /\ {} \in SUBSET Keys
    BY DEF Nowhere
  <2> QED
    BY <2>1 DEF RouteCaches
<1>3. RouteTypes
  <2>1. clock \in Ticks
    BY RouteAssumption DEF Ticks
  <2>2. build \in [Builders -> BuildRows]
    BY DEF BuildRows
  <2>3. latest \in [Keys -> Cached \cup {Missing}]
    OBVIOUS
  <2> QED
    BY <1>2, <2>1, <2>2, <2>3 DEF RouteTypes
<1>4. RedisKeeps
  BY <1>2 DEF RedisKeeps
<1>5. InTurnHeld
  BY <1>1, <1>2, RouteAssumption DEF InTurnHeld, Holds, Outdated, BuildResumes
<1> QED
  BY <1>1, <1>3, <1>4, <1>5 DEF RouteInv, BuildFits

(* One build moves, alone unless builds overlap.                               *)
LEMMA BuildMoves ==
  ASSUME RouteInv, NEW b \in Builders, Running(b),
         UNCHANGED <<store, clock, sideBySide>>,
         cache' \in RouteCaches \cup {Partial}, spare' \in RouteCaches \cup {Missing, Partial},
         latest' \in [Keys -> Cached \cup {Missing}],
         build' \in [Builders -> BuildRows],
         \A c \in Builders \ {b} : (Running(c)' <=> Running(c)) /\ (BuildFits(c) => BuildFits(c)'),
         RedisKeeps', BuildFits(b)',
         ~ sideBySide => cache' # Partial /\ Holds(cache)' /\ BuildResumes(b)'
  PROVE  RouteInv'
<1>1. RouteTypes'
  BY DEF RouteInv, RouteTypes
<1>2. \A c \in Builders : BuildFits(c)'
  BY DEF RouteInv
<1>3. InTurnHeld'
  <2>1. ASSUME ~ sideBySide, NEW c \in Builders, c # b PROVE ~ Running(c)'
    BY <2>1 DEF RouteInv, InTurnHeld
  <2>2. ASSUME ~ sideBySide, NEW c \in Builders PROVE BuildResumes(c)'
    BY <2>1, <2>2 DEF BuildResumes
  <2>3. ASSUME ~ sideBySide, NEW c \in Builders, NEW d \in Builders, Running(c)', Running(d)' PROVE c = d
    BY <2>1, <2>3
  <2> QED
    BY <2>2, <2>3 DEF InTurnHeld
<1> QED
  BY <1>1, <1>2, <1>3 DEF RouteInv

(* It leaves the caches as they are, and the others.                           *)
LEMMA BuildTurns ==
  ASSUME RouteInv, NEW b \in Builders, Running(b), NEW new \in BuildRows,
         UNCHANGED <<store, clock, cache, latest, sideBySide>>,
         spare' \in RouteCaches \cup {Missing, Partial},
         build' = [build EXCEPT ![b] = new],
         BuildFits(b)', ~ sideBySide => BuildResumes(b)'
  PROVE  RouteInv'
<1>1. build' \in [Builders -> BuildRows] /\ \A c \in Builders \ {b} : build'[c] = build[c]
  BY DEF RouteInv, RouteTypes
<1>2. \A c \in Builders \ {b} : (Running(c)' <=> Running(c)) /\ (BuildFits(c) => BuildFits(c)')
  BY <1>1 DEF Running, BuildFits
<1>3. RedisKeeps'
  BY DEF RouteInv, RedisKeeps, Expires
<1>4. Holds(cache) => Holds(cache)'
  BY DEF Holds, Outdated, Expires
<1>5. ~ sideBySide => cache' # Partial /\ Holds(cache)' /\ BuildResumes(b)'
  BY <1>4 DEF RouteInv, InTurnHeld
<1>6. cache' \in RouteCaches \cup {Partial} /\ latest' \in [Keys -> Cached \cup {Missing}]
  BY DEF RouteInv, RouteTypes
<1> QED
  BY <1>1, <1>2, <1>3, <1>5, <1>6, BuildMoves

(* A build that has gone on from its key, or that has ended, fits.             *)
LEMMA GoneOnFits ==
  ASSUME RouteInv, NEW b \in Builders, Running(b), UNCHANGED <<store, clock>>,
         \/ build'[b] \in {Off} \cup AtEnd
         \/ /\ build'[b].at = "look" /\ build'[b].got = Missing /\ build'[b].read = clock
            /\ ~ sideBySide /\ store = "json" => Holds(build[b].mem)'
  PROVE  BuildFits(b)' /\ (~ sideBySide => BuildResumes(b)')
<1>1. CASE build'[b] \in {Off} \cup AtEnd
  BY <1>1 DEF BuildFits, BuildResumes, Running, Off, AtEnd
<1>2. CASE /\ build'[b].at = "look" /\ build'[b].got = Missing /\ build'[b].read = clock
           /\ ~ sideBySide /\ store = "json" => Holds(build[b].mem)'
  <2>1. clock \in Int
    BY RouteAssumption DEF RouteInv, RouteTypes, Ticks
  <2> QED
    BY <1>2, <2>1 DEF BuildFits, BuildResumes
<1> QED
  BY <1>1, <1>2

(* What an entry says of its key.                                              *)
LEMMA NotFreshIsOutdated ==
  ASSUME RouteInv, NEW b \in Builders, Running(b), NEW entries \in RouteCaches, Holds(entries),
         Key(b) \in DOMAIN entries => ~ Fresh(entries[Key(b)], build[b].read)
  PROVE  Outdated(Key(b))
<1>1. Key(b) \in Keys /\ build[b] \in UnderWay
  BY BuildIsAt DEF RouteInv
<1>2. build[b].read \in Int /\ clock \in Int /\ build[b].read <= clock
  BY <1>1, RouteAssumption DEF RouteInv, BuildFits, RouteTypes, UnderWay, Ticks
<1>3. CASE Key(b) \notin DOMAIN entries
  BY <1>1, <1>3 DEF Holds
<1>4. CASE Key(b) \in DOMAIN entries /\ latest[Key(b)] # Missing
  <2>1. entries[Key(b)] \in Cached /\ latest[Key(b)] \in Cached
    BY <1>1, <1>4, EntriesFit DEF RouteInv, RouteTypes
  <2>2. Expires(entries[Key(b)]) \in Nat /\ Expires(latest[Key(b)]) \in Nat
    BY <2>1, RouteNumbers
  <2>3. Expires(entries[Key(b)]) <= clock
    BY <1>2, <1>4, <2>2 DEF Fresh
  <2>4. Outdated(Key(b)) \/ Expires(entries[Key(b)]) = Expires(latest[Key(b)])
    BY <1>1, <1>4 DEF Holds, Expires
  <2> QED
    BY <2>3, <2>4 DEF Outdated
<1> QED
  BY <1>3, <1>4 DEF Outdated

(* A route from the cache is fresh by the clock the build has read.            *)
LEMMA HitIsTaken ==
  ASSUME RouteInv, NEW b \in Builders, Hit(b)
  PROVE  [Entries(b)[Key(b)] EXCEPT !.used = build[b].read] \in Taken
<1> DEFINE e == Entries(b)[Key(b)]
           read == build[b].read
           route == [e EXCEPT !.used = read]
<1>1. build[b].at = "look" /\ Key(b) \in DOMAIN Entries(b) /\ Fresh(e, read)
  BY DEF Hit
<1>2. build[b] \in UnderWay
  BY <1>1, BuildIsAt DEF RouteInv, Running
<1>3. Entries(b) \in RouteCaches
  BY <1>2 DEF Entries, RouteInv, RouteTypes, RedisKeeps, UnderWay
<1>4. e \in Cached /\ read \in Ticks
  BY <1>1, <1>2, <1>3, EntriesFit DEF UnderWay
<1>5. route = [e EXCEPT !.used = read]
  OBVIOUS
<1> HIDE DEF e, read, route
<1>6. route \in Cached /\ route.used = read /\ route.fetched = e.fetched
  BY <1>4, <1>5 DEF Cached, Ticks
<1>7. read - e.fetched < Lifetime
  BY <1>1, <1>4, RouteNumbers, RouteAssumption DEF Fresh, Ticks
<1>8. route \in Taken
  BY <1>6, <1>7 DEF Taken
<1> QED
  BY <1>8 DEF route, e, read

(* The build goes on with a route from the cache.                              *)
LEMMA HitKeeps ==
  ASSUME RouteInv, NEW b \in Builders, Hit(b)
  PROVE  RouteInv'
<1> DEFINE route == [Entries(b)[Key(b)] EXCEPT !.used = build[b].read]
           new == Onward(b, build[b].routes \cup {route}, build[b].failed)
<1>1. /\ build[b].at = "look" /\ Key(b) \in DOMAIN Entries(b)
      /\ Fresh(Entries(b)[Key(b)], build[b].read)
      /\ build' = [build EXCEPT ![b] = new]
      /\ UNCHANGED <<store, clock, cache, spare, latest, sideBySide>>
  BY DEF Hit
<1>2. Running(b) /\ build[b] \in UnderWay /\ RouteTypes /\ b \in DOMAIN build
  BY <1>1, BuildIsAt DEF RouteInv, RouteTypes, Running
<1>3. Entries(b) \in RouteCaches
  BY <1>2 DEF Entries, RouteInv, RouteTypes, RedisKeeps, UnderWay
<1>4. route \in Taken
  BY HitIsTaken
<1> HIDE DEF route
<1>5. build[b].routes \cup {route} \in Gathered /\ build[b].failed \in Failed
  BY <1>2, <1>4 DEF UnderWay, Gathered
<1>6. \/ /\ new \in UnderWay /\ new.at = "look" /\ new.got = Missing /\ new.read = clock
         /\ new.mem = build[b].mem
      \/ new \in AtEnd
  BY <1>2, <1>5, OnwardGoes
<1> HIDE DEF new
<1>7. build'[b] = new /\ new \in BuildRows
  BY <1>1, <1>2, <1>6 DEF BuildRows
<1>8. BuildFits(b)' /\ (~ sideBySide => BuildResumes(b)')
  <2>1. ~ sideBySide /\ store = "json" => Holds(build[b].mem)
    BY <1>2 DEF RouteInv, InTurnHeld, BuildResumes
  <2>2. ~ sideBySide /\ store = "json" /\ new.mem = build[b].mem => Holds(build[b].mem)'
    BY <1>1, <1>7, <2>1 DEF Holds, Outdated, Expires
  <2> QED
    BY <1>1, <1>2, <1>6, <1>7, <2>2, GoneOnFits
<1>9. spare' \in RouteCaches \cup {Missing, Partial}
  BY <1>1, <1>2 DEF RouteTypes
<1> QED
  BY <1>1, <1>2, <1>7, <1>8, <1>9, BuildTurns

(* The request fails: what the build holds stays.                              *)
LEMMA RefuseKeeps ==
  ASSUME RouteInv, NEW b \in Builders, NEW code \in Failures, Refuse(b, code)
  PROVE  RouteInv'
<1> DEFINE new == Onward(b, build[b].routes, build[b].failed \cup {code})
<1>1. /\ build[b].at = "ask" /\ build' = [build EXCEPT ![b] = new]
      /\ UNCHANGED <<store, clock, cache, spare, latest, sideBySide>>
  BY DEF Refuse
<1>2. Running(b) /\ build[b] \in UnderWay /\ RouteTypes /\ b \in DOMAIN build
  BY <1>1, BuildIsAt DEF RouteInv, RouteTypes, Running
<1>3. build[b].routes \in Gathered /\ build[b].failed \cup {code} \in Failed
  BY <1>2 DEF UnderWay, Failed
<1>4. \/ /\ new \in UnderWay /\ new.at = "look" /\ new.got = Missing /\ new.read = clock
         /\ new.mem = build[b].mem
      \/ new \in AtEnd
  BY <1>2, <1>3, OnwardGoes
<1> HIDE DEF new
<1>5. build'[b] = new /\ new \in BuildRows
  BY <1>1, <1>2, <1>4 DEF BuildRows
<1>6. BuildFits(b)' /\ (~ sideBySide => BuildResumes(b)')
  <2>1. ~ sideBySide /\ store = "json" => Holds(build[b].mem)
    BY <1>2 DEF RouteInv, InTurnHeld, BuildResumes
  <2>2. ~ sideBySide /\ store = "json" /\ new.mem = build[b].mem => Holds(build[b].mem)'
    BY <1>1, <1>5, <2>1 DEF Holds, Outdated, Expires
  <2> QED
    BY <1>1, <1>2, <1>4, <1>5, <2>2, GoneOnFits
<1>7. spare' \in RouteCaches \cup {Missing, Partial}
  BY <1>1, <1>2 DEF RouteTypes
<1> QED
  BY <1>1, <1>2, <1>5, <1>6, <1>7, BuildTurns

(* The build is over.                                                          *)
LEMMA DieKeeps ==
  ASSUME RouteInv, NEW b \in Builders, Die(b)
  PROVE  RouteInv'
<1>1. /\ Running(b) /\ build' = [build EXCEPT ![b] = Off]
      /\ UNCHANGED <<store, clock, cache, spare, latest, sideBySide>>
  BY DEF Die
<1>2. RouteTypes /\ build'[b] = Off /\ Off \in BuildRows
  BY <1>1 DEF RouteInv, RouteTypes, BuildRows
<1>3. BuildFits(b)' /\ (~ sideBySide => BuildResumes(b)')
  BY <1>1, <1>2, GoneOnFits
<1>4. spare' \in RouteCaches \cup {Missing, Partial}
  BY <1>1, <1>2 DEF RouteTypes
<1> QED
  BY <1>1, <1>2, <1>3, <1>4, BuildTurns

(* A build that stays at its key, and holds what it held or more.              *)
LEMMA StayingFits ==
  ASSUME RouteInv, NEW b \in Builders, Running(b), UNCHANGED <<store, clock, latest>>,
         build'[b] \in UnderWay, build'[b].pair = build[b].pair, build'[b].turn = build[b].turn,
         build'[b].at # "look", build'[b].read = build[b].read,
         store = "json" => build'[b].at \notin {"drop", "set"},
         store = "redis" => build'[b].at \notin {"open", "fill", "rename"},
         build'[b].at \in {"ask", "drop"} => build'[b].got = Missing,
         build'[b].at = "set" => build'[b].got # Missing,
         build'[b].got # Missing => build'[b].got \in Taken /\ build'[b].got.fetched <= clock,
         ~ sideBySide =>
           /\ store = "json" => Holds(build[b].mem)'
           /\ Outdated(Key(b))
           /\ build'[b].at = "fill" => build'[b].file = "spare"
           /\ build'[b].at = "rename" => spare' = build'[b].mem
           /\ build'[b].at \in {"open", "fill", "rename"} /\ build'[b].got # Missing =>
                Key(b) \in DOMAIN build'[b].mem
                  /\ build'[b].mem[Key(b)].fetched = build'[b].got.fetched
  PROVE  BuildFits(b)' /\ (~ sideBySide => BuildResumes(b)')
<1>1. Key(b)' = Key(b)
  BY DEF Key
<1>2. Outdated(Key(b)) => Outdated(Key(b))'
  BY <1>1 DEF Outdated, Expires
<1>3. build[b].read <= clock
  BY DEF RouteInv, BuildFits
<1>4. BuildFits(b)'
  BY <1>3 DEF BuildFits
<1>5. ASSUME ~ sideBySide PROVE BuildResumes(b)'
  BY <1>1, <1>2, <1>5 DEF BuildResumes
<1> QED
  BY <1>4, <1>5

(* A route that is not there, or has expired, is asked for.                    *)
LEMMA MissKeeps ==
  ASSUME RouteInv, NEW b \in Builders, Miss(b)
  PROVE  RouteInv'
<1>1. /\ build[b].at = "look"
      /\ Key(b) \in DOMAIN Entries(b) => ~ Fresh(Entries(b)[Key(b)], build[b].read)
      /\ UNCHANGED <<store, clock, cache, spare, latest, sideBySide>>
  BY DEF Miss
<1>2. Running(b) /\ build[b] \in UnderWay /\ RouteTypes /\ b \in DOMAIN build /\ build[b].got = Missing
  BY <1>1, BuildIsAt DEF RouteInv, RouteTypes, Running, BuildFits
<1>3. Entries(b) \in RouteCaches
  BY <1>2 DEF Entries, RouteInv, RouteTypes, RedisKeeps, UnderWay
<1>4. ~ sideBySide => Holds(Entries(b)) /\ Outdated(Key(b))
  <2>1. ~ sideBySide => Holds(Entries(b))
    BY <1>2 DEF Entries, RouteInv, InTurnHeld, BuildResumes, RouteTypes
  <2> QED
    BY <1>1, <1>2, <1>3, <2>1, NotFreshIsOutdated
<1>5. spare' \in RouteCaches \cup {Missing, Partial}
  BY <1>1, <1>2 DEF RouteTypes
<1>6. CASE ~ (Key(b) \in DOMAIN Entries(b) /\ store = "json")
  <2>1. PICK at \in {"ask", "drop"} :
          /\ build' = [build EXCEPT ![b] = [build[b] EXCEPT !.at = at]]
          /\ at = "drop" => store = "redis"
    BY <1>6, <1>2 DEF Miss, RouteTypes
  <2>2. at \in BuildSteps
    BY DEF BuildSteps
  <2> DEFINE new == [build[b] EXCEPT !.at = at]
  <2>3. /\ new \in UnderWay /\ new.at = at /\ new.pair = build[b].pair /\ new.turn = build[b].turn
        /\ new.read = build[b].read /\ new.got = build[b].got /\ new.mem = build[b].mem
    BY <1>2, <2>2 DEF UnderWay
  <2>4. build' = [build EXCEPT ![b] = new]
    BY <2>1
  <2> HIDE DEF new
  <2>5. build'[b] = new /\ new \in BuildRows
    BY <1>2, <2>3, <2>4 DEF BuildRows
  <2>6. ~ sideBySide /\ store = "json" => Holds(build[b].mem)'
    BY <1>1, <1>4, <2>3, <2>5 DEF Holds, Outdated, Expires, Entries
  <2>7. BuildFits(b)' /\ (~ sideBySide => BuildResumes(b)')
    BY <1>1, <1>2, <1>4, <2>1, <2>3, <2>5, <2>6, StayingFits
  <2> QED
    BY <1>1, <1>2, <1>5, <2>4, <2>5, <2>7, BuildTurns
<1>7. CASE Key(b) \in DOMAIN Entries(b) /\ store = "json"
  <2> DEFINE less == Without(build[b].mem, Key(b))
             new == [build[b] EXCEPT !.at = "open", !.mem = less]
  <2>1. build' = [build EXCEPT ![b] = new]
    <3>1. build' = [build EXCEPT ![b] =
            IF Key(b) \notin DOMAIN Entries(b) THEN [build[b] EXCEPT !.at = "ask"]
            ELSE IF store = "redis" THEN [build[b] EXCEPT !.at = "drop"] ELSE new]
      BY DEF Miss
    <3> HIDE DEF new
    <3> QED
      BY <1>7, <3>1
  <2>2. /\ less \in RouteCaches /\ DOMAIN less = DOMAIN build[b].mem \ {Key(b)}
        /\ \A q \in DOMAIN build[b].mem \ {Key(b)} : less[q] = build[b].mem[q]
    BY <1>3, <1>7, WithoutEntry DEF Entries
  <2>3. "open" \in BuildSteps
    BY DEF BuildSteps
  <2> HIDE DEF less
  <2>4. /\ new \in UnderWay /\ new.at = "open" /\ new.pair = build[b].pair /\ new.turn = build[b].turn
        /\ new.read = build[b].read /\ new.got = build[b].got /\ new.mem = less
    BY <1>2, <2>2, <2>3 DEF UnderWay
  <2> HIDE DEF new
  <2>5. build'[b] = new /\ new \in BuildRows
    BY <1>2, <2>1, <2>4 DEF BuildRows
  <2>6. ~ sideBySide => Holds(build[b].mem)'
    <3>1. ~ sideBySide => Holds(less)
      BY <1>4, <1>7, <2>2 DEF Holds, Entries
    <3> QED
      BY <1>1, <2>4, <2>5, <3>1 DEF Holds, Outdated, Expires
  <2>7. BuildFits(b)' /\ (~ sideBySide => BuildResumes(b)')
    BY <1>1, <1>2, <1>4, <1>7, <2>4, <2>5, <2>6, StayingFits
  <2> QED
    BY <1>1, <1>2, <1>5, <2>1, <2>5, <2>7, BuildTurns
<1> QED
  BY <1>6, <1>7

(* Redis is told to drop an entry that has expired.                            *)
LEMMA DropKeeps ==
  ASSUME RouteInv, NEW b \in Builders, Drop(b)
  PROVE  RouteInv'
<1>1. /\ build[b].at = "drop" /\ build' = [build EXCEPT ![b].at = "ask"]
      /\ cache' = Without(cache, Key(b))
      /\ UNCHANGED <<store, clock, spare, latest, sideBySide>>
  BY DEF Drop
<1>2. Running(b) /\ build[b] \in UnderWay /\ RouteTypes /\ b \in DOMAIN build /\ build[b].got = Missing
      /\ store = "redis"
  BY <1>1, BuildIsAt DEF RouteInv, RouteTypes, Running, BuildFits
<1>3. cache \in RouteCaches
  BY <1>2 DEF RouteInv, RedisKeeps
<1>4. /\ cache' \in RouteCaches /\ DOMAIN cache' = DOMAIN cache \ {Key(b)}
      /\ \A q \in DOMAIN cache' : cache'[q] = cache[q]
  BY <1>1, <1>3, WithoutEntry
<1> DEFINE new == [build[b] EXCEPT !.at = "ask"]
<1>5. "ask" \in BuildSteps
  BY DEF BuildSteps
<1>6. /\ new \in UnderWay /\ new.at = "ask" /\ new.pair = build[b].pair /\ new.turn = build[b].turn
      /\ new.read = build[b].read /\ new.got = build[b].got
  BY <1>2, <1>5 DEF UnderWay
<1>7. build' = [build EXCEPT ![b] = new] /\ build'[b] = new
  BY <1>1, <1>2
<1> HIDE DEF new
<1>8. build' \in [Builders -> BuildRows] /\ \A c \in Builders \ {b} : build'[c] = build[c]
  BY <1>2, <1>6, <1>7 DEF RouteTypes, BuildRows
<1>9. ~ sideBySide => Outdated(Key(b)) /\ Holds(cache)
  BY <1>1, <1>2 DEF RouteInv, InTurnHeld, BuildResumes
<1>10. BuildFits(b)' /\ (~ sideBySide => BuildResumes(b)')
  BY <1>1, <1>2, <1>6, <1>7, <1>9, StayingFits
<1>11. RedisKeeps'
  BY <1>2, <1>4 DEF RouteInv, RedisKeeps, Expires
<1>12. ~ sideBySide => cache' # Partial /\ Holds(cache)'
  <2>1. cache' # Partial
    BY <1>4, RouteAssumption
  <2>2. ASSUME ~ sideBySide, NEW k \in Keys, ~ Outdated(k)
        PROVE  k \in DOMAIN cache' /\ cache'[k].fetched = latest[k].fetched
    BY <1>4, <1>9, <2>2 DEF Holds
  <2> QED
    BY <1>1, <2>1, <2>2 DEF Holds, Outdated, Expires
<1>13. \A c \in Builders \ {b} : (Running(c)' <=> Running(c)) /\ (BuildFits(c) => BuildFits(c)')
  BY <1>1, <1>8 DEF Running, BuildFits
<1>14. /\ cache' \in RouteCaches \cup {Partial} /\ spare' \in RouteCaches \cup {Missing, Partial}
       /\ latest' \in [Keys -> Cached \cup {Missing}]
  BY <1>1, <1>2, <1>4 DEF RouteTypes
<1> QED
  BY <1>1, <1>2, <1>8, <1>10, <1>11, <1>12, <1>13, <1>14, BuildMoves

(* The answer is held before it is stored.                                     *)
LEMMA AnswerKeeps ==
  ASSUME RouteInv, NEW b \in Builders, NEW takes \in Answers, Answer(b, takes)
  PROVE  RouteInv'
<1> DEFINE route == [mode |-> Modes[build[b].turn], takes |-> takes,
                     fetched |-> build[b].read, used |-> build[b].read, kept |-> 0]
           next == IF store = "json" THEN "open" ELSE "set"
           mem == IF store = "json" THEN With(build[b].mem, Key(b), route) ELSE build[b].mem
           new == [build[b] EXCEPT !.at = next, !.got = route, !.mem = mem]
<1>1. /\ build[b].at = "ask"
      /\ UNCHANGED <<store, clock, cache, spare, latest, sideBySide>>
  BY DEF Answer
<1>2. /\ Running(b) /\ build[b] \in UnderWay /\ RouteTypes /\ b \in DOMAIN build
      /\ Key(b) \in Keys /\ Modes[build[b].turn] \in Range(Modes) /\ build[b].read <= clock
  BY <1>1, BuildIsAt DEF RouteInv, RouteTypes, Running, BuildFits
<1>3. build' = [build EXCEPT ![b] = new]
  BY <1>2 DEF Answer, RouteTypes
<1>4. route \in Taken /\ route.fetched = build[b].read /\ route # Missing
  <2>1. build[b].read \in 0 .. Horizon /\ 0 \in 0 .. Horizon + Lifetime /\ Lifetime > 0
    BY <1>2, RouteAssumption DEF UnderWay, Ticks
  <2>2. route \in Cached /\ route.used - route.fetched = 0
    BY <1>2, <2>1 DEF Cached
  <2> QED
    BY <2>1, <2>2, RouteNumbers DEF Taken
<1>5. next \in BuildSteps /\ next # "look" /\ route \in Gots /\ route \in Cached
      /\ next \notin {"ask", "drop", "fill", "rename"}
      /\ (store = "json" => next = "open") /\ (store = "redis" => next = "set")
  BY <1>4 DEF BuildSteps, Gots, Taken
<1> HIDE DEF route, next
<1>6. /\ mem \in RouteCaches /\ build[b].mem \in RouteCaches
      /\ store = "json" => /\ DOMAIN mem = DOMAIN build[b].mem \cup {Key(b)}
                           /\ \A q \in DOMAIN mem : mem[q] = IF q = Key(b) THEN route ELSE build[b].mem[q]
  <2>1. build[b].mem \in RouteCaches
    BY <1>2 DEF UnderWay
  <2> DEFINE held == build[b].mem
             k == Key(b)
             more == With(held, k, route)
  <2>2. held \in RouteCaches /\ k \in Keys /\ route \in Cached
    BY <1>2, <1>5, <2>1
  <2> HIDE DEF held, k, mem, new
  <2>3. /\ more \in RouteCaches /\ DOMAIN more = DOMAIN held \cup {k}
        /\ \A q \in DOMAIN held \cup {k} : more[q] = IF q = k THEN route ELSE held[q]
    <3>1. more \in RouteCaches
      BY <2>2, WithEntry
    <3>2. more = [q \in DOMAIN held \cup {k} |-> IF q = k THEN route ELSE held[q]]
      BY ONLY DEF With
    <3> QED
      BY ONLY <3>1, <3>2
  <2>4. mem = IF store = "json" THEN more ELSE held
    BY DEF held, k, mem
  <2> HIDE DEF more
  <2>5. /\ mem \in RouteCaches
        /\ store = "json" => /\ DOMAIN mem = DOMAIN held \cup {k}
                             /\ \A q \in DOMAIN mem : mem[q] = IF q = k THEN route ELSE held[q]
    BY <2>2, <2>3, <2>4
  <2> QED
    BY <2>1, <2>5 DEF held, k
<1> HIDE DEF mem
<1>7. /\ new \in UnderWay /\ new.at = next /\ new.pair = build[b].pair /\ new.turn = build[b].turn
      /\ new.read = build[b].read /\ new.got = route /\ new.mem = mem
  BY <1>2, <1>5, <1>6 DEF UnderWay
<1> HIDE DEF new
<1>8. build'[b] = new /\ new \in BuildRows
  BY <1>2, <1>3, <1>7 DEF BuildRows
<1>9. ~ sideBySide => Outdated(Key(b)) /\ (store = "json" => Holds(build[b].mem))
  BY <1>1, <1>2 DEF RouteInv, InTurnHeld, BuildResumes
<1>10. ~ sideBySide /\ store = "json" => Holds(build[b].mem)'
  <2>1. ~ sideBySide /\ store = "json" => Holds(mem)
    BY <1>6, <1>9 DEF Holds
  <2> QED
    BY <1>1, <1>7, <1>8, <2>1 DEF Holds, Outdated, Expires
<1>11. store = "json" => Key(b) \in DOMAIN mem /\ mem[Key(b)] = route
  BY <1>6
<1>12. BuildFits(b)' /\ (~ sideBySide => BuildResumes(b)')
  BY <1>1, <1>2, <1>4, <1>5, <1>7, <1>8, <1>9, <1>10, <1>11, StayingFits DEF RouteTypes
<1>13. spare' \in RouteCaches \cup {Missing, Partial}
  BY <1>1, <1>2 DEF RouteTypes
<1> QED
  BY <1>1, <1>2, <1>3, <1>8, <1>12, <1>13, BuildTurns

(* The route is stored in Redis, and kept until it has expired.                *)
LEMMA SetKeeps ==
  ASSUME RouteInv, NEW b \in Builders, Set(b)
  PROVE  RouteInv'
<1> DEFINE got == build[b].got
           route == [got EXCEPT !.kept = clock + Lifetime]
           k == Key(b)
           new == Onward(b, build[b].routes \cup {got}, build[b].failed)
<1>1. /\ build[b].at = "set" /\ build' = [build EXCEPT ![b] = new]
      /\ cache' = With(cache, k, route) /\ latest' = [latest EXCEPT ![k] = got]
      /\ UNCHANGED <<store, clock, spare, sideBySide>>
  BY DEF Set
<1>2. /\ Running(b) /\ build[b] \in UnderWay /\ RouteTypes /\ b \in DOMAIN build /\ k \in Keys
      /\ got # Missing /\ store = "redis"
  BY <1>1, BuildIsAt DEF RouteInv, RouteTypes, Running, BuildFits
<1>3. cache \in RouteCaches /\ got \in Taken /\ got.fetched <= clock
  BY <1>2 DEF RouteInv, RedisKeeps, BuildFits
<1>4. build[b].routes \cup {got} \in Gathered /\ build[b].failed \in Failed
  BY <1>2, <1>3 DEF UnderWay, Gathered
<1>5. \/ /\ new \in UnderWay /\ new.at = "look" /\ new.got = Missing /\ new.read = clock
      \/ new \in AtEnd
  BY <1>2, <1>4, OnwardGoes
<1>6. got \in Cached /\ clock \in Nat /\ clock <= Horizon
  BY <1>2, <1>3, RouteAssumption DEF Taken, RouteTypes, Ticks
<1> HIDE DEF new, k, got
<1>7. route \in Cached /\ route.fetched = got.fetched /\ Expires(route) <= route.kept
  <2>1. clock + Lifetime \in 0 .. Horizon + Lifetime
    BY <1>6, RouteAssumption
  <2>2. route \in Cached /\ route.fetched = got.fetched /\ route.kept = clock + Lifetime
    BY <1>6, <2>1 DEF Cached
  <2> HIDE DEF route
  <2> QED
    BY <1>3, <1>6, <2>2, RouteNumbers
<1> HIDE DEF route
<1>8. /\ cache' \in RouteCaches /\ DOMAIN cache' = DOMAIN cache \cup {k}
      /\ \A q \in DOMAIN cache \cup {k} : cache'[q] = IF q = k THEN route ELSE cache[q]
  <2>1. cache \in RouteCaches /\ k \in Keys /\ route \in Cached
    BY <1>2, <1>3, <1>7
  <2> DEFINE more == With(cache, k, route)
  <2>2. cache' = more
    BY <1>1
  <2>3. more \in RouteCaches /\ DOMAIN more = DOMAIN cache \cup {k}
    BY <2>1, WithEntry
  <2>4. ASSUME NEW q \in DOMAIN cache \cup {k}
        PROVE  more[q] = IF q = k THEN route ELSE cache[q]
    BY <2>4 DEF With
  <2> HIDE DEF more
  <2> QED
    BY <2>2, <2>3, <2>4
<1>9. /\ latest' \in [Keys -> Cached \cup {Missing}] /\ latest'[k] = got
      /\ \A q \in Keys \ {k} : latest'[q] = latest[q]
  BY <1>1, <1>2, <1>6 DEF RouteTypes
<1>10. build'[b] = new /\ build' \in [Builders -> BuildRows] /\ \A c \in Builders \ {b} : build'[c] = build[c]
  BY <1>1, <1>2, <1>5 DEF BuildRows, RouteTypes
<1>11. BuildFits(b)' /\ (~ sideBySide => BuildResumes(b)')
  BY <1>1, <1>2, <1>5, <1>10, GoneOnFits
<1>12. RedisKeeps'
  <2>1. \A q \in DOMAIN cache' : Expires(cache'[q]) <= cache'[q].kept
    BY <1>2, <1>7, <1>8 DEF RouteInv, RedisKeeps
  <2> QED
    BY <1>8, <2>1 DEF RedisKeeps, Expires
<1>13. ~ sideBySide => cache' # Partial /\ Holds(cache)'
  <2>1. cache' # Partial
    BY <1>8, RouteAssumption
  <2>2. ASSUME ~ sideBySide, NEW q \in Keys
        PROVE  Outdated(q)' \/ (q \in DOMAIN cache' /\ cache'[q].fetched = latest'[q].fetched)
    <3>1. CASE q = k
      BY <1>7, <1>8, <1>9, <3>1
    <3>2. CASE q # k
      <4>1. Outdated(q) \/ (q \in DOMAIN cache /\ cache[q].fetched = latest[q].fetched)
        BY <2>2 DEF RouteInv, InTurnHeld, Holds
      <4> QED
        BY <1>1, <1>8, <1>9, <3>2, <4>1 DEF Outdated, Expires
    <3> QED
      BY <3>1, <3>2
  <2> QED
    BY <2>1, <2>2 DEF Holds
<1>14. \A c \in Builders \ {b} : (Running(c)' <=> Running(c)) /\ (BuildFits(c) => BuildFits(c)')
  BY <1>1, <1>10 DEF Running, BuildFits
<1>15. cache' \in RouteCaches \cup {Partial} /\ spare' \in RouteCaches \cup {Missing, Partial}
  BY <1>1, <1>2, <1>8 DEF RouteTypes
<1> QED
  BY <1>1, <1>2, <1>9, <1>10, <1>11, <1>12, <1>13, <1>14, <1>15, BuildMoves

(* The spare file is emptied.                                                  *)
LEMMA OpenKeeps ==
  ASSUME RouteInv, NEW b \in Builders, Open(b)
  PROVE  RouteInv'
<1> DEFINE new == [build[b] EXCEPT !.at = "fill", !.file = "spare"]
<1>1. /\ build[b].at = "open" /\ spare' = Partial
      /\ UNCHANGED <<store, clock, cache, latest, sideBySide>>
  BY DEF Open
<1>2. /\ Running(b) /\ build[b] \in UnderWay /\ RouteTypes /\ b \in DOMAIN build /\ store = "json"
  BY <1>1, BuildIsAt DEF RouteInv, RouteTypes, Running, BuildFits
<1>3. build' = [build EXCEPT ![b] = new]
  BY <1>2 DEF Open, RouteTypes
<1>4. "fill" \in BuildSteps /\ "spare" \in Files
  BY DEF BuildSteps, Files
<1>5. /\ new \in UnderWay /\ new.at = "fill" /\ new.pair = build[b].pair /\ new.turn = build[b].turn
      /\ new.read = build[b].read /\ new.got = build[b].got /\ new.mem = build[b].mem
      /\ new.file = "spare"
  BY <1>2, <1>4 DEF UnderWay
<1> HIDE DEF new
<1>6. build'[b] = new /\ new \in BuildRows
  BY <1>2, <1>3, <1>5 DEF BuildRows
<1>7. /\ build[b].got # Missing => build[b].got \in Taken /\ build[b].got.fetched <= clock
      /\ ~ sideBySide =>
           /\ Holds(build[b].mem) /\ Outdated(Key(b))
           /\ build[b].got # Missing =>
                Key(b) \in DOMAIN build[b].mem
                  /\ build[b].mem[Key(b)].fetched = build[b].got.fetched
  BY <1>1, <1>2 DEF RouteInv, BuildFits, InTurnHeld, BuildResumes
<1>8. ~ sideBySide => Holds(build[b].mem)'
  BY <1>1, <1>5, <1>6, <1>7 DEF Holds, Outdated, Expires
<1>9. BuildFits(b)' /\ (~ sideBySide => BuildResumes(b)')
  BY <1>1, <1>2, <1>5, <1>6, <1>7, <1>8, StayingFits
<1>10. spare' \in RouteCaches \cup {Missing, Partial}
  BY <1>1
<1> QED
  BY <1>1, <1>2, <1>3, <1>6, <1>9, <1>10, BuildTurns

(* It is filled with what the build holds, whole when the build is alone.      *)
LEMMA FillKeeps ==
  ASSUME RouteInv, CrossedTold, NEW b \in Builders, Fill(b)
  PROVE  RouteInv'
<1> DEFINE new == [build[b] EXCEPT !.at = "rename"]
<1>1. /\ build[b].at = "fill" /\ UNCHANGED <<store, clock, latest, sideBySide>>
  BY DEF Fill
<1>2. /\ Running(b) /\ build[b] \in UnderWay /\ RouteTypes /\ b \in DOMAIN build /\ store = "json"
      /\ build[b].mem \in RouteCaches
  BY <1>1, BuildIsAt DEF RouteInv, RouteTypes, Running, BuildFits, UnderWay
<1>3. build' = [build EXCEPT ![b] = new]
  BY <1>2 DEF Fill, RouteTypes
<1>4. "rename" \in BuildSteps
  BY DEF BuildSteps
<1>5. /\ new \in UnderWay /\ new.at = "rename" /\ new.pair = build[b].pair /\ new.turn = build[b].turn
      /\ new.read = build[b].read /\ new.got = build[b].got /\ new.mem = build[b].mem
  BY <1>2, <1>4 DEF UnderWay
<1> HIDE DEF new
<1>6. /\ build'[b] = new /\ build' \in [Builders -> BuildRows]
      /\ \A c \in Builders \ {b} : build'[c] = build[c]
  BY <1>2, <1>3, <1>5 DEF BuildRows, RouteTypes
<1>7. PICK text \in {build[b].mem} \cup (IF b \in crossed THEN {Partial} ELSE {}) :
        /\ cache' = IF build[b].file = "cache" THEN text ELSE cache
        /\ spare' = IF build[b].file = "spare" THEN text ELSE spare
  BY DEF Fill
<1>8. cache' \in RouteCaches \cup {Partial} /\ spare' \in RouteCaches \cup {Missing, Partial}
  BY <1>2, <1>7 DEF RouteTypes
<1>9. /\ build[b].got # Missing => build[b].got \in Taken /\ build[b].got.fetched <= clock
      /\ ~ sideBySide =>
           /\ Holds(build[b].mem) /\ Outdated(Key(b)) /\ build[b].file = "spare"
           /\ build[b].got # Missing =>
                Key(b) \in DOMAIN build[b].mem
                  /\ build[b].mem[Key(b)].fetched = build[b].got.fetched
           /\ cache # Partial /\ Holds(cache)
  BY <1>1, <1>2 DEF RouteInv, BuildFits, InTurnHeld, BuildResumes
<1>10. ~ sideBySide => spare' = build[b].mem /\ cache' = cache
  <2>1. ~ sideBySide => b \notin crossed
    BY DEF CrossedTold
  <2> QED
    BY <1>7, <1>9, <2>1
<1>11. ~ sideBySide => Holds(build[b].mem)'
  BY <1>1, <1>5, <1>6, <1>9 DEF Holds, Outdated, Expires
<1>12. BuildFits(b)' /\ (~ sideBySide => BuildResumes(b)')
  BY <1>1, <1>2, <1>5, <1>6, <1>9, <1>10, <1>11, StayingFits
<1>13. RedisKeeps'
  BY <1>1, <1>2 DEF RedisKeeps
<1>14. ~ sideBySide => cache' # Partial /\ Holds(cache)'
  BY <1>1, <1>9, <1>10 DEF Holds, Outdated, Expires
<1>15. \A c \in Builders \ {b} : (Running(c)' <=> Running(c)) /\ (BuildFits(c) => BuildFits(c)')
  BY <1>1, <1>6 DEF Running, BuildFits
<1>16. latest' \in [Keys -> Cached \cup {Missing}]
  BY <1>1, <1>2 DEF RouteTypes
<1> QED
  BY <1>1, <1>2, <1>6, <1>8, <1>12, <1>13, <1>14, <1>15, <1>16, BuildMoves

(* The file is replaced: it holds what the build does, and the route it is at.  *)
LEMMA RenameKeeps ==
  ASSUME RouteInv, NEW b \in Builders, Rename(b)
  PROVE  RouteInv'
<1> DEFINE got == build[b].got
           k == Key(b)
           mem == build[b].mem
           then == IF got = Missing THEN [build[b] EXCEPT !.at = "ask"]
                   ELSE Onward(b, build[b].routes \cup {got}, build[b].failed)
<1>1. build[b].at = "rename" /\ UNCHANGED <<store, clock, sideBySide>>
  BY DEF Rename
<1>2. /\ Running(b) /\ build[b] \in UnderWay /\ RouteTypes /\ b \in DOMAIN build /\ store = "json"
      /\ k \in Keys /\ mem \in RouteCaches
  BY <1>1, BuildIsAt DEF RouteInv, RouteTypes, Running, BuildFits, UnderWay
<1>3. CASE spare = Missing
  <2>1. build' = [build EXCEPT ![b] = Off] /\ UNCHANGED <<cache, spare, latest>>
    BY <1>3 DEF Rename
  <2>2. build'[b] = Off /\ Off \in BuildRows
    BY <1>2, <2>1 DEF BuildRows
  <2>3. BuildFits(b)' /\ (~ sideBySide => BuildResumes(b)')
    BY <1>1, <1>2, <2>2, GoneOnFits
  <2>4. spare' \in RouteCaches \cup {Missing, Partial}
    BY <1>2, <2>1 DEF RouteTypes
  <2> QED
    BY <1>1, <1>2, <2>1, <2>2, <2>3, <2>4, BuildTurns
<1>4. CASE spare # Missing
  <2>1. /\ build' = [c \in Builders |->
                       IF c = b THEN then
                       ELSE IF build[c].at = "fill" THEN [build[c] EXCEPT !.file = Moved(@)]
                       ELSE build[c]]
        /\ cache' = spare /\ spare' = Missing
        /\ latest' = [q \in Keys |-> IF got # Missing /\ q = k THEN got ELSE latest[q]]
    BY <1>4 DEF Rename
  <2>2. /\ got # Missing => got \in Taken /\ got.fetched <= clock /\ got \in Cached
        /\ ~ sideBySide =>
             /\ Holds(mem) /\ Outdated(k) /\ spare = mem
             /\ got # Missing => k \in DOMAIN mem /\ mem[k].fetched = got.fetched
    BY <1>1, <1>2 DEF RouteInv, BuildFits, InTurnHeld, BuildResumes, Taken
  <2>3. \/ /\ got = Missing /\ then \in UnderWay /\ then.at = "ask" /\ then.pair = build[b].pair
           /\ then.turn = build[b].turn /\ then.read = build[b].read /\ then.got = Missing
           /\ then.mem = mem
        \/ /\ got # Missing /\ then \in UnderWay /\ then.at = "look" /\ then.got = Missing
           /\ then.read = clock /\ then.mem = mem
        \/ got # Missing /\ then \in AtEnd
    <3>1. CASE got = Missing
      <4>1. "ask" \in BuildSteps
        BY DEF BuildSteps
      <4>2. then = [build[b] EXCEPT !.at = "ask"]
        BY <3>1
      <4> HIDE DEF then
      <4> QED
        BY <1>2, <3>1, <4>1, <4>2 DEF UnderWay
    <3>2. CASE got # Missing
      <4>1. build[b].routes \cup {got} \in Gathered /\ build[b].failed \in Failed
        BY <1>2, <2>2, <3>2 DEF UnderWay, Gathered
      <4>2. then = Onward(b, build[b].routes \cup {got}, build[b].failed)
        BY <3>2
      <4> HIDE DEF then, got
      <4> QED
        BY <1>2, <3>2, <4>1, <4>2, OnwardGoes
    <3> QED
      BY <3>1, <3>2
  <2> HIDE DEF then
  <2>4. ASSUME NEW c \in Builders \ {b}
        PROVE  /\ build'[c] \in BuildRows
               /\ Running(c)' <=> Running(c)
               /\ BuildFits(c) => BuildFits(c)'
    <3>1. CASE build[c].at # "fill" \/ build[c] \notin UnderWay
      <4>1. build'[c] = build[c]
        <5>1. build[c] \in BuildRows
          BY <1>2 DEF RouteTypes
        <5>2. build[c].at # "fill"
          BY <3>1, <5>1 DEF BuildRows, Off, AtEnd
        <5> QED
          BY <2>1, <5>2
      <4> QED
        BY <1>1, <1>2, <4>1 DEF RouteTypes, Running, BuildFits
    <3>2. CASE build[c].at = "fill" /\ build[c] \in UnderWay
      <4>1. build'[c] = [build[c] EXCEPT !.file = Moved(build[c].file)]
        BY <2>1, <3>2
      <4>2. Moved(build[c].file) \in Files
        BY DEF Moved, Files
      <4>3. /\ build'[c] \in UnderWay /\ build'[c].at = build[c].at /\ build'[c].read = build[c].read
            /\ build'[c].got = build[c].got
        BY <3>2, <4>1, <4>2 DEF UnderWay
      <4> QED
        BY <1>1, <4>3 DEF BuildRows, Running, BuildFits
    <3> QED
      BY <3>1, <3>2
  <2>5. build'[b] = then /\ then \in BuildRows
    BY <2>1, <2>3 DEF BuildRows
  <2>6. build' \in [Builders -> BuildRows]
    <3>1. \A c \in Builders : build'[c] \in BuildRows
      BY <2>4, <2>5
    <3>2. build' = [c \in Builders |-> build'[c]]
      BY <2>1
    <3> QED
      BY <3>1, <3>2
  <2>7. /\ cache' \in RouteCaches \cup {Partial} /\ spare' \in RouteCaches \cup {Missing, Partial}
        /\ latest' \in [Keys -> Cached \cup {Missing}]
    BY <1>2, <1>4, <2>1, <2>2 DEF RouteTypes
  <2>8. ASSUME ~ sideBySide, NEW q \in Keys
        PROVE  Outdated(q)' \/ (q \in DOMAIN mem /\ mem[q].fetched = latest'[q].fetched)
    <3>1. CASE got # Missing /\ q = k
      BY <2>1, <2>2, <2>8, <3>1
    <3>2. CASE ~ (got # Missing /\ q = k)
      <4>1. latest'[q] = latest[q]
        BY <2>1, <3>2
      <4>2. Outdated(q) \/ (q \in DOMAIN mem /\ mem[q].fetched = latest[q].fetched)
        BY <2>2, <2>8 DEF Holds
      <4> QED
        BY <1>1, <4>1, <4>2 DEF Outdated, Expires
    <3> QED
      BY <3>1, <3>2
  <2>9. ~ sideBySide => cache' # Partial /\ Holds(cache)'
    BY <1>2, <2>1, <2>2, <2>8, RouteAssumption DEF Holds
  <2>10. ~ sideBySide /\ then.mem = mem => Holds(build[b].mem)'
    BY <2>5, <2>8 DEF Holds
  <2>11. BuildFits(b)' /\ (~ sideBySide => BuildResumes(b)')
    <3>1. CASE got = Missing
      <4>1. latest' = latest
        BY <1>2, <2>1, <3>1 DEF RouteTypes
      <4> QED
        BY <1>1, <1>2, <2>2, <2>3, <2>5, <2>10, <3>1, <4>1, StayingFits
    <3>2. CASE got # Missing
      BY <1>1, <1>2, <2>3, <2>5, <2>10, <3>2, GoneOnFits
    <3> QED
      BY <3>1, <3>2
  <2>12. RedisKeeps'
    BY <1>1, <1>2 DEF RedisKeeps
  <2> QED
    BY <1>1, <1>2, <2>4, <2>6, <2>7, <2>9, <2>11, <2>12, BuildMoves
<1> QED
  BY <1>3, <1>4

(* A build begins with what the cache holds, alone or beside others from now on. *)
LEMMA StartKeeps ==
  ASSUME RouteInv, NEW b \in Builders, StartBuild(b)
  PROVE  RouteInv'
<1> DEFINE mem == IF store = "json" THEN cache ELSE Nowhere
           new == [at |-> "look", read |-> clock, pair |-> 1, turn |-> 1, mem |-> mem,
                   file |-> "none", got |-> Missing, routes |-> {}, failed |-> {},
                   results |-> << >>]
<1>1. /\ ~ Running(b) /\ cache # Partial /\ build' = [build EXCEPT ![b] = new]
      /\ sideBySide' = (sideBySide \/ \E c \in Builders \ {b} : Running(c))
      /\ UNCHANGED <<store, clock, cache, spare, latest>>
  BY DEF StartBuild
<1>2. RouteTypes /\ b \in DOMAIN build /\ cache \in RouteCaches /\ clock \in Ticks /\ clock \in Int
  BY <1>1, RouteAssumption DEF RouteInv, RouteTypes, Ticks
<1>3. mem \in RouteCaches
  <2>1. Nowhere \in [{} -> Cached] /\ {} \in SUBSET Keys
    BY DEF Nowhere
  <2> QED
    BY <1>2, <2>1 DEF RouteCaches
<1>4. store = "json" => mem = cache
  OBVIOUS
<1> HIDE DEF mem
<1>5. /\ "look" \in BuildSteps /\ 1 \in PairNumbers /\ 1 \in Turns /\ "none" \in Files
      /\ Missing \in Gots /\ {} \in Gathered /\ {} \in Failed /\ << >> \in ResultLists
  BY RouteAssumption
  DEF BuildSteps, PairNumbers, Turns, Files, Gots, Gathered, Failed, ResultLists
<1>6. /\ new \in UnderWay /\ new.at = "look" /\ new.read = clock /\ new.got = Missing
      /\ new.mem = mem
  BY <1>2, <1>3, <1>5 DEF UnderWay
<1> HIDE DEF new
<1>7. /\ build'[b] = new /\ build' \in [Builders -> BuildRows]
      /\ \A c \in Builders \ {b} : build'[c] = build[c]
  BY <1>1, <1>2, <1>6 DEF BuildRows, RouteTypes
<1>8. RouteTypes'
  BY <1>1, <1>2, <1>7 DEF RouteTypes
<1>9. RedisKeeps'
  BY <1>1 DEF RouteInv, RedisKeeps, Expires
<1>10. ASSUME NEW c \in Builders PROVE BuildFits(c)'
  <2>1. CASE c = b
    BY <1>1, <1>2, <1>6, <1>7, <2>1 DEF BuildFits
  <2>2. CASE c # b
    BY <1>1, <1>7, <2>2 DEF RouteInv, BuildFits, Running
  <2> QED
    BY <2>1, <2>2
<1>11. InTurnHeld'
  <2>1. ASSUME ~ sideBySide'
        PROVE  /\ \A c, d \in Builders : Running(c)' /\ Running(d)' => c = d
               /\ cache' # Partial /\ Holds(cache)'
               /\ \A c \in Builders : BuildResumes(c)'
    <3>1. \A c \in Builders : Running(c)' => c = b
      BY <1>1, <1>7, <2>1 DEF Running
    <3>2. Holds(cache)'
      BY <1>1, <2>1 DEF RouteInv, InTurnHeld, Holds, Outdated, Expires
    <3>3. BuildResumes(b)'
      BY <1>1, <1>4, <1>6, <1>7, <3>2 DEF BuildResumes, Holds, Outdated, Expires
    <3>4. \A c \in Builders : BuildResumes(c)'
      BY <3>1, <3>3 DEF BuildResumes
    <3> QED
      BY <1>1, <3>1, <3>2, <3>4
  <2> QED
    BY <2>1 DEF InTurnHeld
<1> QED
  BY <1>8, <1>9, <1>10, <1>11 DEF RouteInv

(* As time passes routes expire, and what Redis forgets has.                   *)
LEMMA TickKeeps ==
  ASSUME RouteInv, Tick
  PROVE  RouteInv'
<1> DEFINE left == {q \in DOMAIN cache : cache[q].kept > clock + 1}
<1>1. /\ clock < Horizon /\ clock' = clock + 1
      /\ store = "redis" => cache' = [k \in left |-> cache[k]]
      /\ store = "json" => cache' = cache
      /\ UNCHANGED <<store, spare, build, latest, sideBySide>>
  BY DEF Tick
<1>2. RouteTypes /\ clock \in Nat /\ clock' \in Nat /\ clock < clock' /\ clock' \in Ticks
  BY <1>1, RouteAssumption DEF RouteInv, RouteTypes, Ticks
<1>3. \A r \in Cached : Expires(r)' = Expires(r) /\ Expires(r) \in Nat
  BY RouteNumbers DEF Expires
<1>4. \A k \in Keys : Outdated(k) => Outdated(k)'
  BY <1>1, <1>2, <1>3 DEF Outdated, RouteTypes
<1>5. ASSUME store = "redis"
      PROVE  /\ cache' \in RouteCaches \cup {Partial} /\ RedisKeeps'
             /\ ~ sideBySide => cache' # Partial /\ Holds(cache)'
  <2>1. PICK keys \in SUBSET Keys : cache \in [keys -> Cached]
    BY <1>2, <1>5 DEF RouteInv, RedisKeeps, RouteCaches
  <2>2. cache' \in [left -> Cached] /\ left \in SUBSET Keys
    BY <1>1, <1>5, <2>1
  <2>3. cache' \in RouteCaches
    BY <2>2 DEF RouteCaches
  <2>4. RedisKeeps'
    BY <1>1, <1>3, <1>5, <2>1, <2>2, <2>3 DEF RouteInv, RedisKeeps, Expires
  <2>5. ASSUME ~ sideBySide, NEW k \in Keys, ~ Outdated(k)'
        PROVE  k \in DOMAIN cache' /\ cache'[k].fetched = latest[k].fetched
    <3>1. k \in DOMAIN cache /\ cache[k].fetched = latest[k].fetched
      BY <1>4, <2>5 DEF RouteInv, InTurnHeld, Holds
    <3>2. cache[k] \in Cached /\ latest[k] \in Cached
      BY <1>1, <1>2, <2>1, <2>5, <3>1 DEF RouteTypes, Outdated
    <3>3. Expires(cache[k]) > clock'
      BY <1>1, <1>2, <1>3, <2>5, <3>1, <3>2 DEF Outdated, Expires
    <3>4. Expires(cache[k]) <= cache[k].kept
      BY <1>5, <3>1 DEF RouteInv, RedisKeeps
    <3>5. cache[k].kept > clock + 1
      <4>1. Expires(cache[k]) \in Nat /\ cache[k].kept \in Nat
        BY <3>2, RouteNumbers
      <4> QED
        BY <1>1, <1>2, <3>3, <3>4, <4>1
    <3>6. k \in left
      BY <3>1, <3>5
    <3>7. cache'[k] = cache[k] /\ DOMAIN cache' = left
      BY <1>1, <1>5, <3>6
    <3> QED
      BY <3>1, <3>6, <3>7
  <2>6. ~ sideBySide => cache' # Partial /\ Holds(cache)'
    <3>1. ~ sideBySide => Holds(cache)'
      BY <1>1, <2>5 DEF Holds
    <3> QED
      BY <2>3, <3>1, RouteAssumption
  <2> QED
    BY <2>3, <2>4, <2>6
<1>6. /\ cache' \in RouteCaches \cup {Partial} /\ RedisKeeps'
      /\ ~ sideBySide => cache' # Partial /\ Holds(cache)'
  <2>1. store \in {"json", "redis"}
    BY <1>2 DEF RouteTypes
  <2>2. CASE store = "json"
    BY <1>1, <1>2, <1>4, <2>2 DEF RouteInv, RouteTypes, RedisKeeps, InTurnHeld, Holds
  <2> QED
    BY <1>5, <2>1, <2>2
<1>7. RouteTypes'
  BY <1>1, <1>2, <1>6 DEF RouteTypes
<1>8. ASSUME NEW b \in Builders PROVE BuildFits(b)'
  <2>1. CASE ~ Running(b)
    BY <1>1, <2>1 DEF BuildFits, Running
  <2>2. CASE Running(b)
    <3>1. build[b].read <= clock /\ build[b].read \in Int
      BY <1>2, <2>2, BuildIsAt DEF RouteInv, BuildFits, UnderWay, Ticks
    <3>2. build[b].got # Missing => build[b].got.fetched <= clock /\ build[b].got.fetched \in Nat
      BY <2>2, RouteNumbers DEF RouteInv, BuildFits, Taken
    <3> QED
      BY <1>1, <1>2, <2>2, <3>1, <3>2 DEF RouteInv, BuildFits, Running
  <2> QED
    BY <2>1, <2>2
<1>9. ASSUME ~ sideBySide, NEW b \in Builders PROVE BuildResumes(b)'
  <2>1. Running(b) => Key(b) \in Keys /\ Key(b)' = Key(b)
    BY <1>1, <1>2, BuildIsAt DEF Key
  <2>2. Holds(build[b].mem) => Holds(build[b].mem)'
    BY <1>1, <1>4 DEF Holds
  <2> QED
    BY <1>1, <1>4, <1>9, <2>1, <2>2 DEF RouteInv, InTurnHeld, BuildResumes, Running
<1>10. InTurnHeld'
  BY <1>1, <1>6, <1>9 DEF RouteInv, InTurnHeld, Running
<1> QED
  BY <1>6, <1>7, <1>8, <1>10 DEF RouteInv

LEMMA CrossedStaysTold ==
  RouteInv /\ CrossedTold /\ [RouteNext]_routeVars => CrossedTold'
<1> SUFFICES ASSUME RouteInv, CrossedTold, [RouteNext]_routeVars PROVE CrossedTold'
  OBVIOUS
<1>1. ASSUME crossed' \subseteq crossed, sideBySide => sideBySide' PROVE CrossedTold'
  BY <1>1 DEF CrossedTold
<1>2. ASSUME NEW b \in Builders, Open(b) PROVE CrossedTold'
  <2>1. /\ Running(b) /\ sideBySide' = sideBySide /\ AlsoOpen(b) \subseteq Builders
        /\ crossed' = IF AlsoOpen(b) = {} THEN crossed ELSE crossed \cup AlsoOpen(b) \cup {b}
    BY <1>2 DEF Open, AlsoOpen, Running
  <2>2. AlsoOpen(b) # {} => sideBySide
    BY <2>1 DEF AlsoOpen, RouteInv, InTurnHeld, Running
  <2> QED
    BY <2>1, <2>2 DEF CrossedTold
<1>3. CASE UNCHANGED routeVars
  BY <1>1, <1>3 DEF routeVars
<1>4. CASE Tick
  BY <1>1, <1>4 DEF Tick
<1>5. ASSUME NEW b \in Builders, StartBuild(b) PROVE CrossedTold'
  BY <1>1, <1>5 DEF StartBuild
<1>6. ASSUME NEW b \in Builders, Hit(b) \/ Miss(b) \/ Drop(b) \/ Set(b) PROVE CrossedTold'
  BY <1>1, <1>6 DEF Hit, Miss, Drop, Set
<1>7. ASSUME NEW b \in Builders, Die(b) \/ Fill(b) \/ Rename(b) PROVE CrossedTold'
  BY <1>1, <1>7 DEF Die, Fill, Rename
<1>8. ASSUME NEW b \in Builders, NEW takes \in Answers, Answer(b, takes) PROVE CrossedTold'
  BY <1>1, <1>8 DEF Answer
<1>9. ASSUME NEW b \in Builders, NEW code \in Failures, Refuse(b, code) PROVE CrossedTold'
  BY <1>1, <1>9 DEF Refuse
<1> QED
  BY <1>2, <1>3, <1>4, <1>5, <1>6, <1>7, <1>8, <1>9 DEF RouteNext

LEMMA RoutesPreserved == RouteInv /\ CrossedTold /\ [RouteNext]_routeVars => RouteInv'
<1> SUFFICES ASSUME RouteInv, CrossedTold, [RouteNext]_routeVars PROVE RouteInv'
  OBVIOUS
<1>1. CASE UNCHANGED routeVars
  BY <1>1
  DEF routeVars, RouteInv, RouteTypes, RedisKeeps, BuildFits, InTurnHeld, BuildResumes, Holds,
      Outdated, Expires, Running, Key
<1>2. CASE RouteNext
  BY <1>2, TickKeeps, StartKeeps, HitKeeps, MissKeeps, DropKeeps, DieKeeps, SetKeeps, OpenKeeps,
     FillKeeps, RenameKeeps, AnswerKeeps, RefuseKeeps DEF RouteNext
<1> QED
  BY <1>1, <1>2

(* The results of a build hold routes that were fresh.                         *)
LEMMA FreshResults ==
  ASSUME RouteTypes, NEW b \in Builders, build[b].at # "off",
         NEW y \in Range(build[b].results), y.basis = "gaode"
  PROVE  y.route \in Taken
<1>1. build[b] \in UnderWay \cup AtEnd
  BY DEF RouteTypes, BuildRows, Off
<1>2. build[b].results \in Seq(Outcomes)
  BY <1>1 DEF UnderWay, AtEnd, ResultLists
<1>3. y \in Outcomes
  BY <1>2 DEF Range
<1> QED
  BY <1>3 DEF Outcomes

(* No route a build takes is older than its lifetime then, from whichever cache  *)
(* (build_gaode_od_snapshot.py) and however many builds there are; and builds   *)
(* that follow each other, however they end, find the cache readable and in it  *)
(* every route that was stored and has not expired.                            *)
THEOREM RoutesAreAlwaysKept == RouteSpec => []RoutesAreKept
<1>1. RouteInit => RouteInv /\ CrossedTold
  BY BuildsBegin DEF RouteInit, CrossedTold
<1>2. RouteInv /\ CrossedTold /\ [RouteNext]_routeVars => RouteInv' /\ CrossedTold'
  BY RoutesPreserved, CrossedStaysTold
<1>3. RouteInv => RoutesAreKept
  <2> SUFFICES ASSUME RouteInv PROVE RoutesAreKept
    OBVIOUS
  <2>1. RoutesAreFresh
    <3>1. RouteTypes
      BY DEF RouteInv
    <3>2. ASSUME NEW b \in Builders, Running(b), NEW r \in build[b].routes
          PROVE  r.used - r.fetched < Lifetime
      BY <3>1, <3>2, BuildIsAt DEF UnderWay, Gathered, Taken
    <3>3. ASSUME NEW b \in Builders, build[b].at # "off",
                 NEW y \in Range(build[b].results), y.basis = "gaode"
          PROVE  y.route.used - y.route.fetched < Lifetime
      BY <3>1, <3>3, FreshResults DEF Taken
    <3> QED
      BY <3>2, <3>3 DEF RoutesAreFresh
  <2>2. BuildsResume
    <3>1. ASSUME ~ sideBySide, NEW b \in Builders, build[b].at = "ask"
          PROVE  Outdated(Key(b))
      BY <3>1 DEF RouteInv, InTurnHeld, BuildResumes, Running
    <3> QED
      BY <3>1 DEF RouteInv, InTurnHeld, BuildsResume, Outdated
  <2> QED
    BY <2>1, <2>2 DEF RoutesAreKept
<1> QED
  BY <1>1, <1>2, <1>3, PTL DEF RouteSpec

-------------------------------------------------------------------------------
(* What a build has is counted: a result for each pair behind it, and for the  *)
(* pair it is at no more routes than modes it has gone through.                *)
GoesOn(row) ==
  /\ IsCache(row.mem)
  /\ Len(row.results) = row.pair - 1
  /\ IsFiniteSet(row.routes) /\ Cardinality(row.routes) < row.turn
  /\ row.got # Missing => row.got.mode = Modes[row.turn]
RowCounts(row) ==
  /\ row \in UnderWay => GoesOn(row)
  /\ row \in AtEnd => Len(row.results) = Pairs
FilesFit ==
  /\ cache = Partial \/ IsCache(cache)
  /\ spare \in {Missing, Partial} \/ IsCache(spare)
CountsInv == RouteInv /\ CrossedTold /\ FilesFit /\ \A b \in Builders : RowCounts(build[b])

LEMMA RowsDiffer ==
  /\ \A row \in UnderWay : row \notin AtEnd /\ row # Off
  /\ \A row \in AtEnd : row # Off
  /\ Off \notin UnderWay /\ Off \notin AtEnd /\ RowCounts(Off)
<1>1. \A row \in UnderWay : row.at \notin {"off", "done"}
  BY DEF UnderWay, BuildSteps
<1>2. \A row \in AtEnd : row.at = "done"
  BY DEF AtEnd
<1>3. Off.at = "off"
  BY DEF Off
<1>4. Off \notin UnderWay /\ Off \notin AtEnd
  BY <1>1, <1>2, <1>3
<1> QED
  BY <1>1, <1>2, <1>3, <1>4 DEF RowCounts

LEMMA CachesStay ==
  ASSUME NEW entries, IsCache(entries), NEW k
  PROVE  /\ IsCache(Without(entries, k))
         /\ \A route \in Cached : k \in Keys /\ route.mode = k[2] => IsCache(With(entries, k, route))
  BY DEF IsCache, Without, With

(* One more mode gives one more route at most.                                 *)
LEMMA OneMoreRoute ==
  ASSUME NEW row \in UnderWay, GoesOn(row), NEW route
  PROVE  /\ IsFiniteSet(row.routes \cup {route}) /\ Cardinality(row.routes \cup {route}) <= row.turn
         /\ IsFiniteSet(row.routes) /\ Cardinality(row.routes) <= row.turn
<1>1. IsFiniteSet(row.routes) /\ Cardinality(row.routes) < row.turn
  BY DEF GoesOn
<1>2. Cardinality(row.routes) \in Nat /\ row.turn \in Nat
  BY <1>1, FS_CardinalityType DEF UnderWay, Turns
<1>3. /\ IsFiniteSet(row.routes \cup {route})
      /\ Cardinality(row.routes \cup {route}) \in {Cardinality(row.routes), Cardinality(row.routes) + 1}
  BY <1>1, FS_AddElement
<1> QED
  BY <1>1, <1>2, <1>3

(* A build goes on to its next pair with the result of the last, and ends      *)
(* with one for each pair.                                                     *)
LEMMA OnwardCounts ==
  ASSUME RouteTypes, NEW b \in Builders, build[b] \in UnderWay, GoesOn(build[b]),
         NEW routes \in Gathered, IsFiniteSet(routes), Cardinality(routes) <= build[b].turn,
         NEW failed \in Failed
  PROVE  RowCounts(Onward(b, routes, failed))
<1> DEFINE new == Onward(b, routes, failed)
           results == Append(build[b].results, Result(routes, failed))
<1>1. /\ build[b].turn \in Nat /\ build[b].pair \in Nat /\ build[b].pair <= Pairs
      /\ build[b].results \in Seq(Outcomes) /\ Len(build[b].results) = build[b].pair - 1
      /\ IsCache(build[b].mem)
      /\ Pairs \in Nat /\ Len(Modes) \in Nat /\ Cardinality(routes) \in Nat
  BY RouteAssumption, FS_CardinalityType DEF UnderWay, Turns, PairNumbers, ResultLists, GoesOn
<1>2. Result(routes, failed) \in Outcomes
  BY ONLY ResultIsTaken, routes \in Gathered, failed \in Failed
<1>3. Len(results) = build[b].pair
  BY <1>1, <1>2
<1>4. CASE build[b].turn < Len(Modes)
  <2>1. new = [build[b] EXCEPT !.at = "look", !.turn = @ + 1, !.got = Missing, !.routes = routes,
                               !.failed = failed, !.read = clock]
    BY <1>4 DEF Onward
  <2>2. /\ new.mem = build[b].mem /\ new.results = build[b].results /\ new.pair = build[b].pair
        /\ new.routes = routes /\ new.turn = build[b].turn + 1 /\ new.got = Missing
        /\ new.at = "look"
    BY <2>1 DEF UnderWay
  <2> HIDE DEF new
  <2>3. GoesOn(new) /\ new \notin AtEnd
    BY <1>1, <2>2 DEF GoesOn, AtEnd
  <2> QED
    BY <2>3 DEF RowCounts, new
<1>5. CASE ~ (build[b].turn < Len(Modes)) /\ build[b].pair < Pairs
  <2>1. new = [build[b] EXCEPT !.at = "look", !.pair = @ + 1, !.turn = 1, !.got = Missing,
                               !.routes = {}, !.failed = {}, !.results = results, !.read = clock]
    BY <1>5 DEF Onward
  <2> HIDE DEF results
  <2>2. /\ new.mem = build[b].mem /\ new.results = results /\ new.pair = build[b].pair + 1
        /\ new.routes = {} /\ new.turn = 1 /\ new.got = Missing /\ new.at = "look"
    BY <2>1 DEF UnderWay
  <2> HIDE DEF new
  <2>3. GoesOn(new) /\ new \notin AtEnd
    BY <1>1, <1>3, <2>2, FS_EmptySet DEF GoesOn, AtEnd
  <2> QED
    BY <2>3 DEF RowCounts, new
<1>6. CASE ~ (build[b].turn < Len(Modes)) /\ ~ (build[b].pair < Pairs)
  <2>1. new = [at |-> "done", results |-> results]
    BY <1>6 DEF Onward
  <2> HIDE DEF results
  <2>2. new.at = "done" /\ new.results = results
    BY <2>1
  <2>3. Len(new.results) = Pairs
    BY <1>1, <1>3, <1>6, <2>2
  <2> HIDE DEF new
  <2>4. new \notin UnderWay
    BY <2>2 DEF UnderWay, BuildSteps
  <2> QED
    BY <2>3, <2>4 DEF RowCounts, new
<1> QED
  BY <1>4, <1>5, <1>6

LEMMA CountsBegin == RouteInit => CountsInv
<1> SUFFICES ASSUME RouteInit PROVE CountsInv
  OBVIOUS
<1>1. IsCache(Nowhere)
  BY DEF IsCache, Nowhere
<1> QED
  BY <1>1, BuildsBegin, RowsDiffer DEF CountsInv, FilesFit, RouteInit, CrossedTold

(* What the steps of a build have in common.                                   *)
LEMMA CountedRow ==
  ASSUME CountsInv, NEW b \in Builders, Running(b)
  PROVE  /\ RouteTypes /\ b \in DOMAIN build /\ build[b] \in UnderWay /\ GoesOn(build[b])
         /\ Key(b) \in Keys /\ Key(b)[2] = Modes[build[b].turn]
         /\ store = "redis" => IsCache(cache)
         /\ IsCache(Entries(b)) \/ (store = "json" /\ Entries(b) = build[b].mem)
<1>1. RouteTypes /\ build[b] \in UnderWay /\ Key(b) \in Keys
  BY BuildIsAt DEF CountsInv, RouteInv
<1>2. store = "redis" => IsCache(cache)
  BY RouteAssumption DEF CountsInv, RouteInv, RedisKeeps, FilesFit
<1> QED
  BY <1>1, <1>2 DEF CountsInv, RowCounts, RouteTypes, Key, Entries

LEMMA StartCounts ==
  ASSUME CountsInv, NEW b \in Builders, StartBuild(b)
  PROVE  RowCounts(build'[b]) /\ FilesFit'
<1> DEFINE new == [at |-> "look", read |-> clock, pair |-> 1, turn |-> 1,
                   mem |-> IF store = "json" THEN cache ELSE Nowhere, file |-> "none",
                   got |-> Missing, routes |-> {}, failed |-> {}, results |-> << >>]
<1>1. build'[b] = new
  BY DEF StartBuild, CountsInv, RouteInv, RouteTypes
<1>2. IsCache(Nowhere) /\ IsCache(cache)
  BY DEF IsCache, Nowhere, StartBuild, CountsInv, FilesFit
<1>3. GoesOn(new)
  BY <1>2, FS_EmptySet DEF GoesOn
<1>4. new \notin AtEnd
  BY DEF AtEnd
<1>5. FilesFit'
  BY DEF StartBuild, CountsInv, FilesFit
<1> HIDE DEF new
<1> QED
  BY <1>1, <1>3, <1>4, <1>5 DEF RowCounts

LEMMA HitCounts ==
  ASSUME CountsInv, RouteInv', NEW b \in Builders, Hit(b)
  PROVE  RowCounts(build'[b]) /\ FilesFit'
<1> DEFINE route == [Entries(b)[Key(b)] EXCEPT !.used = build[b].read]
<1>1. Running(b) /\ build' = [build EXCEPT ![b] = Onward(b, build[b].routes \cup {route}, build[b].failed)]
      /\ UNCHANGED <<cache, spare>>
  BY DEF Hit, Running
<1>2. /\ RouteTypes /\ b \in DOMAIN build /\ build[b] \in UnderWay /\ GoesOn(build[b])
  BY <1>1, CountedRow
<1>3. route \in Taken
  BY HitIsTaken DEF CountsInv
<1> HIDE DEF route
<1>4. build[b].routes \cup {route} \in Gathered /\ build[b].failed \in Failed
  BY <1>2, <1>3 DEF UnderWay, Gathered
<1>5. RowCounts(Onward(b, build[b].routes \cup {route}, build[b].failed))
  BY <1>2, <1>4, OneMoreRoute, OnwardCounts
<1> QED
  BY <1>1, <1>2, <1>5 DEF FilesFit, CountsInv

LEMMA RefuseCounts ==
  ASSUME CountsInv, NEW b \in Builders, NEW code \in Failures, Refuse(b, code)
  PROVE  RowCounts(build'[b]) /\ FilesFit'
<1>1. Running(b) /\ build' = [build EXCEPT ![b] = Onward(b, build[b].routes, build[b].failed \cup {code})]
      /\ UNCHANGED <<cache, spare>>
  BY DEF Refuse, Running
<1>2. /\ RouteTypes /\ b \in DOMAIN build /\ build[b] \in UnderWay /\ GoesOn(build[b])
  BY <1>1, CountedRow
<1>3. build[b].routes \in Gathered /\ build[b].failed \cup {code} \in Failed
  BY <1>2 DEF UnderWay, Failed
<1>4. RowCounts(Onward(b, build[b].routes, build[b].failed \cup {code}))
  BY <1>2, <1>3, OneMoreRoute, OnwardCounts
<1> QED
  BY <1>1, <1>2, <1>4 DEF FilesFit, CountsInv

(* A build that stays at its pair and mode keeps its counts.                   *)
LEMMA StayingCounts ==
  ASSUME NEW row \in UnderWay, GoesOn(row), NEW new,
         new.pair = row.pair, new.turn = row.turn, new.routes = row.routes,
         new.results = row.results, new.at \in BuildSteps, IsCache(new.mem),
         new.got # Missing => new.got.mode = Modes[row.turn]
  PROVE  RowCounts(new)
<1>1. new \notin AtEnd
  BY DEF AtEnd, BuildSteps
<1> QED
  BY <1>1 DEF RowCounts, GoesOn

LEMMA MissCounts ==
  ASSUME CountsInv, NEW b \in Builders, Miss(b)
  PROVE  RowCounts(build'[b]) /\ FilesFit'
<1>1. Running(b) /\ UNCHANGED <<cache, spare>>
  BY DEF Miss, Running
<1>2. /\ RouteTypes /\ b \in DOMAIN build /\ build[b] \in UnderWay /\ GoesOn(build[b])
  BY <1>1, CountedRow
<1>3. PICK at \in {"ask", "drop", "open"}, mem \in {build[b].mem, Without(build[b].mem, Key(b))} :
        build'[b] = [build[b] EXCEPT !.at = at, !.mem = mem]
  <2>1. [build[b] EXCEPT !.at = "ask"] = [build[b] EXCEPT !.at = "ask", !.mem = build[b].mem]
        /\ [build[b] EXCEPT !.at = "drop"] = [build[b] EXCEPT !.at = "drop", !.mem = build[b].mem]
    BY <1>2 DEF UnderWay
  <2> QED
    BY <1>2, <2>1 DEF Miss
<1>4. IsCache(mem)
  BY <1>2, CachesStay DEF GoesOn
<1> DEFINE new == [build[b] EXCEPT !.at = at, !.mem = mem]
<1>5. /\ new.pair = build[b].pair /\ new.turn = build[b].turn /\ new.routes = build[b].routes
      /\ new.results = build[b].results /\ new.at = at /\ new.mem = mem /\ new.got = build[b].got
  BY <1>2 DEF UnderWay
<1>6. at \in BuildSteps
  BY DEF BuildSteps
<1> HIDE DEF new
<1>7. RowCounts(new)
  BY <1>2, <1>4, <1>5, <1>6, StayingCounts DEF GoesOn
<1> QED
  BY <1>1, <1>3, <1>7 DEF new, FilesFit, CountsInv

LEMMA AnswerCounts ==
  ASSUME CountsInv, RouteInv', NEW b \in Builders, NEW takes \in Answers, Answer(b, takes)
  PROVE  RowCounts(build'[b]) /\ FilesFit'
<1> DEFINE route == [mode |-> Modes[build[b].turn], takes |-> takes,
                     fetched |-> build[b].read, used |-> build[b].read, kept |-> 0]
<1>1. Running(b) /\ UNCHANGED <<cache, spare>>
  BY DEF Answer, Running
<1>2. /\ RouteTypes /\ b \in DOMAIN build /\ build[b] \in UnderWay /\ GoesOn(build[b])
      /\ Key(b) \in Keys /\ Key(b)[2] = Modes[build[b].turn]
  BY <1>1, CountedRow
<1>3. route \in Cached /\ route.mode = Modes[build[b].turn]
  <2>1. Modes[build[b].turn] \in Range(Modes) /\ build[b].read \in 0 .. Horizon
    BY <1>1, <1>2, BuildIsAt DEF UnderWay, Ticks
  <2>2. 0 \in 0 .. Horizon + Lifetime
    BY RouteAssumption
  <2> QED
    BY <2>1, <2>2 DEF Cached
<1>4. PICK at \in {"open", "set"}, mem \in {build[b].mem, With(build[b].mem, Key(b), route)} :
        build'[b] = [build[b] EXCEPT !.at = at, !.got = route, !.mem = mem]
  BY <1>2 DEF Answer
<1> DEFINE new == [build[b] EXCEPT !.at = at, !.got = route, !.mem = mem]
<1> HIDE DEF route
<1>5. IsCache(mem)
  BY <1>2, <1>3, <1>4, CachesStay DEF GoesOn
<1>6. /\ new.pair = build[b].pair /\ new.turn = build[b].turn /\ new.routes = build[b].routes
      /\ new.results = build[b].results /\ new.at = at /\ new.mem = mem /\ new.got = route
  BY <1>2 DEF UnderWay
<1>7. at \in BuildSteps
  BY DEF BuildSteps
<1> HIDE DEF new
<1>8. RowCounts(new)
  BY <1>2, <1>3, <1>5, <1>6, <1>7, StayingCounts
<1> QED
  BY <1>1, <1>4, <1>8 DEF new, FilesFit, CountsInv

(* Dropping a key, and writing the file in its steps.                          *)
LEMMA WritingCounts ==
  ASSUME CountsInv, NEW b \in Builders, Drop(b) \/ Open(b) \/ Fill(b)
  PROVE  RowCounts(build'[b]) /\ FilesFit'
<1>1. Running(b)
  BY DEF Drop, Open, Fill, Running
<1>2. /\ RouteTypes /\ b \in DOMAIN build /\ build[b] \in UnderWay /\ GoesOn(build[b])
      /\ store = "redis" => IsCache(cache)
  BY <1>1, CountedRow
<1>3. PICK at \in {"ask", "fill", "rename"}, onto \in {build[b].file, "spare"} :
        build'[b] = [build[b] EXCEPT !.at = at, !.file = onto]
  <2>1. [build[b] EXCEPT !.at = "ask"] = [build[b] EXCEPT !.at = "ask", !.file = build[b].file]
        /\ [build[b] EXCEPT !.at = "rename"] = [build[b] EXCEPT !.at = "rename", !.file = build[b].file]
    BY <1>2 DEF UnderWay
  <2>2. \/ build'[b] = [build[b] EXCEPT !.at = "ask"]
        \/ build'[b] = [build[b] EXCEPT !.at = "fill", !.file = "spare"]
        \/ build'[b] = [build[b] EXCEPT !.at = "rename"]
    BY <1>2 DEF Drop, Open, Fill
  <2> QED
    BY <2>1, <2>2
<1> DEFINE new == [build[b] EXCEPT !.at = at, !.file = onto]
<1>4. /\ new.pair = build[b].pair /\ new.turn = build[b].turn /\ new.routes = build[b].routes
      /\ new.results = build[b].results /\ new.at = at /\ new.mem = build[b].mem
      /\ new.got = build[b].got
  BY <1>2 DEF UnderWay
<1>5. at \in BuildSteps
  BY DEF BuildSteps
<1> HIDE DEF new
<1>6. RowCounts(new)
  BY <1>2, <1>4, <1>5, StayingCounts DEF GoesOn
<1>7. FilesFit'
  <2>1. CASE Drop(b)
    <3>1. store = "redis"
      BY <1>1, <2>1 DEF CountsInv, RouteInv, BuildFits, RouteTypes, Drop
    <3>2. IsCache(cache') /\ spare' = spare
      BY <1>2, <2>1, <3>1, CachesStay DEF Drop
    <3> QED
      BY <3>2 DEF CountsInv, FilesFit
  <2>2. CASE Open(b)
    BY <2>2 DEF Open, CountsInv, FilesFit
  <2>3. CASE Fill(b)
    <3>1. PICK text \in {build[b].mem, Partial} :
            /\ cache' = IF build[b].file = "cache" THEN text ELSE cache
            /\ spare' = IF build[b].file = "spare" THEN text ELSE spare
      BY <2>3 DEF Fill
    <3>2. text = Partial \/ IsCache(text)
      BY <1>2, <3>1 DEF GoesOn
    <3> QED
      BY <3>1, <3>2 DEF CountsInv, FilesFit
  <2> QED
    BY <2>1, <2>2, <2>3
<1> QED
  BY <1>3, <1>6, <1>7 DEF new

(* A route that was stored is taken, in Redis ...                              *)
LEMMA TakenCounts ==
  ASSUME CountsInv, NEW b \in Builders, Running(b), build[b].got # Missing
  PROVE  RowCounts(Onward(b, build[b].routes \cup {build[b].got}, build[b].failed))
<1>1. /\ RouteTypes /\ build[b] \in UnderWay /\ GoesOn(build[b])
  BY CountedRow
<1>2. build[b].got \in Taken
  BY DEF CountsInv, RouteInv, BuildFits
<1>3. build[b].routes \cup {build[b].got} \in Gathered /\ build[b].failed \in Failed
  BY <1>1, <1>2 DEF UnderWay, Gathered
<1> QED
  BY <1>1, <1>3, OneMoreRoute, OnwardCounts

LEMMA SetCounts ==
  ASSUME CountsInv, NEW b \in Builders, Set(b)
  PROVE  RowCounts(build'[b]) /\ FilesFit'
<1>1. Running(b) /\ build[b].at = "set"
  BY DEF Set, Running
<1>2. /\ RouteTypes /\ b \in DOMAIN build /\ build[b] \in UnderWay /\ GoesOn(build[b])
      /\ Key(b) \in Keys /\ Key(b)[2] = Modes[build[b].turn]
      /\ store = "redis" => IsCache(cache)
  BY <1>1, CountedRow
<1>3. store = "redis" /\ build[b].got # Missing
  BY <1>1, <1>2 DEF CountsInv, RouteInv, BuildFits, RouteTypes
<1>4. RowCounts(build'[b])
  BY <1>1, <1>2, <1>3, TakenCounts DEF Set
<1> DEFINE kept == [build[b].got EXCEPT !.kept = clock + Lifetime]
<1>5. kept \in Cached /\ kept.mode = build[b].got.mode
  <2>1. build[b].got \in Cached
    BY <1>2, <1>3 DEF UnderWay, Gots
  <2>2. clock + Lifetime \in 0 .. Horizon + Lifetime
    BY <1>2, RouteAssumption DEF RouteTypes, Ticks
  <2> QED
    BY <2>1, <2>2 DEF Cached
<1>6. cache' = With(cache, Key(b), kept) /\ spare' = spare
  BY DEF Set
<1> HIDE DEF kept
<1>7. kept.mode = Key(b)[2]
  BY <1>2, <1>3, <1>5 DEF GoesOn
<1>8. IsCache(cache) /\ Key(b) \in Keys
  BY <1>2, <1>3
<1>9. IsCache(With(cache, Key(b), kept))
  BY <1>5, <1>7, <1>8, CachesStay
<1>10. IsCache(cache')
  BY <1>6, <1>9
<1> QED
  BY <1>4, <1>6, <1>10 DEF FilesFit, CountsInv

(* ... and in the file, whose renaming others may notice.                      *)
LEMMA RenameCounts ==
  ASSUME CountsInv, NEW b \in Builders, Rename(b)
  PROVE  (\A c \in Builders : RowCounts(build'[c])) /\ FilesFit'
<1>1. Running(b) /\ build[b].at = "rename"
  BY DEF Rename, Running
<1>2. /\ RouteTypes /\ b \in DOMAIN build /\ build[b] \in UnderWay /\ GoesOn(build[b])
      /\ build \in [Builders -> BuildRows]
  BY <1>1, CountedRow DEF RouteTypes
<1> DEFINE then == IF build[b].got = Missing THEN [build[b] EXCEPT !.at = "ask"]
                   ELSE Onward(b, build[b].routes \cup {build[b].got}, build[b].failed)
<1>3. RowCounts(then)
  <2>1. CASE build[b].got = Missing
    <3> DEFINE new == [build[b] EXCEPT !.at = "ask"]
    <3>1. /\ new.pair = build[b].pair /\ new.turn = build[b].turn /\ new.routes = build[b].routes
          /\ new.results = build[b].results /\ new.at = "ask" /\ new.mem = build[b].mem
          /\ new.got = build[b].got
      BY <1>2 DEF UnderWay
    <3>2. "ask" \in BuildSteps
      BY DEF BuildSteps
    <3> HIDE DEF new
    <3>3. RowCounts(new)
      BY <1>2, <2>1, <3>1, <3>2, StayingCounts DEF GoesOn
    <3> QED
      BY <2>1, <3>3 DEF new
  <2>2. CASE build[b].got # Missing
    BY <1>1, <2>2, TakenCounts
  <2> QED
    BY <2>1, <2>2
<1> HIDE DEF then
<1>4. CASE spare = Missing
  <2>1. build' = [build EXCEPT ![b] = Off] /\ UNCHANGED <<cache, spare>>
    BY <1>4 DEF Rename
  <2>2. \A c \in Builders : build'[c] = Off \/ build'[c] = build[c]
    BY <1>2, <2>1
  <2> QED
    BY <2>1, <2>2, RowsDiffer DEF CountsInv, FilesFit
<1>5. CASE spare # Missing
  <2>1. /\ build' = [c \in Builders |->
                       IF c = b THEN then
                       ELSE IF build[c].at = "fill" THEN [build[c] EXCEPT !.file = Moved(@)]
                       ELSE build[c]]
        /\ cache' = spare /\ spare' = Missing
    BY <1>5 DEF Rename, then
  <2>2. ASSUME NEW c \in Builders, build[c].at = "fill"
        PROVE  RowCounts([build[c] EXCEPT !.file = Moved(@)])
    <3>1. Running(c)
      BY <2>2 DEF Running
    <3>2. build[c] \in UnderWay /\ GoesOn(build[c])
      BY <3>1, CountedRow
    <3> DEFINE new == [build[c] EXCEPT !.file = Moved(@)]
    <3>3. /\ new.pair = build[c].pair /\ new.turn = build[c].turn /\ new.routes = build[c].routes
          /\ new.results = build[c].results /\ new.at = "fill" /\ new.mem = build[c].mem
          /\ new.got = build[c].got
      BY <2>2, <3>2 DEF UnderWay
    <3>4. "fill" \in BuildSteps
      BY DEF BuildSteps
    <3> HIDE DEF new
    <3>5. RowCounts(new)
      BY <3>2, <3>3, <3>4, StayingCounts DEF GoesOn
    <3> QED
      BY <3>5 DEF new
  <2>3. ASSUME NEW c \in Builders PROVE RowCounts(build'[c])
    <3>1. CASE c = b
      BY <1>3, <2>1, <3>1
    <3>2. CASE c # b /\ build[c].at = "fill"
      BY <2>1, <2>2, <3>2
    <3>3. CASE c # b /\ build[c].at # "fill"
      BY <2>1, <3>3 DEF CountsInv
    <3> QED
      BY <3>1, <3>2, <3>3
  <2>4. FilesFit'
    BY <1>5, <2>1 DEF CountsInv, FilesFit
  <2> QED
    BY <2>3, <2>4
<1> QED
  BY <1>4, <1>5

LEMMA CountsPreserved == CountsInv /\ [RouteNext]_routeVars => CountsInv'
<1> SUFFICES ASSUME CountsInv, [RouteNext]_routeVars PROVE CountsInv'
  OBVIOUS
<1>1. RouteInv' /\ CrossedTold'
  BY RoutesPreserved, CrossedStaysTold DEF CountsInv
<1>2. build \in [Builders -> BuildRows]
  BY DEF CountsInv, RouteInv, RouteTypes
<1>3. SUFFICES FilesFit' /\ \A c \in Builders : RowCounts(build'[c])
  BY <1>1 DEF CountsInv, RowCounts, GoesOn, IsCache
<1>4. CASE UNCHANGED routeVars
  BY <1>4 DEF routeVars, CountsInv, FilesFit
<1>5. CASE Tick
  <2>1. build' = build /\ spare' = spare
    BY <1>5 DEF Tick
  <2>2. store = "redis" => cache # Partial
    BY RouteAssumption DEF CountsInv, RouteInv, RedisKeeps
  <2>3. FilesFit'
    BY <1>5, <2>1, <2>2 DEF CountsInv, FilesFit, Tick, IsCache
  <2> QED
    BY <2>1, <2>3 DEF CountsInv
<1>6. ASSUME NEW b \in Builders, RowCounts(build'[b]) /\ FilesFit',
             \E new : build' = [build EXCEPT ![b] = new]
      PROVE  FilesFit' /\ \A c \in Builders : RowCounts(build'[c])
  <2>1. \A c \in Builders \ {b} : build'[c] = build[c]
    BY <1>2, <1>6
  <2> QED
    BY <1>6, <2>1 DEF CountsInv
<1>7. ASSUME NEW b \in Builders, StartBuild(b) \/ Hit(b) \/ Miss(b)
      PROVE  FilesFit' /\ \A c \in Builders : RowCounts(build'[c])
  <2>1. \E new : build' = [build EXCEPT ![b] = new]
    BY <1>7 DEF StartBuild, Hit, Miss
  <2> QED
    BY <1>1, <1>6, <1>7, <2>1, StartCounts, HitCounts, MissCounts
<1>8. ASSUME NEW b \in Builders, Drop(b) \/ Open(b) \/ Fill(b) \/ Set(b)
      PROVE  FilesFit' /\ \A c \in Builders : RowCounts(build'[c])
  <2>1. \E new : build' = [build EXCEPT ![b] = new]
    <3>1. CASE Drop(b)
      BY <1>2, <3>1 DEF Drop
    <3>2. CASE Open(b)
      <4>1. build' = [build EXCEPT ![b] = [build[b] EXCEPT !.at = "fill", !.file = "spare"]]
        BY <1>2, <3>2 DEF Open
      <4> QED
        BY <4>1
    <3>3. CASE Fill(b)
      BY <1>2, <3>3 DEF Fill
    <3>4. CASE Set(b)
      BY <3>4 DEF Set
    <3> QED
      BY <1>8, <3>1, <3>2, <3>3, <3>4
  <2> QED
    BY <1>6, <1>8, <2>1, WritingCounts, SetCounts
<1>9. ASSUME NEW b \in Builders, Die(b)
      PROVE  FilesFit' /\ \A c \in Builders : RowCounts(build'[c])
  <2>1. build' = [build EXCEPT ![b] = Off] /\ UNCHANGED <<cache, spare>>
    BY <1>9 DEF Die
  <2>2. RowCounts(build'[b]) /\ FilesFit'
    BY <1>2, <2>1, RowsDiffer DEF CountsInv, FilesFit
  <2> QED
    BY <1>6, <2>1, <2>2
<1>10. ASSUME NEW b \in Builders, NEW takes \in Answers, Answer(b, takes)
       PROVE  FilesFit' /\ \A c \in Builders : RowCounts(build'[c])
  <2>1. \E new : build' = [build EXCEPT ![b] = new]
    <3> DEFINE route == [mode |-> Modes[build[b].turn], takes |-> takes,
                         fetched |-> build[b].read, used |-> build[b].read, kept |-> 0]
    <3>1. build' = [build EXCEPT ![b] =
             [build[b] EXCEPT !.at = IF store = "json" THEN "open" ELSE "set", !.got = route,
                              !.mem = IF store = "json" THEN With(@, Key(b), route) ELSE @]]
      BY <1>2, <1>10 DEF Answer
    <3> QED
      BY <3>1
  <2> QED
    BY <1>1, <1>6, <1>10, <2>1, AnswerCounts
<1>11. ASSUME NEW b \in Builders, NEW code \in Failures, Refuse(b, code)
       PROVE  FilesFit' /\ \A c \in Builders : RowCounts(build'[c])
  <2>1. \E new : build' = [build EXCEPT ![b] = new]
    BY <1>11 DEF Refuse
  <2> QED
    BY <1>6, <1>11, <2>1, RefuseCounts
<1>12. ASSUME NEW b \in Builders, Rename(b)
       PROVE  FilesFit' /\ \A c \in Builders : RowCounts(build'[c])
  BY <1>12, RenameCounts
<1> QED
  BY <1>4, <1>5, <1>7, <1>8, <1>9, <1>10, <1>11, <1>12 DEF RouteNext

(* A build that ends has one result for each pair, however often it was asked, *)
(* refused or answered, and an entry is always one of its key's mode: so the   *)
(* type of the caches and of the builds, for any number of them.               *)
THEOREM RouteTypesHold == RouteSpec => []RouteTypeOK
<1>1. CountsInv => RouteTypeOK
  <2> SUFFICES ASSUME CountsInv PROVE RouteTypeOK
    OBVIOUS
  <2>1. store \in {"json", "redis"} /\ clock \in 0 .. Horizon
    BY DEF CountsInv, RouteInv, RouteTypes, Ticks
  <2>2. ASSUME NEW b \in Builders
        PROVE  \/ build[b] = Off
               \/ build[b].at = "done" /\ Len(build[b].results) = Pairs
               \/ /\ build[b].pair \in 1 .. Pairs /\ build[b].turn \in 1 .. Len(Modes)
                  /\ IsCache(build[b].mem)
                  /\ Len(build[b].results) = build[b].pair - 1
                  /\ Cardinality(build[b].routes) < build[b].turn
    <3>1. build[b] \in BuildRows /\ RowCounts(build[b])
      BY DEF CountsInv, RouteInv, RouteTypes
    <3>2. CASE build[b] \in UnderWay
      BY <3>1, <3>2 DEF RowCounts, GoesOn, UnderWay, PairNumbers, Turns
    <3>3. CASE build[b] \in AtEnd
      BY <3>1, <3>3 DEF RowCounts, AtEnd
    <3> QED
      BY <3>1, <3>2, <3>3 DEF BuildRows
  <2> QED
    BY <2>1, <2>2 DEF RouteTypeOK, CountsInv, FilesFit, CrossedTold
<1> QED
  BY <1>1, CountsBegin, CountsPreserved, PTL DEF RouteSpec
===============================================================================
