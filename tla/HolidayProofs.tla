------------------------------ MODULE HolidayProofs ------------------------------
(***************************************************************************)
(* The inductive invariant of the holiday calendar sync, for any number of *)
(* jobs, workers, operators and versions, with or without leases that hold;*)
(* then what holds besides when runs keep to their lease and nobody        *)
(* cancels.                                                                *)
(***************************************************************************)
EXTENDS HolidayInvariant, TLAPS

-------------------------------------------------------------------------------
(* Rows.                                                                     *)

(* A column-wise write yields a row of the table, of the row's own mode when *)
(* the write does not touch it, with the status of one of the two.           *)
LEMMA MergeRow ==
  ASSUME NEW row \in JobRow, NEW loaded \in JobRow, NEW new \in JobRow
  PROVE /\ Merge(row, loaded, new) \in JobRow
        /\ new.mode = loaded.mode => Merge(row, loaded, new).mode = row.mode
        /\ Merge(row, loaded, new).status \in {new.status, row.status}
<1>1. DOMAIN row = {"year", "mode", "status", "lock", "started", "due", "calendar"}
  BY DEF JobRow
<1>2. Merge(row, loaded, new) =
      [year |-> IF new.year # loaded.year THEN new.year ELSE row.year,
       mode |-> IF new.mode # loaded.mode THEN new.mode ELSE row.mode,
       status |-> IF new.status # loaded.status THEN new.status ELSE row.status,
       lock |-> IF new.lock # loaded.lock THEN new.lock ELSE row.lock,
       started |-> IF new.started # loaded.started THEN new.started ELSE row.started,
       due |-> IF new.due # loaded.due THEN new.due ELSE row.due,
       calendar |-> IF new.calendar # loaded.calendar THEN new.calendar ELSE row.calendar]
  BY <1>1 DEF Merge
<1> QED BY <1>2 DEF JobRow

(* What update_job is given to write keeps every column but the lock.        *)
LEMMA WrittenRow ==
  ASSUME NEW job \in JobRow, NEW loaded \in JobRow
  PROVE /\ Written(job, loaded) \in JobRow
        /\ Written(job, loaded).mode = job.mode
        /\ Written(job, loaded).status = job.status
  BY DEF Written, JobRow

(* Recovery, claim and time keep a row's type and mode.                      *)
LEMMA RecoverRow ==
  ASSUME NEW row \in JobRow
  PROVE Recover(row) \in JobRow /\ Recover(row).mode = row.mode
        /\ Recover(row).status = "queued"
        /\ Recover(row).year = row.year /\ Recover(row).lock = FALSE
  BY DEF Recover, JobRow, JobStatuses

LEMMA ClaimedRow ==
  ASSUME NEW row \in JobRow
  PROVE Claimed(row) \in JobRow /\ Claimed(row).mode = row.mode
        /\ Claimed(row).status = "running"
  BY DEF Claimed, JobRow, JobStatuses

LEMMA LaterRow ==
  ASSUME NEW row \in JobRow
  PROVE Later(row) \in JobRow /\ Later(row).mode = row.mode
        /\ Later(row).status = row.status /\ Later(row).year = row.year
        /\ Later(row).lock = row.lock
  BY DEF Later, JobRow

(* What an actor holds, by the step it is at.                                *)
LEMMA ActorSteps ==
  ASSUME NEW m \in Actor
  PROVE /\ m.step = "claim" => m \in ClaimActor
        /\ m.step \in {"load", "work"} => m \in RunActor
        /\ m.step = "flush" => m \in FlushActor
        /\ m.step = "cancelling" => m \in CancellingActor
        /\ m.step = "cancel" => m \in CancelActor
        /\ m.step = "current" => m \in CurrentActor
        /\ m.step = "version" => m \in VersionActor
        /\ m.step = "publish" => m \in PublishActor
        /\ m.step = "store" => m \in StoreActor
        /\ m.step # "idle" => m.id \in Jobs
        /\ m.step \notin {"idle", "claim"} => m.job \in JobRow
  BY DEF Actor, IdleActor, ClaimActor, RunActor, FlushActor, CancellingActor, CancelActor,
         CurrentActor, VersionActor, PublishActor, StoreActor

-------------------------------------------------------------------------------
(* Steps.                                                                    *)

(* A step that publishes nothing preserves the invariant if the jobs keep    *)
(* their modes and every actor's state still fits.                           *)
LEMMA QuietStep ==
  ASSUME IInv,
         jobs' \in [Jobs -> JobRow \cup {None}],
         \A j \in Jobs : Stored(j) => Stored(j)' /\ jobs'[j].mode = jobs[j].mode,
         PreviewsAreValidated',
         calendars' = calendars,
         audited \subseteq audited', audited' \in SUBSET Jobs,
         crashes' \in Nat, outages' \in Nat,
         actor' \in [Actors -> Actor],
         HeldFits'
  PROVE  IInv'
<1>1. TypeOK'
  BY DEF IInv, TypeOK
<1>2. OnePublishedPerYear'
  BY DEF IInv, OnePublishedPerYear, OfYear
<1>3. SyncIsAudited'
  <2> SUFFICES ASSUME NEW c \in CalendarIds, calendars[c] # None
               PROVE  /\ jobs'[calendars[c].job] # None
                      /\ jobs'[calendars[c].job].mode = "sync" => calendars[c].job \in audited'
    BY DEF SyncIsAudited, Stored
  <2>1. calendars[c] \in CalendarRow
    BY DEF IInv, TypeOK
  <2>2. calendars[c].job \in Jobs
    BY <2>1 DEF CalendarRow
  <2>3. /\ jobs[calendars[c].job] # None
        /\ jobs[calendars[c].job].mode = "sync" => calendars[c].job \in audited
    BY DEF IInv, SyncIsAudited, Stored
  <2>4. /\ jobs'[calendars[c].job] # None
        /\ jobs'[calendars[c].job].mode = jobs[calendars[c].job].mode
    BY <2>2, <2>3 DEF Stored
  <2> QED
    BY <2>3, <2>4
<1>4. JobPublishesOnce'
  <2> SUFFICES ASSUME NEW j \in Jobs, Stored(j)', jobs'[j].mode = "sync"
               PROVE  PublishesOnce(j)
    BY DEF JobPublishesOnce, PublishesOnce, MadeBy
  <2>1. CASE Stored(j)
    BY <2>1 DEF IInv, JobPublishesOnce
  <2>2. CASE ~Stored(j)
    BY <2>2 DEF IInv, SyncIsAudited, PublishesOnce, MadeBy
  <2> QED
    BY <2>1, <2>2
<1> QED
  BY <1>1, <1>2, <1>3, <1>4 DEF IInv

(* What an actor holds goes on fitting while jobs keep their modes.          *)
LEMMA StillFits ==
  ASSUME IInv, NEW b \in Actors, actor'[b] = actor[b],
         \A j \in Jobs : Stored(j) => Stored(j)' /\ jobs'[j].mode = jobs[j].mode,
         calendars' = calendars
  PROVE  /\ HoldsStored(b)'
         /\ HoldsMode(b)'
         /\ HoldsCurrent(b)'
<1> DEFINE m == actor[b]
<1>1. m \in Actor
  BY DEF IInv, TypeOK
<1>2. /\ m.step # "idle" => m.id \in Jobs /\ Stored(m.id)
      /\ m.step = "claim" => m.expired \subseteq Jobs /\ \A j \in m.expired : Stored(j)
  BY <1>1, ActorSteps DEF IInv, HeldFits, HoldsStored, ClaimActor
<1>3. HoldsMode(b)'
  BY <1>2 DEF IInv, HeldFits, HoldsMode
<1>4. HoldsCurrent(b)'
  BY DEF IInv, HeldFits, HoldsCurrent, OfYear, NextVersions, Follows
<1> QED
  BY <1>2, <1>3, <1>4 DEF HoldsStored

(* One actor goes on to hold r, while jobs keep their modes.                 *)
LEMMA ActorStep ==
  ASSUME IInv, NEW a \in Actors, NEW r \in Actor,
         actor' = [actor EXCEPT ![a] = r],
         jobs' \in [Jobs -> JobRow \cup {None}],
         \A j \in Jobs : Stored(j) => Stored(j)' /\ jobs'[j].mode = jobs[j].mode,
         PreviewsAreValidated',
         calendars' = calendars,
         audited \subseteq audited', audited' \in SUBSET Jobs,
         crashes' \in Nat, outages' \in Nat,
         r.step # "idle" => Stored(r.id),
         r.step = "claim" => \A j \in r.expired : Stored(j), HoldsMode(a)', HoldsCurrent(a)'
  PROVE  IInv'
<1>1. actor \in [Actors -> Actor]
  BY DEF IInv, TypeOK
<1>2. actor' \in [Actors -> Actor] /\ actor'[a] = r
  BY <1>1
<1>3. ASSUME NEW b \in Actors
      PROVE  /\ HoldsStored(b)'
             /\ HoldsMode(b)'
             /\ HoldsCurrent(b)'
  <2>1. CASE b = a
    <3>1. /\ r.step # "idle" => r.id \in Jobs
          /\ r.step = "claim" => r.expired \subseteq Jobs
      BY ActorSteps DEF ClaimActor
    <3> QED
      BY <1>2, <2>1, <3>1 DEF HoldsStored
  <2>2. CASE b # a
    BY <1>1, <2>2, StillFits
  <2> QED
    BY <2>1, <2>2
<1>4. HeldFits'
  BY <1>3 DEF HeldFits
<1> QED
  BY <1>2, <1>4, QuietStep

(* One actor goes on to hold r and the tables stay as they are.              *)
LEMMA PlainStep ==
  ASSUME IInv, NEW a \in Actors, NEW r \in Actor,
         actor' = [actor EXCEPT ![a] = r],
         UNCHANGED <<jobs, calendars, audited>>,
         crashes' \in Nat, outages' \in Nat,
         r.step # "idle" => Stored(r.id),
         r.step = "claim" => \A j \in r.expired : Stored(j), HoldsMode(a)', HoldsCurrent(a)'
  PROVE  IInv'
<1>1. jobs' \in [Jobs -> JobRow \cup {None}] /\ audited' \in SUBSET Jobs
  BY DEF IInv, TypeOK
<1>2. PreviewsAreValidated'
  BY DEF IInv, PreviewsAreValidated, Stored
<1>3. \A j \in Jobs : Stored(j) => Stored(j)' /\ jobs'[j].mode = jobs[j].mode
  BY DEF Stored
<1> QED
  BY <1>1, <1>2, <1>3, ActorStep

(* What an actor of a type-correct state holds, and the row of its job.      *)
LEMMA Held ==
  ASSUME IInv, NEW a \in Actors
  PROVE  /\ actor \in [Actors -> Actor]
         /\ actor[a] \in Actor
         /\ HoldsStored(a) /\ HoldsMode(a) /\ HoldsCurrent(a)
         /\ crashes \in Nat /\ outages \in Nat
         /\ actor[a].step # "idle" =>
              actor[a].id \in Jobs /\ Stored(actor[a].id) /\ jobs[actor[a].id] \in JobRow
  BY ActorSteps DEF IInv, TypeOK, HeldFits, HoldsStored, Stored

(* An actor that has nothing to do holds nothing.                            *)
LEMMA IdleFits ==
  ASSUME NEW a \in Actors, actor'[a] = Idle
  PROVE  HoldsMode(a)' /\ HoldsCurrent(a)' /\ Idle \in Actor
  BY DEF Idle, HoldsMode, HoldsCurrent, Actor, IdleActor

LEMMA RestStep ==
  ASSUME IInv, NEW a \in Actors, Rest(a), UNCHANGED <<jobs, calendars, audited>>,
         crashes' \in Nat, outages' \in Nat
  PROVE  IInv'
<1>1. actor'[a] = Idle
  BY Held DEF Rest
<1> QED
  BY <1>1, IdleFits, PlainStep DEF Rest, Idle

-------------------------------------------------------------------------------
(* The steps of a run that write nothing.                                    *)

LEMMA SelectNextPreserves ==
  ASSUME IInv, NEW w \in Workers, SelectNext(w)
  PROVE  IInv'
<1>1. w \in Actors
  BY DEF Actors
<1>2. PICK j \in Jobs : /\ Stored(j)
                        /\ actor' = [actor EXCEPT ![w] =
                             [step |-> "claim", id |-> j, expired |-> Expired]]
                        /\ \A k \in Expired : Stored(k)
  BY DEF SelectNext, Oldest, Expired
<1> DEFINE r == [step |-> "claim", id |-> j, expired |-> Expired]
<1>3. r \in Actor
  BY DEF Actor, ClaimActor, Expired
<1>4. actor'[w] = r
  BY <1>1, <1>2, Held
<1>5. HoldsMode(w)' /\ HoldsCurrent(w)'
  BY <1>4 DEF HoldsMode, HoldsCurrent
<1> QED
  BY <1>1, <1>2, <1>3, <1>5, PlainStep, Held DEF SelectNext

LEMMA LoadJobPreserves ==
  ASSUME IInv, NEW w \in Workers, LoadJob(w)
  PROVE  IInv'
<1> DEFINE m == actor[w]
           r == [step |-> "flush", id |-> m.id, job |-> m.job, stage |-> m.stage,
                 digest |-> m.digest, loaded |-> jobs[m.id]]
<1>1. w \in Actors
  BY DEF Actors
<1>2. m \in RunActor /\ m.step = "load"
  BY <1>1, Held, ActorSteps DEF LoadJob
<1>3. m.id \in Jobs /\ Stored(m.id) /\ jobs[m.id] \in JobRow
  BY <1>1, <1>2, Held
<1>4. r \in FlushActor
  BY <1>2, <1>3 DEF RunActor, FlushActor
<1>5. r \in Actor
  BY <1>4 DEF Actor
<1>6. actor' = [actor EXCEPT ![w] = r] /\ actor'[w] = r
  BY <1>1, Held DEF LoadJob
<1>7. HoldsMode(w)' /\ HoldsCurrent(w)'
  BY <1>1, <1>2, <1>3, <1>6, Held DEF LoadJob, HoldsMode, HoldsCurrent
<1> QED
  BY <1>1, <1>3, <1>5, <1>6, <1>7, PlainStep, Held DEF LoadJob

(* A run that goes on to write its progress or its end: the job it knows     *)
(* keeps its mode, and only a preview becomes validated.                     *)
LEMMA GoesOn ==
  ASSUME IInv, NEW w \in Workers, actor[w].step = "work",
         NEW job \in JobRow, job.mode = actor[w].job.mode,
         job.status = "validated_preview" => job.mode = "preview",
         NEW stage \in Stages, stage = "preview_ready" => job.mode = "preview",
         NEW d \in Digests \cup {None}, stage = "publishing" => d # None,
         actor' = [actor EXCEPT ![w] = [step |-> "load", id |-> actor[w].id,
                     job |-> job, stage |-> stage, digest |-> d]],
         UNCHANGED <<jobs, calendars, audited>>, crashes' \in Nat, outages' \in Nat
  PROVE  IInv'
<1> DEFINE m == actor[w]
           r == [step |-> "load", id |-> m.id, job |-> job, stage |-> stage, digest |-> d]
<1>1. w \in Actors /\ w \notin Operators
  BY ActorsDiffer DEF Actors
<1>2. m.id \in Jobs /\ Stored(m.id)
  BY <1>1, Held
<1>3. r \in RunActor
  BY <1>2 DEF RunActor
<1>4. r \in Actor
  BY <1>3 DEF Actor
<1>5. actor'[w] = r
  BY <1>1, Held
<1>6. HoldsMode(w)' /\ HoldsCurrent(w)'
  BY <1>1, <1>5, Held DEF HoldsMode, HoldsCurrent
<1> QED
  BY <1>1, <1>2, <1>4, <1>6, PlainStep

LEMMA ProgressPreserves ==
  ASSUME IInv, NEW w \in Workers, actor[w].step = "work",
         NEW stage \in Stages, stage = "preview_ready" => actor[w].job.mode = "preview",
         NEW d \in Digests \cup {None}, stage = "publishing" => d # None,
         Progress(w, stage, d),
         UNCHANGED <<jobs, calendars, audited>>, crashes' \in Nat, outages' \in Nat
  PROVE  IInv'
<1>1. w \in Actors
  BY DEF Actors
<1>2. actor[w].job \in JobRow
  BY <1>1, Held, ActorSteps
<1>3. actor[w].job.status = "validated_preview" => actor[w].job.mode = "preview"
  BY <1>1, Held DEF HoldsMode
<1>4. actor' = [actor EXCEPT ![w] = [step |-> "load", id |-> actor[w].id,
                  job |-> actor[w].job, stage |-> stage, digest |-> d]]
  BY DEF Progress
<1> QED
  BY <1>2, <1>3, <1>4, GoesOn

LEMMA FinishPreserves ==
  ASSUME IInv, NEW w \in Workers, actor[w].step = "work",
         NEW status \in JobStatuses, NEW due \in {"never", "later", "now"},
         NEW c \in CalendarIds \cup {None}, Finish(w, status, due, c),
         status = "validated_preview" => actor[w].job.mode = "preview",
         UNCHANGED <<jobs, calendars, audited>>, crashes' \in Nat, outages' \in Nat
  PROVE  IInv'
<1> DEFINE m == actor[w]
           job == [m.job EXCEPT !.status = status, !.due = due, !.calendar = c]
<1>1. w \in Actors
  BY DEF Actors
<1>2. m \in RunActor
  BY <1>1, Held, ActorSteps
<1>3. m.job \in JobRow /\ m.stage \in Stages /\ m.digest \in Digests \cup {None}
  BY <1>2 DEF RunActor
<1>4. job \in JobRow /\ job.mode = m.job.mode /\ job.status = status
  BY <1>3 DEF JobRow
<1>5. /\ m.stage = "preview_ready" => job.mode = "preview"
      /\ m.stage = "publishing" => m.digest # None
  BY <1>1, <1>4, Held DEF HoldsMode
<1>6. actor' = [actor EXCEPT ![w] = [step |-> "load", id |-> m.id, job |-> job,
                  stage |-> m.stage, digest |-> m.digest]]
  BY <1>3 DEF Finish
<1> HIDE DEF job
<1> QED
  BY <1>3, <1>4, <1>5, <1>6, GoesOn

LEMMA WorkPreserves ==
  ASSUME IInv, NEW w \in Workers, Work(w)
  PROVE  IInv'
<1> DEFINE m == actor[w]
<1> USE DEF At
<1>1. w \in Actors /\ w \notin Operators
  BY ActorsDiffer DEF Actors
<1>2. m.step = "work"
  BY DEF Work, Discovered, NotAnnounced, Fetched, Extracted, NeedsAttention, UpToDate,
         Validated, Previewed, Prepare
<1>3. m \in RunActor /\ m.id \in Jobs /\ Stored(m.id)
  BY <1>1, <1>2, Held, ActorSteps
<1>4. m.job \in JobRow /\ m.stage \in Stages /\ m.digest \in Digests \cup {None}
      /\ m.job.calendar \in CalendarIds \cup {None}
  BY <1>3 DEF RunActor, JobRow
<1>5. m.stage = "preview_ready" => m.job.mode = "preview"
  BY <1>1, <1>2, Held DEF HoldsMode
<1>6. /\ UNCHANGED <<jobs, calendars, audited>>
      /\ crashes' \in Nat /\ outages' \in Nat
  BY <1>1, Held DEF Work
<1>7. CASE Discovered(w)
  BY <1>2, <1>6, <1>7, ProgressPreserves DEF Discovered, Stages
<1>8. CASE NotAnnounced(w)
  BY <1>2, <1>4, <1>6, <1>8, FinishPreserves DEF NotAnnounced, JobStatuses, Terminal
<1>9. CASE Fetched(w)
  BY <1>2, <1>6, <1>9, ProgressPreserves DEF Fetched, Stages
<1>10. CASE Extracted(w)
  BY <1>2, <1>6, <1>10, ProgressPreserves DEF Extracted, Stages
<1>11. CASE NeedsAttention(w)
  BY <1>2, <1>4, <1>6, <1>11, FinishPreserves DEF NeedsAttention, JobStatuses, Terminal
<1>12. CASE UpToDate(w)
  BY <1>2, <1>6, <1>12, FinishPreserves DEF UpToDate, WithDigest, OfYear, JobStatuses, Terminal
<1>13. CASE Validated(w)
  <2>1. PICK d \in Digests :
          Progress(w, IF m.job.mode = "preview" THEN "preview_ready" ELSE "publishing", d)
    BY <1>13 DEF Validated
  <2>2. CASE m.job.mode = "preview"
    BY <1>2, <1>6, <2>1, <2>2, ProgressPreserves DEF Stages
  <2>3. CASE m.job.mode # "preview"
    BY <1>2, <1>6, <2>1, <2>3, ProgressPreserves, NoneIsOutside DEF Stages
  <2> QED
    BY <2>2, <2>3
<1>14. CASE Previewed(w)
  BY <1>2, <1>4, <1>5, <1>6, <1>14, FinishPreserves DEF Previewed, JobStatuses, Terminal
<1>15. CASE Prepare(w)
  <2> DEFINE r == [step |-> "current", id |-> m.id, job |-> m.job, digest |-> m.digest]
  <2>1. actor' = [actor EXCEPT ![w] = r] /\ actor'[w] = r
    BY <1>1, <1>15, Held DEF Prepare
  <2>2. m.digest \in Digests
    BY <1>1, <1>2, <1>4, <1>15, Held DEF HoldsMode, Prepare
  <2>3. r \in CurrentActor
    BY <1>3, <1>4, <2>2 DEF CurrentActor
  <2>4. r \in Actor
    BY <2>3 DEF Actor
  <2>5. HoldsMode(w)' /\ HoldsCurrent(w)'
    BY <1>1, <1>2, <1>6, <2>1, Held DEF HoldsMode, HoldsCurrent
  <2> QED
    BY <1>1, <1>3, <1>6, <2>1, <2>4, <2>5, PlainStep
<1> QED
  BY <1>7, <1>8, <1>9, <1>10, <1>11, <1>12, <1>13, <1>14, <1>15 DEF Work

LEMMA OutagePreserves ==
  ASSUME IInv, NEW w \in Workers, Outage(w)
  PROVE  IInv'
<1>1. w \in Actors /\ actor[w].step = "work"
  BY DEF Actors, Outage, Unavailable, At
<1>2. actor[w] \in RunActor
  BY <1>1, Held, ActorSteps
<1>3. actor[w].job.calendar \in CalendarIds \cup {None}
  BY <1>2 DEF RunActor, JobRow
<1>4. UNCHANGED <<jobs, calendars, audited>> /\ crashes' \in Nat /\ outages' \in Nat
  BY <1>1, Held DEF Outage
<1>5. PICK due \in {"later", "now"} :
        Finish(w, "temporarily_unavailable", due, actor[w].job.calendar)
  BY DEF Outage, Unavailable
<1> QED
  BY <1>1, <1>3, <1>4, <1>5, FinishPreserves DEF JobStatuses, Terminal

-------------------------------------------------------------------------------
(* The line of versions of a year.                                           *)

LEMMA CalendarRows ==
  ASSUME IInv, NEW c \in CalendarIds, calendars[c] # None
  PROVE  /\ calendars[c] \in CalendarRow
         /\ calendars[c].year \in Years /\ calendars[c].job \in Jobs
         /\ calendars[c].version \in Nat \ {0}
         /\ calendars[c].status \in {"published", "superseded"}
  BY DEF IInv, TypeOK, CalendarRow

(* What get_published finds is the newest version of the year.               *)
LEMMA PublishedCalendar ==
  ASSUME IInv, NEW y \in Years, NEW c \in OfYear(y), calendars[c].status = "published"
  PROVE  Published(y) = c
<1> DEFINE live == {e \in OfYear(y) : calendars[e].status = "published"}
<1>1. c \in live
  OBVIOUS
<1>2. \A e \in OfYear(y) : calendars[e].version \in Nat
  BY CalendarRows DEF OfYear
<1>3. \A e \in live : e = c
  BY <1>2 DEF IInv, OnePublishedPerYear
<1>4. \A e \in live : calendars[e].version <= calendars[c].version
  BY <1>2, <1>3
<1> DEFINE newest == CHOOSE d \in live : \A e \in live : calendars[e].version <= calendars[d].version
<1>5. Published(y) = newest
  BY <1>1 DEF Published
<1>6. newest \in live
  BY <1>1, <1>4
<1> QED
  BY <1>3, <1>5, <1>6

LEMMA PublishedType ==
  ASSUME IInv, NEW y \in Years
  PROVE  /\ Published(y) \in CalendarIds \cup {None}
         /\ Published(y) # None => Published(y) \in OfYear(y)
<1>1. CASE \E c \in OfYear(y) : calendars[c].status = "published"
  BY <1>1, PublishedCalendar DEF OfYear
<1>2. CASE ~ \E c \in OfYear(y) : calendars[c].status = "published"
  BY <1>2 DEF Published
<1> QED
  BY <1>1, <1>2

(* The next version follows the published one, or is the first.              *)
LEMMA NextFollowsPublished ==
  ASSUME IInv, NEW y \in Years, NEW v \in NextVersions(y)
  PROVE  /\ v \in Nat \ {0}
         /\ \A c \in OfYear(y) : calendars[c].version < v
         /\ Follows(y, Published(y), v)
<1>1. \A e \in OfYear(y) : calendars[e].version \in Nat \ {0} /\ calendars[e].version < v
  BY CalendarRows DEF OfYear, NextVersions
<1>2. CASE v = 1
  <2>1. OfYear(y) = {}
    BY <1>1, <1>2
  <2>2. Published(y) = None
    BY <2>1 DEF Published
  <2> QED
    BY <1>1, <1>2, <2>1, <2>2 DEF Follows
<1>3. CASE v # 1
  <2>1. PICK c \in OfYear(y) : calendars[c].version + 1 = v
    BY <1>3 DEF NextVersions
  <2>2. \A e \in OfYear(y) : calendars[e].version <= calendars[c].version
    BY <1>1, <2>1
  <2>3. calendars[c].status = "published"
    BY <2>2 DEF IInv, OnePublishedPerYear
  <2>4. Published(y) = c
    BY <2>3, PublishedCalendar
  <2> QED
    BY <1>1, <2>1, <2>4 DEF Follows
<1> QED
  BY <1>2, <1>3

-------------------------------------------------------------------------------
(* Reading for a publication, by workers and operators.                      *)

LEMMA ReadCurrentPreserves ==
  ASSUME IInv, NEW a \in Actors, ReadCurrent(a)
  PROVE  IInv'
<1> DEFINE m == actor[a]
           r == [step |-> "version", id |-> m.id, job |-> m.job, digest |-> m.digest,
                 current |-> Published(m.job.year)]
<1>1. m.step = "current" /\ m \in CurrentActor
  BY Held, ActorSteps DEF ReadCurrent
<1>2. m.job.year \in Years
  BY <1>1 DEF CurrentActor, JobRow
<1>3. Published(m.job.year) \in CalendarIds \cup {None}
  BY <1>2, PublishedType
<1>4. r \in VersionActor
  BY <1>1, <1>3 DEF CurrentActor, VersionActor
<1>5. r \in Actor
  BY <1>4 DEF Actor
<1>6. actor' = [actor EXCEPT ![a] = r] /\ actor'[a] = r
  BY Held DEF ReadCurrent
<1>7. HoldsMode(a)' /\ HoldsCurrent(a)'
  BY <1>1, <1>6, Held DEF HoldsMode, HoldsCurrent, ReadCurrent
<1> QED
  BY <1>1, <1>5, <1>6, <1>7, PlainStep, Held DEF ReadCurrent

LEMMA ReadVersionPreserves ==
  ASSUME IInv, NEW a \in Actors, ReadVersion(a)
  PROVE  IInv'
<1> DEFINE m == actor[a]
<1>1. m.step = "version" /\ m \in VersionActor
  BY Held, ActorSteps DEF ReadVersion
<1>2. m.job.year \in Years
  BY <1>1 DEF VersionActor, JobRow
<1>3. PICK v \in NextVersions(m.job.year) :
        actor' = [actor EXCEPT ![a] =
          [step |-> "publish", id |-> m.id, job |-> m.job, digest |-> m.digest,
           current |-> m.current, version |-> v]]
  BY DEF ReadVersion
<1> DEFINE r == [step |-> "publish", id |-> m.id, job |-> m.job, digest |-> m.digest,
                 current |-> m.current, version |-> v]
<1>4. v \in Nat \ {0}
  BY <1>2, NextFollowsPublished
<1>5. r \in PublishActor
  BY <1>1, <1>4 DEF VersionActor, PublishActor
<1>6. r \in Actor
  BY <1>5 DEF Actor
<1>7. actor'[a] = r
  BY <1>3, Held
<1>8. UNCHANGED <<jobs, calendars, audited, crashes, outages>>
  BY DEF ReadVersion
<1>9. HoldsMode(a)'
  BY <1>1, <1>7, <1>8, Held DEF HoldsMode
<1>10. HoldsCurrent(a)'
  BY <1>7, <1>8 DEF HoldsCurrent, NextVersions, OfYear
<1> QED
  BY <1>1, <1>3, <1>6, <1>8, <1>9, <1>10, PlainStep, Held

LEMMA BeginPublishPreserves ==
  ASSUME IInv, NEW a \in Actors, BeginPublish(a)
  PROVE  IInv'
<1> DEFINE m == actor[a]
<1>1. /\ m.step = "publish" /\ m \in PublishActor
      /\ m.id \in Jobs /\ Stored(m.id) /\ jobs[m.id] \in JobRow
  BY Held, ActorSteps DEF BeginPublish
<1>2. UNCHANGED <<jobs, calendars, audited, crashes, outages>>
  BY DEF BeginPublish
<1>3. CASE ~IsCurrent(m.job.year, m.current)
  BY <1>2, <1>3, RestStep, Held DEF BeginPublish
<1>4. CASE IsCurrent(m.job.year, m.current)
  <2> DEFINE r == [step |-> "store", id |-> m.id, job |-> m.job, digest |-> m.digest,
                   loaded |-> jobs[m.id], current |-> m.current, version |-> m.version]
  <2>2. /\ r \in StoreActor
        /\ r.step = "store" /\ r.job = m.job /\ r.version = m.version
        /\ r.current = m.current /\ r.loaded = jobs[m.id] /\ r.id = m.id
    BY <1>1 DEF PublishActor, StoreActor
  <2>3. r \in Actor
    BY <2>2 DEF Actor
  <2>4. actor' = [actor EXCEPT ![a] = r] /\ actor'[a] = r
    BY <1>4, Held DEF BeginPublish
  <2>5. HoldsMode(a)'
    <3>1. jobs[m.id].mode = m.job.mode
      BY <1>1, Held DEF HoldsMode
    <3> HIDE DEF r
    <3> QED
      BY <1>1, <1>2, <2>2, <2>4, <3>1, Held DEF HoldsMode
  <2>6. HoldsCurrent(a)'
    <3>1. m.job.year \in Years /\ m.current = Published(m.job.year)
      BY <1>1, <1>4 DEF IsCurrent, PublishActor, JobRow
    <3>2. \/ \E c \in OfYear(m.job.year) : calendars[c].version = m.version
          \/ /\ m.version \in NextVersions(m.job.year)
             /\ Follows(m.job.year, m.current, m.version)
      BY <1>1, <3>1, NextFollowsPublished, Held DEF HoldsCurrent
    <3> HIDE DEF r
    <3> QED
      BY <1>2, <2>2, <2>4, <3>2 DEF HoldsCurrent, NextVersions, OfYear, Follows
  <2> HIDE DEF r
  <2> QED
    BY <1>1, <1>2, <2>2, <2>3, <2>4, <2>5, <2>6, PlainStep, Held
<1> QED
  BY <1>3, <1>4

LEMMA BeginConfirmPreserves ==
  ASSUME IInv, NEW o \in Operators, NEW j \in Jobs, BeginConfirm(o, j)
  PROVE  IInv'
<1>1. o \in Actors
  BY DEF Actors
<1>2. Stored(j) /\ jobs[j] \in JobRow
  BY DEF BeginConfirm, IInv, TypeOK, Stored
<1>3. PICK d \in Digests :
        actor' = [actor EXCEPT ![o] = [step |-> "current", id |-> j, job |-> jobs[j],
                                       digest |-> d]]
  BY DEF BeginConfirm
<1> DEFINE r == [step |-> "current", id |-> j, job |-> jobs[j], digest |-> d]
<1>4. r \in CurrentActor
  BY <1>2 DEF CurrentActor
<1>5. r \in Actor
  BY <1>4 DEF Actor
<1>6. actor'[o] = r
  BY <1>1, <1>3, Held
<1>7. jobs[j].mode = "preview" /\ UNCHANGED jobs
  BY <1>2 DEF BeginConfirm, IInv, PreviewsAreValidated
<1>8. HoldsMode(o)' /\ HoldsCurrent(o)'
  BY <1>6, <1>7 DEF HoldsMode, HoldsCurrent
<1> QED
  BY <1>1, <1>2, <1>3, <1>5, <1>8, PlainStep, Held DEF BeginConfirm

LEMMA BeginCancelPreserves ==
  ASSUME IInv, NEW o \in Operators, NEW j \in Jobs, BeginCancel(o, j)
  PROVE  IInv'
<1> DEFINE job == [jobs[j] EXCEPT !.status = "cancelled", !.due = "never"]
           r == [step |-> "cancelling", id |-> j, job |-> job]
<1>1. o \in Actors
  BY DEF Actors
<1>2. Stored(j) /\ jobs[j] \in JobRow
  BY DEF BeginCancel, IInv, TypeOK, Stored
<1>3. job \in JobRow /\ job.mode = jobs[j].mode /\ job.status = "cancelled"
  BY <1>2 DEF JobRow, JobStatuses, Terminal
<1> HIDE DEF job
<1>4. r \in CancellingActor
  BY <1>2, <1>3 DEF CancellingActor
<1>5. r \in Actor
  BY <1>4 DEF Actor
<1>6. actor' = [actor EXCEPT ![o] = r] /\ actor'[o] = r
  BY <1>1, Held DEF BeginCancel, job
<1>7. UNCHANGED jobs
  BY DEF BeginCancel
<1>8. HoldsMode(o)' /\ HoldsCurrent(o)'
  BY <1>3, <1>6, <1>7 DEF HoldsMode, HoldsCurrent
<1> QED
  BY <1>1, <1>2, <1>5, <1>6, <1>8, PlainStep, Held DEF BeginCancel

LEMMA LoadCancelledPreserves ==
  ASSUME IInv, NEW o \in Operators, LoadCancelled(o)
  PROVE  IInv'
<1> DEFINE m == actor[o]
           r == [step |-> "cancel", id |-> m.id, job |-> m.job, loaded |-> jobs[m.id]]
<1>1. o \in Actors
  BY DEF Actors
<1>2. /\ m.step = "cancelling" /\ m \in CancellingActor
      /\ m.id \in Jobs /\ Stored(m.id) /\ jobs[m.id] \in JobRow
  BY <1>1, Held, ActorSteps DEF LoadCancelled
<1>3. r \in CancelActor
  BY <1>2 DEF CancellingActor, CancelActor
<1>4. r \in Actor
  BY <1>3 DEF Actor
<1>5. actor' = [actor EXCEPT ![o] = r] /\ actor'[o] = r
  BY <1>1, Held DEF LoadCancelled
<1>6. UNCHANGED <<jobs, calendars, audited, crashes, outages>>
  BY DEF LoadCancelled
<1>7. HoldsMode(o)' /\ HoldsCurrent(o)'
  BY <1>1, <1>2, <1>5, <1>6, Held DEF HoldsMode, HoldsCurrent
<1> QED
  BY <1>1, <1>2, <1>4, <1>5, <1>6, <1>7, PlainStep, Held

LEMMA CrashPreserves ==
  ASSUME IInv, NEW w \in Workers, Crash(w)
  PROVE  IInv'
<1>1. w \in Actors
  BY DEF Actors
<1> QED
  BY <1>1, RestStep, Held DEF Crash

-------------------------------------------------------------------------------
(* The steps that write jobs.                                                *)

(* update_job leaves the table typed, keeps every mode, and validates only   *)
(* previews.                                                                 *)
LEMMA UpdateJobWrites ==
  ASSUME IInv, NEW a \in Actors, NEW j \in Jobs, Stored(j),
         NEW job \in JobRow, NEW loaded \in JobRow,
         job.mode = jobs[j].mode, loaded.mode = job.mode,
         job.status = "validated_preview" => job.mode = "preview",
         UpdateJob(a, j, job, loaded)
  PROVE  /\ jobs' \in [Jobs -> JobRow \cup {None}]
         /\ \A k \in Jobs : Stored(k) => Stored(k)' /\ jobs'[k].mode = jobs[k].mode
         /\ PreviewsAreValidated'
<1> DEFINE new == Written(job, loaded)
           row == Merge(jobs[j], loaded, new)
<1>1. jobs \in [Jobs -> JobRow \cup {None}] /\ jobs[j] \in JobRow
  BY DEF IInv, TypeOK, Stored
<1>2. new \in JobRow /\ new.mode = job.mode /\ new.status = job.status
  BY WrittenRow
<1>3. row \in JobRow /\ row.mode = jobs[j].mode /\ row.status \in {job.status, jobs[j].status}
  BY <1>1, <1>2, MergeRow
<1>4. jobs' = [jobs EXCEPT ![j] = row]
  BY DEF UpdateJob
<1>5. row # None
  BY <1>3, NoneIsOutside
<1> HIDE DEF new, row
<1>6. jobs' \in [Jobs -> JobRow \cup {None}]
  BY <1>1, <1>3, <1>4
<1>7. \A k \in Jobs : Stored(k) => Stored(k)' /\ jobs'[k].mode = jobs[k].mode
  BY <1>1, <1>3, <1>4, <1>5 DEF Stored
<1>8. PreviewsAreValidated'
  BY <1>1, <1>3, <1>4, <1>5 DEF IInv, PreviewsAreValidated, Stored
<1> QED
  BY <1>6, <1>7, <1>8

LEMMA FlushJobPreserves ==
  ASSUME IInv, NEW w \in Workers, FlushJob(w)
  PROVE  IInv'
<1> DEFINE m == actor[w]
<1>1. w \in Actors /\ w \notin Operators
  BY ActorsDiffer DEF Actors
<1>2. /\ m.step = "flush" /\ m \in FlushActor
      /\ m.id \in Jobs /\ Stored(m.id)
      /\ UpdateJob(w, m.id, m.job, m.loaded)
      /\ UNCHANGED <<calendars, audited, crashes, outages>>
  BY <1>1, Held, ActorSteps DEF FlushJob
<1>3. m.job \in JobRow /\ m.loaded \in JobRow
  BY <1>2 DEF FlushActor
<1>4. /\ m.job.mode = jobs[m.id].mode /\ m.loaded.mode = m.job.mode
      /\ m.job.status = "validated_preview" => m.job.mode = "preview"
  BY <1>1, <1>2, Held DEF HoldsMode
<1>5. /\ jobs' \in [Jobs -> JobRow \cup {None}]
      /\ \A k \in Jobs : Stored(k) => Stored(k)' /\ jobs'[k].mode = jobs[k].mode
      /\ PreviewsAreValidated'
  BY <1>1, <1>2, <1>3, <1>4, UpdateJobWrites
<1>6. audited' \in SUBSET Jobs
  BY <1>2 DEF IInv, TypeOK
<1>7. CASE m.job.status = "running"
  <2> DEFINE r == [step |-> "work", id |-> m.id, job |-> m.job, stage |-> m.stage,
                   digest |-> m.digest]
  <2>1. r \in RunActor
    BY <1>2 DEF FlushActor, RunActor
  <2>2. r \in Actor
    BY <2>1 DEF Actor
  <2>3. actor' = [actor EXCEPT ![w] = r] /\ actor'[w] = r
    BY <1>1, <1>7, Held DEF FlushJob
  <2>4. HoldsMode(w)' /\ HoldsCurrent(w)'
    BY <1>1, <1>2, <1>5, <2>3, Held DEF HoldsMode, HoldsCurrent
  <2> QED
    BY <1>1, <1>2, <1>5, <1>6, <2>2, <2>3, <2>4, ActorStep, Held
<1>8. CASE m.job.status # "running"
  <2>1. actor' = [actor EXCEPT ![w] = Idle] /\ actor'[w] = Idle
    BY <1>1, <1>8, Held DEF FlushJob, Rest
  <2>2. Idle.step = "idle"
    BY DEF Idle
  <2> QED
    BY <1>1, <1>2, <1>5, <1>6, <2>1, <2>2, IdleFits, ActorStep, Held
<1> QED
  BY <1>7, <1>8

LEMMA CancelPreserves ==
  ASSUME IInv, NEW o \in Operators, Cancel(o)
  PROVE  IInv'
<1> DEFINE m == actor[o]
<1>1. o \in Actors
  BY DEF Actors
<1>2. /\ m.step = "cancel" /\ m \in CancelActor /\ m.id \in Jobs /\ Stored(m.id)
      /\ UNCHANGED <<calendars, crashes, outages>> /\ Rest(o)
  BY <1>1, Held, ActorSteps DEF Cancel
<1>3. CASE m.id \in audited
  BY <1>1, <1>2, <1>3, RestStep, Held DEF Cancel
<1>4. CASE m.id \notin audited
  <2>1. m.job \in JobRow /\ m.loaded \in JobRow
    BY <1>2 DEF CancelActor
  <2>2. /\ m.job.mode = jobs[m.id].mode /\ m.loaded.mode = m.job.mode
        /\ m.job.status = "validated_preview" => m.job.mode = "preview"
    BY <1>1, <1>2, Held DEF HoldsMode
  <2>3. UpdateJob(o, m.id, m.job, m.loaded) /\ audited' = audited \cup {m.id}
    BY <1>4 DEF Cancel
  <2>4. /\ jobs' \in [Jobs -> JobRow \cup {None}]
        /\ \A k \in Jobs : Stored(k) => Stored(k)' /\ jobs'[k].mode = jobs[k].mode
        /\ PreviewsAreValidated'
    BY <1>1, <1>2, <2>1, <2>2, <2>3, UpdateJobWrites
  <2>5. audited \subseteq audited' /\ audited' \in SUBSET Jobs
    BY <1>2, <2>3 DEF IInv, TypeOK
  <2>6. actor' = [actor EXCEPT ![o] = Idle] /\ actor'[o] = Idle
    BY <1>1, <1>2, Held DEF Rest
  <2>7. Idle.step = "idle"
    BY DEF Idle
  <2> QED
    BY <1>1, <1>2, <2>4, <2>5, <2>6, <2>7, IdleFits, ActorStep, Held
<1> QED
  BY <1>3, <1>4

(* The recovery of expired leases leaves the table typed and keeps modes.    *)
LEMMA RecoveredRows ==
  ASSUME IInv, NEW expired \in SUBSET Jobs, \A j \in expired : Stored(j)
  PROVE  /\ Recovered(expired) \in [Jobs -> JobRow \cup {None}]
         /\ \A j \in Jobs : Stored(j) =>
              /\ Recovered(expired)[j] \in JobRow
              /\ Recovered(expired)[j].mode = jobs[j].mode
              /\ Recovered(expired)[j].status \in {"queued", jobs[j].status}
         /\ \A j \in Jobs : ~Stored(j) => Recovered(expired)[j] = None
<1>1. \A j \in Jobs : Stored(j) => jobs[j] \in JobRow
  BY DEF IInv, TypeOK, Stored
<1>2. \A j \in Jobs : Stored(j) =>
              /\ Recovered(expired)[j] \in JobRow
              /\ Recovered(expired)[j].mode = jobs[j].mode
              /\ Recovered(expired)[j].status \in {"queued", jobs[j].status}
  BY <1>1, RecoverRow DEF Recovered
<1>3. \A j \in Jobs : ~Stored(j) => Recovered(expired)[j] = None
  BY DEF Recovered, Stored
<1>4. Recovered(expired) \in [Jobs -> JobRow \cup {None}]
  BY <1>2, <1>3 DEF Recovered
<1> QED
  BY <1>2, <1>3, <1>4

LEMMA ClaimJobPreserves ==
  ASSUME IInv, NEW w \in Workers, ClaimJob(w)
  PROVE  IInv'
<1> DEFINE j == actor[w].id
           rows == Recovered(actor[w].expired)
<1>1. w \in Actors /\ w \notin Operators
  BY ActorsDiffer DEF Actors
<1>2. /\ actor[w] \in ClaimActor /\ j \in Jobs /\ Stored(j)
      /\ \A k \in actor[w].expired : Stored(k)
      /\ UNCHANGED <<calendars, audited, crashes, outages>>
  BY <1>1, Held, ActorSteps DEF ClaimJob, HoldsStored
<1>3. /\ rows \in [Jobs -> JobRow \cup {None}]
      /\ \A k \in Jobs : Stored(k) =>
           /\ rows[k] \in JobRow /\ rows[k].mode = jobs[k].mode
           /\ rows[k].status \in {"queued", jobs[k].status}
      /\ \A k \in Jobs : ~Stored(k) => rows[k] = None
  BY <1>2, RecoveredRows DEF ClaimActor
<1>4. audited' \in SUBSET Jobs
  BY <1>2 DEF IInv, TypeOK
<1> HIDE DEF rows
<1>5. CASE jobs' = rows /\ Rest(w)
  <2>1. \A k \in Jobs : Stored(k) => Stored(k)' /\ jobs'[k].mode = jobs[k].mode
    BY <1>3, <1>5, NoneIsOutside DEF Stored
  <2>2. PreviewsAreValidated'
    BY <1>3, <1>5 DEF IInv, PreviewsAreValidated, Stored
  <2>3. actor' = [actor EXCEPT ![w] = Idle] /\ actor'[w] = Idle /\ Idle.step = "idle"
    BY <1>1, <1>5, Held DEF Rest, Idle
  <2> QED
    BY <1>1, <1>2, <1>3, <1>4, <1>5, <2>1, <2>2, <2>3, IdleFits, ActorStep, Held
<1>6. CASE UNCHANGED jobs /\ Rest(w)
  BY <1>1, <1>2, <1>6, RestStep, Held
<1>7. CASE /\ jobs' = [rows EXCEPT ![j] = Claimed(rows[j])]
           /\ actor' = [actor EXCEPT ![w] =
                [step |-> "load", id |-> j, job |-> Claimed(rows[j]),
                 stage |-> "discovering", digest |-> None]]
  <2> DEFINE row == Claimed(rows[j])
             r == [step |-> "load", id |-> j, job |-> row,
                   stage |-> "discovering", digest |-> None]
  <2>1. row \in JobRow /\ row.mode = jobs[j].mode /\ row.status = "running" /\ row # None
    BY <1>2, <1>3, ClaimedRow, NoneIsOutside
  <2> HIDE DEF row
  <2>2. jobs' = [rows EXCEPT ![j] = row] /\ actor' = [actor EXCEPT ![w] = r]
    BY <1>7 DEF row
  <2>3. jobs' \in [Jobs -> JobRow \cup {None}]
    BY <1>2, <1>3, <2>1, <2>2
  <2>4. \A k \in Jobs : Stored(k) => Stored(k)' /\ jobs'[k].mode = jobs[k].mode
    BY <1>2, <1>3, <2>1, <2>2, NoneIsOutside DEF Stored
  <2>5. PreviewsAreValidated'
    BY <1>2, <1>3, <2>1, <2>2 DEF IInv, PreviewsAreValidated, Stored
  <2>6. r \in RunActor
    BY <1>2, <2>1 DEF RunActor, Stages
  <2>7. r \in Actor
    BY <2>6 DEF Actor
  <2>8. actor'[w] = r
    BY <1>1, <2>2, Held
  <2>9. HoldsMode(w)' /\ HoldsCurrent(w)'
    BY <1>1, <1>2, <1>3, <2>1, <2>2, <2>8 DEF HoldsMode, HoldsCurrent
  <2> QED
    BY <1>1, <1>2, <1>4, <2>2, <2>3, <2>4, <2>5, <2>7, <2>9, ActorStep, Held
<1> QED
  BY <1>5, <1>6, <1>7 DEF ClaimJob, rows

LEMMA CreateJobPreserves ==
  ASSUME IInv, NEW y \in Years, NEW mode \in Modes, CreateJob(y, mode)
  PROVE  IInv'
<1>1. PICK j \in Jobs :
        /\ ~Stored(j)
        /\ jobs' = [jobs EXCEPT ![j] =
             [year |-> y, mode |-> mode, status |-> "queued", lock |-> FALSE,
              started |-> "never", due |-> "never", calendar |-> None]]
  BY DEF CreateJob
<1> DEFINE row == [year |-> y, mode |-> mode, status |-> "queued", lock |-> FALSE,
                   started |-> "never", due |-> "never", calendar |-> None]
<1>2. row \in JobRow /\ row.status = "queued" /\ row # None
  <2>1. mode \in {"preview", "sync"}
    BY JobsAreNumbered
  <2>2. row \in JobRow /\ row.status = "queued"
    BY <2>1 DEF JobRow, JobStatuses
  <2> QED
    BY <2>2, NoneIsOutside
<1>3. jobs' = [jobs EXCEPT ![j] = row]
  BY <1>1
<1> HIDE DEF row
<1>4. UNCHANGED <<calendars, audited, actor, crashes, outages>>
  BY DEF CreateJob
<1>5. jobs \in [Jobs -> JobRow \cup {None}]
  BY DEF IInv, TypeOK
<1>6. jobs' \in [Jobs -> JobRow \cup {None}]
  BY <1>2, <1>3, <1>5
<1>7. \A k \in Jobs : Stored(k) => Stored(k)' /\ jobs'[k].mode = jobs[k].mode
  BY <1>1, <1>3, <1>5 DEF Stored
<1>8. PreviewsAreValidated'
  BY <1>2, <1>3, <1>5 DEF IInv, PreviewsAreValidated, Stored
<1>9. HeldFits'
  BY <1>4, <1>7, StillFits DEF HeldFits
<1>10. audited' \in SUBSET Jobs /\ crashes' \in Nat /\ outages' \in Nat
       /\ actor' \in [Actors -> Actor]
  BY <1>4 DEF IInv, TypeOK
<1> QED
  BY <1>4, <1>6, <1>7, <1>8, <1>9, <1>10, QuietStep

(* Time changes neither the step, the job, the year, the mode nor the status *)
(* of what an actor holds.                                                   *)
LEMMA LaterActor ==
  ASSUME NEW m \in Actor
  PROVE  /\ LaterHeld(m) \in Actor
         /\ LaterHeld(m).step = m.step
         /\ m.step # "idle" => LaterHeld(m).id = m.id
         /\ m.step = "claim" => LaterHeld(m).expired = m.expired
         /\ m.step \notin {"idle", "claim"} =>
              /\ LaterHeld(m).job.mode = m.job.mode
              /\ LaterHeld(m).job.status = m.job.status
              /\ LaterHeld(m).job.year = m.job.year
         /\ m.step \in {"load", "work", "flush"} =>
              LaterHeld(m).stage = m.stage /\ LaterHeld(m).digest = m.digest
         /\ m.step \in {"flush", "cancel", "store"} =>
              /\ LaterHeld(m).loaded.mode = m.loaded.mode
              /\ LaterHeld(m).loaded.year = m.loaded.year
              /\ LaterHeld(m).loaded.lock = m.loaded.lock
         /\ m.step \in {"publish", "store"} =>
              LaterHeld(m).version = m.version /\ LaterHeld(m).current = m.current
<1> DEFINE l == LaterHeld(m)
<1>1. CASE m.step \in {"idle", "claim"}
  BY <1>1 DEF LaterHeld
<1>2. CASE m.step \notin {"idle", "claim", "flush", "cancel", "store"}
  <2> DEFINE job == Later(m.job)
  <2>1. m \in RunActor \cup CancellingActor \cup CurrentActor \cup VersionActor \cup PublishActor
    BY <1>2 DEF Actor, IdleActor, ClaimActor, FlushActor, CancelActor, StoreActor
  <2>2. l = [m EXCEPT !.job = job]
    BY <1>2, <2>1 DEF LaterHeld
  <2>3. job \in JobRow /\ job.mode = m.job.mode
        /\ job.status = m.job.status /\ job.year = m.job.year
    BY <1>2, ActorSteps, LaterRow
  <2> HIDE DEF job, l
  <2>4. CASE m \in RunActor
    <3>1. /\ l \in RunActor /\ l.job = job /\ l.step = m.step
          /\ l.id = m.id /\ l.stage = m.stage /\ l.digest = m.digest
      BY <2>2, <2>3, <2>4 DEF RunActor
    <3>2. l \in Actor /\ m.step \in {"load", "work"}
      BY <2>4, <3>1 DEF Actor, RunActor
    <3> QED
      BY <2>3, <3>1, <3>2 DEF l
  <2>5. CASE m \in CancellingActor
    <3>1. /\ l \in CancellingActor /\ l.job = job /\ l.step = m.step
          /\ l.id = m.id
      BY <2>2, <2>3, <2>5 DEF CancellingActor
    <3>2. l \in Actor /\ m.step = "cancelling"
      BY <2>5, <3>1 DEF Actor, CancellingActor
    <3> QED
      BY <2>3, <3>1, <3>2 DEF l
  <2>6. CASE m \in CurrentActor
    <3>1. /\ l \in CurrentActor /\ l.job = job /\ l.step = m.step
          /\ l.id = m.id
      BY <2>2, <2>3, <2>6 DEF CurrentActor
    <3>2. l \in Actor /\ m.step = "current"
      BY <2>6, <3>1 DEF Actor, CurrentActor
    <3> QED
      BY <2>3, <3>1, <3>2 DEF l
  <2>7. CASE m \in VersionActor
    <3>1. /\ l \in VersionActor /\ l.job = job /\ l.step = m.step
          /\ l.id = m.id
      BY <2>2, <2>3, <2>7 DEF VersionActor
    <3>2. l \in Actor /\ m.step = "version"
      BY <2>7, <3>1 DEF Actor, VersionActor
    <3> QED
      BY <2>3, <3>1, <3>2 DEF l
  <2>8. CASE m \in PublishActor
    <3>1. /\ l \in PublishActor /\ l.job = job /\ l.step = m.step
          /\ l.id = m.id /\ l.version = m.version /\ l.current = m.current
      BY <2>2, <2>3, <2>8 DEF PublishActor
    <3>2. l \in Actor /\ m.step = "publish"
      BY <2>8, <3>1 DEF Actor, PublishActor
    <3> QED
      BY <2>3, <3>1, <3>2 DEF l
  <2> QED
    BY <2>1, <2>4, <2>5, <2>6, <2>7, <2>8
<1>3. CASE m.step \in {"flush", "cancel", "store"}
  <2> DEFINE job == Later(m.job)
             loaded == Later(m.loaded)
  <2>1. m \in FlushActor \cup CancelActor \cup StoreActor
    BY <1>3, ActorSteps
  <2>2. l = [m EXCEPT !.job = job, !.loaded = loaded]
    BY <1>3, <2>1 DEF LaterHeld
  <2>3. job \in JobRow /\ job.mode = m.job.mode
        /\ job.status = m.job.status /\ job.year = m.job.year
    BY <1>3, ActorSteps, LaterRow
  <2>4. loaded \in JobRow /\ loaded.mode = m.loaded.mode
        /\ loaded.year = m.loaded.year /\ loaded.lock = m.loaded.lock
    BY <2>1, LaterRow DEF FlushActor, CancelActor, StoreActor
  <2> HIDE DEF job, loaded, l
  <2>5. CASE m \in FlushActor
    <3>1. /\ l \in FlushActor /\ l.job = job /\ l.loaded = loaded /\ l.step = m.step
          /\ l.id = m.id /\ l.stage = m.stage /\ l.digest = m.digest
      BY <2>2, <2>3, <2>4, <2>5 DEF FlushActor
    <3>2. l \in Actor /\ m.step = "flush"
      BY <2>5, <3>1 DEF Actor, FlushActor
    <3> QED
      BY <2>3, <2>4, <3>1, <3>2 DEF l
  <2>6. CASE m \in CancelActor
    <3>1. /\ l \in CancelActor /\ l.job = job /\ l.loaded = loaded /\ l.step = m.step
          /\ l.id = m.id
      BY <2>2, <2>3, <2>4, <2>6 DEF CancelActor
    <3>2. l \in Actor /\ m.step = "cancel"
      BY <2>6, <3>1 DEF Actor, CancelActor
    <3> QED
      BY <2>3, <2>4, <3>1, <3>2 DEF l
  <2>7. CASE m \in StoreActor
    <3>1. /\ l \in StoreActor /\ l.job = job /\ l.loaded = loaded /\ l.step = m.step
          /\ l.id = m.id /\ l.version = m.version /\ l.current = m.current
      BY <2>2, <2>3, <2>4, <2>7 DEF StoreActor
    <3>2. l \in Actor /\ m.step = "store"
      BY <2>7, <3>1 DEF Actor, StoreActor
    <3> QED
      BY <2>3, <2>4, <3>1, <3>2 DEF l
  <2> QED
    BY <2>1, <2>5, <2>6, <2>7
<1> QED
  BY <1>1, <1>2, <1>3

LEMMA TickPreserves ==
  ASSUME IInv, Tick
  PROVE  IInv'
<1>1. /\ jobs' = [j \in Jobs |-> IF Stored(j) THEN Later(jobs[j]) ELSE None]
      /\ actor' = [a \in Actors |-> LaterHeld(actor[a])]
      /\ UNCHANGED <<calendars, audited, crashes, outages>>
  BY DEF Tick
<1>2. \A j \in Jobs : Stored(j) =>
        /\ jobs[j] \in JobRow /\ Later(jobs[j]) \in JobRow
        /\ Later(jobs[j]).mode = jobs[j].mode /\ Later(jobs[j]).status = jobs[j].status
  BY LaterRow DEF IInv, TypeOK, Stored
<1>3. jobs' \in [Jobs -> JobRow \cup {None}]
  BY <1>1, <1>2
<1>4. \A j \in Jobs : Stored(j) => Stored(j)' /\ jobs'[j].mode = jobs[j].mode
  BY <1>1, <1>2, NoneIsOutside DEF Stored
<1>5. PreviewsAreValidated'
  BY <1>1, <1>2 DEF IInv, PreviewsAreValidated, Stored
<1>6. ASSUME NEW a \in Actors
      PROVE  actor'[a] \in Actor /\ HoldsStored(a)' /\ HoldsMode(a)' /\ HoldsCurrent(a)'
  <2> DEFINE m == actor[a]
  <2>1. m \in Actor /\ actor'[a] = LaterHeld(m)
    BY <1>1, Held
  <2>2. /\ m.step # "idle" => m.id \in Jobs /\ Stored(m.id)
        /\ m.step = "claim" => m.expired \subseteq Jobs /\ \A j \in m.expired : Stored(j)
    BY <2>1, Held, ActorSteps DEF HoldsStored, ClaimActor
  <2>3. HoldsStored(a)'
    BY <1>4, <2>1, <2>2, LaterActor DEF HoldsStored
  <2>4. HoldsMode(a)'
    BY <1>4, <2>1, <2>2, LaterActor, Held DEF HoldsMode
  <2>5. HoldsCurrent(a)'
    BY <1>1, <2>1, LaterActor, Held DEF HoldsCurrent, OfYear, NextVersions, Follows
  <2> QED
    BY <2>1, <2>3, <2>4, <2>5, LaterActor
<1>7. HeldFits' /\ actor' \in [Actors -> Actor]
  BY <1>1, <1>6 DEF HeldFits
<1>8. audited' \in SUBSET Jobs /\ crashes' \in Nat /\ outages' \in Nat
  BY <1>1 DEF IInv, TypeOK
<1> QED
  BY <1>1, <1>3, <1>4, <1>5, <1>7, <1>8, QuietStep

-------------------------------------------------------------------------------
(* The step that publishes.                                                  *)

(* The version a publication comes with is the next one and follows the      *)
(* calendar it supersedes, unless the unique key refuses it.                 *)
LEMMA StoredVersionIsNext ==
  ASSUME IInv, NEW a \in Actors, actor[a].step = "store",
         UniqueVersion(actor[a].job.year, actor[a].version)
  PROVE  /\ actor[a] \in StoreActor
         /\ actor[a].job.year \in Years
         /\ actor[a].version \in NextVersions(actor[a].job.year)
         /\ Follows(actor[a].job.year, actor[a].current, actor[a].version)
<1>1. actor[a] \in StoreActor
  BY Held, ActorSteps
<1>2. actor[a].job.year \in Years
  BY <1>1 DEF StoreActor, JobRow
<1> QED
  BY <1>1, <1>2, Held DEF HoldsCurrent, UniqueVersion

(* Adding the next version of a year keeps the year one line.                *)
LEMMA LineGoesOn ==
  ASSUME IInv, NEW y \in Years, NEW v \in NextVersions(y), NEW current,
         Follows(y, current, v),
         NEW c \in CalendarIds, calendars[c] = None,
         NEW row \in CalendarRow, row.year = y, row.version = v,
         row.status = "published", row.supersedes = current,
         calendars' = [e \in CalendarIds |->
           IF e = c THEN row
           ELSE IF e = current THEN [calendars[e] EXCEPT !.status = "superseded"]
           ELSE calendars[e]]
  PROVE  /\ calendars' \in [CalendarIds -> CalendarRow \cup {None}]
         /\ \A e \in CalendarIds \ {c} : calendars[e] = None <=> calendars'[e] = None
         /\ \A e \in CalendarIds : calendars[e] # None =>
              /\ calendars'[e] # None
              /\ calendars'[e].year = calendars[e].year
              /\ calendars'[e].version = calendars[e].version
              /\ calendars'[e].job = calendars[e].job
         /\ calendars'[c] = row
         /\ OnePublishedPerYear'
<1>1. current = None \/ (current \in OfYear(y) /\ current # c)
  BY DEF Follows, OfYear
<1>2. \A e \in CalendarIds : calendars[e] # None => calendars[e] \in CalendarRow
  BY CalendarRows
<1>3. /\ calendars' \in [CalendarIds -> CalendarRow \cup {None}]
      /\ \A e \in CalendarIds \ {c} : calendars[e] = None <=> calendars'[e] = None
      /\ \A e \in CalendarIds : calendars[e] # None =>
           /\ calendars'[e] # None
           /\ calendars'[e].year = calendars[e].year
           /\ calendars'[e].version = calendars[e].version
           /\ calendars'[e].supersedes = calendars[e].supersedes
           /\ calendars'[e].job = calendars[e].job
           /\ calendars'[e].status =
                IF e = current THEN "superseded" ELSE calendars[e].status
      /\ calendars'[c] = row
  <2>1. ASSUME NEW e \in CalendarIds, calendars[e] # None
        PROVE  /\ calendars'[e] \in CalendarRow
               /\ calendars'[e] # None
               /\ calendars'[e].year = calendars[e].year
               /\ calendars'[e].version = calendars[e].version
               /\ calendars'[e].supersedes = calendars[e].supersedes
               /\ calendars'[e].job = calendars[e].job
               /\ calendars'[e].status =
                    IF e = current THEN "superseded" ELSE calendars[e].status
    <3>1. calendars[e] \in CalendarRow
      BY <1>2, <2>1
    <3>2. CASE e = current
      <4>1. calendars'[e] = [calendars[e] EXCEPT !.status = "superseded"]
        BY <2>1, <3>2
      <4> QED
        BY <3>1, <3>2, <4>1, NoneIsOutside DEF CalendarRow
    <3>3. CASE e # current
      BY <2>1, <3>1, <3>3
    <3> QED
      BY <3>2, <3>3
  <2>2. ASSUME NEW e \in CalendarIds \ {c}, calendars[e] = None
        PROVE  calendars'[e] = None
    BY <1>1, <2>2, NoneIsOutside DEF OfYear
  <2>3. calendars'[c] = row
    OBVIOUS
  <2>4. \A e \in CalendarIds : calendars'[e] \in CalendarRow \cup {None}
    BY <2>1, <2>2, <2>3
  <2> QED
    BY <2>1, <2>2, <2>3, <2>4
<1>4. \A z \in Years : OfYear(z)' = IF z = y THEN OfYear(z) \cup {c} ELSE OfYear(z)
  <2> SUFFICES ASSUME NEW z \in Years, NEW e \in CalendarIds
               PROVE  (calendars'[e] # None /\ calendars'[e].year = z)
                        <=> \/ calendars[e] # None /\ calendars[e].year = z
                            \/ z = y /\ e = c
    BY DEF OfYear
  <2>1. CASE e = c
    BY <1>3, <2>1, NoneIsOutside
  <2>2. CASE e # c
    BY <1>3, <2>2
  <2> QED
    BY <2>1, <2>2
<1>5. \A e \in OfYear(y) : calendars[e].version \in Nat \ {0} /\ calendars[e].version < v
  BY CalendarRows, NextFollowsPublished DEF OfYear
<1>6. v \in Nat \ {0}
  BY NextFollowsPublished
<1>7. ASSUME NEW z \in Years, z # y, NEW e \in OfYear(z)'
      PROVE  /\ \A f \in OfYear(z)' \ {e} : calendars'[f].version # calendars'[e].version
             /\ calendars'[e].status = "published" <=>
                  \A f \in OfYear(z)' : calendars'[f].version <= calendars'[e].version
             /\ \/ calendars'[e].version = 1 /\ calendars'[e].supersedes = None
                \/ /\ calendars'[e].supersedes \in OfYear(z)'
                   /\ calendars'[calendars'[e].supersedes].version + 1 = calendars'[e].version
  <2>1. OfYear(z)' = OfYear(z)
    BY <1>4, <1>7
  <2>2. \A f \in OfYear(z) : /\ f \in CalendarIds /\ calendars[f] # None /\ f # current
    BY <1>1, <1>7, NoneIsOutside DEF OfYear
  <2>3. \A f \in OfYear(z) : /\ calendars'[f].version = calendars[f].version
                             /\ calendars'[f].status = calendars[f].status
                             /\ calendars'[f].supersedes = calendars[f].supersedes
    BY <1>3, <2>2
  <2>4. /\ \A f \in OfYear(z) \ {e} : calendars[f].version # calendars[e].version
        /\ calendars[e].status = "published" <=>
             \A f \in OfYear(z) : calendars[f].version <= calendars[e].version
        /\ \/ calendars[e].version = 1 /\ calendars[e].supersedes = None
           \/ /\ calendars[e].supersedes \in OfYear(z)
              /\ calendars[calendars[e].supersedes].version + 1 = calendars[e].version
    BY <1>7, <2>1 DEF IInv, OnePublishedPerYear
  <2>5. e \in OfYear(z)
    BY <1>7, <2>1
  <2>6. \A f \in OfYear(z) \ {e} : calendars'[f].version # calendars'[e].version
    BY <2>3, <2>4, <2>5
  <2>7. calendars'[e].status = "published" <=>
          \A f \in OfYear(z) : calendars'[f].version <= calendars'[e].version
    BY <2>3, <2>4, <2>5
  <2>8. \/ calendars'[e].version = 1 /\ calendars'[e].supersedes = None
        \/ /\ calendars'[e].supersedes \in OfYear(z)
           /\ calendars'[calendars'[e].supersedes].version + 1 = calendars'[e].version
    BY <2>3, <2>4, <2>5
  <2> QED
    BY <2>1, <2>6, <2>7, <2>8
<1>8. /\ \A e \in OfYear(y) : e # c /\ calendars'[e].version = calendars[e].version
           /\ calendars'[e].supersedes = calendars[e].supersedes
      /\ OfYear(y)' = OfYear(y) \cup {c}
  BY <1>3, <1>4 DEF OfYear
<1>9. \A e \in OfYear(y) : calendars'[e].status # "published"
  <2> SUFFICES ASSUME NEW e \in OfYear(y), e # current, calendars[e].status = "published"
               PROVE  FALSE
    BY <1>3 DEF OfYear
  <2>1. current \in OfYear(y) /\ calendars[current].version + 1 = v
    BY DEF Follows
  <2>2. calendars[current].version <= calendars[e].version
    BY <2>1 DEF IInv, OnePublishedPerYear
  <2>3. calendars[current].version # calendars[e].version
    BY <2>1 DEF IInv, OnePublishedPerYear
  <2> QED
    BY <1>5, <1>6, <2>1, <2>2, <2>3
<1>10. ASSUME NEW e \in OfYear(y)'
       PROVE  /\ \A f \in OfYear(y)' \ {e} : calendars'[f].version # calendars'[e].version
              /\ calendars'[e].status = "published" <=>
                   \A f \in OfYear(y)' : calendars'[f].version <= calendars'[e].version
              /\ \/ calendars'[e].version = 1 /\ calendars'[e].supersedes = None
                 \/ /\ calendars'[e].supersedes \in OfYear(y)'
                    /\ calendars'[calendars'[e].supersedes].version + 1 = calendars'[e].version
  <2>1. CASE e = c
    <3>1. \A f \in OfYear(y) : calendars'[f].version < v /\ calendars'[f].version \in Nat
      BY <1>5, <1>8
    <3>2. calendars'[c].version = v /\ calendars'[c].status = "published"
          /\ calendars'[c].supersedes = current
      BY <1>3
    <3>3. \/ v = 1 /\ current = None
          \/ current \in OfYear(y)' /\ calendars'[current].version + 1 = v
      BY <1>8 DEF Follows
    <3>4. \A f \in OfYear(y)' \ {e} : calendars'[f].version # calendars'[e].version
      BY <1>6, <1>8, <2>1, <3>1, <3>2
    <3>5. \A f \in OfYear(y)' : calendars'[f].version <= calendars'[e].version
      BY <1>6, <1>8, <2>1, <3>1, <3>2
    <3> QED
      BY <2>1, <3>2, <3>3, <3>4, <3>5
  <2>2. CASE e \in OfYear(y)
    <3>1. \A f \in OfYear(y) \ {e} : calendars'[f].version # calendars'[e].version
      BY <1>8, <2>2 DEF IInv, OnePublishedPerYear
    <3>2. calendars'[e].version < calendars'[c].version
          /\ calendars'[e].version \in Nat /\ calendars'[c].version \in Nat
      BY <1>3, <1>5, <1>6, <1>8, <2>2
    <3>3. calendars'[e].status # "published"
      BY <1>9, <2>2
    <3>4. \/ calendars'[e].version = 1 /\ calendars'[e].supersedes = None
          \/ /\ calendars'[e].supersedes \in OfYear(y)
             /\ calendars'[calendars'[e].supersedes].version + 1 = calendars'[e].version
      <4>1. \/ calendars[e].version = 1 /\ calendars[e].supersedes = None
            \/ /\ calendars[e].supersedes \in OfYear(y)
               /\ calendars[calendars[e].supersedes].version + 1 = calendars[e].version
        BY <2>2 DEF IInv, OnePublishedPerYear
      <4> QED
        BY <1>8, <2>2, <4>1
    <3>5. \A f \in OfYear(y)' \ {e} : calendars'[f].version # calendars'[e].version
      BY <1>8, <3>1, <3>2
    <3>6. ~ \A f \in OfYear(y)' : calendars'[f].version <= calendars'[e].version
      <4>1. ~(calendars'[c].version <= calendars'[e].version)
        BY <3>2
      <4> QED
        BY <1>8, <4>1
    <3>7. \/ calendars'[e].version = 1 /\ calendars'[e].supersedes = None
          \/ /\ calendars'[e].supersedes \in OfYear(y)'
             /\ calendars'[calendars'[e].supersedes].version + 1 = calendars'[e].version
      BY <1>8, <3>4
    <3> QED
      BY <3>3, <3>5, <3>6, <3>7
  <2> QED
    BY <1>8, <2>1, <2>2
<1>11. OnePublishedPerYear'
  <2> SUFFICES ASSUME NEW z \in Years, NEW e \in OfYear(z)'
       PROVE  /\ \A f \in OfYear(z)' \ {e} : calendars'[f].version # calendars'[e].version
              /\ calendars'[e].status = "published" <=>
                   \A f \in OfYear(z)' : calendars'[f].version <= calendars'[e].version
              /\ \/ calendars'[e].version = 1 /\ calendars'[e].supersedes = None
                 \/ /\ calendars'[e].supersedes \in OfYear(z)'
                    /\ calendars'[calendars'[e].supersedes].version + 1 = calendars'[e].version
    BY DEF OnePublishedPerYear
  <2>1. CASE z = y
    BY <1>10, <2>1
  <2>2. CASE z # y
    BY <1>7, <2>2
  <2> QED
    BY <2>1, <2>2
<1> QED
  BY <1>3, <1>11

(* What the others hold goes on fitting when the next version appears.       *)
LEMMA OthersFit ==
  ASSUME IInv, NEW y \in Years, NEW v \in NextVersions(y),
         NEW c \in CalendarIds, calendars[c] = None,
         calendars'[c] # None, calendars'[c].year = y, calendars'[c].version = v,
         \A e \in CalendarIds \ {c} : calendars[e] = None <=> calendars'[e] = None,
         \A e \in CalendarIds : calendars[e] # None =>
           /\ calendars'[e].year = calendars[e].year
           /\ calendars'[e].version = calendars[e].version,
         NEW b \in Actors, actor'[b] = actor[b]
  PROVE  HoldsCurrent(b)'
<1> DEFINE m == actor[b]
<1>1. CASE m.step \notin {"publish", "store"}
  BY <1>1 DEF HoldsCurrent
<1>2. CASE m.step \in {"publish", "store"}
  <2>1. m.job.year \in Years
    BY <1>2, Held, ActorSteps DEF JobRow
  <2>2. CASE \E e \in OfYear(m.job.year) : calendars[e].version = m.version
    <3>1. PICK e \in OfYear(m.job.year) : calendars[e].version = m.version
      BY <2>2
    <3>2. e \in CalendarIds /\ calendars[e] # None /\ calendars[e].year = m.job.year /\ e # c
      BY DEF OfYear
    <3> QED
      BY <3>1, <3>2 DEF HoldsCurrent, OfYear
  <2>3. CASE /\ m.version \in NextVersions(m.job.year)
             /\ m.step = "store" => Follows(m.job.year, m.current, m.version)
    <3>1. CASE m.job.year = y
      <4>1. m.version = v
        BY <2>3, <3>1, NextFollowsPublished DEF Follows
      <4> QED
        BY <3>1, <4>1 DEF HoldsCurrent, OfYear
    <3>2. CASE m.job.year # y
      <4>1. \A e \in CalendarIds :
              (calendars'[e] # None /\ calendars'[e].year = m.job.year)
                <=> (calendars[e] # None /\ calendars[e].year = m.job.year)
        BY <3>2
      <4>2. \A e \in CalendarIds : calendars[e] # None /\ calendars[e].year = m.job.year
              => calendars'[e].version = calendars[e].version
        OBVIOUS
      <4> QED
        BY <2>3, <4>1, <4>2 DEF HoldsCurrent, OfYear, NextVersions, Follows
    <3> QED
      BY <3>1, <3>2
  <2> QED
    BY <1>2, <2>2, <2>3, Held DEF HoldsCurrent
<1> QED
  BY <1>1, <1>2

LEMMA StorePublishedPreserves ==
  ASSUME IInv, NEW a \in Actors, StorePublished(a)
  PROVE  IInv'
<1> DEFINE m == actor[a]
           y == m.job.year
           accepted == /\ UniqueVersion(y, m.version) /\ UniqueContent(y, m.digest)
                       /\ UniqueAudit(a, m.id)
<1>1. m.step = "store" /\ Rest(a) /\ UNCHANGED <<crashes, outages>>
  BY DEF StorePublished
<1>2. CASE ~accepted
  BY <1>1, <1>2, RestStep, Held DEF StorePublished
<1>3. CASE accepted
  <2>1. /\ m \in StoreActor /\ y \in Years
        /\ m.version \in NextVersions(y) /\ Follows(y, m.current, m.version)
    BY <1>1, <1>3, StoredVersionIsNext
  <2>2. PICK c \in CalendarIds :
          /\ calendars[c] = None
          /\ calendars' = [e \in CalendarIds |->
               IF e = c
               THEN [year |-> y, version |-> m.version, status |-> "published",
                     digest |-> m.digest, supersedes |-> m.current, job |-> m.id]
               ELSE IF e = m.current THEN [calendars[e] EXCEPT !.status = "superseded"]
               ELSE calendars[e]]
          /\ UpdateJob(a, m.id, [m.job EXCEPT !.status = "published", !.calendar = c], m.loaded)
    BY <1>3 DEF StorePublished
  <2>3. audited' = IF a \in Workers THEN audited \cup {m.id} ELSE audited
    BY <1>3 DEF StorePublished
  <2> DEFINE row == [year |-> y, version |-> m.version, status |-> "published",
                     digest |-> m.digest, supersedes |-> m.current, job |-> m.id]
             job == [m.job EXCEPT !.status = "published", !.calendar = c]
  <2>4. row \in CalendarRow /\ row.year = y /\ row.version = m.version /\ row.job = m.id
        /\ row.status = "published" /\ row.supersedes = m.current
    BY <2>1 DEF StoreActor, CalendarRow
  <2>5. m.id \in Jobs /\ Stored(m.id) /\ m.loaded \in JobRow /\ m.job \in JobRow
    BY <1>1, <2>1, Held DEF StoreActor
  <2>6. job \in JobRow /\ job.mode = m.job.mode /\ job.status = "published"
    BY <2>5 DEF JobRow, JobStatuses, Terminal
  <2>7. /\ m.job.mode = jobs[m.id].mode /\ m.loaded.mode = m.job.mode
        /\ a \in Operators => m.job.mode = "preview"
    BY <1>1, Held DEF HoldsMode
  <2>8. calendars' = [e \in CalendarIds |->
          IF e = c THEN row
          ELSE IF e = m.current THEN [calendars[e] EXCEPT !.status = "superseded"]
          ELSE calendars[e]]
        /\ UpdateJob(a, m.id, job, m.loaded)
    BY <2>2
  <2> HIDE DEF row, job
  <2>9. /\ jobs' \in [Jobs -> JobRow \cup {None}]
        /\ \A k \in Jobs : Stored(k) => Stored(k)' /\ jobs'[k].mode = jobs[k].mode
        /\ PreviewsAreValidated'
    BY <2>5, <2>6, <2>7, <2>8, UpdateJobWrites
  <2>10. /\ calendars' \in [CalendarIds -> CalendarRow \cup {None}]
         /\ \A e \in CalendarIds \ {c} : calendars[e] = None <=> calendars'[e] = None
         /\ \A e \in CalendarIds : calendars[e] # None =>
              /\ calendars'[e] # None
              /\ calendars'[e].year = calendars[e].year
              /\ calendars'[e].version = calendars[e].version
              /\ calendars'[e].job = calendars[e].job
         /\ calendars'[c] = row
         /\ OnePublishedPerYear'
    BY <2>1, <2>2, <2>4, <2>8, LineGoesOn, SMTT(40)
  <2>11. row # None
    BY <2>4, NoneIsOutside
  <2>12. actor' = [actor EXCEPT ![a] = Idle] /\ actor'[a] = Idle /\ Idle.step = "idle"
    BY <1>1, Held DEF Rest, Idle
  <2>13. TypeOK'
    <3>1. actor' \in [Actors -> Actor]
      BY <2>12, IdleFits, Held
    <3>2. audited' \in SUBSET Jobs
      BY <2>3, <2>5 DEF IInv, TypeOK
    <3> QED
      BY <1>1, <2>9, <2>10, <3>1, <3>2, Held DEF TypeOK
  <2>14. HeldFits'
    <3> SUFFICES ASSUME NEW b \in Actors
                 PROVE  HoldsStored(b)' /\ HoldsMode(b)' /\ HoldsCurrent(b)'
      BY DEF HeldFits
    <3>1. CASE b = a
      BY <2>12, <3>1, IdleFits DEF HoldsStored
    <3>2. CASE b # a
      <4>1. actor'[b] = actor[b] /\ actor[b] \in Actor
        BY <2>12, <3>2, Held
      <4>2. HoldsStored(b)'
        BY <2>9, <4>1, Held, ActorSteps DEF HoldsStored, ClaimActor
      <4>3. HoldsMode(b)'
        BY <2>9, <4>1, Held, ActorSteps DEF HoldsMode
      <4>4. HoldsCurrent(b)'
        BY <2>1, <2>2, <2>4, <2>10, <2>11, <4>1, OthersFit
      <4> QED
        BY <4>2, <4>3, <4>4
    <3> QED
      BY <3>1, <3>2
  <2>15. ASSUME a \notin Workers
         PROVE  jobs[m.id].mode = "preview"
    BY <2>7, <2>15 DEF Actors
  <2>16. a \in Workers => m.id \notin audited
    BY <1>3 DEF UniqueAudit
  <2>17. audited \subseteq audited' /\ (a \in Workers => m.id \in audited')
    BY <2>3
  <2>18. SyncIsAudited'
    <3> SUFFICES ASSUME NEW e \in CalendarIds, calendars'[e] # None
                 PROVE  /\ jobs'[calendars'[e].job] # None
                        /\ jobs'[calendars'[e].job].mode = "sync" => calendars'[e].job \in audited'
      BY DEF SyncIsAudited, Stored
    <3>1. CASE e = c
      <4>1. calendars'[e].job = m.id
        BY <2>4, <2>10, <3>1
      <4>2. jobs'[m.id] # None /\ jobs'[m.id].mode = jobs[m.id].mode
        BY <2>5, <2>9 DEF Stored
      <4> QED
        BY <2>15, <2>17, <4>1, <4>2 DEF Stored
    <3>2. CASE e # c
      <4>1. calendars[e] # None /\ calendars'[e].job = calendars[e].job
        BY <2>10, <3>2
      <4>2. calendars[e].job \in Jobs
        BY <4>1, CalendarRows
      <4>3. /\ jobs[calendars[e].job] # None
            /\ jobs[calendars[e].job].mode = "sync" => calendars[e].job \in audited
        BY <4>1 DEF IInv, SyncIsAudited, Stored
      <4>4. jobs'[calendars[e].job] # None
            /\ jobs'[calendars[e].job].mode = jobs[calendars[e].job].mode
        BY <2>9, <4>2, <4>3 DEF Stored
      <4> QED
        BY <2>17, <4>1, <4>3, <4>4 DEF Stored
    <3> QED
      BY <3>1, <3>2
  <2>19. JobPublishesOnce'
    <3> SUFFICES ASSUME NEW j \in Jobs, jobs'[j] # None, jobs'[j].mode = "sync",
                        NEW e \in CalendarIds, calendars'[e] # None, calendars'[e].job = j,
                        NEW f \in CalendarIds, calendars'[f] # None, calendars'[f].job = j
                 PROVE  e = f
      BY DEF JobPublishesOnce, PublishesOnce, MadeBy, Stored
    <3>1. \A g \in CalendarIds : calendars'[g] # None /\ g # c =>
            calendars[g] # None /\ calendars'[g].job = calendars[g].job
      BY <2>10
    <3>2. CASE j = m.id
      <4>1. jobs[j].mode = "sync" /\ Stored(j)
        BY <2>5, <2>9, <3>2
      <4>2. m.id \notin audited
        BY <2>15, <2>16, <3>2, <4>1
      <4>3. \A g \in CalendarIds : calendars[g] # None => calendars[g].job # j
        BY <3>2, <4>1, <4>2 DEF IInv, SyncIsAudited
      <4> QED
        BY <3>1, <4>3
    <3>3. CASE j # m.id
      <4>1. e # c /\ f # c
        BY <2>4, <2>10, <3>3
      <4>2. calendars[e] # None /\ calendars[e].job = j
            /\ calendars[f] # None /\ calendars[f].job = j
        BY <3>1, <4>1
      <4>3. Stored(j)
        BY <4>2 DEF IInv, SyncIsAudited
      <4>4. jobs[j].mode = "sync"
        BY <2>9, <4>3
      <4> QED
        BY <4>2, <4>3, <4>4 DEF IInv, JobPublishesOnce, PublishesOnce, MadeBy
    <3> QED
      BY <3>2, <3>3
  <2> QED
    BY <2>9, <2>10, <2>13, <2>14, <2>18, <2>19 DEF IInv
<1> QED
  BY <1>2, <1>3

-------------------------------------------------------------------------------
LEMMA InitEstablishes ==
  ASSUME Init
  PROVE  IInv
<1>1. TypeOK
  BY IdleFits DEF Init, TypeOK, Idle, Actor, IdleActor
<1>2. PreviewsAreValidated
  BY DEF Init, PreviewsAreValidated, Stored
<1>3. HeldFits
  BY DEF Init, HeldFits, HoldsStored, HoldsMode, HoldsCurrent, Idle
<1>4. OnePublishedPerYear /\ SyncIsAudited /\ JobPublishesOnce
  BY DEF Init, OnePublishedPerYear, OfYear, SyncIsAudited, JobPublishesOnce, Stored
<1> QED
  BY <1>1, <1>2, <1>3, <1>4 DEF IInv

LEMMA StutterPreserves ==
  ASSUME IInv, UNCHANGED vars
  PROVE  IInv'
<1>1. UNCHANGED <<jobs, calendars, audited, actor, crashes, outages>>
  BY DEF vars
<1>2. TypeOK' /\ PreviewsAreValidated'
  BY <1>1 DEF IInv, TypeOK, PreviewsAreValidated, Stored
<1>3. HeldFits'
  BY <1>1, StillFits DEF HeldFits, Stored
<1> QED
  BY <1>1, <1>2, <1>3, QuietStep DEF TypeOK, Stored

(* Every step of every actor, and time, keeps the invariant.                 *)
LEMMA NextPreserves ==
  ASSUME IInv, Next
  PROVE  IInv'
<1>1. CASE \E y \in Years, mode \in Modes : CreateJob(y, mode)
  BY <1>1, CreateJobPreserves
<1>2. ASSUME NEW w \in Workers, Run(w) \/ Outage(w) \/ Crash(w)
      PROVE  IInv'
  <2>1. w \in Actors
    BY DEF Actors
  <2>2. CASE SelectNext(w) \/ ClaimJob(w) \/ LoadJob(w) \/ FlushJob(w) \/ Work(w)
    BY <2>2, SelectNextPreserves, ClaimJobPreserves, LoadJobPreserves,
       FlushJobPreserves, WorkPreserves
  <2>3. CASE ReadCurrent(w) \/ ReadVersion(w) \/ BeginPublish(w) \/ StorePublished(w)
    BY <2>1, <2>3, ReadCurrentPreserves, ReadVersionPreserves, BeginPublishPreserves,
       StorePublishedPreserves
  <2>4. CASE Outage(w) \/ Crash(w)
    BY <2>4, OutagePreserves, CrashPreserves
  <2> QED
    BY <1>2, <2>2, <2>3, <2>4 DEF Run
<1>3. ASSUME NEW o \in Operators, Operate(o)
      PROVE  IInv'
  <2>1. o \in Actors
    BY DEF Actors
  <2>2. CASE \E j \in Jobs : BeginConfirm(o, j) \/ BeginCancel(o, j)
    BY <2>2, BeginConfirmPreserves, BeginCancelPreserves
  <2>3. CASE ReadCurrent(o) \/ ReadVersion(o) \/ BeginPublish(o) \/ StorePublished(o)
    BY <2>1, <2>3, ReadCurrentPreserves, ReadVersionPreserves, BeginPublishPreserves,
       StorePublishedPreserves
  <2>4. CASE LoadCancelled(o) \/ Cancel(o)
    BY <2>4, LoadCancelledPreserves, CancelPreserves
  <2> QED
    BY <1>3, <2>2, <2>3, <2>4 DEF Operate
<1>4. CASE Tick
  BY <1>4, TickPreserves
<1> QED
  BY <1>1, <1>2, <1>3, <1>4 DEF Next

-------------------------------------------------------------------------------
(* The tables agree with each other and with what every worker and operator  *)
(* holds between two transactions (holiday_calendar_sync.py).                *)
THEOREM Invariance == Spec => []IInv
<1>1. Init => IInv
  BY InitEstablishes
<1>2. IInv /\ [Next]_vars => IInv'
  BY NextPreserves, StutterPreserves
<1> QED
  BY <1>1, <1>2, PTL DEF Spec

(* Every row and every actor's state keeps its type.                         *)
THEOREM TypeCorrectness == Spec => []TypeOK
<1>1. IInv => TypeOK
  BY DEF IInv
<1> QED
  BY <1>1, Invariance, PTL

(* The versions of a year stay one line with exactly the newest published,   *)
(* whatever the number of workers and operators that publish, confirm and    *)
(* crash at the same time, also when runs outlive their lease                *)
(* (next_version, publish and uq_holiday_calendar_version).                  *)
THEOREM SingleLine == Spec => []OnePublishedPerYear
<1>1. IInv => OnePublishedPerYear
  BY DEF IInv
<1> QED
  BY <1>1, Invariance, PTL

(* A sync job publishes at most one version, however many workers execute it *)
(* (the unique operation intent of its audit event).                         *)
THEOREM SyncPublishesOnce == Spec => []JobPublishesOnce
<1>1. IInv => JobPublishesOnce
  BY DEF IInv
<1> QED
  BY <1>1, Invariance, PTL
-------------------------------------------------------------------------------
(* Runs that keep to their lease, when no job is claimed while it is being   *)
(* cancelled.                                                                *)

(* One actor goes on to hold r; at most job j is written, and its new row    *)
(* still suits everybody else.                                               *)
LEMMA LeaseStep ==
  ASSUME IInv, LeaseInv, NEW a \in Actors, NEW r,
         actor' = [actor EXCEPT ![a] = r],
         NEW j \in Jobs, Stored(j), NEW row \in JobRow,
         jobs' = [jobs EXCEPT ![j] = row],
         row.year = jobs[j].year,
         row.lock <=> row.status = "running",
         row.lock => jobs[j].lock,
         row = jobs[j] \/
           /\ \A w \in Workers \ {a} : Executing(w) => actor[w].id # j
           /\ \A w \in Workers \ {a} : actor[w].step = "claim" => j \notin actor[w].expired
           /\ \A o \in Operators \ {a} : actor[o].step # "idle" /\ actor[o].id = j =>
                \/ jobs[j].status \in Outcomes /\ row.status \in Outcomes
                \/ jobs[j].status \in Waiting /\ row.status \in Waiting,
         a \in Workers => RunHolds(a)' /\ ClaimHolds(a)',
         a \in Workers /\ Executing(a)' => Executing(a) /\ r.id = actor[a].id,
         a \in Operators => OperatorHolds(a)'
  PROVE  LeaseInv'
<1>1. /\ actor \in [Actors -> Actor] /\ actor'[a] = r
      /\ \A b \in Actors \ {a} : actor'[b] = actor[b]
  BY DEF IInv, TypeOK
<1>2. /\ jobs \in [Jobs -> JobRow \cup {None}] /\ jobs'[j] = row
      /\ \A k \in Jobs \ {j} : jobs'[k] = jobs[k]
      /\ \A k \in Jobs : Stored(k)' <=> Stored(k)
  BY NoneIsOutside DEF IInv, TypeOK, Stored
<1>3. ASSUME NEW b \in Actors
      PROVE  /\ actor[b].step # "idle" => actor[b].id \in Jobs
             /\ actor[b].step = "claim" => actor[b].expired \subseteq Jobs
  BY <1>1, ActorSteps DEF ClaimActor
<1>4. ASSUME NEW w \in Workers
      PROVE  RunHolds(w)' /\ ClaimHolds(w)'
  <2>1. CASE w = a
    BY <2>1
  <2>2. CASE w # a
    <3>1. w \in Actors /\ actor'[w] = actor[w] /\ (Executing(w)' <=> Executing(w))
      BY <1>1, <2>2 DEF Actors, Executing
    <3>2. RunHolds(w) /\ ClaimHolds(w)
      BY DEF LeaseInv, RunsHold
    <3>3. RunHolds(w)'
      <4>1. CASE Executing(w)
        <5>1. actor[w].id \in Jobs /\ jobs'[actor[w].id] = jobs[actor[w].id]
          BY <1>2, <1>3, <2>2, <3>1, <4>1 DEF Executing
        <5> QED
          BY <3>1, <3>2, <5>1 DEF RunHolds
      <4>2. CASE ~ Executing(w)
        BY <3>1, <4>2 DEF RunHolds
      <4> QED
        BY <4>1, <4>2
    <3>4. ClaimHolds(w)'
      <4> SUFFICES ASSUME actor[w].step = "claim", NEW k \in actor[w].expired
                   PROVE  /\ jobs'[k].status = "running" /\ jobs'[k].started = "old"
                          /\ ~ LockedFor(w, k)'
        BY <3>1 DEF ClaimHolds
      <4>1. jobs'[k] = jobs[k] /\ k \in Jobs
        BY <1>2, <1>3, <2>2, <3>1
      <4>2. /\ jobs[k].status = "running" /\ jobs[k].started = "old"
            /\ ~ LockedFor(w, k)
        BY <3>2 DEF ClaimHolds
      <4>3. ASSUME NEW v \in Workers \ {w}, actor'[v].step = "claim", k \in actor'[v].expired
            PROVE  FALSE
        <5>1. CASE v = a
          BY <2>2, <3>1, <4>3, <5>1 DEF ClaimHolds, LockedFor
        <5>2. CASE v # a
          BY <1>1, <4>2, <4>3, <5>2 DEF LockedFor, Actors
        <5> QED
          BY <5>1, <5>2
      <4> QED
        BY <4>1, <4>2, <4>3 DEF LockedFor
    <3> QED
      BY <3>3, <3>4
  <2> QED
    BY <2>1, <2>2
<1>5. RunsDiffer'
  <2> SUFFICES ASSUME NEW w \in Workers, NEW v \in Workers \ {w}, Executing(v)', Executing(w)'
               PROVE  actor'[v].id # actor'[w].id
    BY DEF RunsDiffer
  <2>1. ASSUME NEW u \in Workers, Executing(u)'
        PROVE  Executing(u) /\ actor'[u].id = actor[u].id
    BY <1>1, <2>1 DEF Executing, Actors
  <2> QED
    BY <2>1 DEF LeaseInv, RunsDiffer
<1>6. ASSUME NEW o \in Operators
      PROVE  OperatorHolds(o)'
  <2>1. CASE o = a
    BY <2>1
  <2>2. CASE o # a
    <3>1. o \in Actors /\ actor'[o] = actor[o] /\ OperatorHolds(o)
      BY <1>1, <2>2 DEF Actors, LeaseInv, OperatorsHold
    <3>2. CASE actor[o].step # "idle"
      <4>1. actor[o].id \in Jobs
        BY <1>3, <3>1, <3>2
      <4>2. CASE actor[o].id = j
        BY <1>2, <2>2, <3>1, <3>2, <4>2 DEF OperatorHolds, Outcomes, Waiting
      <4>3. CASE actor[o].id # j
        BY <1>2, <3>1, <3>2, <4>1, <4>3 DEF OperatorHolds
      <4> QED
        BY <4>2, <4>3
    <3> QED
      BY <3>1, <3>2 DEF OperatorHolds
  <2> QED
    BY <2>1, <2>2
<1>7. LockIsRun'
  BY <1>2 DEF LeaseInv, LockIsRun
<1>8. LocksDiffer'
  BY <1>2 DEF LeaseInv, LocksDiffer
<1> QED
  BY <1>4, <1>5, <1>6, <1>7, <1>8 DEF LeaseInv, RunsHold, OperatorsHold

(* A step that writes no job.                                                *)
LEMMA LeaseStay ==
  ASSUME IInv, LeaseInv, NEW a \in Actors, NEW r,
         actor[a].step # "idle" \/ (r.step # "idle" /\ r.id \in Jobs /\ Stored(r.id)),
         actor' = [actor EXCEPT ![a] = r],
         jobs' = jobs,
         a \in Workers => RunHolds(a)' /\ ClaimHolds(a)',
         a \in Workers /\ Executing(a)' => Executing(a) /\ r.id = actor[a].id,
         a \in Operators => OperatorHolds(a)'
  PROVE  LeaseInv'
<1>1. PICK j \in Jobs : Stored(j)
  BY Held
<1>2. jobs[j] \in JobRow /\ jobs' = [jobs EXCEPT ![j] = jobs[j]]
  BY <1>1 DEF IInv, TypeOK, Stored
<1>3. jobs[j].lock <=> jobs[j].status = "running"
  BY <1>1 DEF LeaseInv, LockIsRun
<1> QED
  BY <1>1, <1>2, <1>3, LeaseStep

(* Whoever stops holds nothing.                                              *)
LEMMA LeaseRest ==
  ASSUME IInv, LeaseInv, NEW a \in Actors, actor[a].step # "idle", Rest(a), UNCHANGED jobs
  PROVE  LeaseInv'
<1>1. actor' = [actor EXCEPT ![a] = Idle] /\ actor'[a].step = "idle"
  BY Held DEF Rest, Idle
<1>2. RunHolds(a)' /\ ClaimHolds(a)' /\ OperatorHolds(a)' /\ ~ Executing(a)'
  BY <1>1 DEF RunHolds, ClaimHolds, OperatorHolds, Executing
<1> QED
  BY <1>1, <1>2, LeaseStay

(* Who executes a job, and the row of it.                                    *)
LEMMA LeaseHeld ==
  ASSUME IInv, LeaseInv, NEW w \in Workers, Executing(w)
  PROVE  /\ w \in Actors /\ w \notin Operators
         /\ actor \in [Actors -> Actor] /\ jobs \in [Jobs -> JobRow \cup {None}]
         /\ actor[w].id \in Jobs /\ Stored(actor[w].id) /\ jobs[actor[w].id] \in JobRow
         /\ actor[w].job \in JobRow
         /\ RunHolds(w)
         /\ \A v \in Workers \ {w} : Executing(v) => actor[v].id # actor[w].id
         /\ \A v \in Workers : actor[v].step = "claim" => actor[w].id \notin actor[v].expired
         /\ \A o \in Operators : actor[o].step # "idle" => actor[o].id # actor[w].id
<1>1. w \in Actors /\ w \notin Operators
  BY ActorsDiffer DEF Actors
<1>2. actor \in [Actors -> Actor] /\ jobs \in [Jobs -> JobRow \cup {None}]
  BY DEF IInv, TypeOK
<1>3. /\ actor[w].id \in Jobs /\ Stored(actor[w].id) /\ jobs[actor[w].id] \in JobRow
      /\ actor[w].job \in JobRow
  BY <1>1, Held, ActorSteps DEF Executing
<1>4. RunHolds(w)
  BY DEF LeaseInv, RunsHold
<1>5. jobs[actor[w].id].status = "running" /\ jobs[actor[w].id].started = "fresh"
  BY <1>4 DEF RunHolds
<1>6. \A v \in Workers \ {w} : Executing(v) => actor[v].id # actor[w].id
  BY DEF LeaseInv, RunsDiffer
<1>7. \A v \in Workers : actor[v].step = "claim" => actor[w].id \notin actor[v].expired
  BY <1>5 DEF LeaseInv, RunsHold, ClaimHolds
<1>8. \A o \in Operators : actor[o].step # "idle" => actor[o].id # actor[w].id
  BY <1>5 DEF LeaseInv, OperatorsHold, OperatorHolds, Outcomes, Waiting
<1> QED
  BY <1>1, <1>2, <1>3, <1>4, <1>6, <1>7, <1>8

(* A worker that goes on with its job, whose row stays.                      *)
LEMMA LeaseGoesOn ==
  ASSUME IInv, LeaseInv, NEW w \in Workers, Executing(w), NEW r,
         actor' = [actor EXCEPT ![w] = r],
         jobs' = jobs,
         r.id = actor[w].id,
         r.step \in {"load", "flush", "work", "current", "version", "publish", "store"},
         r.job.year = actor[w].job.year, r.job.started = actor[w].job.started,
         r.job.status # "queued",
         r.step \in {"work", "current", "version", "publish", "store"} => r.job.status = "running",
         r.step \in {"flush", "store"} => r.loaded = jobs[r.id]
  PROVE  LeaseInv'
<1>1. w \in Actors /\ w \notin Operators /\ actor'[w] = r
  BY LeaseHeld
<1>2. RunHolds(w)' /\ ClaimHolds(w)' /\ actor[w].step # "idle"
  BY <1>1, LeaseHeld DEF RunHolds, ClaimHolds, Executing
<1> QED
  BY <1>1, <1>2, LeaseStay

LEMMA SelectNextKeepsLease ==
  ASSUME IInv, LeaseInv, NEW w \in Workers, SelectNext(w)
  PROVE  LeaseInv'
<1>1. w \in Actors /\ w \notin Operators
  BY ActorsDiffer DEF Actors
<1>2. PICK j \in Jobs : Stored(j) /\ actor' = [actor EXCEPT ![w] =
                                         [step |-> "claim", id |-> j, expired |-> Expired]]
  BY DEF SelectNext, Oldest
<1> DEFINE r == [step |-> "claim", id |-> j, expired |-> Expired]
<1>3. actor' = [actor EXCEPT ![w] = r] /\ actor'[w] = r /\ jobs' = jobs
      /\ r.step = "claim" /\ r.id = j /\ r.expired = Expired
      /\ \A v \in Workers \ {w} : actor'[v] = actor[v]
  BY <1>1, <1>2, Held DEF SelectNext, Actors
<1> HIDE DEF r
<1>4. ClaimHolds(w)'
  BY <1>3 DEF ClaimHolds, Expired, SelectNext, LockedFor
<1>5. RunHolds(w)' /\ ~ Executing(w)'
  BY <1>3 DEF RunHolds, Executing
<1> QED
  BY <1>1, <1>2, <1>3, <1>4, <1>5, LeaseStay

LEMMA LoadJobKeepsLease ==
  ASSUME IInv, LeaseInv, NEW w \in Workers, LoadJob(w)
  PROVE  LeaseInv'
<1> DEFINE m == actor[w]
           r == [step |-> "flush", id |-> m.id, job |-> m.job, stage |-> m.stage,
                 digest |-> m.digest, loaded |-> jobs[m.id]]
<1>1. Executing(w) /\ actor' = [actor EXCEPT ![w] = r] /\ jobs' = jobs
  BY DEF LoadJob, Executing
<1>2. /\ r.id = m.id /\ r.step = "flush" /\ r.loaded = jobs[r.id] /\ r.job = m.job
      /\ m.job.status # "queued"
  BY <1>1, LeaseHeld DEF RunHolds
<1> HIDE DEF r
<1> QED
  BY <1>1, <1>2, LeaseGoesOn

(* The calls to the official site and to the model, and their failures.      *)
LEMMA WorkKeepsLease ==
  ASSUME IInv, LeaseInv, NEW w \in Workers, Work(w) \/ Outage(w)
  PROVE  LeaseInv'
<1> DEFINE m == actor[w]
<1>1. m.step = "work" /\ Executing(w) /\ jobs' = jobs
  BY DEF Work, Outage, Discovered, NotAnnounced, Fetched, Extracted, NeedsAttention, UpToDate,
         Validated, Previewed, Prepare, Unavailable, At, Executing
<1>2. m.job \in JobRow /\ m.job.status = "running"
  BY <1>1, LeaseHeld DEF RunHolds
<1>3. CASE Prepare(w)
  <2> DEFINE r == [step |-> "current", id |-> m.id, job |-> m.job, digest |-> m.digest]
  <2>1. actor' = [actor EXCEPT ![w] = r]
    BY <1>3 DEF Prepare
  <2>2. r.id = m.id /\ r.step = "current" /\ r.job = m.job
    OBVIOUS
  <2> HIDE DEF r
  <2> QED
    BY <1>1, <1>2, <2>1, <2>2, LeaseGoesOn
<1>4. ASSUME NEW stage, NEW d, Progress(w, stage, d)
      PROVE  LeaseInv'
  <2> DEFINE r == [step |-> "load", id |-> m.id, job |-> m.job, stage |-> stage, digest |-> d]
  <2>1. actor' = [actor EXCEPT ![w] = r]
    BY <1>4 DEF Progress
  <2>2. r.id = m.id /\ r.step = "load" /\ r.job = m.job
    OBVIOUS
  <2> HIDE DEF r
  <2> QED
    BY <1>1, <1>2, <2>1, <2>2, LeaseGoesOn
<1>5. ASSUME NEW status \in Terminal, NEW due, NEW c, Finish(w, status, due, c)
      PROVE  LeaseInv'
  <2> DEFINE job == [m.job EXCEPT !.status = status, !.due = due, !.calendar = c]
             r == [step |-> "load", id |-> m.id, stage |-> m.stage, digest |-> m.digest,
                   job |-> job]
  <2>1. actor' = [actor EXCEPT ![w] = r]
    BY <1>5 DEF Finish
  <2>2. job.year = m.job.year /\ job.started = m.job.started /\ job.status = status
    BY <1>2 DEF JobRow
  <2>3. status # "queued"
    BY DEF Terminal
  <2> HIDE DEF job
  <2>4. r.id = m.id /\ r.step = "load" /\ r.job = job
    OBVIOUS
  <2> HIDE DEF r
  <2> QED
    BY <1>1, <1>2, <2>1, <2>2, <2>3, <2>4, LeaseGoesOn
<1>6. CASE Discovered(w) \/ Fetched(w) \/ Extracted(w) \/ Validated(w)
  BY <1>4, <1>6 DEF Discovered, Fetched, Extracted, Validated
<1>7. CASE NotAnnounced(w) \/ NeedsAttention(w) \/ UpToDate(w) \/ Previewed(w) \/ Unavailable(w)
  BY <1>5, <1>7 DEF NotAnnounced, NeedsAttention, UpToDate, Previewed, Unavailable, Terminal
<1> QED
  BY <1>3, <1>6, <1>7 DEF Work, Outage

(* An operator that goes on with a preview that has ended, or with a job     *)
(* that has not begun.                                                       *)
LEMMA LeaseOperates ==
  ASSUME IInv, LeaseInv, NEW o \in Operators, NEW r,
         actor' = [actor EXCEPT ![o] = r],
         jobs' = jobs,
         r.id \in Jobs, Stored(r.id),
         \/ /\ r.step \in {"current", "version", "publish", "store"}
            /\ jobs[r.id].status \in Outcomes
         \/ /\ r.step \in {"cancelling", "cancel"} /\ r.job.status = "cancelled"
            /\ jobs[r.id].status \in Waiting,
         r.job.year = jobs[r.id].year,
         r.step \in {"store", "cancel"} => ~ r.loaded.lock /\ r.loaded.year = r.job.year
  PROVE  LeaseInv'
<1>1. o \in Actors /\ o \notin Workers
  BY ActorsDiffer DEF Actors
<1>2. actor'[o] = r
  BY <1>1, Held
<1>3. OperatorHolds(o)' /\ r.step # "idle"
  BY <1>2 DEF OperatorHolds
<1> QED
  BY <1>1, <1>3, LeaseStay

(* The row of a job that an operator confirms or cancels.                    *)
LEMMA OperatorHeld ==
  ASSUME IInv, LeaseInv, NEW o \in Operators, actor[o].step # "idle"
  PROVE  /\ o \in Actors /\ o \notin Workers
         /\ actor \in [Actors -> Actor] /\ jobs \in [Jobs -> JobRow \cup {None}]
         /\ actor[o].id \in Jobs /\ Stored(actor[o].id) /\ jobs[actor[o].id] \in JobRow
         /\ OperatorHolds(o)
         /\ jobs[actor[o].id].status # "running"
         /\ ~ jobs[actor[o].id].lock
<1>1. o \in Actors /\ o \notin Workers
  BY ActorsDiffer DEF Actors
<1>2. actor \in [Actors -> Actor] /\ jobs \in [Jobs -> JobRow \cup {None}]
  BY DEF IInv, TypeOK
<1>3. actor[o].id \in Jobs /\ Stored(actor[o].id) /\ jobs[actor[o].id] \in JobRow
  BY <1>1, Held
<1>4. OperatorHolds(o) /\ jobs[actor[o].id].status # "running"
  BY DEF LeaseInv, OperatorsHold, OperatorHolds, Outcomes, Waiting
<1>5. ~ jobs[actor[o].id].lock
  BY <1>3, <1>4 DEF LeaseInv, LockIsRun
<1> QED
  BY <1>1, <1>2, <1>3, <1>4, <1>5

LEMMA ReadsKeepLease ==
  ASSUME IInv, LeaseInv, NEW a \in Actors, ReadCurrent(a) \/ ReadVersion(a) \/ BeginPublish(a)
  PROVE  LeaseInv'
<1> DEFINE m == actor[a]
<1>1. m.step \in {"current", "version", "publish"} /\ jobs' = jobs
  BY DEF ReadCurrent, ReadVersion, BeginPublish
<1>2. CASE Rest(a)
  BY <1>1, <1>2, LeaseRest
<1>3. CASE ~ Rest(a)
  <2>1. PICK r : /\ actor' = [actor EXCEPT ![a] = r]
                 /\ r.id = m.id /\ r.job = m.job
                 /\ r.step \in {"version", "publish", "store"}
                 /\ r.step = "store" => r.loaded = jobs[m.id]
    <3>1. CASE ReadCurrent(a)
      <4> DEFINE r == [step |-> "version", id |-> m.id, job |-> m.job, digest |-> m.digest,
                       current |-> Published(m.job.year)]
      <4>1. actor' = [actor EXCEPT ![a] = r]
        BY <3>1 DEF ReadCurrent
      <4>2. r.id = m.id /\ r.job = m.job /\ r.step = "version"
        OBVIOUS
      <4> HIDE DEF r
      <4> QED
        BY <4>1, <4>2
    <3>2. CASE ReadVersion(a)
      <4>1. PICK v : actor' = [actor EXCEPT ![a] =
                [step |-> "publish", id |-> m.id, job |-> m.job, digest |-> m.digest,
                 current |-> m.current, version |-> v]]
        BY <3>2 DEF ReadVersion
      <4> DEFINE r == [step |-> "publish", id |-> m.id, job |-> m.job, digest |-> m.digest,
                       current |-> m.current, version |-> v]
      <4>2. actor' = [actor EXCEPT ![a] = r] /\ r.id = m.id /\ r.job = m.job
            /\ r.step = "publish"
        BY <4>1
      <4> HIDE DEF r
      <4> QED
        BY <4>2
    <3>3. CASE BeginPublish(a)
      <4> DEFINE r == [step |-> "store", id |-> m.id, job |-> m.job, digest |-> m.digest,
                       loaded |-> jobs[m.id], current |-> m.current, version |-> m.version]
      <4>1. actor' = [actor EXCEPT ![a] = r]
        BY <1>3, <3>3 DEF BeginPublish
      <4>2. r.id = m.id /\ r.job = m.job /\ r.step = "store" /\ r.loaded = jobs[m.id]
        OBVIOUS
      <4> HIDE DEF r
      <4> QED
        BY <4>1, <4>2
    <3> QED
      BY <3>1, <3>2, <3>3
  <2>2. CASE a \in Workers
    <3>1. Executing(a)
      BY <1>1 DEF Executing
    <3>2. m.job.status = "running"
      BY <1>1, <2>2, <3>1, LeaseHeld DEF RunHolds
    <3> QED
      BY <1>1, <2>1, <2>2, <3>1, <3>2, LeaseGoesOn
  <2>3. CASE a \in Operators
    <3>1. /\ m.id \in Jobs /\ Stored(m.id) /\ m.job.year = jobs[m.id].year
          /\ jobs[m.id].status \in Outcomes /\ ~ jobs[m.id].lock
      BY <1>1, <2>3, OperatorHeld DEF OperatorHolds
    <3>2. r.step \in {"store", "cancel"} => ~ r.loaded.lock /\ r.loaded.year = r.job.year
      BY <2>1, <3>1
    <3> QED
      BY <1>1, <2>1, <2>3, <3>1, <3>2, LeaseOperates
  <2> QED
    BY <2>2, <2>3 DEF Actors
<1> QED
  BY <1>2, <1>3

LEMMA BeginConfirmKeepsLease ==
  ASSUME IInv, LeaseInv, NEW o \in Operators, NEW j \in Jobs, BeginConfirm(o, j)
  PROVE  LeaseInv'
<1>1. Stored(j) /\ jobs[j].status = "validated_preview" /\ jobs' = jobs
  BY DEF BeginConfirm
<1>2. PICK d : actor' = [actor EXCEPT ![o] = [step |-> "current", id |-> j, job |-> jobs[j],
                                              digest |-> d]]
  BY DEF BeginConfirm
<1> DEFINE r == [step |-> "current", id |-> j, job |-> jobs[j], digest |-> d]
<1>3. actor' = [actor EXCEPT ![o] = r] /\ r.id = j /\ r.job = jobs[j] /\ r.step = "current"
  BY <1>2
<1> HIDE DEF r
<1> QED
  BY <1>1, <1>3, LeaseOperates DEF Outcomes

LEMMA BeginCancelKeepsLease ==
  ASSUME IInv, LeaseInv, NEW o \in Operators, NEW j \in Jobs, BeginCancel(o, j)
  PROVE  LeaseInv'
<1> DEFINE job == [jobs[j] EXCEPT !.status = "cancelled", !.due = "never"]
           r == [step |-> "cancelling", id |-> j, job |-> job]
<1>1. Stored(j) /\ jobs[j].status \in Waiting /\ jobs' = jobs
  BY DEF BeginCancel, Waiting
<1>2. jobs[j] \in JobRow
  BY <1>1 DEF IInv, TypeOK, Stored
<1>3. job.status = "cancelled" /\ job.year = jobs[j].year
  BY <1>2 DEF JobRow
<1>4. actor' = [actor EXCEPT ![o] = r] /\ r.id = j /\ r.job = job /\ r.step = "cancelling"
  BY DEF BeginCancel
<1> HIDE DEF r, job
<1> QED
  BY <1>1, <1>3, <1>4, LeaseOperates

LEMMA LoadCancelledKeepsLease ==
  ASSUME IInv, LeaseInv, NEW o \in Operators, LoadCancelled(o)
  PROVE  LeaseInv'
<1> DEFINE m == actor[o]
           r == [step |-> "cancel", id |-> m.id, job |-> m.job, loaded |-> jobs[m.id]]
<1>1. m.step = "cancelling" /\ jobs' = jobs /\ actor' = [actor EXCEPT ![o] = r]
  BY DEF LoadCancelled
<1>2. r.id = m.id /\ r.job = m.job /\ r.step = "cancel" /\ r.loaded = jobs[m.id]
  OBVIOUS
<1>3. /\ m.id \in Jobs /\ Stored(m.id) /\ m.job.year = jobs[m.id].year
      /\ m.job.status = "cancelled" /\ jobs[m.id].status \in Waiting /\ ~ jobs[m.id].lock
  BY <1>1, OperatorHeld DEF OperatorHolds
<1> HIDE DEF r
<1> QED
  BY <1>1, <1>2, <1>3, LeaseOperates

-------------------------------------------------------------------------------
(* A row written over itself is what is written.                             *)
LEMMA MergeSame ==
  ASSUME NEW row \in JobRow, NEW new \in JobRow
  PROVE  Merge(row, row, new) = new
<1>1. DOMAIN row = {"year", "mode", "status", "lock", "started", "due", "calendar"}
  BY DEF JobRow
<1>2. Merge(row, row, new) = [col \in DOMAIN row |-> new[col]]
  BY DEF Merge
<1> QED
  BY <1>1, <1>2 DEF JobRow

(* Columns that were not changed are not written.                            *)
LEMMA MergeColumns ==
  ASSUME NEW row \in JobRow, NEW loaded \in JobRow, NEW new \in JobRow
  PROVE  /\ new.year = loaded.year => Merge(row, loaded, new).year = row.year
         /\ new.lock = loaded.lock => Merge(row, loaded, new).lock = row.lock
<1>1. DOMAIN row = {"year", "mode", "status", "lock", "started", "due", "calendar"}
  BY DEF JobRow
<1> QED
  BY <1>1 DEF Merge

LEMMA WrittenColumns ==
  ASSUME NEW job \in JobRow, NEW loaded \in JobRow
  PROVE  /\ Written(job, loaded).year = job.year
         /\ Written(job, loaded).started = job.started
         /\ job.status = "running" => Written(job, loaded).lock = loaded.lock
         /\ job.status # "running" => Written(job, loaded).lock = FALSE
  BY DEF Written, JobRow

(* A worker writes its job and goes on, or ends its run.                     *)
LEMMA LeaseWrites ==
  ASSUME IInv, LeaseInv, NEW w \in Workers, Executing(w), NEW r, NEW job \in JobRow,
         actor[w].step \in {"flush", "store"},
         actor' = [actor EXCEPT ![w] = r],
         UpdateJob(w, actor[w].id, job, actor[w].loaded),
         job.year = actor[w].job.year, job.started = actor[w].job.started,
         \/ job.status # "running" /\ r.step = "idle"
         \/ job.status = "running" /\ r.step = "work" /\ r.id = actor[w].id /\ r.job = job
  PROVE  LeaseInv'
<1> DEFINE j == actor[w].id
           row == Written(job, jobs[j])
<1>1. RunHolds(w) /\ w \in Actors /\ w \notin Operators /\ j \in Jobs /\ Stored(j)
      /\ jobs[j] \in JobRow /\ jobs \in [Jobs -> JobRow \cup {None}] /\ actor \in [Actors -> Actor]
  BY LeaseHeld
<1>2. actor[w].loaded = jobs[j] /\ jobs[j].lock /\ jobs[j].lock \in BOOLEAN
      /\ job.year = jobs[j].year /\ job.started = "fresh"
  BY <1>1 DEF RunHolds, JobRow
<1>3. /\ row \in JobRow /\ row.status = job.status /\ row.year = jobs[j].year
      /\ row.started = "fresh"
      /\ job.status = "running" => row.lock = jobs[j].lock
      /\ job.status # "running" => row.lock = FALSE
  <2>1. row \in JobRow /\ row.status = job.status
    BY <1>1, WrittenRow
  <2>2. /\ row.year = job.year /\ row.started = job.started
        /\ job.status = "running" => row.lock = jobs[j].lock
        /\ job.status # "running" => row.lock = FALSE
    BY <1>1, WrittenColumns
  <2> HIDE DEF row
  <2> QED
    BY <1>2, <2>1, <2>2
<1>4. Merge(jobs[j], jobs[j], row) = row
  BY <1>1, <1>3, MergeSame
<1>5. jobs' = [jobs EXCEPT ![j] = row]
  BY <1>2, <1>4 DEF UpdateJob
<1> HIDE DEF row
<1>6. actor'[w] = r /\ jobs'[j] = row
  BY <1>1, <1>5
<1>7. row.lock <=> row.status = "running"
  BY <1>2, <1>3
<1>8. /\ \A v \in Workers \ {w} : Executing(v) => actor[v].id # j
      /\ \A v \in Workers \ {w} : actor[v].step = "claim" => j \notin actor[v].expired
      /\ \A o \in Operators \ {w} : actor[o].step # "idle" => actor[o].id # j
  BY LeaseHeld
<1>9. RunHolds(w)' /\ ClaimHolds(w)'
  BY <1>2, <1>3, <1>6 DEF RunHolds, ClaimHolds, Executing
<1>10. Executing(w)' => r.id = actor[w].id
  BY <1>6 DEF Executing
<1>11. row.lock => jobs[j].lock
  BY <1>2
<1>12. row.year = jobs[j].year
  BY <1>3
<1>13. row \in JobRow
  BY <1>3
<1> QED
  BY <1>1, <1>5, <1>7, <1>8, <1>9, <1>10, <1>11, <1>12, <1>13, LeaseStep

(* An operator writes its job, which nobody executes, and is done.           *)
LEMMA OperatorWrites ==
  ASSUME IInv, LeaseInv, NEW o \in Operators, NEW job \in JobRow,
         UpdateJob(o, actor[o].id, job, actor[o].loaded),
         Rest(o),
         \/ actor[o].step = "store" /\ job.status \in Outcomes
         \/ actor[o].step = "cancel" /\ job.status \in Waiting,
         job.year = actor[o].job.year
  PROVE  LeaseInv'
<1> DEFINE m == actor[o]
           j == m.id
           new == Written(job, m.loaded)
           row == Merge(jobs[j], m.loaded, new)
<1>1. /\ o \in Actors /\ o \notin Workers /\ j \in Jobs /\ Stored(j) /\ jobs[j] \in JobRow
      /\ jobs \in [Jobs -> JobRow \cup {None}] /\ actor \in [Actors -> Actor]
      /\ jobs[j].status # "running" /\ ~ jobs[j].lock
      /\ ~ m.loaded.lock /\ m.loaded.year = m.job.year
      /\ \/ jobs[j].status \in Outcomes /\ job.status \in Outcomes
         \/ jobs[j].status \in Waiting /\ job.status \in Waiting
  BY OperatorHeld DEF OperatorHolds
<1>2. m.loaded \in JobRow
  BY <1>1, ActorSteps DEF StoreActor, CancelActor
<1>3. job.status # "running"
  BY <1>1 DEF Outcomes, Waiting
<1>4. new \in JobRow /\ new.status = job.status /\ new.year = m.loaded.year /\ new.lock = FALSE
  BY <1>1, <1>2, <1>3, WrittenRow, WrittenColumns
<1>5. m.loaded.lock = FALSE /\ jobs[j].lock = FALSE
  BY <1>1, <1>2 DEF JobRow
<1> HIDE DEF new
<1>6. row \in JobRow /\ row.status \in {job.status, jobs[j].status}
  BY <1>1, <1>2, <1>4, MergeRow
<1>7. row.year = jobs[j].year /\ row.lock = FALSE
  <2>1. new.lock = m.loaded.lock
    BY <1>4, <1>5
  <2>2. Merge(jobs[j], m.loaded, new).year = jobs[j].year
    BY <1>1, <1>2, <1>4, MergeColumns
  <2>3. Merge(jobs[j], m.loaded, new).lock = jobs[j].lock
    BY <1>1, <1>2, <1>4, <2>1, MergeColumns
  <2> QED
    BY <1>5, <2>2, <2>3
<1>8. jobs' = [jobs EXCEPT ![j] = row]
  BY DEF UpdateJob, new
<1> HIDE DEF row
<1>9. actor' = [actor EXCEPT ![o] = Idle] /\ actor'[o].step = "idle"
  BY <1>1 DEF Rest, Idle
<1>10. OperatorHolds(o)'
  BY <1>9 DEF OperatorHolds
<1>11. ASSUME NEW w \in Workers, Executing(w)
       PROVE  actor[w].id # j
  BY <1>11, LeaseHeld
<1>12. ASSUME NEW w \in Workers, actor[w].step = "claim", j \in actor[w].expired
       PROVE  FALSE
  BY <1>1, <1>12 DEF LeaseInv, RunsHold, ClaimHolds
<1>13. \/ jobs[j].status \in Outcomes /\ row.status \in Outcomes
       \/ jobs[j].status \in Waiting /\ row.status \in Waiting
  BY <1>1, <1>6
<1>14. row.status # "running"
  BY <1>13 DEF Outcomes, Waiting
<1> QED
  BY <1>1, <1>6, <1>7, <1>8, <1>9, <1>10, <1>11, <1>12, <1>13, <1>14, LeaseStep

LEMMA CancelKeepsLease ==
  ASSUME IInv, LeaseInv, NEW o \in Operators, Cancel(o)
  PROVE  LeaseInv'
<1>1. actor[o].step = "cancel" /\ Rest(o) /\ o \in Actors
  BY DEF Cancel, Actors
<1>2. CASE UNCHANGED jobs
  BY <1>1, <1>2, LeaseRest
<1>3. CASE ~ UNCHANGED jobs
  <2>1. UpdateJob(o, actor[o].id, actor[o].job, actor[o].loaded)
    BY <1>3 DEF Cancel
  <2>2. actor[o].job \in JobRow
    BY <1>1, Held, ActorSteps
  <2>3. actor[o].job.status \in Waiting
    BY <1>1, OperatorHeld DEF OperatorHolds, Waiting
  <2> QED
    BY <1>1, <2>1, <2>2, <2>3, OperatorWrites
<1> QED
  BY <1>2, <1>3

LEMMA FlushJobKeepsLease ==
  ASSUME IInv, LeaseInv, NEW w \in Workers, FlushJob(w)
  PROVE  LeaseInv'
<1> DEFINE m == actor[w]
<1>1. m.step = "flush" /\ Executing(w) /\ UpdateJob(w, m.id, m.job, m.loaded)
  BY DEF FlushJob, Executing
<1>2. m.job \in JobRow
  BY <1>1, LeaseHeld
<1>3. CASE m.job.status = "running"
  <2> DEFINE r == [step |-> "work", id |-> m.id, job |-> m.job, stage |-> m.stage,
                   digest |-> m.digest]
  <2>1. actor' = [actor EXCEPT ![w] = r] /\ r.step = "work" /\ r.id = m.id /\ r.job = m.job
    BY <1>3 DEF FlushJob
  <2> HIDE DEF r
  <2> QED
    BY <1>1, <1>2, <1>3, <2>1, LeaseWrites
<1>4. CASE m.job.status # "running"
  <2>1. actor' = [actor EXCEPT ![w] = Idle] /\ Idle.step = "idle"
    BY <1>4 DEF FlushJob, Rest, Idle
  <2> HIDE DEF Idle
  <2> QED
    BY <1>1, <1>2, <1>4, <2>1, LeaseWrites
<1> QED
  BY <1>3, <1>4

LEMMA StorePublishedKeepsLease ==
  ASSUME IInv, LeaseInv, NEW a \in Actors, StorePublished(a)
  PROVE  LeaseInv'
<1> DEFINE m == actor[a]
<1>1. m.step = "store" /\ Rest(a)
  BY DEF StorePublished
<1>2. CASE UNCHANGED jobs
  BY <1>1, <1>2, LeaseRest
<1>3. CASE ~ UNCHANGED jobs
  <2>1. PICK c \in CalendarIds :
          UpdateJob(a, m.id, [m.job EXCEPT !.status = "published", !.calendar = c], m.loaded)
    BY <1>3 DEF StorePublished
  <2> DEFINE job == [m.job EXCEPT !.status = "published", !.calendar = c]
  <2>2. m \in StoreActor /\ actor \in [Actors -> Actor]
    BY <1>1, Held, ActorSteps
  <2>3. m.job \in JobRow /\ m.loaded \in JobRow
    BY <2>2 DEF StoreActor
  <2>4. /\ job \in JobRow /\ job.year = m.job.year /\ job.started = m.job.started
        /\ job.status = "published"
    BY <2>3 DEF JobRow, JobStatuses, Terminal
  <2>5. UpdateJob(a, m.id, job, m.loaded)
    BY <2>1
  <2> HIDE DEF job
  <2>6. actor' = [actor EXCEPT ![a] = Idle] /\ actor'[a] = Idle /\ Idle.step = "idle"
    BY <1>1, <2>2 DEF Rest, Idle
  <2> HIDE DEF Idle
  <2>7. CASE a \in Workers
    <3>1. Executing(a) /\ m.step \in {"flush", "store"} /\ job.status # "running"
      BY <1>1, <2>4 DEF Executing
    <3> QED
      BY <2>4, <2>5, <2>6, <2>7, <3>1, LeaseWrites
  <2>8. CASE a \in Operators
    BY <1>1, <2>4, <2>5, <2>8, OperatorWrites DEF Outcomes
  <2> QED
    BY <2>7, <2>8 DEF Actors
<1> QED
  BY <1>2, <1>3

-------------------------------------------------------------------------------
(* The recovery of expired rows, with or without a claim: only rows that     *)
(* nobody executes or confirms are written.                                  *)
LEMMA ClaimJobKeepsLease ==
  ASSUME IInv, LeaseInv, ~ CancelsRace, NEW w \in Workers, ClaimJob(w)
  PROVE  LeaseInv'
<1> DEFINE m == actor[w]
           j == m.id
           expired == m.expired
           rows == Recovered(expired)
<1>1. w \in Actors /\ w \notin Operators
  BY ActorsDiffer DEF Actors
<1>2. /\ m.step = "claim" /\ m \in ClaimActor /\ j \in Jobs /\ Stored(j)
      /\ expired \subseteq Jobs
      /\ ~ LockedFor(w, j)
      /\ jobs \in [Jobs -> JobRow \cup {None}] /\ actor \in [Actors -> Actor]
  BY <1>1, Held, ActorSteps DEF ClaimJob, ClaimActor, IInv, TypeOK
<1>3. ASSUME NEW k \in expired
      PROVE  /\ jobs[k].status = "running" /\ jobs[k].started = "old" /\ ~ LockedFor(w, k)
             /\ Stored(k) /\ jobs[k] \in JobRow
  <2>1. jobs[k].status = "running" /\ jobs[k].started = "old" /\ ~ LockedFor(w, k)
    BY <1>2 DEF LeaseInv, RunsHold, ClaimHolds
  <2>2. HoldsStored(w)
    BY <1>1, Held
  <2>3. Stored(k)
    BY <1>2, <2>2 DEF HoldsStored
  <2> QED
    BY <1>2, <2>1, <2>3 DEF Stored
<1>4. /\ \A k \in Jobs : k \notin expired => rows[k] = jobs[k]
      /\ \A k \in expired : /\ rows[k].status = "queued" /\ rows[k].lock = FALSE
                            /\ rows[k].year = jobs[k].year /\ rows[k] \in JobRow
      /\ rows \in [Jobs -> JobRow \cup {None}]
  <2>1. \A k \in Jobs : k \notin expired => rows[k] = jobs[k]
    BY DEF Recovered
  <2>2. \A k \in expired : rows[k] = Recover(jobs[k])
    BY <1>2 DEF Recovered
  <2>3. ASSUME NEW k \in expired
        PROVE  /\ Recover(jobs[k]).status = "queued" /\ Recover(jobs[k]).lock = FALSE
               /\ Recover(jobs[k]).year = jobs[k].year /\ Recover(jobs[k]) \in JobRow
    <3>1. jobs[k] \in JobRow
      BY <1>3
    <3> QED
      BY <3>1, RecoverRow
  <2>4. rows \in [Jobs -> JobRow \cup {None}]
    BY <1>2, <1>3, RecoveredRows
  <2> QED
    BY <2>1, <2>2, <2>3, <2>4
<1> HIDE DEF rows
<1> DEFINE Taken == Claimable(rows, j) /\ LockFree(rows, j)
           row == Claimed(rows[j])
<1>5. CASE jobs' = jobs
  <2>1. Rest(w)
    <3>1. CASE ~ Taken
      BY <3>1 DEF ClaimJob, rows
    <3>2. CASE Taken
      <4>1. jobs' = [rows EXCEPT ![j] = row]
        BY <3>2 DEF ClaimJob, rows
      <4>2. rows[j].status # "running"
        BY <3>2 DEF Claimable, Eligible
      <4>3. rows[j] \in JobRow
        BY <1>2, <1>4 DEF Stored
      <4>4. jobs'[j] = row /\ row.status = "running" /\ row.started = "fresh"
        <5>1. row.status = "running" /\ row.started = "fresh"
          BY <4>3 DEF Claimed, JobRow
        <5> HIDE DEF row
        <5>2. jobs'[j] = row
          BY <1>2, <1>4, <4>1
        <5> QED
          BY <5>1, <5>2
      <4>5. CASE j \in expired
        BY <1>3, <1>5, <4>4, <4>5
      <4>6. CASE j \notin expired
        BY <1>2, <1>4, <1>5, <4>2, <4>4, <4>6
      <4> QED
        BY <4>5, <4>6
    <3> QED
      BY <3>1, <3>2
  <2> QED
    BY <1>1, <1>2, <1>5, <2>1, LeaseRest
<1>6. CASE jobs' # jobs
  <2>1. \/ jobs' = rows /\ Rest(w) /\ ~ Claimable(rows, j)
        \/ /\ Taken /\ jobs' = [rows EXCEPT ![j] = row]
           /\ actor' = [actor EXCEPT ![w] =
                [step |-> "load", id |-> j, job |-> row, stage |-> "discovering",
                 digest |-> None]]
    BY <1>6 DEF ClaimJob, rows
  <2>2. Taken => /\ rows[j] \in JobRow /\ row \in JobRow /\ row.status = "running"
                 /\ row.lock = TRUE /\ row.started = "fresh" /\ row.year = rows[j].year
                 /\ rows[j].status \in {"queued", "temporarily_unavailable"}
    <3>1. rows[j] \in JobRow
      BY <1>2, <1>4 DEF Stored
    <3>2. /\ row \in JobRow /\ row.status = "running"
          /\ row.lock = TRUE /\ row.started = "fresh" /\ row.year = rows[j].year
      BY <3>1, ClaimedRow DEF Claimed, JobRow
    <3> QED
      BY <3>1, <3>2 DEF Claimable, Eligible
  <2> HIDE DEF row
  (* who held a job before holds it still, and its row is as it was          *)
  <2>3. ASSUME NEW k \in Jobs, k \notin expired, Stored(k),
               jobs[k].status \notin {"queued", "temporarily_unavailable"}
        PROVE  jobs'[k] = jobs[k]
    <3>1. rows[k] = jobs[k]
      BY <1>4, <2>3
    <3>2. CASE Taken /\ jobs' = [rows EXCEPT ![j] = row]
      <4>1. k # j
        BY <2>2, <2>3, <3>1, <3>2
      <4> QED
        BY <1>4, <3>1, <3>2, <4>1
    <3> QED
      BY <2>1, <3>1, <3>2
  <2>4. /\ \A k \in expired : k # j => jobs'[k] = rows[k]
        /\ \A k \in Jobs : k # j => jobs'[k] = rows[k]
    BY <1>2, <1>4, <2>1
  <2>5. \A k \in Jobs : Stored(k)' <=> Stored(k)
    <3>1. \A k \in Jobs : rows[k] # None <=> Stored(k)
      BY <1>3, <1>4, NoneIsOutside DEF Stored
    <3>2. Taken => row # None
      BY <2>2, NoneIsOutside
    <3> QED
      BY <1>2, <1>4, <2>1, <3>1, <3>2 DEF Stored
  <2>6. \A b \in Actors \ {w} : actor'[b] = actor[b]
    BY <1>2, <2>1 DEF Rest
  <2>7. ASSUME NEW v \in Workers \ {w}
        PROVE  RunHolds(v)' /\ ClaimHolds(v)'
    <3>1. v \in Actors /\ actor'[v] = actor[v] /\ (Executing(v)' <=> Executing(v))
      BY <2>6 DEF Actors, Executing
    <3>2. RunHolds(v)'
      <4>1. CASE Executing(v)
        <5>1. /\ RunHolds(v) /\ actor[v].id \in Jobs /\ Stored(actor[v].id)
              /\ actor[v].id \notin expired
          BY <1>2, <4>1, LeaseHeld
        <5>2. jobs'[actor[v].id] = jobs[actor[v].id]
          BY <2>3, <4>1, <5>1 DEF RunHolds
        <5> QED
          BY <3>1, <5>1, <5>2 DEF RunHolds
      <4>2. CASE ~ Executing(v)
        BY <3>1, <4>2 DEF RunHolds
      <4> QED
        BY <4>1, <4>2
    <3>3. ClaimHolds(v)'
      <4> SUFFICES ASSUME actor[v].step = "claim", NEW k \in actor[v].expired
                   PROVE  /\ jobs'[k].status = "running" /\ jobs'[k].started = "old"
                          /\ ~ LockedFor(v, k)'
        BY <3>1 DEF ClaimHolds
      <4>1. /\ jobs[k].status = "running" /\ jobs[k].started = "old" /\ ~ LockedFor(v, k)
        BY DEF LeaseInv, RunsHold, ClaimHolds
      <4>2. k \in Jobs /\ Stored(k)
        BY <3>1, Held, ActorSteps DEF ClaimActor, HoldsStored
      <4>3. k \notin expired
        BY <1>2, <4>1 DEF LockedFor
      <4>4. jobs'[k] = jobs[k]
        BY <2>3, <4>1, <4>2, <4>3
      <4>5. actor'[w].step # "claim"
        BY <1>1, <1>2, <2>1 DEF Rest, Idle
      <4>6. ~ LockedFor(v, k)'
        BY <2>6, <4>1, <4>5 DEF LockedFor, Actors
      <4> QED
        BY <4>1, <4>4, <4>6
    <3> QED
      BY <3>2, <3>3
  <2>8. RunHolds(w)' /\ ClaimHolds(w)'
    <3>1. CASE Rest(w)
      BY <1>1, <1>2, <3>1 DEF Rest, Idle, RunHolds, ClaimHolds, Executing
    <3>2. CASE ~ Rest(w)
      <4> DEFINE r == [step |-> "load", id |-> j, job |-> row, stage |-> "discovering",
                       digest |-> None]
      <4>1. actor'[w] = r /\ jobs'[j] = row /\ Taken
        BY <1>1, <1>2, <1>4, <2>1, <3>2
      <4>2. r.step = "load" /\ r.id = j /\ r.job = row
        OBVIOUS
      <4> HIDE DEF r
      <4> QED
        BY <2>2, <4>1, <4>2 DEF RunHolds, ClaimHolds, Executing
    <3> QED
      BY <3>1, <3>2
  <2>9. RunsDiffer'
    <3>1. ASSUME NEW v \in Workers \ {w}, Executing(v)', Executing(w)'
          PROVE  actor'[v].id # actor'[w].id
      <4>1. Executing(v) /\ actor'[v] = actor[v]
        BY <2>6, <3>1 DEF Executing, Actors
      <4>2. actor'[w].step \notin {"idle", "claim"}
        BY <3>1 DEF Executing
      <4>3. ~ Rest(w)
        BY <1>1, <1>2, <4>2 DEF Rest, Idle
      <4>4. actor'[w].id = j /\ Taken
        BY <1>1, <1>2, <2>1, <4>3
      <4>5. jobs[actor[v].id].status = "running" /\ actor[v].id \in Jobs
            /\ actor[v].id \notin expired
        BY <1>2, <4>1, LeaseHeld DEF RunHolds
      <4>6. actor[v].id # j
        BY <1>4, <2>2, <4>4, <4>5
      <4> QED
        BY <4>1, <4>4, <4>6
    <3>2. ASSUME NEW u \in Workers \ {w}, NEW v \in Workers \ {w, u}, Executing(u)', Executing(v)'
          PROVE  actor'[v].id # actor'[u].id
      <4>1. /\ Executing(v) /\ actor'[v] = actor[v]
            /\ Executing(u) /\ actor'[u] = actor[u]
        BY <2>6, <3>2 DEF Executing, Actors
      <4> QED
        BY <4>1 DEF LeaseInv, RunsDiffer
    <3> QED
      BY <3>1, <3>2 DEF RunsDiffer
  <2>10. ASSUME NEW o \in Operators
         PROVE  OperatorHolds(o)'
    <3>1. o \in Actors /\ actor'[o] = actor[o] /\ OperatorHolds(o)
      BY <1>1, <2>6 DEF Actors, LeaseInv, OperatorsHold
    <3>2. CASE actor[o].step # "idle"
      <4>1. /\ actor[o].id \in Jobs /\ Stored(actor[o].id)
            /\ jobs[actor[o].id].status # "running"
        BY <3>2, OperatorHeld
      <4>2. actor[o].id \notin expired
        BY <1>3, <4>1
      <4>3. jobs'[actor[o].id] = jobs[actor[o].id]
        <5>1. CASE actor[o].step \in {"cancelling", "cancel"}
          <6>1. actor[o].id # j
            BY <5>1 DEF ClaimJob, BeingCancelled
          <6> QED
            BY <1>4, <2>4, <4>1, <4>2, <6>1
        <5>2. CASE actor[o].step \notin {"cancelling", "cancel"}
          <6>1. jobs[actor[o].id].status \in Outcomes
            BY <3>1, <3>2, <5>2 DEF OperatorHolds
          <6> QED
            BY <2>3, <4>1, <4>2, <6>1 DEF Outcomes
        <5> QED
          BY <5>1, <5>2
      <4> QED
        BY <3>1, <4>3 DEF OperatorHolds
    <3> QED
      BY <3>1, <3>2 DEF OperatorHolds
  <2>11. LockIsRun'
    <3> SUFFICES ASSUME NEW k \in Jobs, Stored(k)
                 PROVE  jobs'[k].lock <=> jobs'[k].status = "running"
      BY <2>5 DEF LockIsRun
    <3>1. rows[k].lock <=> rows[k].status = "running"
      BY <1>4 DEF LeaseInv, LockIsRun
    <3>2. CASE jobs'[k] = rows[k]
      BY <3>1, <3>2
    <3>3. CASE k = j /\ Taken /\ jobs'[k] = row
      BY <2>2, <3>3
    <3> QED
      BY <1>2, <1>4, <2>1, <2>4, <3>2, <3>3
  <2>12. LocksDiffer'
    <3>1. ASSUME NEW k \in Jobs, NEW i \in Jobs, k # i, Stored(k), Stored(i),
                 rows[k].lock, rows[i].lock
          PROVE  rows[k].year # rows[i].year
      BY <1>4, <3>1 DEF LeaseInv, LocksDiffer
    <3>2. CASE jobs' = rows
      BY <2>5, <3>1, <3>2 DEF LocksDiffer
    <3>3. CASE Taken /\ jobs' = [rows EXCEPT ![j] = row]
      <4>1. \A k \in Jobs \ {j} : Stored(k) => ~ (rows[k].lock /\ rows[k].year = rows[j].year)
        BY <3>3 DEF LockFree
      <4>2. jobs'[j] = row /\ row.year = rows[j].year
        BY <1>2, <1>4, <2>2, <3>3
      <4> QED
        BY <2>4, <2>5, <3>1, <4>1, <4>2 DEF LocksDiffer
    <3> QED
      BY <2>1, <3>2, <3>3
  <2> QED
    BY <2>7, <2>8, <2>9, <2>10, <2>11, <2>12 DEF LeaseInv, RunsHold, OperatorsHold
<1> QED
  BY <1>5, <1>6

(* A new job is queued and holds no lock.                                    *)
LEMMA CreateJobKeepsLease ==
  ASSUME IInv, LeaseInv, NEW y \in Years, NEW mode \in Modes, CreateJob(y, mode)
  PROVE  LeaseInv'
<1>1. PICK j \in Jobs :
        /\ ~Stored(j)
        /\ jobs' = [jobs EXCEPT ![j] =
             [year |-> y, mode |-> mode, status |-> "queued", lock |-> FALSE,
              started |-> "never", due |-> "never", calendar |-> None]]
  BY DEF CreateJob
<1> DEFINE row == [year |-> y, mode |-> mode, status |-> "queued", lock |-> FALSE,
                   started |-> "never", due |-> "never", calendar |-> None]
<1>2. row.status = "queued" /\ row.lock = FALSE
  OBVIOUS
<1>3. jobs' = [jobs EXCEPT ![j] = row]
  BY <1>1
<1> HIDE DEF row
<1>4. actor' = actor
  BY DEF CreateJob
<1>5. /\ jobs \in [Jobs -> JobRow \cup {None}] /\ actor \in [Actors -> Actor]
      /\ jobs'[j] = row /\ \A k \in Jobs \ {j} : jobs'[k] = jobs[k]
  BY <1>3 DEF IInv, TypeOK
<1>6. \A k \in Jobs : Stored(k) => jobs'[k] = jobs[k]
  BY <1>1, <1>5
<1>7. ASSUME NEW a \in Actors, actor[a].step # "idle"
      PROVE  actor[a].id \in Jobs /\ jobs'[actor[a].id] = jobs[actor[a].id]
  BY <1>6, <1>7, Held
<1>8. ASSUME NEW w \in Workers
      PROVE  RunHolds(w)' /\ ClaimHolds(w)'
  <2>1. w \in Actors /\ RunHolds(w) /\ ClaimHolds(w)
    BY DEF Actors, LeaseInv, RunsHold
  <2>2. RunHolds(w)'
    BY <1>4, <1>7, <2>1 DEF RunHolds, Executing
  <2>3. ASSUME actor[w].step = "claim", NEW k \in actor[w].expired
        PROVE  jobs'[k] = jobs[k]
    <3>1. k \in Jobs /\ Stored(k)
      BY <2>1, <2>3, Held, ActorSteps DEF ClaimActor, HoldsStored
    <3> QED
      BY <1>6, <3>1
  <2>4. ClaimHolds(w)'
    BY <1>4, <2>1, <2>3 DEF ClaimHolds, LockedFor
  <2> QED
    BY <2>2, <2>4
<1>9. ASSUME NEW o \in Operators
      PROVE  OperatorHolds(o)'
  <2>1. o \in Actors /\ OperatorHolds(o)
    BY DEF Actors, LeaseInv, OperatorsHold
  <2> QED
    BY <1>4, <1>7, <2>1 DEF OperatorHolds
<1>10. RunsDiffer'
  BY <1>4 DEF LeaseInv, RunsDiffer, Executing
<1>11. \A k \in Jobs : Stored(k)' => (k = j \/ Stored(k))
  BY <1>5 DEF Stored
<1>12. LockIsRun'
  BY <1>2, <1>5, <1>11 DEF LeaseInv, LockIsRun
<1>13. LocksDiffer'
  BY <1>2, <1>5, <1>11 DEF LeaseInv, LocksDiffer
<1> QED
  BY <1>8, <1>9, <1>10, <1>12, <1>13 DEF LeaseInv, RunsHold, OperatorsHold

(* Time only passes when no worker executes: nobody's claim gets old.        *)
LEMMA TickKeepsLease ==
  ASSUME IInv, LeaseInv, LeasesHold, Tick
  PROVE  LeaseInv'
<1>1. /\ jobs' = [j \in Jobs |-> IF Stored(j) THEN Later(jobs[j]) ELSE None]
      /\ actor' = [a \in Actors |-> LaterHeld(actor[a])]
      /\ \A w \in Workers : ~ Executing(w)
  BY DEF Tick
<1>2. ASSUME NEW j \in Jobs, Stored(j)
      PROVE  /\ jobs[j] \in JobRow /\ jobs'[j] = Later(jobs[j])
             /\ Later(jobs[j]).status = jobs[j].status /\ Later(jobs[j]).year = jobs[j].year
             /\ Later(jobs[j]).lock = jobs[j].lock
             /\ jobs[j].started = "old" => Later(jobs[j]).started = "old"
  <2>1. jobs[j] \in JobRow /\ jobs'[j] = Later(jobs[j])
    BY <1>1, <1>2 DEF IInv, TypeOK, Stored
  <2>2. jobs[j].started = "old" => Later(jobs[j]).started = "old"
    BY <2>1 DEF Later, JobRow
  <2> QED
    BY <2>1, <2>2, LaterRow
<1>3. \A j \in Jobs : Stored(j)' => Stored(j)
  BY <1>1 DEF Stored
<1>4. ASSUME NEW a \in Actors
      PROVE  actor[a] \in Actor /\ actor'[a] = LaterHeld(actor[a])
             /\ actor'[a].step = actor[a].step
  BY <1>1, Held, LaterActor
<1>5. \A w \in Workers : ~ Executing(w)'
  BY <1>1, <1>4 DEF Executing, Actors
<1>6. ASSUME NEW w \in Workers
      PROVE  ClaimHolds(w)'
  <2> SUFFICES ASSUME actor[w].step = "claim", NEW k \in actor[w].expired
               PROVE  /\ jobs'[k].status = "running" /\ jobs'[k].started = "old"
                      /\ ~ LockedFor(w, k)'
    BY <1>4, LaterActor DEF ClaimHolds, Actors
  <2>1. jobs[k].status = "running" /\ jobs[k].started = "old" /\ ~ LockedFor(w, k)
    BY DEF LeaseInv, RunsHold, ClaimHolds
  <2>2. k \in Jobs /\ Stored(k)
    BY Held, ActorSteps DEF ClaimActor, HoldsStored, Actors
  <2>3. ~ LockedFor(w, k)'
    BY <1>4, <2>1, LaterActor DEF LockedFor, Actors
  <2> QED
    BY <1>2, <2>1, <2>2, <2>3
<1>7. ASSUME NEW o \in Operators
      PROVE  OperatorHolds(o)'
  <2> DEFINE m == actor[o]
             l == LaterHeld(m)
  <2>1. o \in Actors /\ m \in Actor /\ actor'[o] = l /\ l.step = m.step /\ OperatorHolds(o)
    BY <1>4 DEF Actors, LeaseInv, OperatorsHold
  <2>2. CASE m.step # "idle"
    <3>1. /\ m.id \in Jobs /\ Stored(m.id)
          /\ m.step \in {"current", "version", "publish", "store", "cancelling", "cancel"}
      BY <2>1, <2>2, Held DEF OperatorHolds
    <3>2. /\ l.id = m.id /\ l.job.year = m.job.year /\ l.job.status = m.job.status
          /\ m.step \in {"store", "cancel"} =>
               l.loaded.year = m.loaded.year /\ l.loaded.lock = m.loaded.lock
      BY <2>1, <3>1, LaterActor
    <3>3. /\ jobs'[m.id].status = jobs[m.id].status /\ jobs'[m.id].year = jobs[m.id].year
      BY <1>2, <3>1
    <3> HIDE DEF l
    <3> QED
      BY <2>1, <2>2, <3>1, <3>2, <3>3 DEF OperatorHolds
  <2>3. CASE m.step = "idle"
    BY <2>1, <2>3 DEF OperatorHolds
  <2> QED
    BY <2>2, <2>3
<1>8. LockIsRun'
  BY <1>2, <1>3 DEF LeaseInv, LockIsRun
<1>9. LocksDiffer'
  BY <1>2, <1>3 DEF LeaseInv, LocksDiffer
<1>10. RunsDiffer' /\ \A w \in Workers : RunHolds(w)'
  BY <1>5 DEF RunsDiffer, RunHolds
<1> QED
  BY <1>6, <1>7, <1>8, <1>9, <1>10 DEF LeaseInv, RunsHold, OperatorsHold

LEMMA StutterKeepsLease ==
  ASSUME LeaseInv, UNCHANGED vars
  PROVE  LeaseInv'
BY DEF vars, LeaseInv, RunsHold, RunHolds, ClaimHolds, RunsDiffer, OperatorsHold, OperatorHolds,
       LockIsRun, LocksDiffer, Executing, LockedFor, Stored

LEMMA NextKeepsLease ==
  ASSUME IInv, LeaseInv, LeasesHold, ~ CancelsRace, Next
  PROVE  LeaseInv'
<1>1. CASE \E y \in Years, mode \in Modes : CreateJob(y, mode)
  BY <1>1, CreateJobKeepsLease
<1>2. ASSUME NEW w \in Workers, Run(w) \/ Outage(w) \/ Crash(w)
      PROVE  LeaseInv'
  <2>1. w \in Actors
    BY DEF Actors
  <2>2. CASE SelectNext(w) \/ ClaimJob(w) \/ LoadJob(w) \/ FlushJob(w)
    BY <2>2, SelectNextKeepsLease, ClaimJobKeepsLease, LoadJobKeepsLease, FlushJobKeepsLease
  <2>3. CASE Work(w) \/ Outage(w)
    BY <2>3, WorkKeepsLease
  <2>4. CASE ReadCurrent(w) \/ ReadVersion(w) \/ BeginPublish(w)
    BY <2>1, <2>4, ReadsKeepLease
  <2>5. CASE StorePublished(w)
    BY <2>1, <2>5, StorePublishedKeepsLease
  <2>6. CASE Crash(w)
    BY <2>1, <2>6, LeaseRest DEF Crash
  <2> QED
    BY <1>2, <2>2, <2>3, <2>4, <2>5, <2>6 DEF Run
<1>3. ASSUME NEW o \in Operators, Operate(o)
      PROVE  LeaseInv'
  <2>1. o \in Actors
    BY DEF Actors
  <2>2. CASE \E j \in Jobs : BeginConfirm(o, j) \/ BeginCancel(o, j)
    BY <2>2, BeginConfirmKeepsLease, BeginCancelKeepsLease
  <2>3. CASE ReadCurrent(o) \/ ReadVersion(o) \/ BeginPublish(o) \/ StorePublished(o)
    BY <2>1, <2>3, ReadsKeepLease, StorePublishedKeepsLease
  <2>4. CASE LoadCancelled(o) \/ Cancel(o)
    BY <2>4, LoadCancelledKeepsLease, CancelKeepsLease
  <2> QED
    BY <1>3, <2>2, <2>3, <2>4 DEF Operate
<1>4. CASE Tick
  BY <1>4, TickKeepsLease
<1> QED
  BY <1>1, <1>2, <1>3, <1>4 DEF Next

(* While runs keep to their lease and no job is claimed in the middle of its *)
(* cancellation, whoever executes a job knows its row as it is, holds the    *)
(* lock of its year, and nobody else executes, recovers, confirms or cancels *)
(* it (claim_job, recover_expired_jobs, update_job, cancel_job).             *)
THEOREM LeaseInvariance == Spec => []InLease
<1>1. Init => InLease
  BY DEF Init, Idle, InLease, LeaseInv, RunsHold, RunHolds, ClaimHolds, RunsDiffer, OperatorsHold,
         OperatorHolds, LockIsRun, LocksDiffer, Executing, Stored, Actors
<1>2. IInv /\ InLease /\ [Next]_vars => InLease'
  BY NextKeepsLease, StutterKeepsLease DEF InLease
<1> QED
  BY <1>1, <1>2, Invariance, PTL DEF Spec

(* At any time one job of a year is running, whatever the number of workers, *)
(* crashes and lease recoveries, as long as runs keep to their lease and     *)
(* claims do not race cancellations (run_lock_key and its unique index).     *)
THEOREM RunsStayApart == Spec => [](LeasesHold /\ ~ CancelsRace => OneRunPerYear)
<1>1. IInv /\ LeaseInv => OneRunPerYear
  <2> SUFFICES ASSUME IInv, LeaseInv, NEW w \in Workers, NEW v \in Workers \ {w},
                      Executing(v), Executing(w)
               PROVE  actor[v].job.year # actor[w].job.year
    BY DEF OneRunPerYear
  <2> DEFINE j == actor[w].id
             k == actor[v].id
  <2>1. /\ j \in Jobs /\ Stored(j) /\ jobs[j].lock /\ actor[w].job.year = jobs[j].year
        /\ k \in Jobs /\ Stored(k) /\ jobs[k].lock /\ actor[v].job.year = jobs[k].year
        /\ j # k
    BY LeaseHeld DEF RunHolds
  <2> QED
    BY <2>1 DEF LeaseInv, LocksDiffer
<1>2. IInv /\ InLease => (LeasesHold /\ ~ CancelsRace => OneRunPerYear)
  BY <1>1 DEF InLease
<1> QED
  BY <1>2, Invariance, LeaseInvariance, PTL

(* Under the same conditions the lock is set exactly while a job is running, *)
(* and whoever executes a job has it.                                        *)
THEOREM LocksFollowRuns == Spec => [](LeasesHold /\ ~ CancelsRace => LockFollowsRunning)
<1>1. IInv /\ LeaseInv => LockFollowsRunning
  BY DEF LeaseInv, LockIsRun, RunsHold, RunHolds, LockFollowsRunning
<1>2. IInv /\ InLease => (LeasesHold /\ ~ CancelsRace => LockFollowsRunning)
  BY <1>1 DEF InLease
<1> QED
  BY <1>2, Invariance, LeaseInvariance, PTL

-------------------------------------------------------------------------------
(* What has ended stays ended, while runs keep to their lease.               *)
Ended(j) == Stored(j) /\ jobs[j].status \in Terminal \ {"temporarily_unavailable"}
EndedStays(j) ==
  Ended(j) =>
    \/ /\ jobs'[j].status = jobs[j].status
       /\ jobs'[j].calendar = jobs[j].calendar \/ jobs[j].mode = "preview"
    \/ jobs[j].status = "validated_preview" /\ jobs'[j].status = "published"
CalendarWaits(j) ==
  Stored(j) /\ jobs[j].status \in Waiting => jobs'[j].calendar = jobs[j].calendar
JobsKept == \A j \in Jobs : EndedStays(j) /\ CalendarWaits(j)

LEMMA JobsUntouched == UNCHANGED jobs => JobsKept
  BY DEF JobsKept, EndedStays, CalendarWaits, Ended

(* Status and calendar of a row written over.                                *)
LEMMA MergeOutcome ==
  ASSUME NEW row \in JobRow, NEW loaded \in JobRow, NEW new \in JobRow
  PROVE  /\ Merge(row, loaded, new).status =
              IF new.status # loaded.status THEN new.status ELSE row.status
         /\ Merge(row, loaded, new).calendar =
              IF new.calendar # loaded.calendar THEN new.calendar ELSE row.calendar
<1>1. DOMAIN row = {"year", "mode", "status", "lock", "started", "due", "calendar"}
  BY DEF JobRow
<1> QED
  BY <1>1 DEF Merge

(* Recovery and claim are of jobs that run, wait for a run or are to retry.   *)
LEMMA ClaimKeepsJobs ==
  ASSUME IInv, LeaseInv, NEW w \in Workers, ClaimJob(w)
  PROVE  JobsKept
<1> DEFINE m == actor[w]
           rows == Recovered(m.expired)
<1>1. /\ w \in Actors /\ m.step = "claim" /\ m.id \in Jobs /\ m.expired \subseteq Jobs
      /\ jobs \in [Jobs -> JobRow \cup {None}]
  BY Held, ActorSteps DEF ClaimJob, ClaimActor, Actors, IInv, TypeOK
<1>2. ASSUME NEW j \in Jobs, Stored(j)
      PROVE  /\ rows[j] \in JobRow /\ rows[j].calendar = jobs[j].calendar
             /\ j \in m.expired \/ rows[j] = jobs[j]
             /\ j \in m.expired => jobs[j].status = "running"
  <2>1. jobs[j] \in JobRow
    BY <1>1, <1>2 DEF Stored
  <2>2. Recover(jobs[j]).calendar = jobs[j].calendar
    BY <2>1 DEF Recover, JobRow
  <2>3. rows[j] = IF j \in m.expired THEN Recover(jobs[j]) ELSE jobs[j]
    BY DEF Recovered
  <2>4. j \in m.expired => jobs[j].status = "running"
    BY <1>1 DEF LeaseInv, RunsHold, ClaimHolds
  <2> QED
    BY <2>1, <2>2, <2>3, <2>4, RecoverRow
<1>3. rows \in [Jobs -> JobRow \cup {None}]
  BY <1>1, Held, RecoveredRows DEF HoldsStored
<1>4. \/ jobs' = rows \/ UNCHANGED jobs
      \/ Eligible(rows[m.id]) /\ jobs' = [rows EXCEPT ![m.id] = Claimed(rows[m.id])]
  BY DEF ClaimJob, Claimable
<1> HIDE DEF rows
<1>5. CASE UNCHANGED jobs
  BY <1>5, JobsUntouched
<1>6. CASE jobs' = rows
  <2> SUFFICES ASSUME NEW j \in Jobs, Stored(j)
               PROVE  EndedStays(j) /\ CalendarWaits(j)
    BY DEF JobsKept, EndedStays, CalendarWaits, Ended
  <2> QED
    BY <1>2, <1>6 DEF EndedStays, CalendarWaits, Ended, Terminal
<1>7. CASE Eligible(rows[m.id]) /\ jobs' = [rows EXCEPT ![m.id] = Claimed(rows[m.id])]
  <2> SUFFICES ASSUME NEW j \in Jobs, Stored(j)
               PROVE  EndedStays(j) /\ CalendarWaits(j)
    BY DEF JobsKept, EndedStays, CalendarWaits, Ended
  <2>1. CASE j = m.id
    <3>1. jobs'[j] = Claimed(rows[j]) /\ rows[j] \in JobRow
      BY <1>1, <1>2, <1>3, <1>7, <2>1
    <3>2. jobs'[j].calendar = jobs[j].calendar
      BY <1>2, <3>1 DEF Claimed, JobRow
    <3>3. ~ Ended(j)
      BY <1>2, <1>7, <2>1 DEF Eligible, Ended, Terminal
    <3> QED
      BY <3>2, <3>3 DEF EndedStays, CalendarWaits
  <2>2. CASE j # m.id
    <3>1. jobs'[j] = rows[j]
      BY <1>3, <1>7, <2>2
    <3> QED
      BY <1>2, <3>1 DEF EndedStays, CalendarWaits, Ended, Terminal
  <2> QED
    BY <2>1, <2>2
<1> QED
  BY <1>4, <1>5, <1>6, <1>7

(* A run writes to a job that is running.                                    *)
LEMMA RunKeepsJobs ==
  ASSUME IInv, LeaseInv, NEW w \in Workers, Executing(w), NEW job,
         UpdateJob(w, actor[w].id, job, actor[w].loaded)
  PROVE  JobsKept
<1>1. \A j \in Jobs \ {actor[w].id} : jobs'[j] = jobs[j]
  BY LeaseHeld DEF UpdateJob
<1>2. jobs[actor[w].id].status = "running"
  BY LeaseHeld DEF RunHolds
<1> QED
  BY <1>1, <1>2 DEF JobsKept, EndedStays, CalendarWaits, Ended, Terminal, Waiting

(* A publication writes the job of its actor, or no job.                      *)
LEMMA StoreWrites ==
  ASSUME NEW a \in Actors, StorePublished(a)
  PROVE  /\ actor[a].step = "store"
         /\ \/ UNCHANGED jobs
            \/ \E c \in CalendarIds :
                 UpdateJob(a, actor[a].id,
                           [actor[a].job EXCEPT !.status = "published", !.calendar = c],
                           actor[a].loaded)
  BY DEF StorePublished

(* A confirmation writes to a preview that was validated or published, ...    *)
LEMMA ConfirmKeepsJobs ==
  ASSUME IInv, LeaseInv, NEW o \in Operators, StorePublished(o)
  PROVE  JobsKept
<1> DEFINE m == actor[o]
<1>1. m.step = "store"
  BY StoreWrites DEF Actors
<1>2. CASE UNCHANGED jobs
  BY <1>2, JobsUntouched
<1>3. CASE ~ UNCHANGED jobs
  <2>1. PICK c \in CalendarIds :
          UpdateJob(o, m.id, [m.job EXCEPT !.status = "published", !.calendar = c], m.loaded)
    BY <1>3, StoreWrites DEF Actors
  <2> DEFINE j == m.id
  <2> DEFINE job == [m.job EXCEPT !.status = "published", !.calendar = c]
             new == Written(job, m.loaded)
             row == Merge(jobs[j], m.loaded, new)
  <2>2. /\ m.step = "store" /\ o \in Actors /\ j \in Jobs /\ Stored(j) /\ jobs[j] \in JobRow
        /\ jobs \in [Jobs -> JobRow \cup {None}] /\ jobs[j].status \in Outcomes
    BY <1>1, OperatorHeld DEF OperatorHolds
  <2>3. m.job \in JobRow /\ m.loaded \in JobRow
    BY <2>2, Held, ActorSteps DEF StoreActor
  <2>4. job \in JobRow /\ job.status = "published"
    BY <2>3 DEF JobRow, JobStatuses, Terminal
  <2>5. jobs' = [jobs EXCEPT ![j] = row]
    BY <2>1 DEF UpdateJob
  <2>6. new \in JobRow /\ new.status = "published"
    BY <2>3, <2>4, WrittenRow
  <2> HIDE DEF job, new
  <2>7. row.status \in {"published", jobs[j].status}
    BY <2>2, <2>3, <2>6, MergeOutcome
  <2>8. jobs[j].mode = "preview"
    BY <2>2, Held DEF HoldsMode
  <2>9. jobs'[j] = row /\ \A k \in Jobs \ {j} : jobs'[k] = jobs[k]
    BY <2>2, <2>5
  <2> HIDE DEF row
  <2>10. EndedStays(j) /\ CalendarWaits(j)
    BY <2>2, <2>7, <2>8, <2>9 DEF EndedStays, CalendarWaits, Ended, Waiting, Outcomes
  <2> QED
    BY <2>9, <2>10 DEF JobsKept, EndedStays, CalendarWaits, Ended
<1> QED
  BY <1>2, <1>3

(* ... and a cancellation to one that waits, or is cancelled already.         *)
LEMMA CancelKeepsJobs ==
  ASSUME IInv, LeaseInv, CalendarKnown, NEW o \in Operators, Cancel(o)
  PROVE  JobsKept
<1> DEFINE m == actor[o]
           j == m.id
<1>1. CASE UNCHANGED jobs
  BY <1>1, JobsUntouched
<1>2. CASE ~ UNCHANGED jobs
  <2>1. UpdateJob(o, j, m.job, m.loaded)
    BY <1>2 DEF Cancel
  <2> DEFINE new == Written(m.job, m.loaded)
             row == Merge(jobs[j], m.loaded, new)
  <2>2. /\ m.step = "cancel" /\ o \in Actors /\ j \in Jobs /\ Stored(j) /\ jobs[j] \in JobRow
        /\ jobs \in [Jobs -> JobRow \cup {None}] /\ jobs[j].status \in Waiting
        /\ m.job.status = "cancelled"
    BY OperatorHeld DEF Cancel, OperatorHolds
  <2>3. m.job \in JobRow /\ m.loaded \in JobRow
    BY <2>2, Held, ActorSteps DEF CancelActor
  <2>4. m.job.calendar = jobs[j].calendar /\ m.loaded.calendar = jobs[j].calendar
    BY <2>2 DEF CalendarKnown
  <2>5. jobs' = [jobs EXCEPT ![j] = row]
    BY <2>1 DEF UpdateJob
  <2>6. new \in JobRow /\ new.status = "cancelled"
    BY <2>2, <2>3, WrittenRow
  <2>7. new.calendar = jobs[j].calendar
    BY <2>3, <2>4 DEF Written, JobRow
  <2> HIDE DEF new
  <2>8. row.status \in {"cancelled", jobs[j].status} /\ row.calendar = jobs[j].calendar
    BY <2>2, <2>3, <2>4, <2>6, <2>7, MergeOutcome
  <2>9. jobs'[j] = row /\ \A k \in Jobs \ {j} : jobs'[k] = jobs[k]
    BY <2>2, <2>5
  <2> HIDE DEF row
  <2>10. EndedStays(j) /\ CalendarWaits(j)
    BY <2>2, <2>8, <2>9 DEF EndedStays, CalendarWaits, Ended, Waiting, Terminal
  <2> QED
    BY <2>9, <2>10 DEF JobsKept, EndedStays, CalendarWaits, Ended
<1> QED
  BY <1>1, <1>2

LEMMA NextKeepsJobs ==
  ASSUME IInv, LeaseInv, CalendarKnown, Next
  PROVE  JobsKept
<1>1. CASE \E y \in Years, mode \in Modes : CreateJob(y, mode)
  <2>1. \A j \in Jobs : Stored(j) => jobs'[j] = jobs[j]
    BY <1>1 DEF CreateJob, IInv, TypeOK
  <2> QED
    BY <2>1 DEF JobsKept, EndedStays, CalendarWaits, Ended
<1>2. ASSUME NEW w \in Workers, Run(w) \/ Outage(w) \/ Crash(w)
      PROVE  JobsKept
  <2>1. CASE UNCHANGED jobs
    BY <2>1, JobsUntouched
  <2>2. CASE ClaimJob(w)
    BY <2>2, ClaimKeepsJobs
  <2>3. CASE FlushJob(w)
    BY <2>3, RunKeepsJobs DEF FlushJob, Executing
  <2>4. CASE StorePublished(w) /\ ~ UNCHANGED jobs
    <3>1. actor[w].step = "store"
      BY <2>4, StoreWrites DEF Actors
    <3>2. \E job : UpdateJob(w, actor[w].id, job, actor[w].loaded)
      BY <2>4, StoreWrites DEF Actors
    <3> QED
      BY <3>1, <3>2, RunKeepsJobs DEF Executing
  <2>5. SelectNext(w) \/ LoadJob(w) \/ Work(w) \/ ReadCurrent(w) \/ ReadVersion(w)
          \/ BeginPublish(w) \/ Outage(w) \/ Crash(w) => UNCHANGED jobs
    BY DEF SelectNext, LoadJob, Work, ReadCurrent, ReadVersion, BeginPublish, Outage, Crash
  <2> QED
    BY <1>2, <2>1, <2>2, <2>3, <2>4, <2>5 DEF Run
<1>3. ASSUME NEW o \in Operators, Operate(o)
      PROVE  JobsKept
  <2>1. CASE UNCHANGED jobs
    BY <2>1, JobsUntouched
  <2>2. CASE StorePublished(o)
    BY <2>2, ConfirmKeepsJobs
  <2>3. CASE Cancel(o)
    BY <2>3, CancelKeepsJobs
  <2>4. ReadCurrent(o) \/ ReadVersion(o) \/ BeginPublish(o) \/ LoadCancelled(o) => UNCHANGED jobs
    BY DEF ReadCurrent, ReadVersion, BeginPublish, LoadCancelled
  <2>5. ASSUME NEW j \in Jobs, BeginConfirm(o, j) \/ BeginCancel(o, j) PROVE UNCHANGED jobs
    BY <2>5 DEF BeginConfirm, BeginCancel
  <2> QED
    BY <1>3, <2>1, <2>2, <2>3, <2>4, <2>5 DEF Operate
<1>4. CASE Tick
  <2>1. ASSUME NEW j \in Jobs, Stored(j)
        PROVE  jobs'[j].status = jobs[j].status /\ jobs'[j].calendar = jobs[j].calendar
    <3>1. jobs[j] \in JobRow /\ jobs'[j] = Later(jobs[j])
      BY <1>4, <2>1 DEF Tick, IInv, TypeOK, Stored
    <3> QED
      BY <3>1 DEF Later, JobRow
  <2> QED
    BY <2>1 DEF JobsKept, EndedStays, CalendarWaits, Ended
<1> QED
  BY <1>1, <1>2, <1>3, <1>4 DEF Next

(* An operator who has not moved, and whose job has the calendar it had.      *)
LEMMA CalendarStaysKnown ==
  ASSUME IInv, LeaseInv, CalendarKnown, JobsKept, NEW o \in Operators,
         actor'[o] = actor[o]
  PROVE  LET m == actor'[o] IN
         /\ m.step \in {"cancelling", "cancel"} => m.job.calendar = jobs'[m.id].calendar
         /\ m.step = "cancel" => m.loaded.calendar = jobs'[m.id].calendar
<1> SUFFICES ASSUME actor[o].step \in {"cancelling", "cancel"}
             PROVE  jobs'[actor[o].id].calendar = jobs[actor[o].id].calendar
  BY DEF CalendarKnown
<1>1. /\ actor[o].id \in Jobs /\ Stored(actor[o].id)
      /\ jobs[actor[o].id].status \in Waiting
  BY OperatorHeld DEF OperatorHolds
<1> QED
  BY <1>1 DEF JobsKept, CalendarWaits

(* What one actor does leaves what the others hold.                           *)
LEMMA WorkerMovesAlone ==
  ASSUME IInv, NEW w \in Workers, Run(w) \/ Outage(w) \/ Crash(w)
  PROVE  \A o \in Operators : actor'[o] = actor[o]
<1> SUFFICES ASSUME NEW o \in Operators PROVE actor'[o] = actor[o]
  OBVIOUS
<1>1. o # w /\ actor \in [Actors -> Actor] /\ o \in Actors
  BY ActorsDiffer DEF IInv, TypeOK, Actors
<1>2. \E r : actor' = [actor EXCEPT ![w] = r]
  <2>1. SelectNext(w) \/ ClaimJob(w) => \E r : actor' = [actor EXCEPT ![w] = r]
    BY DEF SelectNext, ClaimJob, Rest
  <2>2. LoadJob(w) \/ FlushJob(w) => \E r : actor' = [actor EXCEPT ![w] = r]
    BY DEF LoadJob, FlushJob, Rest
  <2>3. Work(w) \/ Outage(w) => \E r : actor' = [actor EXCEPT ![w] = r]
    <3>1. ASSUME NEW stage, NEW d, Progress(w, stage, d)
          PROVE  \E r : actor' = [actor EXCEPT ![w] = r]
      BY <3>1 DEF Progress
    <3>2. ASSUME NEW status, NEW due, NEW c, Finish(w, status, due, c)
          PROVE  \E r : actor' = [actor EXCEPT ![w] = r]
      BY <3>2 DEF Finish
    <3>3. Prepare(w) => \E r : actor' = [actor EXCEPT ![w] = r]
      BY DEF Prepare
    <3>4. Discovered(w) \/ NotAnnounced(w) \/ Fetched(w) \/ Extracted(w)
            => \E r : actor' = [actor EXCEPT ![w] = r]
      BY <3>1, <3>2 DEF Discovered, NotAnnounced, Fetched, Extracted
    <3>5. NeedsAttention(w) \/ UpToDate(w) \/ Validated(w) \/ Previewed(w)
            => \E r : actor' = [actor EXCEPT ![w] = r]
      BY <3>1, <3>2 DEF NeedsAttention, UpToDate, Validated, Previewed
    <3>6. Outage(w) => \E r : actor' = [actor EXCEPT ![w] = r]
      BY <3>2 DEF Outage, Unavailable
    <3> QED
      BY <3>3, <3>4, <3>5, <3>6 DEF Work
  <2>4. ReadCurrent(w) \/ ReadVersion(w) \/ BeginPublish(w)
          => \E r : actor' = [actor EXCEPT ![w] = r]
    BY DEF ReadCurrent, ReadVersion, BeginPublish, Rest
  <2>5. StorePublished(w) \/ Crash(w) => \E r : actor' = [actor EXCEPT ![w] = r]
    BY DEF StorePublished, Crash, Rest
  <2> QED
    BY <2>1, <2>2, <2>3, <2>4, <2>5 DEF Run
<1> QED
  BY <1>1, <1>2

(* Time changes no calendar, in the table or in what is held of it.            *)
LEMMA LaterCalendar ==
  ASSUME NEW m \in Actor, m.step \in {"cancelling", "cancel"}
  PROVE  /\ LaterHeld(m).id = m.id
         /\ LaterHeld(m).job.calendar = m.job.calendar
         /\ m.step = "cancel" => LaterHeld(m).loaded.calendar = m.loaded.calendar
<1>1. \A row \in JobRow : Later(row).calendar = row.calendar
  BY DEF Later, JobRow
<1>2. CASE m.step = "cancelling"
  <2>1. m \in CancellingActor /\ LaterHeld(m) = [m EXCEPT !.job = Later(m.job)]
    BY <1>2, ActorSteps DEF LaterHeld
  <2> QED
    BY <1>1, <1>2, <2>1 DEF CancellingActor
<1>3. CASE m.step = "cancel"
  <2>1. m \in CancelActor
        /\ LaterHeld(m) = [m EXCEPT !.job = Later(m.job), !.loaded = Later(m.loaded)]
    BY <1>3, ActorSteps DEF LaterHeld
  <2> QED
    BY <1>1, <1>3, <2>1 DEF CancelActor
<1> QED
  BY <1>2, <1>3

LEMMA NextKeepsCalendar ==
  ASSUME IInv, LeaseInv, CalendarKnown, Next
  PROVE  CalendarKnown'
<1> DEFINE Knows(o) ==
      LET m == actor'[o] IN
      /\ m.step \in {"cancelling", "cancel"} => m.job.calendar = jobs'[m.id].calendar
      /\ m.step = "cancel" => m.loaded.calendar = jobs'[m.id].calendar
<1>1. JobsKept /\ actor \in [Actors -> Actor] /\ Operators \subseteq Actors
  BY NextKeepsJobs DEF IInv, TypeOK, Actors
<1> SUFFICES ASSUME NEW o \in Operators PROVE Knows(o)
  BY DEF CalendarKnown
<1>2. actor'[o] = actor[o] => Knows(o)
  BY <1>1, CalendarStaysKnown
<1>3. CASE \E y \in Years, mode \in Modes : CreateJob(y, mode)
  BY <1>2, <1>3 DEF CreateJob
<1>4. CASE \E w \in Workers : Run(w) \/ Outage(w) \/ Crash(w)
  BY <1>2, <1>4, WorkerMovesAlone
<1>5. ASSUME NEW p \in Operators, Operate(p)
      PROVE  Knows(o)
  <2>1. CASE \E j \in Jobs : BeginCancel(p, j)
    <3> PICK j \in Jobs : BeginCancel(p, j)
      BY <2>1
    <3> DEFINE r == [step |-> "cancelling", id |-> j,
                     job |-> [jobs[j] EXCEPT !.status = "cancelled", !.due = "never"]]
    <3>1. actor' = [actor EXCEPT ![p] = r] /\ UNCHANGED jobs /\ jobs[j] \in JobRow
      BY DEF BeginCancel, IInv, TypeOK, Stored
    <3>2. r.step = "cancelling" /\ r.id = j /\ r.job.calendar = jobs[j].calendar
      BY <3>1 DEF JobRow
    <3> HIDE DEF r
    <3>3. o = p => actor'[o] = r
      BY <1>1, <3>1
    <3>4. o # p => actor'[o] = actor[o]
      BY <1>1, <3>1
    <3> QED
      BY <1>2, <3>1, <3>2, <3>3, <3>4
  <2>2. CASE LoadCancelled(p)
    <3> DEFINE m == actor[p]
               r == [step |-> "cancel", id |-> m.id, job |-> m.job, loaded |-> jobs[m.id]]
    <3>1. actor' = [actor EXCEPT ![p] = r] /\ UNCHANGED jobs /\ m.step = "cancelling"
      BY <2>2 DEF LoadCancelled
    <3>2. m.job.calendar = jobs[m.id].calendar
      BY <3>1 DEF CalendarKnown
    <3>3. r.id = m.id /\ r.job = m.job /\ r.loaded = jobs[m.id]
      OBVIOUS
    <3> HIDE DEF r
    <3>4. o = p => actor'[o] = r
      BY <1>1, <3>1
    <3>5. o # p => actor'[o] = actor[o]
      BY <1>1, <3>1
    <3> QED
      BY <1>2, <3>1, <3>2, <3>3, <3>4, <3>5
  <2>3. ASSUME NEW r, actor' = [actor EXCEPT ![p] = r], r.step \notin {"cancelling", "cancel"}
        PROVE  Knows(o)
    BY <1>1, <1>2, <2>3
  <2>4. Idle.step = "idle"
    BY DEF Idle
  <2>5. CASE \E j \in Jobs : BeginConfirm(p, j)
    BY <2>3, <2>5 DEF BeginConfirm
  <2>6. CASE ReadCurrent(p)
    BY <2>3, <2>6 DEF ReadCurrent
  <2>7. CASE ReadVersion(p)
    BY <2>3, <2>7 DEF ReadVersion
  <2>8. CASE BeginPublish(p)
    BY <2>3, <2>4, <2>8 DEF BeginPublish, Rest
  <2>9. CASE StorePublished(p)
    <3>1. Rest(p)
      BY <2>9 DEF StorePublished
    <3> QED
      BY <2>3, <2>4, <3>1 DEF Rest
  <2>10. CASE Cancel(p)
    BY <2>3, <2>4, <2>10 DEF Cancel, Rest
  <2> QED
    BY <1>5, <2>1, <2>2, <2>5, <2>6, <2>7, <2>8, <2>9, <2>10 DEF Operate
<1>6. CASE Tick
  <2>1. actor'[o] = LaterHeld(actor[o]) /\ actor[o] \in Actor
    BY <1>1, <1>6 DEF Tick
  <2>2. LaterHeld(actor[o]).step = actor[o].step
    BY <2>1, LaterActor
  <2>3. ASSUME actor[o].step \in {"cancelling", "cancel"}
        PROVE  Knows(o)
    <3>1. jobs'[actor[o].id].calendar = jobs[actor[o].id].calendar
      BY <1>1, <2>3, OperatorHeld DEF OperatorHolds, JobsKept, CalendarWaits
    <3> QED
      BY <2>1, <2>2, <2>3, <3>1, LaterCalendar DEF CalendarKnown
  <2> QED
    BY <2>1, <2>2, <2>3
<1> QED
  BY <1>3, <1>4, <1>5, <1>6 DEF Next

(* Who cancels a job writes back the calendar its row has: nothing else was      *)
(* written to a job that waits since cancel_job read it.                        *)
THEOREM CalendarsAreKnown == Spec => []CalendarsInLease
<1>1. Init => CalendarsInLease
  BY DEF Init, Idle, CalendarsInLease, CalendarKnown, Actors
<1>2. IInv /\ InLease /\ CalendarsInLease /\ [Next]_vars => CalendarsInLease'
  <2>1. CalendarKnown /\ UNCHANGED vars => CalendarKnown'
    BY DEF CalendarKnown, vars
  <2> QED
    BY <2>1, NextKeepsCalendar DEF InLease, CalendarsInLease
<1> QED
  BY <1>1, <1>2, Invariance, LeaseInvariance, PTL DEF Spec

(* A job that has ended is never run or rewritten again, whatever crashes and   *)
(* however many workers recover leases and operators cancel and confirm, as     *)
(* long as runs keep to their lease and claims do not race cancellations        *)
(* (claim_job's condition, update_job's columns, transition).                   *)
THEOREM EndedJobsStayEnded ==
  Spec => ([](LeasesHold /\ ~ CancelsRace) => FinishedStaysFinished)
<1> DEFINE Kept == \A j \in Jobs : EndedStays(j)
<1>1. IInv /\ InLease /\ CalendarsInLease /\ [Next]_vars
        => (LeasesHold /\ ~ CancelsRace => [Kept]_vars)
  BY NextKeepsJobs DEF InLease, CalendarsInLease, JobsKept
<1>2. [Kept]_vars =>
        [\A j \in Jobs : Stored(j) /\ jobs[j].status \in Terminal \ {"temporarily_unavailable"} =>
           \/ /\ jobs'[j].status = jobs[j].status
              /\ jobs'[j].calendar = jobs[j].calendar \/ jobs[j].mode = "preview"
           \/ jobs[j].status = "validated_preview" /\ jobs'[j].status = "published"]_vars
  BY DEF EndedStays, Ended
<1> QED
  BY <1>1, <1>2, Invariance, LeaseInvariance, CalendarsAreKnown, PTL DEF Spec, FinishedStaysFinished
===============================================================================
