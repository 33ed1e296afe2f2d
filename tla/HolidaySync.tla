------------------------------ MODULE HolidaySync ------------------------------
(***************************************************************************)
(* The holiday calendar sync: jobs that workers claim, execute in stages   *)
(* and finish, operators that cancel jobs and confirm previews, and the    *)
(* calendar versions both publish                                          *)
(* (application/admin/holiday_calendar_sync.py over                        *)
(* infrastructure/database/holiday_calendar.py).                           *)
(*                                                                         *)
(* update_job is an ORM write: the row is loaded, the attributes are set,  *)
(* and the UPDATE names only the columns that differ from what was loaded, *)
(* with no condition but the primary key.  Loading and writing are two     *)
(* steps, and others commit in between.  A row nobody refers to any more   *)
(* leaves the session, so a job that was read before is loaded again.      *)
(***************************************************************************)
EXTENDS Naturals, FiniteSets

CONSTANTS
  Years,
  Jobs,            (* job ids, numbers in the order of created_at           *)
  CalendarIds,
  Digests,         (* normalized contents an extraction or an edit yields   *)
  Workers,         (* worker processes                                      *)
  Operators,       (* administrators' requests                              *)
  None,
  Modes,           (* the modes operators ask for: subset of preview, sync  *)
  LeasesHold,      (* TRUE: every run ends within its 15 minute lease       *)
  CancelsRace,     (* TRUE: a job may be claimed while it is cancelled      *)
  MaxCrashes,      (* bound: how many runs die half-way                     *)
  MaxOutages       (* bound: temporary failures of the source or the model  *)

VARIABLES
  jobs,            (* holiday_calendar_sync_jobs                            *)
  calendars,       (* holiday_calendars                                     *)
  audited,         (* operation intents of jobs in admin_audit_events       *)
  actor,           (* what each worker and operator holds between two steps *)
  crashes, outages

vars == <<jobs, calendars, audited, actor, crashes, outages>>

Actors == Workers \cup Operators

-------------------------------------------------------------------------------
Terminal == {"not_announced", "temporarily_unavailable", "needs_attention",
             "validated_preview", "published", "up_to_date", "cancelled"}
JobStatuses == Terminal \cup {"queued", "running"}

(* started_at and next_retry_at by what they are compared with: a claim is   *)
(* "fresh" until its lease is over, a retry comes "later" until it is due.   *)
JobRow == [year : Years, mode : {"preview", "sync"}, status : JobStatuses,
           lock : BOOLEAN,                       \* run_lock_key is not NULL
           started : {"never", "fresh", "old"}, due : {"never", "later", "now"},
           calendar : CalendarIds \cup {None}]
CalendarRow == [year : Years, version : Nat \ {0}, status : {"published", "superseded"},
                digest : Digests, supersedes : CalendarIds \cup {None}, job : Jobs]

Stages == {"discovering", "fetching", "extracting", "validating",
           "preview_ready", "publishing"}

(* job: the job, as the actor knows it; loaded: the row as its session       *)
(* loaded it; current, version: what a publication has read.                 *)
IdleActor == [step : {"idle"}]
ClaimActor == [step : {"claim"}, id : Jobs, expired : SUBSET Jobs]
RunActor == [step : {"load", "work"}, id : Jobs, job : JobRow, stage : Stages,
             digest : Digests \cup {None}]
FlushActor == [step : {"flush"}, id : Jobs, job : JobRow, stage : Stages,
               digest : Digests \cup {None}, loaded : JobRow]
CancellingActor == [step : {"cancelling"}, id : Jobs, job : JobRow]
CancelActor == [step : {"cancel"}, id : Jobs, job : JobRow, loaded : JobRow]
CurrentActor == [step : {"current"}, id : Jobs, job : JobRow, digest : Digests]
VersionActor == [step : {"version"}, id : Jobs, job : JobRow, digest : Digests,
                 current : CalendarIds \cup {None}]
PublishActor == [step : {"publish"}, id : Jobs, job : JobRow, digest : Digests,
                 current : CalendarIds \cup {None}, version : Nat \ {0}]
StoreActor == [step : {"store"}, id : Jobs, job : JobRow, digest : Digests,
               loaded : JobRow, current : CalendarIds \cup {None}, version : Nat \ {0}]
Actor == IdleActor \cup ClaimActor \cup RunActor \cup FlushActor
           \cup CancellingActor \cup CancelActor \cup CurrentActor \cup VersionActor \cup PublishActor \cup StoreActor

ASSUME NoneIsOutside ==
  None \notin CalendarRow /\ None \notin JobRow /\ None \notin CalendarIds /\ None \notin Digests
ASSUME ActorsDiffer == Workers \cap Operators = {}
ASSUME JobsAreNumbered == Jobs \subseteq Nat /\ Modes \subseteq {"preview", "sync"}

TypeOK ==
  /\ jobs \in [Jobs -> JobRow \cup {None}]
  /\ calendars \in [CalendarIds -> CalendarRow \cup {None}]
  /\ audited \in SUBSET Jobs
  /\ actor \in [Actors -> Actor]
  /\ crashes \in Nat /\ outages \in Nat

Idle == [step |-> "idle"]
Rest(a) == actor' = [actor EXCEPT ![a] = Idle]

Init ==
  /\ jobs = [j \in Jobs |-> None]
  /\ calendars = [c \in CalendarIds |-> None]
  /\ audited = {}
  /\ actor = [a \in Actors |-> Idle]
  /\ crashes = 0 /\ outages = 0

Stored(j) == jobs[j] # None

CreateJob(y, m) ==
  /\ \E j \in Jobs :
       /\ ~Stored(j) /\ \A k \in Jobs : k < j => Stored(k)
       /\ jobs' = [jobs EXCEPT ![j] =
            [year |-> y, mode |-> m, status |-> "queued", lock |-> FALSE,
             started |-> "never", due |-> "never", calendar |-> None]]
  /\ UNCHANGED <<calendars, audited, actor, crashes, outages>>

-------------------------------------------------------------------------------
(* run_next: one transaction that recovers expired leases, selects the       *)
(* oldest eligible job and claims it.  It holds the recovered rows locked    *)
(* between its statements; the selected one is only locked by the claim.     *)

LockedFor(a, j) ==
  \E w \in Workers \ {a} : actor[w].step = "claim" /\ j \in actor[w].expired

RecoverOnly(row) ==               \* mutant: the lock is not released
  [row EXCEPT !.status = "queued", !.started = "never"]
Recover(row) == [row EXCEPT !.status = "queued", !.started = "never", !.lock = FALSE]

Expired == {j \in Jobs : Stored(j) /\ jobs[j].status = "running" /\ jobs[j].started = "old"}
Recovered(expired) == [j \in Jobs |-> IF j \in expired THEN Recover(jobs[j]) ELSE jobs[j]]

Eligible(row) ==
  \/ row.status = "queued"
  \/ row.status = "temporarily_unavailable" /\ row.due = "now"

Oldest(set, j) == j \in set /\ \A k \in set : j <= k

SelectNext(w) ==
  LET rows == Recovered(Expired)
      due == {j \in Jobs : Stored(j) /\ Eligible(rows[j])} IN
  /\ actor[w].step = "idle"
  /\ \A j \in Expired : ~LockedFor(w, j)
  /\ \E j \in Jobs :
       /\ Oldest(due, j)
       /\ actor' = [actor EXCEPT ![w] = [step |-> "claim", id |-> j, expired |-> Expired]]
  /\ UNCHANGED <<jobs, calendars, audited, crashes, outages>>

Claimed(row) == [row EXCEPT !.status = "running", !.lock = TRUE, !.started = "fresh",
                            !.due = "never"]

(* UNIQUE run_lock_key.                                                      *)
AnyYear(rows, j) == TRUE          \* mutant: run_lock_key is not unique
LockFree(rows, j) ==
  \A k \in Jobs \ {j} : Stored(k) => ~(rows[k].lock /\ rows[k].year = rows[j].year)

ClaimSelected(rows, j) == TRUE    \* mutant: the UPDATE has no condition
Claimable(rows, j) == Eligible(rows[j])

(* An operator has read the job and not written it yet.  A request is over   *)
(* in a moment and workers poll every ten seconds, but nothing excludes it.   *)
BeingCancelled(j) ==
  \E o \in Operators : actor[o].step \in {"cancelling", "cancel"} /\ actor[o].id = j

(* The conditional UPDATE of claim_job: a job somebody else has taken or     *)
(* cancelled is left alone, and only the recovery is committed; a year whose *)
(* lock is taken makes it fail, and the rollback takes the recovery with it. *)
ClaimJob(w) ==
  /\ actor[w].step = "claim"
  /\ CancelsRace \/ ~BeingCancelled(actor[w].id)
  /\ LET j == actor[w].id
         rows == Recovered(actor[w].expired) IN
     /\ ~LockedFor(w, j)
     /\ \/ /\ ~Claimable(rows, j)
           /\ jobs' = rows
           /\ Rest(w)
        \/ /\ Claimable(rows, j) /\ ~LockFree(rows, j)
           /\ UNCHANGED jobs
           /\ Rest(w)
        \/ /\ Claimable(rows, j) /\ LockFree(rows, j)
           /\ jobs' = [rows EXCEPT ![j] = Claimed(rows[j])]
           /\ actor' = [actor EXCEPT ![w] =
                [step |-> "load", id |-> j, job |-> Claimed(rows[j]),
                 stage |-> "discovering", digest |-> None]]
  /\ UNCHANGED <<calendars, audited, crashes, outages>>

-------------------------------------------------------------------------------
(* update_job: what is written over the row when the job is set on a row     *)
(* that was loaded before.                                                   *)

Written(job, loaded) ==
  [job EXCEPT !.lock = IF job.status = "running" THEN loaded.lock ELSE FALSE]
Merge(row, loaded, new) ==
  [col \in DOMAIN row |-> IF new[col] # loaded[col] THEN new[col] ELSE row[col]]
UpdateJob(a, j, job, loaded) ==
  /\ ~LockedFor(a, j)
  /\ jobs' = [jobs EXCEPT ![j] = Merge(jobs[j], loaded, Written(job, loaded))]

(* _update_progress and _finish: a transaction that loads the row ...        *)
LoadJob(w) ==
  LET m == actor[w] IN
  /\ m.step = "load"
  /\ actor' = [actor EXCEPT ![w] =
       [step |-> "flush", id |-> m.id, job |-> m.job, stage |-> m.stage,
        digest |-> m.digest, loaded |-> jobs[m.id]]]
  /\ UNCHANGED <<jobs, calendars, audited, crashes, outages>>

(* ... and writes it; a finished run is over, a progressed one goes on.      *)
FlushJob(w) ==
  LET m == actor[w] IN
  /\ m.step = "flush"
  /\ UpdateJob(w, m.id, m.job, m.loaded)
  /\ IF m.job.status = "running"
     THEN actor' = [actor EXCEPT ![w] =
            [step |-> "work", id |-> m.id, job |-> m.job, stage |-> m.stage,
             digest |-> m.digest]]
     ELSE Rest(w)
  /\ UNCHANGED <<calendars, audited, crashes, outages>>

Progress(w, stage, d) ==
  actor' = [actor EXCEPT ![w] = [step |-> "load", id |-> @.id, job |-> @.job,
                                 stage |-> stage, digest |-> d]]

Finish(w, status, due, c) ==
  actor' = [actor EXCEPT ![w] =
    [step |-> "load", id |-> @.id, stage |-> @.stage, digest |-> @.digest,
     job |-> [@.job EXCEPT !.status = status, !.due = due, !.calendar = c]]]

At(w, stage) == actor[w].step = "work" /\ actor[w].stage = stage

(* The calls to the official site and to the model.                          *)
Discovered(w) == At(w, "discovering") /\ Progress(w, "fetching", None)
NotAnnounced(w) == At(w, "discovering") /\ Finish(w, "not_announced", "never", actor[w].job.calendar)
Fetched(w) == At(w, "fetching") /\ Progress(w, "extracting", None)
Extracted(w) == At(w, "extracting") /\ Progress(w, "validating", None)

NeedsAttention(w) ==
  /\ At(w, "discovering") \/ At(w, "fetching") \/ At(w, "extracting") \/ At(w, "validating")
  /\ Finish(w, "needs_attention", "never", actor[w].job.calendar)

Unavailable(w) ==
  /\ At(w, "discovering") \/ At(w, "fetching") \/ At(w, "extracting")
  /\ outages < MaxOutages
  /\ \E due \in {"later", "now"} :
       Finish(w, "temporarily_unavailable", due, actor[w].job.calendar)

(* A valid content: one that is stored already ends the run.                 *)
OfYear(y) == {c \in CalendarIds : calendars[c] # None /\ calendars[c].year = y}
WithDigest(y, d) == {c \in OfYear(y) : calendars[c].digest = d}

UpToDate(w) ==
  /\ At(w, "validating")
  /\ \E d \in Digests : \E c \in WithDigest(actor[w].job.year, d) :
       Finish(w, "up_to_date", "never", c)

Validated(w) ==
  /\ At(w, "validating")
  /\ \E d \in Digests :
       /\ WithDigest(actor[w].job.year, d) = {}
       /\ Progress(w, IF actor[w].job.mode = "preview" THEN "preview_ready" ELSE "publishing", d)

Previewed(w) ==
  At(w, "preview_ready") /\ Finish(w, "validated_preview", "never", actor[w].job.calendar)

Prepare(w) ==
  /\ At(w, "publishing")
  /\ actor' = [actor EXCEPT ![w] = [step |-> "current", id |-> @.id, job |-> @.job,
                                    digest |-> @.digest]]

Work(w) ==
  /\ \/ Discovered(w) \/ NotAnnounced(w) \/ Fetched(w) \/ Extracted(w) \/ NeedsAttention(w)
     \/ UpToDate(w) \/ Validated(w) \/ Previewed(w) \/ Prepare(w)
  /\ UNCHANGED <<jobs, calendars, audited, crashes, outages>>

Outage(w) ==
  /\ Unavailable(w)
  /\ outages' = outages + 1
  /\ UNCHANGED <<jobs, calendars, audited, crashes>>

-------------------------------------------------------------------------------
(* Publishing, by a sync run or by an operator who confirms a preview:       *)
(* get_published, next_version, then publish and update_job in one commit.   *)

Published(y) ==
  LET live == {c \in OfYear(y) : calendars[c].status = "published"} IN
  IF live = {} THEN None
  ELSE CHOOSE c \in live : \A e \in live : calendars[e].version <= calendars[c].version

VersionsFromZero(y) ==            \* mutant
  {v \in {0} \cup {calendars[c].version + 1 : c \in OfYear(y)} :
     \A c \in OfYear(y) : calendars[c].version < v}
NextVersions(y) ==                \* one number: the highest version and one
  {v \in {1} \cup {calendars[c].version + 1 : c \in OfYear(y)} :
     \A c \in OfYear(y) : calendars[c].version < v}

ReadCurrent(a) ==
  LET m == actor[a] IN
  /\ m.step = "current"
  /\ actor' = [actor EXCEPT ![a] =
       [step |-> "version", id |-> m.id, job |-> m.job, digest |-> m.digest,
        current |-> Published(m.job.year)]]
  /\ UNCHANGED <<jobs, calendars, audited, crashes, outages>>

ReadVersion(a) ==
  LET m == actor[a] IN
  /\ m.step = "version"
  /\ \E v \in NextVersions(m.job.year) :
       actor' = [actor EXCEPT ![a] =
         [step |-> "publish", id |-> m.id, job |-> m.job, digest |-> m.digest,
          current |-> m.current, version |-> v]]
  /\ UNCHANGED <<jobs, calendars, audited, crashes, outages>>

(* publish() asks again which calendar is published; another one raises, and *)
(* the run is left running until its lease is over.  Then update_job loads   *)
(* the job.                                                                  *)
AnyCurrent(y, c) == TRUE          \* mutant: the target is not compared
IsCurrent(y, c) == Published(y) = c

BeginPublish(a) ==
  LET m == actor[a] IN
  /\ m.step = "publish"
  /\ IF IsCurrent(m.job.year, m.current)
     THEN actor' = [actor EXCEPT ![a] =
            [step |-> "store", id |-> m.id, job |-> m.job, digest |-> m.digest,
             loaded |-> jobs[m.id], current |-> m.current, version |-> m.version]]
     ELSE Rest(a)
  /\ UNCHANGED <<jobs, calendars, audited, crashes, outages>>

UniqueVersion(y, v) == \A c \in OfYear(y) : calendars[c].version # v
UniqueContent(y, d) == WithDigest(y, d) = {}

(* The audit event of a sync run carries the job's operation intent, and     *)
(* operation_intent_id is unique in the audit table; a confirmation has an   *)
(* intent of its own.                                                        *)
NoAudit(a, j) == TRUE             \* mutant: the audit event has no intent
UniqueAudit(a, j) == a \in Workers => j \notin audited

StorePublished(a) ==
  LET m == actor[a]
      y == m.job.year IN
  /\ m.step = "store"
  /\ IF UniqueVersion(y, m.version) /\ UniqueContent(y, m.digest) /\ UniqueAudit(a, m.id)
     THEN \E c \in CalendarIds :
            /\ calendars[c] = None
            /\ calendars' = [e \in CalendarIds |->
                 IF e = c
                 THEN [year |-> y, version |-> m.version, status |-> "published",
                       digest |-> m.digest, supersedes |-> m.current, job |-> m.id]
                 ELSE IF e = m.current THEN [calendars[e] EXCEPT !.status = "superseded"]
                 ELSE calendars[e]]
            /\ UpdateJob(a, m.id, [m.job EXCEPT !.status = "published", !.calendar = c], m.loaded)
            /\ audited' = IF a \in Workers THEN audited \cup {m.id} ELSE audited
     ELSE UNCHANGED <<jobs, calendars, audited>>
  /\ Rest(a)
  /\ UNCHANGED <<crashes, outages>>

(* confirm_preview checks the status of the job when it reads it.            *)
BeginConfirm(o, j) ==
  /\ actor[o].step = "idle"
  /\ Stored(j) /\ jobs[j].status = "validated_preview"
  /\ \E d \in Digests :
       /\ WithDigest(jobs[j].year, d) = {}
       /\ actor' = [actor EXCEPT ![o] = [step |-> "current", id |-> j, job |-> jobs[j],
                                         digest |-> d]]
  /\ UNCHANGED <<jobs, calendars, audited, crashes, outages>>

-------------------------------------------------------------------------------
(* cancel_job checks the status, update_job loads the row again and writes.  *)
BeginCancel(o, j) ==
  /\ actor[o].step = "idle"
  /\ Stored(j) /\ jobs[j].status \in {"queued", "temporarily_unavailable"}
  /\ actor' = [actor EXCEPT ![o] =
       [step |-> "cancelling", id |-> j,
        job |-> [jobs[j] EXCEPT !.status = "cancelled", !.due = "never"]]]
  /\ UNCHANGED <<jobs, calendars, audited, crashes, outages>>

LoadCancelled(o) ==
  LET m == actor[o] IN
  /\ m.step = "cancelling"
  /\ actor' = [actor EXCEPT ![o] =
       [step |-> "cancel", id |-> m.id, job |-> m.job, loaded |-> jobs[m.id]]]
  /\ UNCHANGED <<jobs, calendars, audited, crashes, outages>>

(* The row and the audit event of the cancellation, one commit.              *)
Cancel(o) ==
  LET m == actor[o] IN
  /\ m.step = "cancel"
  /\ IF m.id \notin audited
     THEN UpdateJob(o, m.id, m.job, m.loaded) /\ audited' = audited \cup {m.id}
     ELSE UNCHANGED <<jobs, audited>>
  /\ Rest(o)
  /\ UNCHANGED <<calendars, crashes, outages>>

(* A worker dies, or an exception ends its batch: the row stays as it is.    *)
Crash(w) ==
  /\ actor[w].step # "idle"
  /\ crashes < MaxCrashes
  /\ crashes' = crashes + 1
  /\ Rest(w)
  /\ UNCHANGED <<jobs, calendars, audited, outages>>

(* Time passes: leases end and retries fall due, in the table and in what    *)
(* the actors remember of it.                                                *)
Later(row) == [row EXCEPT !.started = IF @ = "fresh" THEN "old" ELSE @,
                          !.due = IF @ = "later" THEN "now" ELSE @]
LaterHeld(m) ==
  IF m.step \in {"idle", "claim"} THEN m
  ELSE IF m.step \in {"flush", "cancel", "store"}
       THEN [m EXCEPT !.job = Later(@), !.loaded = Later(@)]
  ELSE [m EXCEPT !.job = Later(@)]

Executing(w) == actor[w].step \notin {"idle", "claim"}

Tick ==
  /\ \E j \in Jobs : Stored(j) /\ Later(jobs[j]) # jobs[j]
  /\ LeasesHold => \A w \in Workers : ~Executing(w)
  /\ jobs' = [j \in Jobs |-> IF Stored(j) THEN Later(jobs[j]) ELSE None]
  /\ actor' = [a \in Actors |-> LaterHeld(actor[a])]
  /\ UNCHANGED <<calendars, audited, crashes, outages>>

-------------------------------------------------------------------------------
Run(w) ==
  \/ SelectNext(w) \/ ClaimJob(w) \/ LoadJob(w) \/ FlushJob(w) \/ Work(w)
  \/ ReadCurrent(w) \/ ReadVersion(w) \/ BeginPublish(w) \/ StorePublished(w)

Operate(o) ==
  \/ \E j \in Jobs : BeginConfirm(o, j) \/ BeginCancel(o, j)
  \/ ReadCurrent(o) \/ ReadVersion(o) \/ BeginPublish(o) \/ StorePublished(o)
  \/ LoadCancelled(o) \/ Cancel(o)

Next ==
  \/ \E y \in Years, m \in Modes : CreateJob(y, m)
  \/ \E w \in Workers : Run(w) \/ Outage(w) \/ Crash(w)
  \/ \E o \in Operators : Operate(o)
  \/ Tick

Spec == Init /\ [][Next]_vars

(* Workers poll and run, and time passes.                                    *)
FairSpec == Spec /\ WF_vars(Tick) /\ \A w \in Workers : WF_vars(Run(w))

-------------------------------------------------------------------------------
(* The calendars of a year are one line of versions 1, 2, ...: each replaces *)
(* the one before it, and exactly the newest is published, whoever confirms  *)
(* or runs at the same time (next_version, publish and the unique key).      *)
OnePublishedPerYear ==
  \A y \in Years : \A c \in OfYear(y) :
    /\ \A e \in OfYear(y) \ {c} : calendars[e].version # calendars[c].version
    /\ calendars[c].status = "published" <=>
         \A e \in OfYear(y) : calendars[e].version <= calendars[c].version
    /\ \/ calendars[c].version = 1 /\ calendars[c].supersedes = None
       \/ /\ calendars[c].supersedes \in OfYear(y)
          /\ calendars[calendars[c].supersedes].version + 1 = calendars[c].version

MadeBy(j) == {c \in CalendarIds : calendars[c] # None /\ calendars[c].job = j}
PublishesOnce(j) == \A c, e \in MadeBy(j) : c = e

(* A sync job creates at most one version, also when its lease was taken     *)
(* from a worker that is only slow and two workers execute it: the audit     *)
(* event of the publication is written in the same transaction and its       *)
(* operation intent is unique.                                               *)
JobPublishesOnce == \A j \in Jobs : Stored(j) /\ jobs[j].mode = "sync" => PublishesOnce(j)

(* docs/specs/api-contract.md:1194: a confirmation only takes a job that is  *)
(* validated_preview, so a preview is published once.  Two confirmations     *)
(* with different intents both read it before either writes.                 *)
PreviewPublishesOnce ==
  \A j \in Jobs : Stored(j) /\ jobs[j].mode = "preview" => PublishesOnce(j)

(* docs/specs/data-model.md:1054: at any time one job of a year is running.  *)
(* It holds while runs keep to their lease; a run that outlives it is        *)
(* joined by the next one.                                                   *)
OneRunPerYear ==
  \A w \in Workers : \A v \in Workers \ {w} :
    Executing(v) /\ Executing(w) => actor[v].job.year # actor[w].job.year

(* run_lock_key is set exactly while a job is running, and whoever executes  *)
(* a job has it, through crashes and lease recoveries.                       *)
LockFollowsRunning ==
  /\ \A j \in Jobs : Stored(j) => (jobs[j].lock <=> jobs[j].status = "running")
  /\ \A w \in Workers : Executing(w) => jobs[actor[w].id].lock

(* A job that has ended is never run or rewritten again, whatever crashes;   *)
(* a preview may still be published, and an unavailable source is tried      *)
(* again (transition).                                                       *)
FinishedStaysFinished ==
  [][\A j \in Jobs : Stored(j) /\ jobs[j].status \in Terminal \ {"temporarily_unavailable"} =>
       \/ /\ jobs'[j].status = jobs[j].status
          /\ jobs'[j].calendar = jobs[j].calendar \/ jobs[j].mode = "preview"
       \/ jobs[j].status = "validated_preview" /\ jobs'[j].status = "published"]_vars

(* docs/process/project-status.md:57: cancelled is final, and a worker never *)
(* takes a cancelled job.                                                    *)
CancelledStaysCancelled ==
  [][\A j \in Jobs : Stored(j) /\ jobs[j].status = "cancelled" =>
       jobs'[j].status = "cancelled"]_vars

Queued(j) == Stored(j) /\ jobs[j].status = "queued"
Settled(j) == Stored(j) /\ jobs[j].status \in Terminal \ {"temporarily_unavailable"}

(* Every queued job ends, through worker deaths and outages that stop.       *)
JobsSettle == \A j \in Jobs : Queued(j) ~> Settled(j)
===============================================================================
