---------------------------- MODULE HolidayInvariant ----------------------------
(***************************************************************************)
(* What makes the properties of HolidaySync inductive: what the actors     *)
(* hold between two steps still agrees with the tables.                    *)
(***************************************************************************)
EXTENDS HolidaySync

(* Jobs are never deleted: whoever works on one finds its row.               *)
HoldsStored(a) ==
  /\ actor[a].step # "idle" => Stored(actor[a].id)
  /\ actor[a].step = "claim" => \A j \in actor[a].expired : Stored(j)

PreviewsAreValidated ==
  \A j \in Jobs :
    Stored(j) /\ jobs[j].status = "validated_preview" => jobs[j].mode = "preview"

(* The mode of a job never changes, only previews are validated or           *)
(* confirmed, and a run that publishes has a content.                        *)
HoldsMode(a) == LET m == actor[a] IN
  m.step \notin {"idle", "claim"} =>
    /\ m.job.mode = jobs[m.id].mode
    /\ m.job.status = "validated_preview" => m.job.mode = "preview"
    /\ m.step \in {"load", "work", "flush"} /\ m.stage = "preview_ready"
         => m.job.mode = "preview"
    /\ m.step \in {"load", "work", "flush"} /\ m.stage = "publishing"
         => m.digest # None
    /\ m.step \in {"flush", "cancel", "store"} => m.loaded.mode = m.job.mode
    /\ a \in Operators => m.job.mode = "preview" \/ m.step \in {"cancelling", "cancel"}

(* Version v is the one to follow calendar c.                                *)
Follows(y, c, v) ==
  \/ v = 1 /\ OfYear(y) = {} /\ c = None
  \/ c \in OfYear(y) /\ calendars[c].version + 1 = v

(* A version that was read as the next one is still free only as long as the *)
(* calendar that was read as published is the newest.                        *)
HoldsCurrent(a) == LET m == actor[a] IN
  m.step \in {"publish", "store"} =>
    \/ \E c \in OfYear(m.job.year) : calendars[c].version = m.version
    \/ /\ m.version \in NextVersions(m.job.year)
       /\ m.step = "store" => Follows(m.job.year, m.current, m.version)

HeldFits == \A a \in Actors : HoldsStored(a) /\ HoldsMode(a) /\ HoldsCurrent(a)

(* A version made by a sync job has its audit event.                         *)
SyncIsAudited ==
  \A c \in CalendarIds :
    calendars[c] # None =>
      /\ Stored(calendars[c].job)
      /\ jobs[calendars[c].job].mode = "sync" => calendars[c].job \in audited

IInv ==
  /\ TypeOK
  /\ PreviewsAreValidated
  /\ HeldFits
  /\ OnePublishedPerYear
  /\ SyncIsAudited
  /\ JobPublishesOnce

-------------------------------------------------------------------------------
(* What keeps two runs apart while runs keep to their lease and no job is    *)
(* claimed while it is being cancelled.                                      *)

(* Who executes a job knows its row as it is, with a claim that is fresh.    *)
RunHolds(w) == LET m == actor[w] IN
  Executing(w) =>
    /\ m.step \in {"load", "flush", "work", "current", "version", "publish", "store"}
    /\ jobs[m.id].status = "running" /\ jobs[m.id].lock /\ jobs[m.id].started = "fresh"
    /\ m.job.year = jobs[m.id].year /\ m.job.started = "fresh" /\ m.job.status # "queued"
    /\ m.step \in {"work", "current", "version", "publish", "store"} => m.job.status = "running"
    /\ m.step \in {"flush", "store"} => m.loaded = jobs[m.id]

(* Operators write to jobs that nobody executes: who confirms a preview, to  *)
(* one that has ended; who cancels, to one that has not begun.               *)
Outcomes == {"validated_preview", "published"}
Waiting == {"queued", "temporarily_unavailable", "cancelled"}
OperatorHolds(o) == LET m == actor[o] IN
  m.step # "idle" =>
    /\ m.job.year = jobs[m.id].year
    /\ m.step \in {"store", "cancel"} => ~ m.loaded.lock /\ m.loaded.year = m.job.year
    /\ \/ /\ m.step \in {"current", "version", "publish", "store"}
          /\ jobs[m.id].status \in Outcomes
       \/ /\ m.step \in {"cancelling", "cancel"} /\ m.job.status = "cancelled"
          /\ jobs[m.id].status \in Waiting

(* Who recovers expired rows holds them locked, and holds no fresh one.      *)
ClaimHolds(w) ==
  actor[w].step = "claim" =>
    \A j \in actor[w].expired :
      /\ jobs[j].status = "running" /\ jobs[j].started = "old"
      /\ ~ LockedFor(w, j)

RunsHold == \A w \in Workers : RunHolds(w) /\ ClaimHolds(w)
RunsDiffer ==
  \A w \in Workers : \A v \in Workers \ {w} :
    Executing(v) /\ Executing(w) => actor[v].id # actor[w].id
OperatorsHold == \A o \in Operators : OperatorHolds(o)

LockIsRun == \A j \in Jobs : Stored(j) => (jobs[j].lock <=> jobs[j].status = "running")
LocksDiffer ==
  \A j, k \in Jobs :
    j # k /\ Stored(j) /\ Stored(k) /\ jobs[j].lock /\ jobs[k].lock => jobs[j].year # jobs[k].year

(* The second invariant, where LeasesHold and not CancelsRace.               *)
LeaseInv == RunsHold /\ RunsDiffer /\ OperatorsHold /\ LockIsRun /\ LocksDiffer
InLease == LeasesHold /\ ~ CancelsRace => LeaseInv

(* Who cancels a job has read its calendar as it is: nothing but the         *)
(* cancellation is written to a job that waits.                              *)
CalendarKnown ==
  \A o \in Operators : LET m == actor[o] IN
    /\ m.step \in {"cancelling", "cancel"} => m.job.calendar = jobs[m.id].calendar
    /\ m.step = "cancel" => m.loaded.calendar = jobs[m.id].calendar
CalendarsInLease == LeasesHold /\ ~ CancelsRace => CalendarKnown
===============================================================================
