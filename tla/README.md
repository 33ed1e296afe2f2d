# Verification of the travel planner

This directory models the Python backend under `src/src/travel_agent`: TLA+
modules translated from the code, small instances that TLC checks, and theorems
that TLAPS proves for every instance. Paths below are relative to
`src/src/travel_agent` unless they start with `docs/`.

## 1. The system

A visitor fills in a **trip draft** (travel facts, attractions), submits it as
a **generation intent**, and gets a **trip** whose **revisions** are the solved
itineraries. Handlers run in the threads of a FastAPI server against MySQL at
READ COMMITTED (`infrastructure/database/runtime.py:71`), several processes may
run side by side, and nothing but the database is shared between them. A
generation is executed in the request thread that submitted it
(`infrastructure/execution`), between two short transactions.

| Component | State it keeps | Operations | What is hard | What makes it correct | Modelled by |
|---|---|---|---|---|---|
| Planning core (`application/planning`, `domain/planning`, `infrastructure/database/planning.py`) | `trip_drafts`, `generation_intents`, `trips`, `trip_revisions`, `solver_runs` | create / update / select, submit, replace an attraction, execute | read-then-write transactions of many threads, a solver run between two of them, death of a request, redelivery, competing replacements | a draft version has one content; one solver per intent; four tables agree; a trip's history is one chain | `Planning`, `RevisionChain` |
| Unit of work (`SqlAlchemyUnitOfWork`, `interfaces/http/composition.py`) | a session and repositories bound to it | enter, statements, commit, exit | one mutable object, used by several threads | a transaction commits whole, by the thread that wrote it | `UnitOfWork` |
| Solver gateway (`infrastructure/solver`) | caches of published data, clusters of one call | load data of a version, propose dates, solve | versions promised long before they are used, restarts, torn files; merging and balancing that must end | one version is one content; groups are even; every attraction gets a date | `PublishedSnapshot`, `DayClusters`, `OpeningTimes` |
| Solver (`solver/`) | one call's allocations and routes | day assignment, routing, rescue, joining and refinement of a day, meals, quality | halves of a day that are searched apart and joined, visits dropped and rescued, searches cut short | a day stays feasible; every attraction is accounted for once | `DaySchedule`, `Itinerary`, `OpeningTimes` |
| Holiday calendar sync (`application/admin/holiday_calendar_sync.py`, `infrastructure/database/holiday_calendar.py`) | jobs, run lock, calendar versions, audit intents | enqueue, claim, lease recovery, progress, finish, cancel, retry, confirm, publish | slow workers after their lease, cancel racing claim, two publications at once | one line of versions per year; one running job per year; a job publishes once; a finished job stays finished; every job ends | `HolidaySync` |
| Administrator identity (`application/admin/service.py`) | actors, roles, sessions, audit | bootstrap, login, authenticate, log out, create, change roles | two role changes at once, two processes that start on an empty database | an active `admin_security` remains; the audit tells every change | `AdminIdentity` |
| Place catalog and review (`application/admin/review.py`, `infrastructure/database/place_catalog.py`, `place_review.py`) | places, revisions with evidence, sources, relations, tasks, decisions, projections, batches | edit, verify, submit, decide, create, prepare, publish, batches, preview of hours | checks on what was read long before it is written, two reviewers, two publishers, batches that are partly published | an approval is one decision and freezes its content; one published revision per place; batches tell what they did; two gates agree | `PlaceReview`, `PublicationGate`, `PlacePublication`, `OpeningTimes` |
| Publication scripts (`scripts/build_*_snapshot.py`, `scripts/prepare_candidate_projections.py`, `infrastructure/solver/gaode.py`) | snapshot files, a route cache | build routes, write candidate and published files | crashes while files are written, overlapping builds, entries that expire | no stale route; a build resumes; a version is one content | `RouteSnapshot`, `PublishedSnapshot` |
| Provider governance (`infrastructure/provider_governance.py`) | per provider counts, circuit | before_request, record_success/failure | clock read before the lock, late outcomes, two backends | requests are spaced, a day's budget is kept, an open circuit refuses | `ProviderGovernor` |
| Sharing, feedback (`infrastructure/database/sharing.py`, `feedback.py`) | shares, feedback rows, copied drafts | create, replay, read, copy | same intent sent twice at once | one row per intent and target; only owners | `FeedbackSharing` |
| HTTP layer, anonymous identity, observability, data audits, evaluation, migrations, deployment, consoles | a visitor row, or files | translate requests, log, report | - | - | see "Not modelled" |

The components interact through the database (every row above except provider
governance, whose state is a file or a Redis key, and the snapshot files) and by
direct calls: HTTP -> handler -> executor -> `ExecuteGenerationHandler` ->
solver gateway -> published data; scripts -> map client -> provider governance.
There is no message queue; the only background process is the holiday worker.

## 2. The modules

| Module | What it is |
|---|---|
| `Planning` | the handlers of `application/planning/handlers.py` over the five tables, with their properties |
| `PlanningInvariant` | the inductive invariant `IInv` of `Planning` |
| `RevisionChain` | the abstract specification: generations are published or rejected once, a trip grows as a chain |
| `UnitOfWork` | `SqlAlchemyUnitOfWork` under the execution handler, statement by statement |
| `HolidaySync` | the holiday calendar jobs, their workers and operators, and the versions they publish |
| `HolidayInvariant` | the inductive invariant `IInv` of `HolidaySync` |
| `AdminIdentity` | administrators, their sessions, roles and audit |
| `FeedbackSharing` | feedback and shares: replay, race for the unique keys, copies |
| `ProviderGovernor` | budget, interval and circuit, in a locked JSON file or in Redis |
| `PublicationGate` | readiness for approval and the publication gate, as functions of the evidence |
| `PlaceReview` (extends `PublicationGate`) | edits, verdicts, review tasks and decisions |
| `PlacePublication` (extends `PlaceReview`) | projections, publication, batches |
| `OpeningTimes` | opening hours as preview, solver and data rules compute them |
| `RouteSnapshot` | the builder of route snapshots with its caches |
| `PublishedSnapshot` | snapshot files and the local catalog, the servers that load them and the intents they solve |
| `DayClusters` | the gateway's proposal of a date for each attraction |
| `DaySchedule`, `Itinerary` | one day of the solver, and the whole trip in which a day is one search |
| `MCPlanning`, `MCHolidaySync`, `MCPlaceCatalog`, `MCDayClusters`, `MCSharing` | instances of one module for TLC |
| `MCServices`, `MCCatalog`, `MCSettles` | instances of several modules, see section 3 |
| `PlanningProofs` (with the refinement), `HolidayProofs`, `AdminProofs`, `ServicesProofs` (`RevisionChain`, `FeedbackSharing`, `ProviderGovernor`, `UnitOfWork`), `SnapshotProofs` (with `OpeningTimes` and `RouteSnapshot`), `ReviewProofs`, `PublicationProofs`, `SolverProofs` (`Itinerary`, `DaySchedule`) | the theorems |

### Planning: state and actions

Each table is a function from ids to a row or `None`. `req[h]` is what request
thread `h` holds between two of its steps: the local variables of the handler.

A transaction is **two steps**: one that reads and decides, one that writes and
commits. In between any other thread may commit. This is what READ COMMITTED
allows to the handlers' pattern "get, compute, conditional UPDATE / INSERT,
commit"; the writing step re-evaluates exactly what the SQL re-evaluates: the
WHERE clause of the UPDATE, the primary key and the unique keys. A transaction
whose reads cannot go stale in a way its writes do not re-check is one step.

| Handler | Actions |
|---|---|
| `CreateDraftHandler` | `CreateDraft` |
| `UpdateTravelFactsHandler`, `ReplaceAttractionSelectionHandler` | `BeginUpdateTravelFacts` / `BeginReplaceSelection`, then `SaveEdit` |
| `SubmitGenerationHandler` | `BeginSubmit`, `InsertIntent`; `Resend`, `Answer` when the intent is stored |
| `ReplaceTripAttractionHandler` | `BeginReplaceAttraction`, `InsertReplacement`; its answer to a repeated call changes nothing and has no action |
| `ExecuteGenerationHandler` | `BeginExecute`, `Claim`, `SolveRaises` or `SolveReturns`, then `StoreGateFailure`, `PublishNewTrip` or `ReadTarget`, `PublishRevision` |
| a request that dies between two steps | `Abort` |
| a second call of `ExecuteGenerationHandler.handle` | `Redeliver` |

Abstractions. Travel facts are `missing`, `unconfirmed` or `confirmed`: this is
all `_readiness_issues` and the documents tell apart. The other fields of a
draft, the snapshots' serialisation and hashes, the seed and time stamps are
functions of what is kept or are never read back. A draft version is the number
the client sends; a client that sends a stale one is refused without an effect,
so only current ones are enumerated. City ids are one city. The solver is
an external call with four outcomes: it raises retryably or terminally, or
returns with the quality gate passed or failed. `swap` is a history variable:
what the client asked to replace; no action reads it.

`Planning` assumes that each request has a unit of work of its own, as `app.py`
arranges for every handler except execution. What happens to that one is the
subject of `UnitOfWork`, see the findings.

### RevisionChain

`outcome`, `parent`, `head` and three actions: `Ask`, `Publish`, `Reject`.
`Planning` implements it under `outcome <- Outcome`, `parent <- Parent`,
`head <- Head` (`ImplementsChain`): queued, running and retryable intents are
open; a trip's head is the generation of its current revision. Publication tests
the head and moves it in **one** step; in the code these are a read, a solver
run and an UPDATE with a WHERE clause, which is what the refinement is about.

### UnitOfWork

`session` and `repos` of each unit of work, the uncommitted rows `pending` of
each session, the committed rows `db`, and the statement `at` each thread is
at. `Shared` chooses between a unit of work per thread and the single one of
`build_http_app`, which gives it to the execution handler. `Fault` lets any
database statement raise. `TransactionsApart` says that no two requests are
`Inside` one unit of work, between entering it and leaving it: always so with a
unit each, and with the shared one as long as only solver runs overlap.

### HolidaySync: state and actions

`jobs`, `calendars` and `audited` (the operation intents of jobs that the
unique key of `admin_audit_events` holds) are the tables; `actor[a]` is what
worker or administrator's request `a` holds between two steps. A worker runs
`run_next` again and again:

| Code | Actions |
|---|---|
| `create_job` | `CreateJob` |
| `claim_next`, `claim_job` | `SelectNext` (recovery of expired leases and the SELECT), `ClaimJob` (the conditional UPDATE, with `LockFree` for the unique `run_lock_key`) |
| `_update_progress`, `_finish` | `LoadJob`, `FlushJob`: load the row, write the columns that differ |
| `_execute` | `Work`: `Discovered`, `NotAnnounced`, `Fetched`, `Extracted`, `NeedsAttention`, `UpToDate`, `Validated`, `Previewed`, `Prepare`; `Outage` |
| publication, in `_execute` and in `confirm_preview` | `ReadCurrent`, `ReadVersion`, `BeginPublish`, `StorePublished`; a confirmation starts with `BeginConfirm` |
| `cancel_job` | `BeginCancel`, `LoadCancelled`, `Cancel` |
| an exception in `run_batch`, a dying process | `Crash`, and the failing branches of `BeginPublish`, `StorePublished` |
| the clock | `Tick` |

Two facts of the persistence layer shape the module. `update_job` has no WHERE
clause but the primary key, and the ORM writes only the columns whose value
differs from the loaded row (`Merge`): setting `run_lock_key` to `None` on a row
that was loaded with `None` writes nothing. And the session refers weakly to the
rows it has loaded, so a job that was read and converted is loaded again by
`update_job`; check, load and write are three points in time.
The recovery locks its rows until its transaction ends (`LockedFor`).

Abstractions. Only mainland China has calendars (`region_code`), so the lock key
is the year. `started_at` and `next_retry_at` are kept as far as they are
compared: `fresh` or `old`, `later` or `now`. `attempt_count` only sets the length
of the retry delay. Announcement, text, periods and workdays are a content
digest. Discovery, fetching, extraction and validation are external calls with
the outcomes `_execute` distinguishes. Confirming again with the same intent
returns the job and changes nothing. Reading operations have no action. A year
that is already over ends in `needs_attention` where another ends in
`not_announced`; both outcomes are always offered.

### AdminIdentity

A request is a thread; a step is what it reads or writes before another request
can come between: `BeginBootstrap`/`Bootstrap`, `BeginLogin`/`Login`,
`Authenticate`/`AuthenticateRoles`/`Read` or `Revoke` (the actor and its roles are two
statements), `CreateActor`, and `BeginChange`, `ReadTargetRoles`,
`CountSecurityAdmins`, `WriteRoles` of `change_roles`. `locked` are the rows that
its SELECT ... FOR UPDATE returned. `version` and `session_version` always move
together and are one number. The rows of the SELECT are locked in one step, where
InnoDB takes them one by one; no property asks whether two changes deadlock. Passwords and digests are left out.

### FeedbackSharing

`asks[c]` is what a client sends, again and again; `Replay` finds the row of its
intent, `Look` finds none, `Insert` writes it or meets a unique key. An
IntegrityError is answered as a conflict whatever the row that is there says: the
second of two equal requests that overlap is refused, against the contract
(section 5), and gets the original only when it is sent again (`SendAgain`,
`Replay`). `Copy` makes a draft of a share. A plan never changes, so a share's snapshot is its revision.

### ProviderGovernor

A call reads the clock (`BeginCall`), then the record (`Load`, under the file
lock or after WATCH), then writes it (`Store`, or `Retry` when the watched key was
written). `Block` is a refusal, `Die` a worker that stops. `sent` counts the
requests let through at each time, `spent` those of each day; `overtaken` remembers that a call was stored
after one of a later day, which takes the budget back (section 5).

### PlaceReview, PublicationGate, PlacePublication

A request reads everything it checks, and writes later under the conditions its
UPDATE names: edits compare version and status, verdicts on evidence compare
nothing, decisions compare the task's version and the revision's status.
`EvidenceEdits`, `RevisionEdits`, `ReviewEvidence`, `ReviewRelation`, `Submit`,
`CreateRevision` and `Decide` are the checks, `SaveEdit`, `SaveReview`, `SaveSubmit`,
`SaveRevision` and `SaveDecide` the transactions. `PrepareProjection(s)` and
`SaveProjections` give revisions their projections. A publisher goes through its
transaction statement by statement: `NextItem` of a batch, `RetireRevisions` (the
published ones it sees), `RetireProjections`, `PublishOwn`; `CommitPublication` makes
all visible, `RollBack` nothing. The ORM writes the columns that differ from what
it has loaded: publishing writes status and date only (a row loaded as published
and retired meanwhile stays retired), never whether the revision may be planned
with, which retiring it takes away (`LoadRows`, `RowSeen`). Rows it wrote stay locked meanwhile, and an UPDATE
passes by or waits for them as InnoDB does. `PublicationGate` is pure: the six readiness checks and the
publication codes over a revision's row, evidence, sources and relations.

### OpeningTimes, DayClusters, DaySchedule, Itinerary

Pure or sequential algorithms. `OpeningTimes` states three functions of the same
rules and exceptions: `preview_time`, the solver's windows built from the
catalog, and the data rules with the loader. `DayClusters` takes one step for
each merge and each move between clusters, always the first in the code's
order, which is kept as a sequence of fractions and ids. In `DaySchedule` the two
searches are any feasible route on a grid of times (`OR-Tools` promises no more,
and stopped by its limit less); joining, lengthening, spreading and dinner are
computed as in the code. `Itinerary` takes a day's search as one step that routes
some of its allocations; equal searches find the same unless cut short.

### RouteSnapshot, PublishedSnapshot

`RouteSnapshot`: a build asks for each pair in each mode, from its memory, the
cache or the map service; the JSON cache is loaded once and written to a spare
file that is renamed (`Open`, `Fill`, `Rename`), Redis entry by entry (`Set`, and `Drop`
of an expired one). Two builds that have the spare file open at once (`AlsoOpen`,
`crossed`) write into one file, and the end of a longer text may be left behind a
shorter one. `Refuse` is a failure of the service, after which the next mode
is asked; `Die` ends a build anywhere, as the governor's refusal does.
`PublishedSnapshot`: the two scripts write a file under a path (`Publish`, `Draft`,
`Written`; `Killed` leaves it torn), a server selects a version at start and
caches what it loads, `SubmitIntent` freezes the version in an intent, `Execute` loads
it, maybe in another process after a restart. `CatalogDataNext` is the local
server. Its version is a hash of which projections are out; the content it loads
under that version also depends on verdicts that came in since (`LateVerdict`
after `PublishPlace`) and on the day, from which the weather is made (`NextDay`).
`Promise` hands a version out, the built-in one also when the database fails;
`LoadCatalog` compares the version and reads, once in a process, and `Restart`
begins the next one.

## 3. The runs

| Run | What it shows | Bounds |
|---|---|---|
| `planning` | `VersionFixesInput`, `OneOwner`: edits, submissions and repeats interleave on one draft; `TripHistoryIsLinear`, `ConflictsAreReal`, `OutcomeIsWhole`, `OneSolverPerIntent`, `HistoryIsKept`, `ImplementsChain`: replacements compete, a request dies anywhere and another executes its intent | see below |
| `holiday_leases` | `OnePublishedPerYear`, `OneRunPerYear`, `LockFollowsRunning`, `FinishedStaysFinished`: sync runs and confirmations publish at the same time, operators cancel, runs keep to their lease, no claim races a cancellation | 2 years, 2 jobs, 2 calendars, 2 workers, 2 operators, one crash, one outage |
| `settles` (`MCSettles`) | under fairness: `SubmittedIntentsSettle`, `ClaimedIntentsSettle`, `JobsSettle`, `EveryAttractionGetsADate` | 2 threads, 2 intents, clients resend; 1 year, 2 jobs, 2 workers, one crash, one outage; 9 attractions on 4 dates |
| `services` (`MCServices`) | `SecurityAdminRemains`, `AuditTellsHistory`, `SharingIsSound`, `LimitsAreKept`, `CircuitRefuses`, `HistoryIsAChain`, `TransactionsAreWhole`, `JobPublishesOnce`, `DayIsFeasible`, `TripIsAccountedFor` | see below |
| `place_catalog` (`MCCatalog`) | `DecidedOnce`, `ApprovedIsFrozen`, `DetachedIsUncited`, `InTurnOnePublished`, `InTurnRetiredIsFinal`, `BatchTellsTruth`, `GatesAgree`, `TimesAgree`, `RoutesAreKept`, `SnapshotsServe` | see below |

Runs that refute a statement of the documents (section 5): `replace_base`,
`sharing_repeats`, `shared_unit_of_work`, `holiday_cancel`, `holiday_confirm`, `place_published_twice`,
`clusters_stuck`. Every run but those over data also checks its type invariant.
`CHECK_DEADLOCK FALSE` is set because clients may stop calling and a finished
computation stands still. Model values are permuted where no liveness is
checked.

**Several parts in one run.** `planning` looks at one module with two focuses, since
what one of them bounds the other needs. `edits`: 3 threads on one draft of one
of 2 owners, all kinds of requests, 2 intents, draft versions to 3, one death,
clients resend. `races`: 2 requests at once, 3 intents and 3 revisions of 1
trip, one death, one redelivery; a draft is edited until it is ready, a copy made
for a replacement once more, and no intent is sent again.

`MCServices`, `MCCatalog` and `MCSettles` instantiate
parts that share no state in the code either. A behaviour picks a part in its
initial state (`focus`, `part`) and takes only its steps; the others stay as they
begin. The product of their interleavings would show nothing that one part
alone does not. In `MCSettles` the frozen parts have none of their fair actions
enabled, so fairness of one does not end the behaviours of another; ids are
numbers and drawn in order, which stands for the symmetry that liveness forbids.

Parts of `services`: `starting` (processes start on an empty database, then
administrators one after the other), `roles` (two administrators change roles at
once, each other's too: 2 threads, 3 intents, versions to 2), `chain` (4
generations, 2 trips), `sharing` (3 clients, 2 principals, 2 revisions; two of the
clients ask for the same kind of row, one copy by another principal), `provider`
(2 workers, both backends, a day of 3 ticks, budget 2, interval 1, circuit after
2 failures, to the first tick of the next day), `unit` (3 requests, any statement
may fail), `jobs` (1 sync job, 2 workers whose leases do not hold, an operator who
cancels), `day` (two daytime visits and one of the evening, all combinations of
hours, travel times and bounds named in `SomeDay`), `trip` (3 attractions, 2 days,
rejected, closed, rained out or too long, each search may be cut short).

Parts of `place_catalog`: the focuses of `MCPlaceCatalog` (2 requests at once edit
one kind of evidence, submit and decide under two tasks, or create; 2 publishers
at once publish two approved revisions and execute a batch; one request at a
time from the first candidate to the publication of its successor), `gates` (the
two gates judge each of the samples), `times` (each combination of rules,
closures and exceptions in `Evidences` on three dates, each pair of `Records`),
`routes` (2 builds of one pair in two modes, routes live 2 ticks of 3, both
caches), `files` (2 versions, 2 cities, both scripts, one server), `local` (2 places
with 2 revisions of the one and 1 of the other, verdicts on them, 2 days, 2
processes, 2 versions handed out). Two builds side by side over a JSON cache are followed while
in their first mode: they can lose each other's entries from then on, and no
property speaks of such builds but `RoutesAreFresh`, which needs one entry.

Why the bounds are enough. Three threads are a writer between a reader and its
write, plus one that has died or comes again; two intents compete for one id or
one revision, a third makes the chain three deep or conflicts with a published
one. For `races` two threads suffice for a dead request and the one that
executes its intent again, or for two replacements of one revision; one trip is
where they compete. Two workers and two jobs of a year are the smallest
instance in which a claim, a lock or a lease is contended; two calendars make
one supersede another. Two reviewers, publishers or administrators are what a
unique key, a row lock or a condition decides between. The safety
properties are proved for all bounds besides (section 4). The inputs of the single day
of the solver are chosen so that each branch is taken. Two assumptions
of `holiday_leases` are switches of the module: `LeasesHold` (time does not pass
while a worker executes: a run ends within its 15 minutes) and not `CancelsRace` (no
job is claimed between the read and the write of its cancellation); without either one the code does not keep these properties (section 5).
`overlapped` of `PlacePublication`, `sideBySide` of `RouteSnapshot` and `overtaken` of
`ProviderGovernor` are history variables: `InTurn...`, `BuildsResume` and
`BudgetIsKept` claim what the code keeps when publications, builds or midnight do
not overlap, and section 5 says what happens when they do.

Bounds are named in the modules: `MaxOpened` (drafts clients open),
`MaxVersion` (edits), `MaxTaskVersion`, `MaxAborts` (dying requests),
`MaxRedeliveries` (extra executions), `MaxCrashes`, `MaxOutages`, `MaxTime` and `Horizon`
(clocks), `MaxRevision`, `MaxDay`, `MaxProcess`, `MaxPromised` (the local server). They limit what clients and the environment do, never
what a handler does; the theorems hold for all their values.

**Fairness.** `FairSpec` is weak fairness of `Continue(h)` for each request
thread: a handler runs until it answers, since the solver is a bounded search
and every database call returns or fails. Clients owe nothing. `FairSpec` of
`HolidaySync` is weak fairness of `Tick` (time passes) and of each `Run(w)`:
the worker process polls in a loop (`infrastructure/holiday_sync/worker_runtime.py`),
and every external call has a timeout. Outages and crashes are bounded, so they
end; nothing is assumed of operators. `DayClusters` is a computation that runs
alone: weak fairness of its next step.

## 4. What is proved

| Module | Theorems | State |
|---|---|---|
| `PlanningProofs` | `Invariance`, `TypeCorrectness`, `InputsAreReproducible`, `SingleSolver`, `OutcomesAreWhole`, `LinearHistory`, `RealConflicts`, `SingleOwner`, `HistoryKept`, `Refinement` | `Spec` keeps `IInv`, `TypeOK`, `VersionFixesInput`, `OneSolverPerIntent`, `OutcomeIsWhole`, `TripHistoryIsLinear`, `ConflictsAreReal`, `OneOwner`, `HistoryIsKept` and implements `RevisionChain` (`ImplementsChain`) |
| `ServicesProofs` | `ChainsDoNotFork`, `HeadsOfChains`, `HistoriesAreChains` | `NoFork`, `HeadsAreTips` and their conjunction `HistoryIsAChain` |
| `HolidayProofs` | `Invariance`, `TypeCorrectness`, `SingleLine`, `SyncPublishesOnce` | `IInv`, `TypeOK`, `OnePublishedPerYear`, `JobPublishesOnce`, whether or not leases hold and claims race cancellations |
| `HolidayProofs` | `LeaseInvariance`, `RunsStayApart`, `LocksFollowRuns`, `CalendarsAreKnown`, `EndedJobsStayEnded` | `InLease`, `OneRunPerYear`, `LockFollowsRunning`, `CalendarsInLease`, `FinishedStaysFinished`, while leases hold and no claim races a cancellation |
| `AdminProofs` | `AdminTypes`, `AnAdminRemains`, `LogTellsHistory` | `AdminTypeOK`, `SecurityAdminRemains`, `AuditTellsHistory` |
| `ServicesProofs` | `SharingHolds` | `SharingIsSound` |
| `ServicesProofs` | `LimitsHold`, `CircuitHolds` | `LimitsAreKept` (`RequestsAreSpaced`, `BudgetIsKept`), `CircuitRefuses` |
| `ServicesProofs` | `RequestsAreWhole`, `OwnUnitsAreWhole` | `TransactionsAreWhole`, shared or not, while no two requests are inside one unit of work (`TransactionsApart`); so always when each has its own |
| `SnapshotProofs` | `DataIsServed` | `SnapshotsServe` |
| `ServicesProofs` | `ChainTypes`, `SharingTypes`, `GovernorTypes`, `UnitTypes` | `TypeOK` of `RevisionChain`, `SharingTypeOK`, `GovernorTypeOK` with finitely many workers, `UnitTypeOK` while `TransactionsApart` |
| `SnapshotProofs` | `SnapshotTypes`, `RouteTypesHold` | `SnapshotTypeOK`, `RouteTypeOK` |
| `PublicationProofs` | `CatalogTypes` | `ReviewTypeOK` and `PublicationTypeOK`: among the rest, numbers of revisions and nodes of projections are given once, and a revision is eligible only while it is approved |
| `SnapshotProofs` | `PreviewsAreSolved`, `VisitsLieInside`, `RecordsLoad` | the parts of `TimesAgree` (`PreviewIsSolved`, `VisitsStayInside`, `ValidatedLoads`) for any evidence, dates, durations and records |
| `ReviewProofs` | `ApprovalsAreSingle`, `ApprovedStaysFrozen`, `CitedSourcesStay` | `DecidedOnce`, `ApprovedIsFrozen`, `DetachedIsUncited` of `CatalogSpec`, publishers included |
| `PublicationProofs` | `PublicationsInTurn`, `RetiredStaysRetired`, `BatchesTellTruth`, `GatesAgreeAlways` | `InTurnOnePublished`, `InTurnRetiredIsFinal`, `BatchTellsTruth`, and `GatesAgree` for every content a revision may have |
| `SolverProofs` | `TripsAreAccountedFor` | `TripIsAccountedFor` |
| `SolverProofs` | `DayStaysFeasible` | `DayIsFeasible` (`RouteStaysFeasible`, `DinnerIsKept`) |
| `SnapshotProofs` | `RoutesAreAlwaysKept` | `RoutesAreKept` (`RoutesAreFresh`, `BuildsResume`) |

Assumptions: each module's named ones, all about constants. `None`, `Absent`, `Nil`,
`NoRow` are no row and no id; clients send well-formed edits (`ChoicesAssumption`); a
worker is not an operator (`ActorsDiffer`), jobs are numbered; every revision has an
owner (`SharingAssumption`); actors (`AdminAssumption`) and the numbers of evidence
(`ReviewAssumption`) are finite; what stands for a missing or torn file is no snapshot,
and the bounds of days and processes are numbers (`SnapshotAssumption`, an operator that `place_catalog` evaluates and `DataIsServed`
assumes); an hour that is not set is no number (of the theorems about hours); limits of
a provider are positive (`GovernorAssumption`); no session is not one (`UnitAssumption`);
no projection is not a row, and revisions are finitely many, ordered by their ids
(`PublicationAssumption`); the
chosen attractions are finite (`TripAssumption`); pairs, modes and lifetimes are positive, and
what stands for a missing or torn cache is none (`RouteAssumption`); the search's grid
consists of minutes and no travel time is not a number (`DayConstants`). What a day
is given is part of its initial state (`DayGiven`): finitely many attractions with durations
that `route_day` accepts (`solver/routing.py:81-102`), any hours, any travel times or none
between two of them. The numbers of threads, workers, ids, versions, deaths and redeliveries
are arbitrary.

**Planning.** The safety properties are not inductive alone. `IInv` adds
- `RequestsInFlight`: what a thread holds still fits the tables - the row it
  will write belongs to the owner of the row it read and has the next version,
  an execution's intent is stored, a claim expects a claimable status;
- `VersionsAgree`: drafts, intents **and the drafts threads have read to submit
  them** agree on the content of a version - without the last part a thread
  could freeze a row that the tables no longer witness;
- `TargetsHaveBases`: a target trip and a base revision are stored and belong
  together.

Every step is of one of five kinds: it touches no intent's outcome, submits,
claims, ends an intent, or publishes. `Growth` shows that rows never disappear
and keep owner and binding; with it each kind preserves each conjunct. The
refinement uses the same kinds: a submission is `Ask`, a terminal end `Reject`,
a publication `Publish`, everything else a stutter.

**HolidaySync.** `IInv` adds to the two properties what publishers hold:
- `HoldsCurrent`: the version a publisher has read is either taken by now, and
  then the unique key refuses it, or still the next one of its year; once
  `publish` has compared the current calendar, the version follows it
  (`Follows`). This is the argument why three separate reads and a write still
  make one line;
- `HoldsMode`, `PreviewsAreValidated`: no write changes a job's mode, and
  operators publish only previews, so the intent of a sync job is used by its
  runs and its cancellation alone;
- `SyncIsAudited`: a calendar made by a sync job has its audit event, which
  makes the second one fail.

A step that publishes nothing preserves all of it if modes are kept and what
each actor holds still fits (`QuietStep`, `PlainStep`, `RestStep`); `LineGoesOn`
is the publication. `LeaseInv` is the second invariant, on top of `IInv`, where
leases hold and no claim races a cancellation: who executes a job has its row as it is, running,
locked and fresh (`RunHolds`); a claim under way holds expired rows only, and
alone (`ClaimHolds`); who confirms writes to a job that has ended, who cancels to one
that has not begun (`OperatorHolds`); so every column-wise write hits a row nobody else relies on
(`LeaseStep`), and one lock per year keeps the runs of a year apart. `CalendarKnown`
adds that who cancels writes back the calendar the job has; then no step touches
a job that has ended (`EndedStays`).

**AdminIdentity.** A change that takes `admin_security` away holds the row of another
administrator who has it (`Backed`), rows are locked by one transaction at a time
(`OneHolder`) and only those of security administrators (`Held`), and what a
change has read is still there unless the version moved on (`Remembered`). So two
removals cannot both be the last but one. The rows of the `SELECT ... FOR UPDATE` are
locked in one step, where the database takes them row by row: a request that the
database ends as the victim of a deadlock has written nothing and leaves with its
locks, which `Abandon` allows before any statement, but whether two of them can
deadlock is not asked. For the audit, `LogInv` says what of each row the
log already tells: the roles of an actor at every version it has had, the version a
session was opened with, and that roles a request has read are those of its
version or will be refused for it (`RequestLogged`).

**FeedbackSharing.** `IntentIsKey` and `OneFeedbackPerTarget` are the unique keys;
`AnswersFit` relates every answer to the row it names; an insert about to happen is
its owner's (`RowsAreOwn`); and who was answered with a conflict finds a row under its
intent or on its target, now and ever after (`ConflictsFit`, `TakenStays`). The proof
says nothing of repeats that overlap but that: they may be refused.

**ProviderGovernor.** Who may still store has read the record as it is
(`ReadIsFresh`): it holds the file lock, or the key it watches was not written.
The record knows the time of the last request (`LastIsKnown`), and counts at least
those of its day as long as no call was overtaken (`DayIsCounted`); `spent`, a
history variable, is the sum of `sent` over a day.

**UnitOfWork.** As long as no two requests are inside one object, a request inside
acts on the session it opened last (`OnOwnSession`), what it has written so far is
pending there and nowhere else (`PendingIsOwn`), and its committed rows are one of three
wholes (`CommitsWhole`). The premise is about the behaviour, not about the wiring: it holds of
every behaviour with a unit each, and of those of the shared unit in which only solver
runs overlap. Where two requests are inside the shared one the first part fails
(`shared_unit_of_work`).

**PublishedSnapshot.** A path that was read is never written again (`ReadOnce`): the
published file is created only where nothing was, and a torn one is never
valid. Files that can be read are reviewed; what a process solved is the outcome
of what it read (`OwnOutcomes`). Of the local catalog, what a process has read of a
version is what it keeps, and processes are told apart by their numbers; what is read of
a place is the revision the version names (`ReadingsTrue`, `AsPromised`). That two
processes show the same evidence and weather is not claimed; they need not.

**OpeningTimes.** No step is taken, so there is nothing to be inductive: a rule of the
solver is within a day (`RuleIsADay`), regular hours come back from the clock they
are written as (`RegularHoursLoad`), and typical evidence has one set of hours
(`TypicalHours`). The run judges samples, the theorems any evidence that the
catalog takes in (`IsEvidence`).

**PlaceReview with PlacePublication.** `RequestsOK` and `PublishersOK` say what a
request or publisher may still rely on of what it read: rows only grow, versions
do not go back, and whoever compares version and status writes to what it
read. `RevisionKept` is the step relation every action satisfies, from which
`ApprovedIsFrozen` and `DetachedIsUncited` follow; `Approvals` says that an approved
revision has exactly one approving decision. `PublicationInv` goes on from there:
a projection belongs to an approved revision (`ProjsOK`), and while publications do
not overlap, a publisher retires first the other revisions and then the other
projections, so between two of its statements there is at most the one row it is
about to replace (`OneOutBy`); none of what it publishes was retired
(`NoneRevived`). Publishing does not make a revision eligible; publishers in turn find
it so. With overlapping ones a revision may be published and not eligible, so the
type invariant asks only that what is eligible is approved. That a batch tells the truth (`Told`) needs no such condition.
`GatesAgreeAlways` compares the two gates code by code: each check of readiness
leaves the matching publication codes nothing to object to.

**Itinerary.** An attraction waits, is on one day, in the queue of dropped ones or
given up, each of them once (`PlacedOnce`), and only on days it can be visited
(`Suited`); a route of a searched day is a part of what the day holds
(`RoutesOfDays`). A day that took something in was searched as it is now, with
nothing left out, so the last search of it is answered the same unless one was cut
short (`RescuesAreKnown`). A search is any subset of what it is asked for; the rows of
a set are given by the bijections `Enumerations`, of which the code's sort picks one.

**DaySchedule.** A route is `Sound` if each visit follows the one before and the way from
there (`InOrder`, `RidesAlong`), lies inside its hours and lasts as long as was required; a
sound route passes the code's validation (`SoundIsValidated`). `DayInv` says that the
halves and the joined route are sound and, at the end, that the route `Continues` the joined
one: the same attractions in their order, each as long at least, the evening where it
was, and the last visit of the day over before a full dinner wherever one fitted.
`EveningFollows` is the step all refinements share: whatever visits of the day keep
their order, end by the deadline and pass `TimesFit` may be put before the evening. For
several visits, `MinimumFinishBound` says that without waiting they would end no later than
they do, so the deadline leaves the full dinner; the best candidate exists since scores
are totally ordered (`BestIsChosen`, over `FirstOfSome`). Every gap that
dinner may take is free of visits and ways (`GapsAreFree`), and dinner lies inside one
(`DinnerInGap`). The candidates, the finish and the stays are recursive functions over
a route. The library's induction takes an operator, so what is needed of them is
derived otherwise: a set of numbers that has 0 and the successor of each of
its members is Nat, since otherwise there would be an injection against the pigeonhole
principle (`SetInduction`), and a function defined by recursion exists (`Recursion`).

**RouteSnapshot.** Whatever a build has taken was fresh by the clock it had read
(`RouteTypes`, `Taken`), which needs nothing of the caches. For resuming, `InTurnHeld` says
that while builds do not overlap, the cache, and in memory the build itself, hold
every route that was stored and has not expired (`Holds`); that the key a build is at
has no such route once it was looked up (`BuildResumes`), since the clock it read is
not ahead; and that the spare file it renames is the one it has filled. Only builds side by side
have one spare file open together (`CrossedTold`), so only they can rename a torn one. Redis may
forget only what has expired (`RedisKeeps`), because it keeps an entry a lifetime from
when it is stored, which is not before it was fetched.

**Types.** Three of the type invariants say more than types and need an induction of
their own. `GovernorTypeOK` bounds the failures a circuit has counted: they are forgotten
when it lapses, while answers are still under way, so what is bounded is failures plus
answers in flight, by the threshold plus the workers (`NumbersInv`).
`RouteTypeOK` bounds what a build has fetched by its turns, which follows from a
result for each pair that is behind (`CountsInv`). `ReviewTypeOK` and `PublicationTypeOK`
hold the unique keys: a number or a node is chosen in one step and saved in another,
where it is asked for again (`RowsFit`, `NodesFit`); nodes that one request takes together
differ because they follow the order of the revisions (`InOrderIsOnce`), and what a
publication writes keeps number and node.

Only model-checked: liveness (`settles`), since fairness and ENABLED are out of the
prover's reach. Checked in the runs' terms and proved in the components':
`ServicesTypeOK` and `CatalogTypeOK`, which collect the parts' type invariants,
`JobPublishesOnce` (`SyncPublishesOnce`), `GatesAgree` (`GatesAgreeAlways`) and `TimesAgree`
(its three parts); a run names them through its instances, the theorems do not.

## 5. Where the code and its documents disagree

Refuted by a run:

- A replacement starts from the source draft **as it is now**, not from the
  input of the base revision (`replace_base`, `docs/specs/api-contract.md:790`).
- Of two equal requests for feedback or a share that overlap, the second is
  answered with a conflict (`infrastructure/database/feedback.py:83`,
  `sharing.py:64`), although its own row is stored under its intent and content
  (`sharing_repeats`; `docs/specs/api-contract.md:890`, `:892` for feedback and
  `:924` for shares promise the original).
- `build_http_app` gives all executions one unit of work
  (`shared_unit_of_work`, `docs/specs/data-model.md:765`).
- A cancellation races a claim: both succeed, the job is executed although it is
  cancelled and is written back to running (`holiday_cancel`,
  `docs/process/project-status.md:57`).
- Two confirmations of one preview with different contents publish two versions
  (`holiday_confirm`, `docs/specs/api-contract.md:1194`).
- Two publications of one place at the same time leave both revisions published
  (`place_published_twice`, the comment at
  `infrastructure/database/place_catalog.py:1245`).
- Three close pairs on two dates cannot be merged under the largest size, and the
  request fails each time it is sent (`clusters_stuck`, `docs/specs/trip-solver.md:84`).

Met while modelling, without a run of their own:

- A replacement is submitted without the readiness check
  (`docs/product/功能模块设计.md:124`), and when it is sent again it is recognised
  by comparing the two drafts as they are now
  (`docs/specs/api-contract.md:819`).
- No job recovers a running intent whose request died
  (`docs/specs/data-model.md:769`), and a retryable failure is only executed
  again if its execution is redelivered
  (`docs/product/应用代码架构设计.md:371`).
- A run that outlives its lease is joined by a second one of the same year
  (`docs/specs/data-model.md:1054`): `OneRunPerYear` fails with
  `LeasesHold = FALSE`.
- After a cancellation that overtook a claim, the audit event has used up the
  intent that the publication needs: the job fails and is recovered again and
  again, and the next job of its year waits (`StorePublished`, `UniqueAudit`).
- Review: a decision's checks and its UPDATE are apart, so evidence may change in
  between and the verdict lands on content that was not looked at; two submissions
  at once open two tasks of one revision; a retired closure or exception keeps
  its unique key and cannot be created again; resolving a relation from one
  place takes the other place's verification away; readiness counts sources of
  related places that the publication gate does not.
- Publication: a projection prepared while the gate fails never becomes
  `data_verified`; a publisher that loses to another retires some rows and not
  others, and two that overlap may also leave a published revision with
  `solver_eligible` off, since publishing does not set it
  (`infrastructure/database/place_catalog.py:1266`), or none published, since a row
  loaded as published and retired meanwhile is not written; a batch previewed before a retirement brings the retired revision back;
  a batch of items that are published already fails on its snapshot's unique
  content. `InTurn...` holds only one at a time. Preparing several candidates is one
  transaction: one node or projection that was taken meanwhile fails all
  (`docs/process/project-status.md:361`).
- Opening hours: the solver ignores a rule's kind, weekdays, validity, rules that
  only give a last entry, and session overrides, all of which the preview shows
  (`docs/product/管理端功能模块设计.md:193`); the preview ignores closures of a place
  that is always open, which the solver does not. `PreviewIsSolved` is about
  the typical place: one set of hours, on the weekdays it is open. Two different weekly hours
  are a conflict on every date. Hours that end more than a day after they start
  make the whole city's catalog unavailable. Hours past midnight pass the data
  rules (`docs/domain/开放时间数据规范.md:25`) and cannot be loaded from a published file.
- Route snapshots: two JSON builds at once share one spare file and lose each
  other's entries ("Small cross-process cache",
  `infrastructure/solver/gaode.py:251`), and a shorter text written over a longer one
  leaves a torn file (`:319`); a torn cache ends every later build. With a
  budget of 1000 requests a day and routes that live 24 hours, twenty attractions
  in three modes may never be completed.
- Snapshots: a torn published file uses up its version; a candidate file may be
  written over a published one; a data error while loading escapes
  `ProductionSolverGateway.solve` and leaves the intent running; a local version
  that is no longer current is "retryable" for ever; one local version may show
  different evidence and weather in different processes, since its hash names
  neither (`infrastructure/solver/database_published.py:287`), and a process goes on showing
  evidence that was rejected after it had loaded it; an intent is stored under the
  built-in version on any database error, although the catalog is not empty
  (`:60`); the forecast covers three
  days, and a longer trip is an invalid input.
- Provider governor: a call that read the clock before midnight and is stored
  after one of the next day takes the record back and the budget starts anew
  (`:229`); a success sent before the circuit opened closes it (`:199`).
- Day: refinement keeps time for a full dinner before the evening as if
  dinner might end at any hour, but it ends by 22:00 (`solver/segments.py:40`): before an evening
  that is reached later, a visit may grow into it and leave a reduced dinner
  (`docs/specs/solver-p1-contract.md:226`). `DinnerIsKept` is about an evening
  reached by 22:00.
- Itinerary: the last search is cut short by its time limit like every other
  one, and may then drop an attraction that is listed as moved to that day.

## 6. Not modelled

- Anonymous identity: a signed cookie and one row for each visitor.
- The rest of the HTTP layer, observability, data audits and evaluation: they
  translate, log or report and share no state with the services.
- Migrations, deployment and other scripts; the unique keys migrations create
  are in the modules' guards. The import of candidates is only the initial
  state of `PlaceReview`.
- The consoles: they appear as clients.
- Inside modelled components: discovery, fetching and extraction of holiday
  announcements (outcomes only), weather (a client of the governor and a part of
  the inputs), scores and wording of the solver's explanations, candidates and
  degraded answers of the gateway, OR-Tools itself (any feasible result), hashes,
  passwords and digests, lists and dashboards, replays by intent in the review
  service, and `decide_batch`, which is `Decide` in a loop.
