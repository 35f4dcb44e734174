# A verification development for Moonlight Box

Moonlight Box is a package repository manager: hosted repositories keep uploaded
packages, proxy repositories fetch and cache those of an upstream registry, and
virtual repositories serve several others under one name. Its server is a Go
program (`internal/`, `cmd/registry/`), its management console a Vue application
(`web/src/`) that drives the server over HTTP; both are modelled here, and the
migration of a whole registry with both sides together. Paths are relative to the
repository, under `internal/` unless they start with `cmd/` or `web/`.

The modules are translated from the code: on the server an action is a statement, a
transaction, a file or map operation, or a method under one lock, in the order the
code performs them, and requests interleave between them; in the console it is a
handler up to its next `await`, and clicks, answers and timers interleave there. Data is reduced to what
the properties tell apart. `PROJECT.json` maps each definition to its lines.

## The system and its parts

| Component | State | Operations | Talks to |
|---|---|---|---|
| Circuit breaker (`proxy/circuit_breaker.go`, decorators in `core/runtime/circuit_breaker.go`) | state, consecutive failures, probe flag, time of last change; one per upstream | AllowRequest, RecordSuccess/Failure/Timeout, Reset, GetState | every call upstream; the health check |
| Upstream health check (`proxy/health_check.go`) | per repository: status, failed checks | ticker, checkRepoHealth, OnRecovery | breaker; proxy runtime's WarmUp (`cmd/registry/main.go`) |
| Blob store (`storage/cas_blob_store.go`, `storage/local_storage.go`) | a file per digest; the blobs table | PutContext, OpenContext, RefsExist, DeleteContext | upload sessions, proxy runtime |
| Hosted runtime (`core/runtime/hosted.go`, `upload_session.go`) | a session's artifacts and created blobs | PutBlob, Commit, Abort, GetArtifact, DeleteArtifact | blob store, artifact service |
| Artifact service (`service/artifact_service.go`, `storage/metadata_store.go`) | artifacts, artifact_blobs, packages | Save, SaveBatch, AttachBlob, Delete; recalculation worker | database |
| Proxy runtime (`core/runtime/proxy.go`, `core/cache/`) | memory cache, negative cache, shared loads | GetArtifact, QueryArtifacts, refresh, healing, WarmUp | upstream, metadata store, blob store |
| Repository manager (`core/runtime/manager.go`), factory (`cmd/registry/runtime_init.go`) | runtimes by name with a TTL; loads under way | Get, Set, Invalidate, Delete, Reload | repository tables; itself, for members |
| Repository service (`service/repository_service.go`) | repository and member tables | Create, Update, Delete, AddMember, RemoveMember | manager (invalidation) |
| Group runtime (`core/runtime/group.go`) | the members' runtimes | ordered lookup, writable member | members |
| Migration (`migration/v2/`) | plans, jobs and items; scans and runs under way | create, scan, precheck, start, pause, resume, cancel, retry, delete, recover | source registry, artifact service; the wizard |
| Migration wizard (`web/src/views/MigrationWizardPage.vue`) | step, plan as last seen, two intervals | one handler per button and tick | migration service |
| Session and router (`web/src/stores/auth.ts`, `router/index.ts`, `api/request.ts`) | token twice, user, location, pending navigation | login, CAS, logout, profile, 401, guard | auth API; every page |
| Assistant (`web/src/components/ai`, `composables/useStreamChat.ts`) | conversation, session id, the stream being read | ask, clear, /help, pieces | AI API |
| Console pages (`web/src/views`, `components`) | lists, filters, dialogs, forms, flags, intervals | handlers of their templates | the HTTP API (`web/src/api`) |
| Batchers (`service/log_batcher.go`, `download_count_batcher.go`), webhooks, GC, scheduler | buffers, queues, delivery table | record, flush, retry, Stop | database |

Around these are the HTTP API, package format plugins, access control, the AI
service and MCP server, and configuration. They decode, decide and render, and
keep no concurrent state of the kind studied here.

### What is hard in it, and what makes each part correct

* *Breaker and health check.* Results of calls made long ago arrive in any order
  and are recorded into whatever state the breaker is in by now; the health check
  reads it, records to it and reads it again with traffic in between. Correct: the
  counters and flag always fit the state, an open breaker is not closed by a late
  success, a half-open one is never left without the probe it waits for, and a
  recovered upstream is used again.
* *Blob store and sessions.* Contents are shared by digest, so two requests that
  know nothing of each other store and delete the same file and row, in several
  statements, with crashes, cancelled contexts and truncated files. Correct: a
  committed artifact keeps its content (it does, unless its own upload met a deletion); a put
  repairs what it finds; nothing is left behind except by an operation that was cut short.
* *Proxy runtime.* Five places know something of an artifact (upstream, the
  row, the file, the memory cache, the negative cache) and all change
  independently; loads are shared and outlive their callers. Correct: every
  waiting caller is answered, old content stays until there is new, and once
  upstream settles requests are served, for good.
* *Repository manager.* Loads read a configuration that changes, invalidations
  overtake them, and a group's load waits for its members' loads. Correct: loads
  end, never go back in time, and what is served catches up.
* *Recalculation worker.* Summary rows are recalculated after the commits they
  follow, by a goroutine behind a bounded channel, with writers, deletions and
  shutdown in between. Correct: a row that is out of date is still going to be
  recalculated, or was given up where the code says so; merged tasks get executed;
  shutdown flushes and ends.
* *Migration.* A plan's row is written by requests, by the scan, by any number of
  runs that overlap (nothing excludes a second start, and a retry's run is in
  nobody's hands), and by the recovery after a crash. Correct: a plan that claims
  to be at work has a goroutine behind it, and gets on; a paused plan stays paused
  (it does not).
* *Migration wizard.* Handlers make several requests in a row and outlive the page;
  intervals poll a plan that others change. Correct: a running plan that is shown
  is watched, and its end is noticed.
* *Session.* Answers of logins, logouts, profile requests and 401s of several
  tokens cross, and the guard waits for one of them with a navigation in its hand.
  Correct: the two copies of the token never name two sessions, no page is rendered
  without its permission, and redirects come to an end.
* *Assistant.* A stream writes by index into a list that changes meanwhile.
  Correct: a text stays under its question, the input is not left disabled.
* *Console pages.* Every click may find other requests in flight, which share flags,
  dialogs and filters with it. Correct: a page that has come to rest shows what the server has.
* *Batchers, webhooks.* Planned, see the end.

## The modules

### CircuitBreaker, HealthCheck

`CircuitBreaker` has the breaker's fields as variables (`sinceChange` is
`time.Since(lastStateChange)` in ticks). Each method runs under `cb.mu` and is
one step; a decorated call is two, `Begin` (AllowRequest) and `Complete`
(the Record* its outcome leads to; a 404 counts as a success). `call[r]`
remembers how the call was admitted. `HealthCheck` extends it with the check of
one repository: `CheckReadsState`, `CheckAllowed`/`CheckRefused`,
`CheckSucceeds`/`CheckFails`, `CheckEnds`, and `WarmUp` for the goroutine that
OnRecovery starts. `upstream` is "up" (it answers every call), "down" or "mixed": then a call
may get a 401, 403 or 429, which the decorator records as a failure while the check counts every
status from 200 to 499 as healthy. A caller whose client goes away records a failure, too,
whatever the upstream would have answered ("cancelled"). Statistics counters, configuration reload and the loop over
repositories (breakers share nothing) are left out.

### ArtifactStore, CASBlobStore

`ArtifactStore` is the abstract promise: a key has the content it was published with until
it is removed or, where that is allowed, published over; a request for it is answered with
that content or with an error, and there are reasons for an error. `CASBlobStore` is the code:
files, blobs rows with their ids (AUTOINCREMENT: ids are not reused), artifact to
blob links, and per actor the statement it is about to execute. PutContext is
`BeginUpload` (the content is in a private temporary file), `PutFind`,
`PutCheck`, `PutMove`, `PutSave` with its unique index; the session is `Commit`
or `Abort`; deletion is `BeginDelete`, `DeleteMetadata`, and DeleteContext's four
statements, shared with Abort. `Disconnect` cancels a request's context: every
later statement fails, file operations go on; deleting a file that is not there succeeds, as
`os.Remove`'s error for it is ignored. `Crash` ends all requests and keeps
the store. `Truncate` damages a file nobody is writing.

Uploads and deletions of one content overlap in every order. `met`, `atRisk` and `cut` are
history: see *What the blob store does not keep*. `ImplementsArtifactStore` maps ArtifactStore's
`content[k]` to the digest published under the key, and `answer[k]` to what `OpenContext` makes of
the row and the file: the content, "corrupt" (ErrBlobCorrupt: the file has not the row's size) or
"missing".

Uploads are of one artifact with one blob; a request that fails before PutContext
knows the digest changes nothing and is not an action. A `Save` whose id would
exceed `MaxBlobId` is not taken. A deletion of an artifact whose blob row is
already gone does not start.

### ProxyRuntime

One downloadable artifact of one proxy repository; keys do not interact. A
content is a version number. `Begin`, `Cancel` and `Open` are the caller's part
of GetArtifact; `Flight*` are the steps of `loadArtifact` inside the shared load,
with refreshStaleMetadata, ensureArtifactBlob and the first-time fetch; `Warm*`
are the warm-up of this artifact, which refreshes the very object the memory
cache hands out. A call upstream, a transaction and a cache operation are separate
steps. AttachBlob looks the artifact up outside its transaction: `FlightAttach` takes
the row's id in hand (`located`), `FlightLink` writes the link, `FlightSave` is
what GetArtifact does when there was no row. `SweepList`, `SweepDelete` and
`SweepFails` are ProxyMetadataCacheGC: a row past its TTL without a blob is listed, and
deleted by id some time later, whatever has become of it.

Assumed: MetadataTTL and NegativeTTL are positive, the sweep's age is beyond
MetadataTTL, and the key names a file.
Not modelled: block rules and conditional access, the blob size limit, failing
database statements, QueryArtifacts and its background refresh. Lost and damaged
files are treated alike, though callers get a 404 for one and a 500 for the other.
One warm-up of the artifact runs at a time.

### RepositoryManager

A virtual repository, `Group`, and its `Member`. A runtime is the number of the
configuration it was built from and of the one its member was built from. `Get`,
`DropExpired`, `Lead`/`Follow` (LoadOrStore), the factory's queries (`Read`,
`ReadMembers`, either of which may fail), `Register` (the Set of a member that the
group's load built itself), `Store`, `Send`, `Clear`. The channel has one buffer
place and one send, so whoever receives second waits for ever: such a caller is
`lost`. RepositoryService's changes commit first and then invalidate in two steps,
`InvalidateOwn` and `InvalidateParents`; `Create` invalidates inside its
transaction, before the commit. Changes are made one at a time. Memberships are
acyclic.

### RecalcWorker

The rows of packages and package_versions, of which only one thing is kept: whether a
row shows the artifacts as they are (`clean`). A commit of artifacts makes their
rows unclean and overtakes every recalculation that has read them and not yet
written (`fresh`); each recalculation is `ReadArtifacts` and then `WriteSummary` or
`RecalcFails`, for the worker and for a Save alike. `SaveBatch`, `SaveChunk`,
`ChunkFails`, `AttachBlob` lead to enqueueRecalc (`Enqueue`, `QueueFull`, `Drop`); AttachBlob makes
the package's row unclean like the version's (its `updated_at` decides `latest_version`, its blob
links count for Go modules), but enqueues only the version;
`Save` is followed by `SyncPackage` and its own recalculations; `Delete` is
one transaction. The loop's select is `Receive`, `WindowEnds` or `SeesStop`, the way out
`FlushEnds`, `Drain`, `DrainEnds`, `LastEnds`. `missed` is a history variable:
rows whose recalculation the code gave up. A commit clears it, since the
committer owes a new one, so an old loss never excuses a new one.

A write that was overtaken is taken to be wrong, though the numbers may agree by
chance. AttachBlob that finds no row is a `Save`. All artifacts are taken to be
aggregated (not metadata or checksum files), and the repository not to be virtual.
A panic in the worker, which SafeGo would log, is not modelled. The timer follows
Go 1.23 and later (go.mod says 1.25): Reset leaves no old tick behind.

### MigrationService

One plan. `status` and `stage` are its row, `jobs` the status of its job rows, `scan` the
goroutine of runScan (or a precheck under way), `run` the goroutines of runPlan, each with the jobs it has still
to dispatch (`todo`) and what its workers do (`exec`), `active` the run whose cancel
function the scheduler's map holds. Requests are one step, which reads the row and writes
it, except a precheck: it writes what it has found some time later (`PrecheckEnds`), whatever has
become of the plan, or "failed" if the database failed it. In all the
others only a few statements separate the read from the write. Runs and workers are interleaved statement by statement (`RunBegins`,
`RunDispatches`, `JobsDone`, `RunVerifies`, `RunEnds`; `JobRuns`, `JobEnds`). What the code
does is kept where it surprises: a cancelled run jumps past the wait for its workers
(`JobsDone`), a run that ends removes whichever entry is active (`RunEnds`), a retry's run is
never active (`RetryFailedJobs`), a failed job is no failure of the run (`JobEnds`),
an unsaved one is (`JobUnsaved`); the scan saves the whole row as it was when it began to count
(`ScanReads`, `ScanSaves`), a run's status and all. Nobody looks at the errors of UpdateStatus, so that
any write of the row may be lost (`Writes` with ok = FALSE); UpdateStage next to it shares its fate.
`unwritten` is history: the status says at work, and was not replaced because a write was
lost. `Crash` takes the goroutines,
`RecoverResets` and `RecoverPauses` are RecoverInterruptedPlans.

`CreateDraftPlan` replaces a plan that nobody works on, so that behaviours go on. The
scan finds every job of `Jobs`; what a job copies, the items of a job, and the verify job's own
row are left out. `runPlanStreaming` is not modelled: nothing calls StartPlanStreaming.

### MigrationWizard

Extends MigrationService with the page. `pages[v]` holds the refs of its v-th visit and
survives it, because handlers do; `asks` the requests that handlers wait for. `Served`
performs the service's own action for the request, so that the two are one system;
`Refused` is an error answer. `Back` is the rest of the handler, per group of handlers:
`RecentBack` (loadRecentPlan), `ScanBack`, `PrecheckBack`, `ExecBack`. `Elsewhere` is what the
wizard has no button for. Only what decides the handlers' course is kept: the
plan's status, whether it is at the scan, whether there are conflicts. Two refs are
history: `backed` (the user walked back from the result) and `astray`, set by clicks out of
turn, which nothing on the page prevents (`Astray`): a second request before the
first is answered, a reset while anything is still to come back, a precheck or an
application of policies while the page still polls the scan; and by an application that
finds the plan already running.

### Session, Assistant, Shell

`Session`: `stored` (localStorage), `memory` and `user` (the store), `here` and
`going` (vue-router: the location and the pending navigation with its phase: guard,
waiting for the profile, loading the chunk), `shown` (what is rendered), and the server's
`owner` and `valid`. One route stands for each kind that the guard treats alike. Answers
are actions per kind of request: `ProfileAnswered`, `ProfileRejected` (401, with the
interceptor's own navigation), `ProfileLost`, `LoggedIn`, `LoginRefused`, `LoggedOut`,
`PageAnswered`. `Document` is a reload or a typed address, `CasReturns` the way back from
the CAS server. `met` is history: the users this document's store has held.

`Assistant`: a message is its role and the question whose text it shows; `Send` is
handleSend up to the first await, `Piece`, `Done`, `GiveUp` the callbacks of streamChat,
including what happens when the message they write to is gone (`PieceWithoutPlace`).
`loadHistorySession` (`ChatWindow.vue:221`) would replace the messages under a stream as well; it is left
out because it finds no conversation: they are saved under the session id, which is never set.
`Shell` composes the two as the layouts do: leaving a layout unmounts the chat.

### PageKit, the page modules, WebApp

`PageKit` is what pages have in common: `ui`, the refs of the mounted page; `db`, the
server's collections, a row being in one of a few states; `calls`, the requests in
flight with the handler that awaits each; `Do` (a handler up to its request) and `Then`
(the rest, whose finally turns flags off); and the server with the network (`Serve`,
`Refuse`, `NotFound`). Each page is then four definitions: `<Page>Offers`, what its template lets
the user click in a state; `<Page>Mounted`, the requests of onMounted; `<Page>Do` and
`<Page>Back`. Helpers have the names of the page's functions. `WebApp` mounts any page of
`Pages` in one next-state relation; `MCWebApp` bounds each.

| Module | Pages and components |
|---|---|
| AccessPages | UserManagement, RoleManagement, ProfileSettings |
| OperationsPages | WebhookManagement, BackupManagement, StorageManagement, ScheduledTasks, RuntimeStatus with its panels, Dashboard |
| SettingsPages | SystemConfig, CasSettingsPanel, CacheManagement |
| RepositoryPages | RepositoryList, RepositoryDetail, RepoConfigPage, RepositoryFormDialog, VirtualMembersForm |
| LogPages | DownloadLogs, AuditLogs |
| SecurityPages | SecurityCenter, VulnRuleManagement, BlockRuleList with its form and AI dialogs, RiskAssessment |
| PackagePages | PackageExplorer with search, filter, drawer and upload; PackageDetail with VersionTable; FileBrowser |
| PublicPages | PublicBrowse with its panels, the assistant's dependency graph with PackageNodeDetail |

What is abstracted: a row is absent or in one of three states, of which one is "saved from a
form never filled"; a filter is a query that selects by state or name; a second page
of a list exists for one row. Flags (`ui.spin`) are those that disable something. A submit that
the form's rules refuse changes nothing. Confirmation boxes are part of the click.
`excused` is a history variable about lists: see QuietListIsCurrent.

## The runs

| Run | Configuration | Shows |
|---|---|---|
| `health_check` | 2 callers, MaxFailures 2, ResetTimeout 2, ProbeInterval 1, FailureThreshold 2 | flags fit the state, open holds, the probe is under way; an upstream that answers everything for good, to clients that stay, is used again for good |
| `blob_store` | 2 requests, 2 contents, 2 keys, 2 rows ever inserted; crashes, disconnects, truncation | content is kept and puts heal, except for an upload that itself meets a deletion of its content; leaks only where an operation was cut short; ArtifactStore is implemented |
| `proxy` | 1 caller, 2 contents, 1 lost file, warm-up, no sweep, upstream withdraws | a refresh keeps old content; once upstream settles, requests are served |
| `proxy_shared` | 2 callers, metadata sweep, no warm-up, no lost file | everyone who waits is answered; once upstream settles, shared loads serve, also after a sweep took the row under them |
| `manager` | 2 callers, 1 change | loads end and never go back; the TTL makes up for lost invalidations |
| `recalc` | 1 writer, 1 package with 2 versions, channel of 1 | a stale row is to be recalculated or was given up where the code gives it up; the shutdown ends |
| `recalc_window` | 1 writer, 1 version, channel of 1 | **violated**: after the first merge window nothing merged is executed before Stop |
| `migration` | 1 job, 2 runs, any number of requests, failures, lost writes and crashes | a plan at work has a goroutine behind it, and gets on, unless the write that should have ended it was lost |
| `migration_pause` | the same | **violated**: a paused plan is verified and completed |
| `migration_wizard` | 1 job, 1 run, 1 visit, 2 requests in flight, 1 click or foreign call, 1 fault | a running plan that is shown is watched, its end noticed |
| `web` | 26 pages, 2 rows, 2 to 6 clicks, 2 or 3 requests in flight, 1 or 2 faults | a quiet list is current |
| `shell` | 2 users, 2 tokens, 2 moves, 2 requests, 1 fault, 2 questions | one session, permissions hold, redirects end, answers follow their questions |

Six more configurations are kept beside these to be run by hand; each shows a
property that the code violates (see below): `CASBlobStoreRace.cfg` (MCCASBlobStore,
RacesKeepContent: ArtifactsKeepContent without its exception), `ProxyRuntimeRefresh.cfg`,
`ProxyRuntimeStale.cfg` and `ProxyRuntimeSweep.cfg` (MCProxyRuntime,
FailedRefreshTurnsNobodyAway, CatchesUp and SweepSparesContent),
`RepositoryManagerStuck.cfg` and `RepositoryManagerDelete.cfg` (MCRepositoryManager,
GetsReturn and DeletedMembersAreDropped).

### Bounds and why they are enough

* *health_check*: with two callers one call can be stale while the other is the
  probe, and the check is a third client. Two failures tell "one" from "the last";
  saturated counters and ages lose nothing because no guard tells larger values
  apart. FlagsMatchState, ProbeUnderWay and OpenHolds are also proved, for all
  values.
* *blob_store*: two requests suffice for every pair of statements to interleave;
  two contents under two keys for deduplication, and for one that is not; a
  second row for re-insertion after a deletion and for the loser of two first
  puts. Requests are interchangeable, and all properties speak of single states
  or steps, so their symmetry is used. AllowOverwrite is off since ArtifactStore
  promises that; the proofs hold for both values. Deadlock is not checked:
  when the rows are used up and the keys empty, nothing remains to be done.
* *proxy*, *proxy_shared*: two versions let a refresh find a new content and a
  later load lose its file. The warm-up and the lost file are checked with one caller,
  sharing and the sweep with two, because all together exceed a few minutes. What is
  left out of each touches the caches, the row or the disk only, never the waiting
  callers; that a row deleted under the warm-up keeps its types and its content is proved.
* *manager*: one change suffices because every property is about a single load
  or about what follows the last change; any configuration is initial, including
  missing rows. Deadlock is not checked because callers that wait for ever are what
  the code does (`RepositoryManagerStuck.cfg`, where three callers are the fewest
  to show it).
* *recalc*: the writer and the worker are two recalculations that can overtake one
  another; two versions let a chunk, or the worker's loop over keys, fail half
  way; with a channel of one the second task already finds it full. No counter is bounded:
  the state is finite as it is. More writers are covered by the proof.
* *migration*: two runs are enough for one to end, fail or be cancelled under the other,
  with one still unstarted at any point, and one job for a run to be cut before or while it is
  executed; that a second job, or a full semaphore, makes no difference to the types and to
  ActiveHasRunner is proved. One scan or precheck is under way at a time. Requests, crashes and
  failures are not counted. Deadlock is not checked, since a cancelled or completed plan may be the end.
* *migration_wizard*: one click is enough because the page may open on a plan in any
  state that the service can reach, so that every handler is exercised first; two requests
  in flight let a tick, the page's opening and a click overlap, or an abandoned handler and its
  interval. The proof of WatchedWhileRunning has no such bounds; with three clicks and
  without `astray` a precheck that waits across two plans breaks it (see *Wizard* below). An
  interval waits for its last tick (`Tick`), which the proof uses. Its service has one run, because overlapping runs are `migration`'s question.
  The wizard may come to rest: no deadlock check.
* *web*: two rows tell "this row" from "another"; two collections are what a page lists at
  most. A handler overlaps with one other, or with two where the page is small enough,
  so that every pair of handlers of a page is interleaved in every order of answers; three
  clicks reach each of the dialogs and submit it with something else under way. The graph
  needs six to draw, fail, draw again and open a node. One fault is any one
  request failing or losing its answer. Pages share no state but the server's, so each is
  explored alone. A page may be at rest for ever: no deadlock check.
* *shell*: two moves and two requests make any two of login, logout, profile, page request
  and CAS redemption cross, a reload included; two tokens are an old and a new session.
  Two questions let one be asked under the stream of the other. The user may stop: no
  deadlock check.

### Fairness

Weak fairness is on goroutines that are runnable: a call upstream carries a
timeout and so completes, a statement returns, timers and TTLs expire. The health
check's ticker always fires again. In ProxyRuntime requests keep coming
(`Begin`), since `ServesForGood` is about callers. Nothing is assumed to make an
upstream recover, an administrator act, a file get lost, a client leave, traffic
arrive at the breaker, or a repository be asked for: the liveness properties that need a
settled environment state it as their hypothesis (`<>[](upstream = "up")`,
`<>[]Settled(v)`, no more database changes).

RecoversForGood needs two such hypotheses, and neither can go: that the upstream answers every call
(`<>[](upstream = "up")`), and that no client ends its call (`<>NoClientGoesAway`). Otherwise a 401, 403 or
429, or a client that goes away, may be each half-open probe anew, is recorded as a failure, and the
breaker is open again, for ever, while the health check, refused during the probe, finds the same
upstream healthy. The comment at `core/runtime/circuit_breaker.go:33` counts network errors, 5xx and
timeouts among the failures, and no other; the code counts every error but a 404.

For the worker's select there is strong fairness on `SeesStop` (Go chooses at random
among ready channels). `SpecWithTimer`, used only for the violated run, also grants
that an armed window ends, which the code does not if tasks keep coming; even so
`MergedIsExecuted` fails, and holds when the timer is restored. `StopReturns` has the
hypothesis that writers come to rest, because the drain takes what arrives meanwhile;
main.go stops the server before it stops the worker.

In MigrationService scans, runs and recovery go on (`ServiceFairness`): jobs end because
their requests have timeouts, and a server that is down is started again. No request is
assumed, so PlanMovesOn is about what is under way, and excepts a server that crashes
again and again. The wizard adds that intervals tick, requests are answered or refused
(30 s, `web/src/api/request.ts:13`) and handlers resume. The session's fairness is the same for
the guard, chunks and answers. `web` has only safety properties, and no fairness.

### What the blob store does not keep

Nothing keeps a deletion (an Abort included) from an upload of the same content, and nothing in
the model does. A deletion is *condemned* (`Condemned`) once it has found no reference, or is about
to count those of a row that is gone already: file and row will go, whatever is committed meanwhile.
An upload that holds the blob at that moment, or looks for it then, has `met` the deletion, and if
it commits, its key is `atRisk`. ArtifactsKeepContent says that this is the only way to lose
content: artifacts committed before, or by uploads that met no deletion, keep theirs through every
overlap, crash, disconnect, truncation and double put; PutHeals excepts the same uploads, ArtifactStore
allows "missing" for the same keys, and what they leave is in `cut`. `CASBlobStoreRace.cfg` checks
RacesKeepContent, which has no exception, and finds the loss in twelve steps (in `tla/`:
`tlc -workers 2 -config CASBlobStoreRace.cfg MCCASBlobStore`).

The exception is as wide as the code makes it. A deletion may hold an old row's id: another request has
removed the row, an upload has put the content back under a new one, and the deletion counts no
references to the old id and removes the file of the new row (`DeleteContext` finds the row by id before it
counts, and the file by its path after).

### What the violated runs say

The two violated runs are findings in `PROJECT.json`, with the line and the comment they
contradict:

1. The recalculation worker's merge window is armed once: `timer` is not reset with
   `timerC`, so from the second window on summaries are stale until shutdown.
2. A pause (or a cancel) makes runPlan jump to its end, where it verifies and
   completes the plan (`scheduler.go:222`).

The further configurations show:

3. Abort and DeleteArtifact count references and then delete, while a second
   session deduplicated to the blob commits (`cas_blob_store.go:246`).
4. A failed refresh promises to go on serving the cached artifact
   (`core/runtime/proxy.go:1079`), and its negative cache entry makes the next
   GetArtifact answer "not found".
5. A refresh saves the new `remote_digest` before the new content is there
   (`proxy.go:1122`); the old blob stays linked, and from then on looks current.
6. The repository manager's "singleflight" sends one result for any number of
   waiting callers (`manager.go:84`).
7. Delete looks up the parents of a repository by the name it has just deleted
   (`repository_service.go:358` and `:108`).

8. The sweep of proxy metadata, which says that it never touches a cache that has
   content (`service/proxy_cache_gc.go:17`), lists rows without a blob and deletes them
   by id (`:134`): a download that ends in between loses its row, and the next
   request downloads again.

Observations made on the way, without a run of their own:

* `loadArtifact`'s branch for "the upstream failed but there is an old blob" is
  reached only after `ensureArtifactBlob` has cleared the references, so it
  answers without content. `ServesForGood` counts such an answer as a refusal.
* A row that is swept after AttachBlob has found it (`artifact_service.go:358` takes
  that into account) gets a link that belongs to no row; the caller is served from memory.
* `reloadConfig` of the health check returns the *old* interval.
* OnRecovery fires only if the check itself, not traffic, closed the breaker.
* `ProbeInterval` has no effect: proved, theorem `ProbeIntervalNeverApplies`.
* The comment at FetchMetadata's decorator says a 404 is not recorded; it is, as a
  success. `ProbeUnderWay` fails if it were not: the probe flag would stay up.
* Abort runs under the request's own context, so a client that goes away leaves
  its blob behind; an overwriting commit leaves the overwritten one. These are
  `NoLeakUnlessCut`'s exceptions.
* A recalculation outside a transaction that is overtaken by a Delete or a Save
  overwrites newer numbers, or creates the row of a deleted version again. Save says
  that callers rely on the summary after it returns (`artifact_service.go:322`).
* AttachBlob enqueues the version and not the package (`artifact_service.go:394`), whose
  `latest_version` and, for Go, `version_count` it may have changed.
* A SaveBatch that fails in a later chunk does not enqueue the earlier ones' rows; a
  task sent while the worker executes for the last time is accepted and never executed.
* A group load may register an older or a deleted member with the manager
  (`Register`); `StoresNothingOlder` speaks of `Store` only, and the TTL heals
  the rest. `cascadeInvalidateParents` reaches one level, and AddMember does not refuse a
  cycle, whose load would wait for itself.
* computeAndSaveScanStats writes a status back that it has read some time before
  (`service.go:178`), "running" for instance, when a retry's run has ended in between. The scan's next
  statement replaces it. A precheck may put a cancelled plan back to "ready". When the error of an UpdateStatus
  (`scheduler.go:244`, `:252`, `:262`, `:267`) is lost, the plan is at work with nobody behind it, and only a restart, a
  cancellation or a retry ends that.
* A plan whose jobs all failed is "completed": ExecuteJob returns the result of saving
  the failure (`executor.go:97`). RecoverInterruptedPlans pauses a plan it found scanning,
  and ResumePlan then runs the jobs found so far. A cancelled or paused plan whose
  workers were cut by a crash is not recovered. SetSource is shared by all plans.

And in the console, met while the pages were translated; each is in the modules as it is
in the code, and none contradicts a property stated here:

* *Session*: a late profile is stored with the newer token; a late 401 of an old token
  removes the new one (`web/src/api/request.ts:39`). A logout that fails forgets everything and leaves
  the admin page on the screen (`AppHeader.vue:130`). The guard's catch is dead, because
  fetchProfile swallows errors. A CAS ticket is ignored while a token is stored.
* *Assistant*: the session id the server assigns never reaches `sessionId`, so each
  question starts a new session; a question under a stream gets an empty answer that stays;
  clearing under a stream gives its rest to the next question (`muddled`); an event cut in
  two by the network ends the answer.
* *Wizard*: handlers go on after the page is left and start intervals nobody clears; a
  listPlans answered late replaces a plan just created; a refresh after resetWizard
  brings the plan back; walking back from the result shows a plan nobody polls. A precheck
  answered after its user went back and started another plan puts the page on step 4
  (`:525-540`); when its own start is refused, and the other plan's last refresh was lost, a
  running plan is shown that nothing polls (three clicks, a trace of 44 steps).
* *Lists*: BlockRuleList's toggle writes into a row a reload may have replaced (`:434`);
  filters keep the page number; loads carry no token, so the last answer wins, not the
  last question (explorer, drawer, risk report, package detail, file browser).
* *Dialogs*: a late success closes whichever dialog is open by then (repository form,
  block rules, users); a late detail switches the dialog (RepositoryList), a late AI answer fills
  drafts of a closed one (BlockRuleAIDialog), whose creation loop goes on as well.
* *SystemConfig* takes what is in the form when a save is answered for what was
  saved (`SystemConfig.vue:357`). *CacheManagement* lists items before it has a cache chosen, and
  "clear expired" clears everything (`internal/api/http/cache_handler.go:110`).

## What is proved

TLAPS checks these for every value of the constants; `PROJECT.json` lists them.

**HealthCheck_proofs** from `BreakerAssumption` and `HealthAssumption` only. The
inductive invariant is `TypeOK /\ FlagsMatchState /\ ProbeUnderWay`; no part
is inductive alone. A result that arrives in the half-open state moves it, so the
probe flag must be up exactly there (FlagsMatchState), and because of the flag
nothing else is admitted while a probe is out (ProbeUnderWay). Lemmas about each
method alone (`AllowRequestStep`, `RecordStep`) carry the cases. It gives
TypeCorrect, FlagsAlwaysMatch, HalfOpenIsNeverStale, OpenBreakerHolds and
ProbeIntervalNeverApplies.

**CASBlobStore_proofs** from `StoreAssumption` only; every overlap is allowed. The
invariant `IInv` adds to the types what each request may rely on between its statements: ids of rows
are unique and a request's id belongs to its digest (`IdsAreUnique`); a put that met no deletion
still has the row it found or saved, and its file once it was checked or moved
(`PutOK`); it has no condemned deletion beside it (`Exclusion`); an artifact that is not at risk has its row
and file (`SafeIsStored`), and no deletion past its count has that artifact's digest, none about
to count another id of it (`DeleteOK`). Without these, ArtifactsKeepContent
is not inductive: a commit is good only because nobody removed row or file since the put, and a file only
goes when no safe artifact has its digest. It gives
TypeCorrect, ContentIsKept and PutsHeal. `StoreImplementsArtifactStore` is the
refinement, with and without overwriting: a commit publishes, safely or at risk (CommitPublishes),
`DeleteMetadata` removes (DeleteRemoves), a put's move or save repairs (PutMoveRepairs, PutSaveRepairs), a
truncation damages (TruncateDamages), file and row of a deletion are lost to keys at risk only (DeletionLoses); every other step leaves what clients are answered as it is.
`NothingLeaks` needs a second invariant, `Answered`, on top of IInv: between
requests that are not cut short, a row no artifact links to has a request that holds its
id and will commit or delete it (`RowsAreAnswered`), a file without a row has a put
about to save one (`FilesAreAnswered`), the file goes before its row (`FileGoesFirst`), and a
deletion about to unlink has its key to itself (`DeleterHasKey`), so it answers for
exactly the row it unlinks. When everybody is idle nobody can answer, so nothing is left.

**RecalcWorker_proofs** from `RecalcAssumption`. The invariant is
`TypeOK /\ Tidy /\ EachIsDue`: EachIsDue is NothingForgotten key by key, and Tidy
says where keys may be held at all (a key is due while a writer or the worker holds it, or it is queued or pending). It is needed because `AttachBlob`, `Save` and
`Execute` assign to `seen` or `left`: were these not empty there, keys would be
lost. It gives TypeCorrect and NoRowIsForgotten.

**Migration_proofs** from `MigrationAssumption`, and for the wizard
`WizardAssumption` (None is neither a visit nor a page; the bounds are numbers, any
numbers). The invariant of the service is
`TypeOK /\ ActiveHasRunner`. Every step of a run is shown to keep `Kept(r)`: the other runs stay as they are, and the
status is left at work only if this run still is, or its write was lost. Whatever
status the scan has kept, "running" too, it is the scan itself that stands behind it until it writes the next one
(`scan = "saved"`). A new
run takes a free slot, so it replaces nobody, and the recovery after a crash pauses
every status it may find at work (`Interrupted`); a status forgotten there would break
the proof, as the mutant breaks the run. It gives TypeCorrect and WorkIsDone.

The wizard adds nothing to what the service may do (`ServiceSteps`): WizardOnlyRequests
says that a behaviour of the two is one of the service, so its invariants carry over
(WizardWorkIsDone). The types of the page need `Known`, which ties it to the service: a
plan that is shown exists, requests are of pages that were opened, an answer that tells of a plan
tells of one. RunningIsWatched needs `WInv`: on the page that is open, as long as it is
`Calm` (neither backed nor astray), one handler at most waits beside the ticks, and `Way` says which
requests and intervals go with which step. A handler on its way to the start leaves
nothing polling and no running plan shown (`Idle`); up to step 3 a running plan can only be seen by the scan's
interval; on step 4 without the run's interval either a handler that will start it or leave
the step is waiting, or nothing runs that could be seen. Why handlers of one page do not overlap is not in the
code: it is the assumption on the user that `astray` states. What each handler does to
`Way` is a lemma without the state (`RunStarts`, `Cancelled`, `TickRead`, ...), two
lemmas about the list of requests (`ChainStep`, `TickStep`) lift them to handlers, and a handler of a
page that is gone cannot touch the open one (`OldBackOrderly`).

**Shell_proofs** from `TokensAreNumbers`, `SessionAssumption` and `ChatAssumption`.
For the session the invariant adds `Cleared` to the types and to StoredIsTheStores:
the guard only lets a navigation to a guarded page load when a permitted user has been
met, and `met` is emptied only by a new document, which shows nothing yet. What every
answer has in common is one lemma (`AnswerKeeps`): it may push a location, let the
guard go on with the user it found, or leave the navigation alone (`Onward`).
For the chat it adds `InPlace`: unless the conversation was cleared under it, the
stream's index is that of an answer right below its own question. When that answer
is removed (`GiveUpKeeps`), what follows it is no answer to it, so the indices that
shift keep their questions. The two halves leave each other alone, or unmount the chat. It
gives TypeCorrect, OneSession, PermissionComesFirst, AnswersStayInPlace and
LoadingEnds.

**ProxyRuntime_proofs** from `ProxyAssumption`. The invariant adds to the types what
the steps of a load hand on: past its metadata it knows a digest, one about to attach has
downloaded a blob (`FlightKnows`), the warm-up knows a digest before it saves one
(`WarmKnows`), and an id in hand is that of a row as long as it has not been deleted (`Locates`). From these every step that writes the row either keeps its blob or
links the one just downloaded. It gives TypeCorrect and OldContentIsKept.

**RepositoryManager_proofs** from `ManagerAssumption`. The loading entry is a lock
(`Exclusive`, `Locked`; theorem OneLoadEach), so no other load of the same repository stores
between a load's query and its Store, and versions of a row only grow: what a load has
read is at least as new as anything cached (`Good`). A group's load may also
register a member that it read itself; that is not newer than the member's row
(`Past`) and not newer than what a load of the member is still to store (`Apart`).
It gives TypeCorrect, NothingOlderIsStored and OneLoadEach.

**WebApp_proofs** from `ConsoleAssumption` (the pages are the 26 modelled),
`BoundsAssumption` (a visit's clicks and failures are bounded by numbers, any numbers) and
`KitAssumption` (None is no row, the protected row is one), for any number of rows.
ListsAreCurrent is about a page at rest, so its invariant must say what a page in motion
owes (`Settled`, for each of the two collections). Unless the rows are excused, and no
list is under way that does away with the excuse (`Trusted`), no answer in flight is
stale, answers are given in order, and either a request in flight will bring a list or an
excuse by the time it is over (`Unsettling`: a list or a write not answered, a failure, an
answer that is lost), or the last list to come is the server's view, or none is to come
and the rows are (`UpToDate`). Rows that a handler patches in place (a rule's toggle, the profile)
differ between the server's answer and the handler: `Matches` allows exactly that, and says
that the last patch of a row brings its value. Two pages patch, and theirs are the
lists that must have no second page (`Asks`), for a patch there could move a row across pages.
A click keeps this because new requests are clean or unsettling (`Appending`); an
answer because it is given from the rows there are, and what it overtakes is marked
(`ServeSettles`, `FailureSettles`); a handler because it is the turn of its request or the
excuse stands, and one that wrote asks for a list (`Owes`, `ThenSettles`; by kind of request
`ListInTurn`, `WriteInTurn`, `GetInTurn`, `PatchInTurn`). Page by page there are then three lemmas:
which requests it sends (`...Sends`), that its clicks keep it (`...Clicks`), and its
handlers (`...GoesOn`), where a write without its reload would be found. PublicBrowse
drops two requests when its tab is left, which is harmless only because there is one
showcase at a time (`OnlyShowcase`). The whole invariant is `ListsInv`.

ConsoleTypeCorrect rests on `TypesInv`. A handler puts what the server answered into a ref that it
chooses by the name of the request (`Op`), so the types of the refs depend on what was sent
under which name: `TypedReq` says what kind of request goes with a name (a name of `ListOps` asks
for a list, one of `RowOps` names a row), and so what its answer is (rows, a row's state, a
number). A form or a dialog is filled from such an answer only on the pages that have one
(`FormPages`, `DialogPages`); elsewhere the ref may be as empty as on the mounted page
(`TypedRefs`). On WebhookManagement and PackageExplorer the offers of the page depend on the dialog
in front, which must be one that the page can open (`DialogIsKnown`): otherwise there would be
no telling what a click may act on. Page by page there are three lemmas again
(`...SendsTyped`, `...ClicksTyped`, `...AnswersTyped`), and one says that every offer is about a row or
None (`OffersOfSome`). Between visits there are no requests and the refs are `Blank`.

**Only model-checked:** all liveness (RecoversForGood, ServesForGood,
RequestsAreAnswered, LoadsEnd, RuntimesCatchUp, StopReturns, PlanMovesOn, OverIsNoticed,
NavigationSettles), which TLAPS cannot handle. Every other property of the passing
runs is the statement of a theorem.

## Not modelled, and the plan

Done in this order: breaker and health check, blob store and sessions, proxy runtime,
repository manager, recalculation worker, the refinement of ArtifactStore, migration and
its wizard, the console's pages, session and assistant. To come:

1. `Batcher`: LogBatcher and DownloadCountBatcher (record, drain in three transactions,
   partial flush, Stop), and the webhook delivery queue with its retries.
2. `GroupRuntime` as a pure definition (ordered lookup, writable member); LRU and
   byte accounting of the memory cache.
3. The snapshot clean-up; uploads of several artifacts and their chunks of 500, of
   which a later one may fail after an earlier has committed.
4. Two plans migrated at a time (they share the executor's source); two tabs of one
   browser (they share localStorage).

Not planned: the S3 backend, HTTP routing and the remote client (I/O), package
format plugins (parsing), access control (decisions on one request), AI service and
MCP server (tool dispatch), configuration, schema; of the console, static pages
(help, about, API docs), charts, markdown and diagram rendering, form validation, clipboard and
downloads.
