# Formal models of PersonalPlatform

PersonalPlatform is a self-hosted platform: a Fastify backend with PostgreSQL that runs a
handful of apps (focus, mini game, notes, tasks, clock, assets), a React shell, WebDAV backups,
and continuous WebDAV sync of one user's rows between several servers. This directory holds
TLA+ models of its parts, the TLC configurations that check them and the proofs that TLAPS
checks. Paths below are relative to the repository.

Contents: [inventory](#inventory), [plan](#plan), [modules](#modules),
[runs](#runs), [bounds](#bounds), [fairness](#fairness), [proofs](#proofs),
[findings](#findings), [abstractions](#abstractions), [not modelled](#not-modelled),
[how to run](#how-to-run).

## Inventory

| part | state it keeps | operations | talks to | what is hard |
|---|---|---|---|---|
| Sync decisions `core/data-management/sync-protocol.ts` | none (pure) | reconcile, recoverPublication, focus suppression | called by the sync service | three-way merge with tombstones, high scores and reviewed deletions |
| Sync service `sync-service.ts` | `core.sync_bindings` (phase, lease, head, baseline, journal), `sync_row_state`, `sync_conflicts`, transfers | create, join, configure, unlink, cycle, resolve, status | WebDAV, the app tables, the write fence, the page's timer | two requests of one server, two servers on one head, crashes and lost answers between twenty awaits |
| Sync document `sync-document.ts` | objects in the collection | build, publish objects, reconstruct | transport, cache | a head must never name an object that is not there |
| WebDAV transport `webdav-http.ts`, `sync-transport.ts` | none | conditional GET and PUT, MKCOL, DELETE | the WebDAV server | ETag compare-and-swap, timeouts, late answers |
| Write fence `sync-fence.ts` | none of its own | read phase and base hash in the user's transaction | apps, sync bindings | ordering against the cycle's table locks |
| Sync files `sync-cache.ts`, `sync-retention.ts`, `sync-validate.ts`, `record-graph.ts` | cached objects, guarded files | stage, retain, sweep, interpret a plan | sync service, storage | sweeping what a cycle still needs |
| WebDAV backups `webdav.ts`, `incremental.ts` | backup lease, history, manifest objects | scheduled backup, restore, retention | WebDAV, scheduler | three writes on two systems, a lease that runs out |
| Snapshot `snapshot.ts`, `routes.ts` | none | export, merge of a chosen backup | database, storage | a commit whose acknowledgement is lost, files beside it |
| Platform runtime `core/platform.ts` | apps and the resources they registered, settings | boot, enable, disable, stop, settings routes | registry, scheduler, events, migrations | toggles of one app are not serialised, and each waits for writes and a migration |
| App registry `core/app-registry/*` | app records in memory and in `core.apps` | init, setEnabled, markError | platform | memory and database written apart |
| Scheduler `core/scheduler` | jobs and timers by owner | register, start, stop, stopByOwner | apps | duplicate ids |
| Event bus `core/events` | handler sets by event | publish, subscribe, unsubscribeByOwner | apps | delivery in a later microtask |
| Focus app `apps/focus` | sessions, task state | start, pause, resume, complete, cancel; a reconcile on read | fence, events | an expired session is completed by whichever request looks first |
| Mini game `apps/mini_game` | saved game, revision, high score; the page's queue | load, save, move | fence | overlapping saves of two tabs, a board computed in two layers |
| Notes, tasks, clock | rows and links between them | CRUD, counts of today, alarms that ring on a page | fence, time | a write against a cycle that applies the same row |
| Assets `apps/assets` | rows and attachment files, retry queue | upload, replace, delete, sweep | storage, fence | row and file share no transaction |
| Authentication `core/auth`, `frontend/src/shell/AuthContext.tsx` | users, sessions, login windows; whom the page shows | login, logout, change password, bootstrap, guard | all routes | first starts that overlap, an outage that looks like a sign-out |
| Time `core/time` | the platform's timezone | local day, settings change | settings, jobs, apps | days of 23 and 25 hours, stored and running zone apart |
| Storage `core/storage` | files by owner | move of files from before accounts | every start | a start that stops half way |
| Database, migrations, config, logging, health | schema | plumbing | everything | little |
| Sync controller `frontend/src/shared/sync.ts` | flights, generation, epoch, timers | status, cycle, resolve, arm | sync routes, Web Locks, BroadcastChannel | answers applied out of order, several tabs |
| Editor guard `frontend/src/shared/sync-guard-client.ts` | draft, hash, notice | reload, discard, save | record routes | a stale answer takes a draft |
| Shell: dashboard layout, app centre | layout, edit session, nicknames | drag, resize, show, hide, rename | settings routes | saves that overlap, clamping to another canvas |
| App pages | component state, the URL | focus timer, game board, alarms, searched and filtered lists | API | several observers, answers out of order, a box and a URL that follow each other |
| Backup scripts `scripts/*.ts` | archive files | backup, restore | database, storage | the database commits before the files are in place |

Correctness, by part:

* **Sync.** No user's edit is lost without a review; the stored heads form one history; a server
  never goes back behind a head it accepted; a server knows the head it stored itself; servers
  that keep cycling converge; the local focus timer is not disturbed; what a cycle decides can be
  applied; a row is published as deleted only if a user deleted it; files outlive their rows.
* **Backups.** A history row names a manifest whose objects are all there; an import can be retried.
* **Platform.** An app that is disabled has no jobs, subscriptions or answering routes; memory and
  `core.apps` agree; today is the local day of the zone that is set.
* **Apps.** A write presents all it replaces. At most one active focus session, completed once.
  An older board never replaces a newer one. A row and its file never part unseen.
* **Accounts.** An account with a real hash is never rewritten by a start; an outage signs nobody out.
* **Page.** A status that started before a newer local fact is not shown over it; a draft is saved
  as it was typed; cards never overlap; every observer of the timer agrees; a list answers the
  filters beside it.
* **Installation.** A start that stops anywhere, and a restore that stops anywhere, loses no file.

## Plan

1. *Done.* The protocol of continuous sync with its proofs; the life cycle of apps with its proofs.
2. *Done.* A module for each of the apps behind the write fence, the files beside rows, backups,
   import, accounts, the files and the record graph of sync, the sync controller, the editors, the
   page's session, timer, game, dashboard and nicknames, the scripts, the move of files, the
   platform's day.
3. *Done.* Proofs, for every value of the constants, of every invariant and action property that
   the runs check: the history of heads, the records behind the fence, backups, the files beside
   rows, accounts, the platform's day, the installation, the page.
4. *Next.* The theorems of `HistoryProofs` for crashes and stalls, which leave a journal but no stale
   head as long as no publication is retried.
5. `MergeRounds`: repeated merges of two or three servers with scores, reviewed deletions and first
   joins, without the protocol's steps, so that more rows and values fit; a PUT that arrives after
   its cycle ended; the login limiter's window.

## Modules

### Sync, platform

| module | what it is |
|---|---|
| `SyncProtocol` | the pure decisions: `Reconcile` (one action for each key), `InvalidHead`, `UnsafeFocus`, `RecoverPublication` |
| `ContinuousSync` | the protocol of the service: replicas, requests, the cloud head, faults; EXTENDS `SyncProtocol` |
| `HeadLog` | abstract specification: the heads are a log in which each entry extends the stored one |
| `SyncProperties` | the properties; `OneHistory` is `HeadLog!Spec` under a refinement mapping |
| `SyncInvariants` | the inductive invariant `Inv` behind the proofs |
| `AppLifecycle` | start, enable, disable and failure of apps: `platform.ts`, registry, scheduler, event bus |
| `SyncGraph` | the decisions of `SyncProtocol` made to fit together over parents, links and unique names; the outbound head; choices |
| `SyncFiles` | attachment bytes and cached objects beside the transactions of a cycle, and their retention |
| `ContinuousSyncProofs`, `AcceptedHeadProofs`, `HistoryProofs`, `AppLifecycleProofs`, `RecordProofs`, `BackendProofs`, `StoreProofs`, `PageProofs` | theorems, see [proofs](#proofs) |
| `MCContinuousSync`, `MCAppLifecycle` | values of the constants for TLC |

### State of `ContinuousSync`

| variable | code |
|---|---|
| `heads`, `cur` | every version of the mutable `head` object in the WebDAV collection; the ETag is its index |
| `rows[r]` | the user's rows on server `r`, by sync key |
| `rowState[r]` | `core.sync_row_state`: `base_hash`, tombstones, revive marks |
| `open[r]` | open rows of `core.sync_conflicts` |
| `binding[r]` | the `core.sync_bindings` row: phase, enabled, origin, head etag and document, baseline, pending publication |
| `lease[r]` | `lease_token`, and whether `lease_until` is ahead |
| `run[w]` | what request `w` (one call of `cycle` or `resolve`) holds in memory between two awaits |
| `edits`, `minted`, `spent` | bounds: user edits, publications, faults |

A semantic hash is represented by the projected row it is taken from, as two SHA-256 sums are
equal exactly when the rows are. `by` in a document is a history variable; the code does not store
which server built a head.

A request is cut where `sync-service.ts` awaits something that another request, another server, a
crash or the clock can come between:

| step | code |
|---|---|
| `StartCycle`, `FetchHead` | `cycle`: the lease; binding read, gate, conditional GET of the head, regression test |
| `PlanRecommit`, `PlanRetry`, `PlanMerge` | `decideRecovery`; capture, base hashes and `reconcile` |
| `Apply`, `Remember`, `Accept`, `Anchor` | the inbound transaction; `rememberConflicts`; `acceptInboundHead`; `anchor` |
| `Build`, `BuildStops`, `Journal` | `publicationSnapshot` with `buildSyncDocument`; the transfer budget; `journal` |
| `PutHead`, `PutHeadLost`, `PutHeadStopped`, `Confirm`, `Settle` | the compare-and-swap, 412, a failed gate, `confirmHead`, `anchorPublished` |
| `RetryPut`, `RetryPutStopped`, `RetryConfirm`, `RetryConfirmLate`, `RetryCommit` | `retryPending` and `commitBaseline` |
| `Finish` | `finish` and the release of the lease |
| `StartResolve`, `ResolveLease`, `ResolveFetch`, `ResolveWrite` | `resolve` |
| `LinkBegin`, `LinkDone`, `LinkAbort`, `Enable`, `Pause`, `Unlink` | `create`, `join`, `clearProbe`, `configure`, `unlink` |
| `Edit`, `Remove` | a user's write that passed the fence |
| `RequestFails`, `PutFails`, `PutHeadAckLost`, `RetryPutAckLost`, `ApplyAckLost`, `ResolveAckLost` | a request or its answer is lost; a commit's acknowledgement is lost |
| `Crash`, `Expire`, `CloudRollback`, `CloudLoss` | the server stops; nine minutes pass; the collection is restored or emptied |

Which faults a run may meet is the constant `Faults`, and how many is `MaxFaults`.

### `AppLifecycle`

| variable | code |
|---|---|
| `record[a]` | `AppRegistry.records`: `status` and `enabled`; the intent is `enabled`, the runtime state is `status` |
| `apps[a]` | the row of `core.apps`, `None` before it exists |
| `subs[a]`, `jobs` | what the app has registered with the event bus and the scheduler, by owner |
| `req[w]` | the await a `PUT /api/core/apps/:id/enabled` stands at, and what it has sent |
| `up` | the backend serves |
| `acked`, `clashed` | history: what the last acknowledged toggle asked for; whether since the start toggles of the app overlapped or one of its writes failed |

| step | code |
|---|---|
| `Boot` | `registry.init`, `registerApi` and the activation of the enabled apps; the read of `core.apps`, an upsert or a hook may fail |
| `Send`, `Update`, `UpdateFails` | `setEnabled` sends `persistEnabled`; the database executes it; it fails or its answer is lost |
| `Toggle` | the answer: the record is replaced, `releaseAppResources`, and the migration starts or the request returns |
| `Migrated`, `MigrationFails` | `migrateApp` is over: `activateApp` if the status is still `enabled`; or `markError` |
| `Persist`, `PersistFails`, `AfterError` | the upsert of `markError`; what follows it: the release after a failed hook, the second look at the status after a failed migration |
| `Crash` | the process ends; memory, jobs and subscriptions are gone |

Everything between two awaits is one step. The hooks of all apps in the repository register without
waiting, so `activateApp` is one step unless a hook throws; then the resources registered so far
stay until `markError` has returned. The start is one step too: the server listens after it.

### Apps behind the write fence

A transaction that takes the owner lock and its row locks first is one step; where a request does
something before or after it, that is a step of its own. Every write that a page sends names the
hash it was shown; `WriteFence!Presented` decides as `assertSyncBase` does.

| module | state ↔ code | steps |
|---|---|---|
| `WriteFence` | `fenced`: the phase of the binding. A hash is what it is computed from | `ToggleFence`; the modules below EXTEND it |
| `FocusSession` | `sessions`: `focus.sessions`; `focusReq`: where a request of `focus/index.ts` stands; `told`: published events | `Begin` reads the clock, `SyncState` locks and completes what is over, `StartSession`, `PauseSession`, `ResumeSession`, `StopSession`, `StartLost` (unique index), `Publish` |
| `LinkedRecords` | `text`, `tagRow`, `link`: notes or items, tags or categories, and their link table; `notePage`: what a page shows and the statement its write stands at; `posting`: items inserted and not committed; `theirs`: rows the cycle wrote while linked | a write is `LockParent`, `ReadLinks`, `Passes` (phase and hash), then `PatchNote`, `DeleteNote`, `DeleteTag` or `PatchCategory` with its commit; `PostItem` and `CreateItem`, `CreateTag` and `FindTag`, which take no such lock; the same of `assets/index.ts`; `ApplyRow` (a cycle) when no request holds the tables |
| `TaskRecords` | `task`; `taskPage`: the row a page showed and the event its request owes | `CreateTask`, `PatchTask` (merged with the locked row), `PublishCompleted`, `DeleteTask`, `ApplyTask` |
| `ClockRecords` | `place`: `sort_order`; `settings`: a row that may not exist yet | `AppendClock`, `ReorderClocks`, `RemoveClock`; a save of settings in two steps, the check and the write |
| `AssetFiles` | `rows`, `files`, `jobs`: attachments, storage, `cleanup_jobs`; `assetReq`, `sweep` | `UploadCheck`, `UploadSave`, `UploadInsert`; the removal of rows, then of files, then the queue; `DrainJob`; the sweep's probes; every call may fail, `AssetCrash` |
| `GameSaves` | `row`: the saved game; `tab`: `inflight`, `queued`, `hold` of a page | `PutSave` (hash check, then revision guard), `SaveAnswered`, `RefuseSave`, `GetSave`, `Loaded`, `Move`, `OtherSave` |
| `AlarmClock` | `alarm`: `clock.alarms` with hashes; `alarmPage`: the mounted page, its list, `now`, `firedKeys`, the run of `useAsync`; `alarmCalls`: requests and answers under way | `Pass` (time), `Tick` (the page's timer, late in a hidden tab), `OpenClock`, `CloseClock`; `ServeAlarms`, `AlarmsArrive`, `AlarmsFail`; `toggle`, `SaveNew`, `SaveEdit`, `RemoveAlarm`; `ServeAlarm`, `AnswerComes`, `CallFails` in any order; `Elsewhere` |
| `TodayCounts` | `tasksTable`; `question`, `segment`: the statements answered so far | one step for each statement of `GET summary` and of `GET public/status`; writes and time between them |

### Platform, accounts, backups, installation

| module | state ↔ code | steps |
|---|---|---|
| `Accounts` | `users`, `signedIn`: `core.users`, `core.sessions`; `boot`, `login`: the query a call stands at | each query of `ensureBootstrapAdmin` and of `login`; `logout`, expiry, purge, `createUser`; `BootstrapDies` |
| `PlatformDay` | `zoneSetting`: the stored setting; `timezone`: `PlatformTimeService.current`; `jobZone` | `StoreTimezone` and `setTimezone` apart, `RestartPlatform` with or without its read; the arithmetic of `core/time/index.ts` as operators |
| `Backups` | `target`: destination and lease; `remote`: files of the directories; `backups`: `core.backup_history`; `run` | `ClaimLease`, `Export`, `ReadPrevious`, `ConfirmObject`, `SendObject`, `SendManifest`, `RecordBackup`, `FinishRun`; `LeaseExpires`, `RunDies`, `FileLost` |
| `SnapshotMerge` | `db`, `disk`; `import`: the rows the transaction would commit and the files it staged | `MergeBody`, `MergeCommits`, `CommitUnknown`, `BodyFails`, `Cleanup`, `MergeCrash`; users write between imports |
| `SyncGraph` | `store`, `known`, `dispute`: rows, `sync_row_state`, `sync_conflicts` of a device; `head` | `Cycle` (decide, `interpret`, apply, publish), `KeepRemote`, `KeepDeletion`, `Revive`, `KeepLocal` |
| `SyncFiles` | `placed`, `stored`, `cache`, `refs`: the row's key, storage, the set of `.sync` objects, what the binding refers to; `syncReq` | `StageFile`, `CommitFiles`, `RollBack`, `OutcomeUnknown`, `RetireFile`, `PutObject`, `CollectRefs`, `PlanPrune`, `RemoveStale`; `LeaseRunsOut`, `CrashRequest` |
| `StorageMove` | `old`, `new`: files in either place; `marker`; `mover` | `ListApp`, `Rename`, `Copy` and `UnlinkOld` (across devices), `RemoveTree`, `RemoveRoot`, `SetMarker`, `MoveFails`, `Restart`, `Rewrite` (the owner) |
| `RestoreScript` | `db`, `tree`, `backup`, `stage`, `retained`; `script` | `CreatePart`, `Preflight`, `snapshotIfPresent`, `Psql`, `Install`, `Finish`, each with its failure and `ScriptCrash`; the scanner of a dump as an operator |

### The page

| module | state ↔ code | steps |
|---|---|---|
| `SyncPage` | `ctl`: the fields of `SyncController`; `pull`, `peer`, `lane`, `work`: what is under way | `Start`, `Nudge`, `Refresh`, `UserAsks`, `BeginCycle`, `Arrives`, `Hint`, `AdoptPeer`, `TimerFires`, `PageTick` |
| `RecordEditor` | `editor`: fields, dirty, hash, notice; `listed`: the last fetch; `fetch`, `saving` | `Type`, `ReloadDraft`, `FetchArrives`, `Save`, `SaveDone`, `SaveRefused`, `OthersWrite` |
| `FocusView` | `view`: the refs of an observer of `useFocusState.ts`; `read`, `late`, `request`; `claimed` | `Load`, `LoadArrives`, `LateArrives`, `Dispatch`, `Verify`, `OtherDocument` |
| `FocusAlerts` | the fields of `AlertController` (`useFocusAlerts.ts`): `soundOn`, `notesOn`, `context`, the two epochs, `ledger` (`claimed`), `notices`; `resuming`, `asking`: what the browser was asked | `Subscribe`, `UnsubscribeLast`, `enableSound`, `muteSound`, `Resumed`, `enableNotifications`, `Prompted`, `announce`, the browser's own changes |
| `Tiles2048` | `tiles`: what `apps/mini_game/logic.ts` keeps | `Play(d)`: `applyMove` and the spawn; `moveBoard` is the other layer |
| `DashboardLayout` | `stored`, `parsed`, `draft`, `resizing`, `saves`, `canvas` | the handlers of `Dashboard.tsx`; clamp, repair and placement of `dashboardLayout.ts` as operators |
| `PageSession` | `gate`: `AuthContext`; `jar`: the cookie; `live`: sessions; `calls` | `refresh`, `signIn`, `signOut`, `api`, their answers in any order, `DatabaseAway`, `Lose`, `OtherTab` |
| `AppShelf` | `nicknames`: a setting; `shelf`, `loads`, `editing`, `puts` | `Retry`, `SettingArrives`, `save`, `reset`, `Saved`, `PutFails` |
| `FilteredList` | `queued`, `drawn`, `ran`: the state of a list page (URL, search box, debounced word, list, error) as set, as rendered, as the effects saw it; `debounce`; `listRequest`; `reloading`; `table`: the rows; `dropping`: the deletion of a category | `Search`, `setParam`, `resetFilters`, `Navigate` (back, forward, a link), `DebounceFires`, `Render` with or without the URL's transition, `Effects`, `ServeList`, `ListArrives`, `ListFails`, `RetryList`, `RefreshList`, `ConfirmDelete` and its answer, `WriteRow` (others) |

### Compositions

`MCBackend`, `MCStores` and `MCPage` put the components of one side together. The components share
the database or the document, and none of the state that a property here depends on: apps keep
their rows in schemas of their own and write under the owner's lock of their own records, and what
they do share, the phase of the sync binding, is a variable of `WriteFence` that each of them may
find changed at any time. A behaviour therefore exercises one part (the variable `part`, chosen by
the initial state), so that the states of the parts add up and do not multiply.

## Runs

State counts are distinct states; two TLC workers.

| run | question | states |
|---|---|---|
| `cas_race` | two servers race for the head, an acknowledgement is lost: no lost update, one history, no silent loss | 154 000 |
| `cloud_restored` | two requests of one server; the collection is rolled back or emptied, the link dropped and made again, requests crash and stall | 612 000 |
| `settles` | liveness: servers that keep cycling converge | 65 000 |
| `backend` | platform, focus, links, tasks, clocks, backups, merge, accounts, files, graph | 1 132 000 |
| `stores` | assets, game, move, script, day, counts | 548 000 |
| `page` | sync, editor, tiles, focus, alerts, dashboard, session, shelf, list, alarms | 2 253 000 |
| `unpublished_base` | findings 1, 2 | violation |
| `journal_replaced` | finding 3 | violation |
| `two_timers` | finding 4 | violation |
| `error_keeps_jobs` | finding 5 | violation |
| `held_rows_deleted` | finding 7 | violation |
| `timer_lost` | finding 8 | violation |

What the properties say, and of which code:

Sync

* `TypeOK`, `HeadsOK`: the type invariant and the main conjunct of the inductive invariant.
* `Provenance`: a cycle merges the document its etag names, through every 304
  (`MergedHeadIsCloudHead`); the server that stored the current head has accepted or journaled it,
  so a lost answer is recovered instead of being merged as somebody else's edit (`OwnHeadKnown`); a
  base hash belongs to a version some head held (`BaseWasPublished`): a merge calls a row
  "unchanged since the last sync" when it equals its base, so an unpublished base loses an edit.
* `NoSilentLoss`: sync replaces or deletes a local row only if a head holds that version or the
  user chose so in a review.
* `NoLostUpdate`: a publication replaces a cloud row only with the replaced version as its base.
* `AcceptedMonotone`: a linked server's accepted head never goes back and never changes within one
  generation.
* `OneHistory`: the published heads refine `HeadLog`.
* `Settles`: after the last edit the rows of every server without an open conflict are the cloud's.
* `Appliable`: what `interpret` and the marks of deletions taken back leave of a plan is a graph that
  can be applied: parents there, names unique. A plan that is not answers 422 in every later cycle.
* `SyncFilesKept`: the row of an attachment has its file, and the object of an open conflict is in
  the cache, through lost commits, crashes and retention.
* `OnlyUsersDelete` (finding 7), `JournalRetained`, `ImportsOneActive`.

Platform

* `DisabledIsQuiet`: a disabled app has no job and no subscription, whatever overlaps.
* `RunsWhileEnabled`: when the toggles of an app are over, the API and `core.apps` tell the same of it,
  and exactly an app that shows `enabled` runs.
* `IntentKept`: `core.apps` keeps what an acknowledged toggle asked for.
* `TodayFollowsSetting`: on every tick of the days around a change of clocks, the local day is the
  interval between two local midnights that holds now, but for two cases (`ExtraTick`, `TwoMidnights`);
  and the running zone is the stored one.
* `BootstrapOnce`: no start rewrites a real hash or changes an active admin.

Apps

* `SessionsEndOnce`: at most one active session; an end is told at most once, after its commit.
* `NoBlindWrite`: a page whose hash passed erases no row or link it did not show, and no page, with a
  hash or without, one that the cycle wrote while linked. The rows are those the write meets some
  statements after the comparison, while POST items and tags, other pages, the cycle and the link
  itself move; the locks have to keep them as they were read.
* `PatchesAgree`: patches that cross leave a valid interval and announce a completion once.
* `ClockWritesOrdered`: appends that overlap take two places; a save that finds no row yet does not
  overwrite another's.
* `FilesAccounted`: a row never misses its file and a file its row, but for what the queue names or
  a request still holds. `DanglingRowsGo`: a row that does miss its file is swept.
* `GameNotStolen`: a game is replaced only by a page that loaded or wrote that very row.
  `BoardSentOrHeld`: a board that waits behind a save goes out or is held with its badge.
* `RingsAsAnnounced`, `SpentAsRung`: an alarm rings at the occurrence the page announced; a one-shot
  alarm that rang is off or gone, or was set since the version that rang, unless its request is under
  way, or was lost and the alarm has not rung again. A request that is refused (409) has missed nothing.
* `CountedOnce`: the statements of a count put a row nobody writes meanwhile in one segment.

Backups and installation

* `BackupsRestorable`: what the history shows can be restored, and later rows hold later data.
* `RetrySafe`: however an import ended, merging the same backup again adds nothing.
* `SchemasFound`: the scanner of a dump finds the schemas it declares and no other.
* `RestoreRecoverable`: a torn tree or a loaded database always has its whole copy beside it.
* `FilesMoved`: no start that stops anywhere loses a file of the old layout.

Page

* `PeerReadNotOlder`: a read that another tab asked for never covers a newer local status.
* `DraftsHonoured`: an accepted save changes only fields edited in its draft, and a fetched record
  takes the place of an edited draft only after a reload asked for since the last edit.
* `TilesAgree`: both layers of a move compute the same board, on every board a game reaches.
* `ObserversAgree`: no observer goes back to an older state; an end is announced once; no late answer
  of the browser turns a sound or a notification on (`AlertsAsChosen`), and no session is announced
  again while the controller has room to remember it (`AnnouncedSeldom`).
* `CardsDisjoint`: no two cards overlap, none is lost, on any canvas and from any saved format.
* `OutageKeepsUser`: a page turns anonymous only by a sign-out or by an answer to a request without
  a live session.
* `EditsKeepOthers`: an edit of one app's name leaves the names of the others.
* `ListFollowsFilters`: the list on the screen answers the filters on the screen, however answers,
  renders and the debounced word cross; "nothing yet" is said only to who has nothing; and when all
  is over box, URL and list agree.

Where a property makes an exception it is a history variable, set by the step that causes it, and
the exception is a finding or a promise the code does not make:

| exception | of | set by |
|---|---|---|
| nobody unlinks, no roll back | `OwnHeadKnown`, `NoLostUpdate`, `OneHistory` | the run has no such fault: an unlinked server forgets its journal, a rolled back one is another history |
| no lost PUT request | `MergedHeadIsCloudHead` | finding 1 |
| `clashed` | `RunsWhileEnabled`, `IntentKept` | toggles of one app that overlap, or whose write failed: they may be answered in another order than they were executed in; `IntentKept` also drops a start that could not read (finding 6) |
| `overtaken` | `CardsDisjoint` | a card shown during a resize (finding 10) |
| `unspent` | `SpentAsRung` | a PATCH that was lost, until the alarm rings again (finding 11) |
| `unread` | `FilesMoved` | a directory that could not be listed (finding 12) |
| `unanswered` | `FilesAccounted` | an upload whose commit succeeded and was reported as a failure: its compensation removes the file of a row that is there, and the sweep ends that |
| `leaked` | `FilesAccounted` | a crash, or a failed write of the queue, between a file and its row (finding 13) |
| `overran` | `SyncFilesKept` | a request that prunes after its lease (finding 15); such a behaviour ends |
| `MarkedAgain` (of the state, no history) | `Appliable` | a `revive` mark that outlived its review meets another deletion (finding 21) |
| `sound` | `EditsKeepOthers` | an edit on a list that was not loaded (finding 16) |
| `unsent` | `ListFollowsFilters` | a word that is typed again within the 250 ms after the filters were reset or a link was followed, so that the debounced value never changed; a control that is clicked while a change of the URL is not rendered yet, as `setSearchParams` starts from the URL of its render |
| `doubt` | `RestoreRecoverable` | a commit that psql reports as a failure (finding 17) |
| `ExtraTick`, `TwoMidnights` | `TodayFollowsSetting` | the last hour of a day of 25 (finding 18); the two days beside a midnight that comes twice. `WhereDaysAreExact` proves that the code is wrong there and nowhere else |
| `drifted`, `hotApplied` | `TodayFollowsSetting` | changes that overlap, a failed read, a job registered before (finding 19) |
| `touched` | `CountedOnce` | a row written between two statements (finding 20) |
| `excused` | `BackupsRestorable` | a file that disappeared after the run had seen or sent it |

`CHECK_DEADLOCK FALSE` in the configurations of the composed runs and of the platform: nobody has to
do anything more, and the bounds end every part.

## Bounds

| constant | values | why it is enough |
|---|---|---|
| `Keys` | 1; 2 in the findings about two rows | keys are merged independently; only the focus rule and `InvalidHead` relate two, and `SyncGraph` has those that depend on each other |
| `Bodies` | 2 (symmetric); 1 for liveness | a base, a local and a remote version differ pairwise with two bodies and absence |
| `Replicas`, `Workers` | 1-3 servers, 1-2 requests of one server | a race needs two actors; the third focus server is the one that imports both |
| `MaxEdits` (sync) | 2 to 4 | an edit on each side, and one after a capture |
| `MaxOps` | 3 to 5 | a publication, its retry and a successor; reaching it ends a cycle as an exhausted transfer budget does (`BuildStops`) |
| `MaxFaults` (sync) | 0 to 2 | a fault, and another during its recovery |
| `Apps`, `Requests`, `MaxToggles`, `MaxFailures` | 2, 2, 4, 2 | two requests overlap on one app, or do not disturb each other on two; a failed hook or migration and a crash, or a failed write beside either |
| `FocusRequests`, `Durations`, `LastSecond`, `MaxDelay` | 2, {2}, 2, 1 | a session that ends while both requests look, with clocks read before and after its end |
| `Notes`, `NotePages`, `TagNames`, `MaxTagRows` | 1, 2, 1, 2 | two links of one note, one of each tag; two pages that write it at once or create a tag of one name, beside an item that is posted |
| `Tasks`, `Instants`, `MaxWrites` | 1, {1, 2}, 3 | an interval that either of two patches may invert, and a write after both |
| `WorldClocks`, `MaxPlace`, `MaxSaves` | 2, 3, 2 | two appends at once; two first saves of settings |
| `BackupRuns`, `BackupObjects`, `MaxRemoteFaults` | 2, 2, 1 | a run that outlives its lease beside its successor; an incremental backup that shares one object |
| `MergeTags`, `MergeNames`, `StagedKeys` | 2, 2, 2 | a tag of the backup that exists under another id; a retry draws another key |
| `Owners`, `LoginNames`, `Passwords`, `Bootstraps` | 3, 2, 2, 1 | the placeholder, an account and another; names and passwords that change between starts |
| `SyncRequests`, `MaxKeys`, `MaxSyncFaults` | 2, 2, 2 | a file and its replacement; a stall and a crash |
| `Devices`, `ItemIds`, `CategoryIds`, `Names` | 2, 1, 2, 2 | a link with both parents; two categories that exchange names |
| `Attachments`, `AssetRequests`, `MaxAttempts`, `MaxStorageFaults` | 2, 2, 2, 2 | a replacement; a retry that gives up (5 in the code) |
| `Tabs`, `MaxBoards` | 1, 3 | one page and `OtherSave`, which is every other one |
| `Minute`, `DayMinutes`, `Week`, `MaxTime` | 2, 2, 2, 5 | an occurrence missed within and after its minute, on the same day and the next |
| `MovedApps`, `MovedNames` | 2, 2 | a tree removed while another is not |
| `MaxPieces`, `MaxScriptFaults` | 2, 2 | the end of one quote or comment and the beginning of the next; a failure and a crash in its recovery |
| `DayLength`, `Changes` | 8, {16, 19, 22, 23} | clocks change at midnight, an hour around it, and at noon, by one tick either way; asked on every tick of six days |
| `CountedTasks`, `DayTicks`, `Opening`, `Closing` | 2, 2, 2, 4 | a task of yesterday, today, tomorrow; the day ends under the request |
| `SIZE`, `MaxTile` | 3, 8 | 4 in the code: three cells in a line show the order and that a tile merges once; two pairs in one line need four and are not covered |
| `Observers`, `MaxVersion` | 2, 3 | one document's two observers, a state before, at and after the end |
| `Listeners`, `Verified`, `LedgerLimit`, `MaxEpoch` | 2, 2, 1, 2 | 512 in the code: a session that is forgotten when another is announced; a choice, and one that makes its answer stale; an observer that leaves the other |
| `CardCount`, `CanvasUnits`, `MaxRow` | 3, {3, 5}, 0 | a canvas narrower than the layout, so that cards are pushed and shrunk |
| `Calls`, `MaxLogins`, `MaxOutages` | 2, 2, 1 | an answer of the old session after the new sign-in |
| `ShelfApps`, `Nicknames`, `MaxRefreshes`, `MaxPuts` | 2, 1, 1, 2 | an edit beside another app's, a first load that is later than a refresh |
| `ListPages`, `Words`, `Labels`, `DeepLinks`, `Tables` | 3, 1, 1, 2, 2 | each page's own rules; a word, and none; no filter, and a link with all of them, one that no control sets included; no row, and one that all of them select or refuse |
| `MaxTurns`, `MaxListWrites`, `MaxListFaults` | 2, 1, 1 | a word and what crosses it; a write the page is told of, during a request; a request that fails |
| `EditorKinds` | an item | an item sends its columns always, as a task and an alarm do, and its categories when they differ, as a note does its fields |
| `MaxLane`, `Interval`, `MinDelay`, `FollowLimit` | 1 each | one work behind the one that runs; the waits that the code tells apart |
| `MaxKept` | 0 | 64 in the code: retention keeps nothing but what is protected, the case that shows what is |
| `MaxSessions`, `MaxRevision`, `MaxText`, `MaxFocusIds`, `MaxStatus`, `MaxScore` | 1 to 3 | versions and places: the state a page knows, the one after, and one more where a third writer matters |
| `MaxAlarmEdits`, `MaxCountWrites`, `MaxGraphEdits`, `MaxOthers`, `MaxUserEdits`, `MaxChanges`, `MaxZonePuts`, `MaxSession` | 1 or 2 | a write of another between two steps, and one of one's own |
| `Alarms`, `Minute`, `DayMinutes`, `Week`, `Schedules`, `MaxTime`, `MaxMounts` | 1, 2, 2, 2, 2, 6, 2 | alarms touch nothing of each other; a tick within the minute and one after it, midnight in between, a one-shot alarm of the last minute that comes twice, an alarm of every other day; a page left and opened again. The proofs take any |
| `MaxAlarmFaults`, `MaxMoveFaults`, `MaxShelfFaults`, `MaxZoneFaults` | 1 or 2 | a failure, and in the move another in its recovery |
| `MaxAttempts`, `MaxPasses` (sync) | 1, 1-2 | 5 and 3 in the code: a cycle only needs to run out of them |

`Scores = {NoScore}` in `ContinuousSync` (`ScorelessAssumption`): merging scores is left to
`SyncProtocol` and the planned `MergeRounds`. The parts of one composed run share a constant where
they have the same name for it.

## Fairness

* `FairSpec` of the sync protocol adds weak fairness of a worker's `StartCycle`, `CycleStep` and
  `ResolveStep`, and of the expiry of a lease whose holder is gone. The page re-arms a timer after
  every cycle (`frontend/src/shared/sync.ts:419-460`), so a signed-in, open page starts cycles
  forever; a request that is not stopped continues to its next await; a lease runs out by the clock.
  Nothing is assumed about users, links or faults. `Settles` is stated for behaviours in which
  nobody reviews a conflict at the end (`Unreviewed`), and reads "eventually always" for servers
  that stay enabled.
* `AssetFairness`: the sweep, which the scheduler starts every hour and shortly after each start
  (`backend/src/apps/assets/index.ts:1190-1207`), goes on to its next row. Nothing is assumed of requests
  or of the storage; a probe that fails is a step of its own, and the faults are bounded.
* `GameFairness`: the server answers a request of the page, and the page handles the answer.
* Everything else states safety only, and assumes no fairness. `timer_lost` shows what happens
  without a timer, as an invariant: a page with nothing under way and no timer.

## Proofs

`ContinuousSyncProofs` and `AcceptedHeadProofs` hold for every set of keys, bodies, replicas,
requests and faults and every bound, from the named assumptions of the modules
(`HomeAssumption`, `FaultsAssumption`, `BoundsAssumption`, `NoneAssumption`,
`ScorelessAssumption`, `ScoresAssumption`, `FocusAssumption`), which TLC evaluates in every run.

The inductive invariant is `Inv == TypeOK /\ RequestsOK /\ UnlinkedOK /\ HeadsOK`.

* `TypeOK` is not inductive alone: an action that dereferences a fetched head, a document or a
  journal needs it to be there. `RequestsOK` says which step has which; `UnlinkedOK` says an unlinked
  server has accepted nothing and holds no lease. `TypeCorrect` proves the three together.
* `AcceptedMonotone` fails from an arbitrary typed state: a request holds the head it fetched
  through a dozen awaits, and writes it into the binding at the end. `HeadsOK` says that what the
  lease holder has fetched follows all that the binding has accepted (`Follows`), that what it is
  about to publish is strictly newer (`Precedes`), and that head and baseline of one generation are
  one document (`Consistent`).
* It is preserved because only a lease holder writes head or baseline. Each action has a lemma
  `...Kept`. Those that write neither go through `QuietStep`; those of the holder through
  `HolderStep`, which asks for the action's own claim only; `TakeLease` covers a new holder, whose
  `fetch` step claims nothing yet.
* `HeldHeadFollows` and `AcceptedNeverRegresses` follow from `InitInv` and `StepKept`.

`AppLifecycleProofs` proves every invariant of the app life cycle for any apps, requests and bounds, from
`AppsAssumption`. Its inductive invariant is
`LInv == TypeOK /\ ServingOK /\ DisabledIsQuiet /\ \A a : AppOK(a)`.

* `RunsWhileEnabled` and the others speak of apps nobody is toggling, so a request that returns must
  have brought its app there: `Fits` says, for each await, what a request that is alone on its app
  has achieved (the row is ahead of the record at `updated`, both agree and nothing is registered at
  `migrate`, and so on). `AppOK` says an app that did not clash has one request at most, which fits,
  or none, and then it is settled.
* A step of a request touches one app (`Local`), so the others stay right (`Others`, `Frame`); the
  touched one is right by `Stays` if the request waits on and by `Leaves` if it returns. `ServingOK`
  says a request that waits is about an app and that a running server knows every app.
* The lemmas `...Kept` are one per action; `LifecycleInductive` combines them.

`HistoryProofs` proves that the heads are one history (`HeadsAreOneHistory`, step by step along the
refinement mapping of `OneHistory`), that nothing is lost on the way into it (`NothingOverwritten`,
`NothingLost`), and where each merged head and each base comes from (`MergesAreTraced`,
`HeadsAreTraced`), for any replicas, requests, keys, edits and publications.

* They assume `Answered`: the fault set has no lost request, crash, stall, roll back or loss of the
  collection. Answers and commit acknowledgements may be lost, networks fail, links be paused, dropped
  and made again. Each exclusion is needed: a lost request or a crash leaves a journal that was not stored,
  whose retried PUT ends in the stale head of finding 1; a stalled request works on beside the next
  holder of its lease; a collection that goes back has two histories. `cloud_restored` checks what holds with
  them. `HeadsAreTraced` also assumes that nobody unlinks: an unlinked server forgets that a head is its own.
* `HistoryInv` says that each active request holds its replica's only lease (`Leased`), that an
  operation is stored once and two that are being published differ (`OpsOnce`), that head, etag,
  journal, bases and conflict images of a binding come from stored heads (`ReplicaKnows`), and what a
  request relies on at each await (`KnowsAt`): the plan overwrites and replaces only what the base
  names (`PlanSound`), and the built document extends the fetched head (`DocSound`). The compare-and-swap
  then turns "the fetched head" into "the stored head".
* `OwnInv` adds that no head after the fetched one is the fetching replica's (`OwnsAt`).

`RecordProofs`, for any records, pages, tabs, requests and writes:

* `NoBlindWrite` needs what each transaction has read to stand until it writes (`ReadsStand`): after
  the parent is locked its columns are as read, after the links are read they too, and no posted item
  that is not committed names a locked tag. The last is why the foreign key check of an INSERT that
  takes none of these locks must wait for `FOR UPDATE`. `LinksStayJoined`: the links that statements
  leave behind have both ends.
* `TaskInv`: the completions not yet published are as many as the requests that are about to publish
  one (`Owed`), which makes `PatchesAgree` inductive. `ClockInv`: places are bounded, and the one
  request in its transaction presented what is still stored (`OneSaves`). `GameInv`: a page that has
  no hash has no revision either, so what it may replace is a game it loaded or wrote (`Knows`).
* `BackupInv`: what a run has seen or sent is there unless it disappeared since (`RunSent`); who still
  has the lease exported what is as new as anything recorded (`AgesInOrder`).

`BackendProofs`, for any requests, rows, processes and contents:

* `FocusInv`: the request that holds a row holds it alone and the row is active (`RowsHeld`); what a
  request has still to tell has ended, is untold, and is nobody else's to tell (`TellsOnce`).
* `AccountsInv`: where a bootstrap stands says what its earlier queries found and what still holds.
  `BootstrapWritesOnce` assumes that bootstraps do not overlap (finding 14).
* `FilesInv`: staged keys are apart from each other (`StagedApart`), and whoever has the lease can
  count on what it read (`Holding`), until a request outlives its lease (finding 15).
* `MergeInv`: what a commit whose answer is unknown would leave already covers the backup (`Covered`).
* `GraphInv`: the rows of each device and of the head are well formed (`RowsFit`, `HeadFits`), the
  cloud image of a conflict is a row, and an image under another key means two categories. The rest is
  what one cycle computes from such rows. `InterpretSettles`: every pass of `interpret` that changes something
  turns one more decision into a conflict, so a pass that changes nothing comes after as many as there
  are keys (`Counting`, an induction over an interval in first-order terms), and its decisions are
  those of the plan or conflicts. `SettledFits`: decisions that no pass defers leave parents for
  children and names unique, row by row from what `Reconcile` may decide of a row (`PlannedFor`).
  `RevivedFits`: taking deletions back changes that only where `delete-local` was decided, which is
  what `MarkedAgain` excepts: a conflict without a cloud row keeps the local row either way.

`StoreProofs`, for any files, attachments, alarms, schemas, tasks and zones:

* `MoveInv`: a file that is not whole in its new place is still in the old one (`NotYetWhole`), within
  sight of a later start (`OldInSight`). `AssetInv`: `RowsHeld` and `OrphansNamed` for each await of
  each request. `RestoreInv`: both trees are staged before the dump is loaded
  (`StagedFirst`), and what a run left undone is in a directory that stayed (`LeftRecoverable`).
  The dump never changes, and `PieceScanned` walks the scanner over each kind of piece: it ends where
  it began, and only a declaration adds a schema. `Recursion` gives the text of a dump and the states
  of its scan as functions, and `Counting` takes the claim from piece to piece (`FoundAreDeclared`).
* `AlarmInv`: hashes are never reused, neither by a row nor by an old list or answer (`RowsBelow`,
  `PageBelow`), so two equal hashes are one version; and none that a page knows or rang is newer
  than the row (`Newest`); an alarm that is on is in the version in which a user or a device set it
  (`OnAsSet`); a ring is followed by its request, in every order of lists, writes and answers
  (`FireKeeps`, `RowsStay`, `RowReplaced`). `RingInv`: nothing that is due on a page is left unrung,
  also when a list arrives within the minute, so an alarm in its minute at a tick came due after the
  tick before; with the arithmetic of `nextAlarmOccurrence` (`Announces`, `Announced`) that is
  `RingsAsAnnounced`, for days, weeks and minutes of any length.
* `CountInv`: each segment tells of an untouched task what the question put to it. `ZoneInv`: a
  change of the setting that met no other is the only one at each of its awaits; `WhereDaysAreExact` is
  the arithmetic of the day, for days of any even length and one change of the clocks at any instant:
  right everywhere (`ZoneIsExact`) but in the two cases above, and wrong in both (`LastTickIsWrong`,
  `TwoMidnightsAreWrong`).

`PageProofs`, for any answers in any order:

* `SyncPageInv`: nothing the page holds is newer than the server, and a fresh read of another tab is
  no older than what is shown (`NothingNewer`); the lane holds one adoption (`AdoptOnce`).
  `FocusViewInv`: each answer under way is as new as its view (`ReadsInOrder`). `EditorInv`: what was
  not edited is what the hash stands for (`Coherent`). `SessionInv`: a 401 under way carries a cookie
  that is dead (`CallOK`). `ShelfInv`: with nothing in flight the page has the setting itself, and of
  the edits under way one at most is sound (`SoundPuts`).
* `AlertsInv`: an answer of the browser that carries the current epoch was asked for by the user's
  last choice (`SoundAsked`, `NotesAsked`), and a session stands in the ledger as many places from its
  end as claims have followed (`LedgerHolds`), so what is still to be remembered is found there.
  `TimerIsHonest` states it together with `FocusViewInv`: the two machines share no variable, and
  what a verification needs of the controller is in `Claims`.
* `ListInv`: what is drawn, set, asked and answered is of the URL that each was made for
  (`ListMatches`); a change the page was told of is in the list, in the coming answer, or a run is due
  (`ListIsDue`); while box and URL disagree a word is on its way from one to the other
  (`WordIsKnown`).
* `TilesPlaced`: every tile has an id and a cell of its own, so a line of the board names each tile once
  (`Owned`, `Short`). The fold of a line in `logic.ts` and that of `tiles.ts` then run alike
  (`Alike`), step by step, and the rotation before and after is one-to-one on the cells (`CellOnce`).
  The gain of a move is summed from either end of the line (`TotalReversed`).
* `LayoutInv`: the working copy places the enabled cards that it does not hide, apart from each other
  unless `overtaken` (`DraftSound`), and a live resize that was found free still is (`ResizeSound`),
  which is what `commitResize` relies on; a setting gives rectangles to cards that it does
  not hide (`SettingSaved`), whether they overlap or not: what is shown is apart because of what is
  computed from it (`EffectiveApart`), by repair and completion, which find a free place below the
  stack at the latest (`FreePlaceFound`), or as rows that are justified (`GeneratedApart`).
  `RecursionIn` gives each of these recursions as a function whose values stay in a set.

The bounds of the runs appear in these proofs as constants in `Nat` at most; no proof uses their
values. Where the least or greatest of a set is taken, `WellFoundedInduction` gives it.

Only model-checked is liveness (`Settles`, `DanglingRowsGo`, `BoardSentOrHeld`), which is out of the
prover's reach.

## Findings

1, 2, 3, 4, 5, 7 and 8 are runs that end with a counterexample. The others were met while a
property of a passing run was stated: it excepts the case by a history variable, a predicate or a
bound, and is violated without it. Lines are of the code, quotes of what they contradict.

1. `unpublished_base`. `sync-service.ts:360` stores the etag of a retried PUT and leaves
   `head_document` alone. The next GET sends that etag, gets 304, and merges the document from before
   the PUT. `doc/worklists/WEBDAV_CONTINUOUS_SYNC_WORKLIST.md:40` says a 304 means the cloud copy is
   unchanged.
2. `unpublished_base`. After the retried PUT `commitBaseline` (`:734`) takes the local rows of the
   moment as bases. With the stale head of finding 1 a later merge reads a newer local edit as
   unchanged and overwrites it.
3. `journal_replaced`. When the rows moved on after a publication was journaled the worklist
   (`:58`) says the pending operation is retained; the cycle merges on and journals another over it.
4. `two_timers`. Two active focus sessions of two servers arrive together at a third one:
   `suppressUnsafeFocus` (`sync-protocol.ts:282`) compares them only with the local session, so
   both are planned and the unique index refuses the transaction in every cycle.
5. `error_keeps_jobs`. A failed migration marks the error and releases nothing
   (`core/platform.ts:256`), though `doc/APP_DEVELOPMENT.md:122` says it does. Of two overlapping
   enables one has activated the app by then, and its job runs on for an app in error.
6. `IntentKept`. `loadPersisted` (`registry.ts:174`) answers a failed read with no rows, so
   every app looks new and its default is written over the intent of the administrator.
7. `held_rows_deleted`. `droppedChildren` (`sync-service.ts:1430`) publishes as tombstones the rows
   that are only held back by a conflict of their name; line 1457 says they stay out of the head.
   A renames category c1 from n to m, B publishes c2 named m, and A's next cycle deletes c1.
8. `timer_lost`. A page that adopts the status of another tab when its next cycle is due arms with
   a delay of 0 (`sync.ts:604`), which sets no timer and leaves the cycle to the caller (`:436`);
   this caller does not run it. Automatic sync of the page ends until something else wakes it.
9. `PeerReadNotOlder`. `pullStatus` (`sync.ts:366`) compares the generation after its await and not
   `mutationEpoch`, so a read of the page itself that started before an action may cover it.
10. `CardsDisjoint`. `commitResize` (`Dashboard.tsx:474`) applies a size found free before a card
    was shown under it (`overtaken`).
11. `SpentAsRung`. A failed PATCH leaves a one-shot alarm on; `firedKeys` (`AlarmSection.tsx:103`)
    holds one occurrence and one mount, so it rings again the next day.
12. `FilesMoved`. `legacy-move.ts:29` answers a directory it cannot read with no files, and line
    107 removes the tree.
13. `FilesAccounted`. `reconcileStorage` (`assets/index.ts:1196`) never lists the storage: a file
    that a crash left without row and job stays for ever.
14. `BootstrapOnce`. The UPDATEs of `ensureBootstrapAdmin` (`auth/service.ts:298`, `:314`) have no
    condition on the hash they read before; with two processes the second rewrites a real hash.
15. `SyncFilesKept`. A request that stalled past its lease prunes with keys read before another
    one's apply (`sync-retention.ts:41`).
16. `EditsKeepOthers`. A settings read that failed leaves the shell with `{}` and without a banner
    (`App.tsx:163`); the next Save writes the whole map.
17. `RestoreRecoverable`. A psql that committed and is reported as failed removes the staging
    directory (`scripts/backup.ts:245`): new rows over old files.
18. `TodayFollowsSetting`. In the last hour of a day of 25, `startOfLocalDay` (`core/time/index.ts:52`)
    answers 23:00 of that day, and `localDayRangeUtc` the time from there to the midnight after tomorrow.
19. `TodayFollowsSetting`. The stored zone and the running one are written apart
    (`core/platform.ts:295`), and the job of the tasks app keeps the zone it was registered with.
20. `CountedOnce`. The five counts of `GET summary` (`tasks/index.ts:307`) are five statements
    without a transaction, while line 301 says the segments are disjoint by construction.
21. `Appliable`. The `revive` mark of a deletion taken back goes with a publication or another choice.
    When the row comes back in a head instead, `writeAcceptedHead` (`sync-service.ts:876`) leaves the
    mark, and the next deletion of that row by anybody is taken back unreviewed, against line 391. If
    its name is taken by then, every later cycle answers 422. It takes three edits
    (`MaxGraphEdits = 3`); with the exception that bound passes as well.

## Abstractions

Sync protocol and platform:

* The reads of a plan (capture, base hashes, tombstones, revive marks) are one step, and so are the
  binding read, the gate and the GET of the head: what a write in between would change is caught by
  the capture comparison or by the lease test of the transaction, which are modelled.
* The cycle deadline (8 minutes) ends before the lease (9 minutes), so a request to the cloud after
  the lease ran out is not modelled (`InTime`); the database steps of a stalled request are.
* `noteFailure`, the row state written by `anchor` and that written by `commitBaseline` are not
  guarded by the lease in the code, nor in the model.
* A head and its bucket objects are one value in `ContinuousSync`: an object is uploaded before the
  head that names it and never changed. `SyncFiles` has the objects.
* `sync-service.ts:1105` compares a message without the period that the thrown one has, so the
  rethrow there never happens; `SyncGraph` follows the code.
* The outcome of a commit that was not acknowledged is settled before the next cycle reads.
* A cycle of `SyncGraph` is one step, and so is a choice; a choice that the database refuses, as a
  kept remote link before its parent, leaves all as it was.
* The migration lock and the content of a migration are one outcome, success or failure; of the
  subscriptions of an app only their number by owner is kept, and its jobs are one.
* A start that stops half way is a start with upserts that were not executed, and a crash.

Apps, page and installation:

* A record's columns are a version, or the few values that a guard reads; a hash is what it is
  computed from, so two equal hashes are two equal records.
* Time is a small number of ticks in each module; the instants chosen are those a guard compares.
* Zones that repeat midnight itself, as Havana does, are in `PlatformDay`, but the two days beside
  such a midnight are excepted from `TodayFollowsSetting` (`TwoMidnights`): there the code tells other
  bounds than the local date has (`WhereDaysAreExact`), and no doc says which it should.
* A focus event is lost if the process ends between commit and publication; the model claims that
  it is told at most once. A request reads the clock before its transaction, so one that resumes or
  stops with an earlier time than the last change counts seconds twice (`timer.ts:12-17` says never):
  `FocusSession` has the clock, the order and the elapsed seconds, and no property forbids it.
* `AlarmClock`: requests that are equal in page, alarm, hash and columns are one; the ids of alarms
  are not used again. An alarm that a list brings within its minute rings at once, as the code has it.
* `GameSaves`: a load in flight while the player moves discards the move
  (`mini_game/index.tsx:70-72`); this is in the model and no property forbids it.
* `RecordEditor`: a second click on the button that discards a draft withdraws both requests, and
  edits typed while a save is in flight go when the editor closes. `DraftsHonoured` is about the
  fields that were sent and about what displaces the draft of an open editor: a cancelled editor, and
  one a save closes, take their edits with them. No deletion of a record is modelled. `EditCategoryDialog` sends no hash, so a linked
  category refuses every edit of it (`frontend/src/apps/assets/index.tsx:385-391`).
* `DashboardLayout`: editing on a narrow canvas saves the clamped rectangles; editing while an app is
  disabled forgets where its card was.
* `PageSession` keeps the session of one page; tabs share the cookie (`OtherTab`). A late 401 of a
  session that ended signs out the one after it, and a failed sign-out shows an anonymous page while
  the cookie lives: both are reachable and neither is an outage.
* `FocusView` has fewer sessions than the controller remembers, so `Claims` is without the ledger's end;
  that end is in `FocusAlerts`. Sessions announced while no notification is allowed are claimed all
  the same, as in the code, and a controller is one user's.
* `AppShelf` is one page, the only administrator's: another page's edits go to the last writer by
  design. What the editor's fields hold before the user types is left out.
* `FilteredList`: the sort order is part of the URL and of the query, rows have no order; an editor
  with edits, which puts off `RefreshList`, is `RecordEditor`'s. Whether the filters are folded, and
  parameters that a hand-written URL leaves empty, are left out. A category is chosen by its name in the code, and
  by itself here. Start dates have no control, so a link with one shows no button that resets
  (`TaskFilterCount`), as in the code.
* `TodayCounts`: a deleted task counts as one without a date; `due_at` and `start_at` are one field,
  as neither request reads both.
* `RestoreScript` has one backup directory at a time; two that are created in one second would share
  one.

## Not modelled

* The transfer budget's accounting, backoff times, thresholds of the anti-deletion guard, the
  history rows of sync, pairing codes and log redaction: counters and text without interleaving.
* A PUT that reaches the WebDAV server after its cycle ended; a temporary cache file left by a crash,
  which is never pruned and never read.
* The login limiter, renaming a world clock, `AppStatusProvider`'s refreshes, the Web Lock between
  tabs (its outcome is a choice of the environment in `SyncPage`).
* Pagination, statistics, health, logging, configuration parsing, the migration runner:
  reads, or sequential code without state of their own.
* Rendering, dialogs, code generation, containers, DNS pinning, file parsing.

## How to run

    tlc -workers 2 -config cas_race.cfg MCContinuousSync
    tlc -workers 2 -config backend.cfg MCBackend
    tlc -workers 2 -config stores.cfg MCStores
    tlc -workers 2 -config page.cfg MCPage
    tlapm AcceptedHeadProofs.tla

`PROJECT.json` lists the runs, the mutant that each property rejects, the lines each definition
stands for, the hazards and the findings.
