# Forest Health Tracker: TLA+ models

Models, model-checking runs and machine-checked proofs of the Washington DNR Forest Health
Tracker: an ASP.NET API (`WADNR.API`) over EF Core entities (`WADNR.EFModels`) and SQL Server
procedures (`WADNR.Database`), nightly Hangfire jobs, and the Angular client (`WADNR.Web`).
The server's part covers the two project workflows, the merge and the audited save; the
client's part covers its workflows, its dialogs, its pages and a table that saves itself.
Paths below are relative to `src/`, those of the client to `src/WADNR.Web/src/app/`.

## The system

| Component | Where | State | Operations |
|---|---|---|---|
| Proposal workflow | `ProjectCreateWorkflowSteps.cs`, `ProjectCreateWorkflowProgress.cs` | one `Project` row: approval status, dates, reviewer, step data | create, save a step, submit, approve, return, reject, withdraw |
| Update workflow | `ProjectUpdateWorkflowSteps.cs`, `pStartProjectUpdateBatch`, `pCommitProjectUpdateToProject` | `ProjectUpdateBatch`, some twenty `*Update` tables, `ProjectUpdateHistory`, the live project | start, save or revert a step, import a GDB, add a photo, document or note, submit, return, approve, delete |
| Update diffs | `ProjectUpdateDiffs.cs` | diff columns of the batch | computed at approval |
| Audited saves | `WADNRDbContext.cs`, `AuditLogHelper.cs` | change tracker, transaction, `AuditLog` | every `SaveChanges` |
| Workflows in the client | `shared/components/workflow`, `pages/projects/project-{create,update}-workflow`, `workflow-progress.service.ts`, `unsaved-changes.guard.ts` | the open step, its form, `formDirty$`, requests, the sidebar's progress | edit, save, revert, dialogs, submit, decide, leave |
| Edit dialogs | seventy-seven modal components | form, `isSubmitting`, a chain of requests, the dialog's result | load, save, cancel, dismiss |
| Pages that refetch | thirty-six components of `pages/` | observables fed by refresh subjects | every handler that writes |
| Budget table | `fund-source-allocation-detail.component.ts` | rows of controls, a debounced stream of saves | type, leave a cell, save, reload |
| Geographic assignment | `AutoAssignGeographicRegionsAsync` | landscapes, regions and counties of a project | after every save of a location |
| Direct project edits | `Project.StaticHelpers.cs`, controllers | the live project | CRUD |
| GIS bulk import | `GisBulkImport.StaticHelpers.cs`, `procImportTreatmentsFromGisUploadAttempt` | upload attempts, projects, locations, treatments | upload, match, import |
| Finance imports | `Hangfire/*ImportJob.cs`, `FinanceApiDownloadService.cs` | raw downloads with a status, vendors, codes, expenditures | nightly download, import, mark |
| Notifications | `ProjectNotificationService.cs`, `ProgramNotification.StaticHelpers.cs` | sent-notification records | mail after a transition, nightly reminders |
| Files | `FileService.cs` | `FileResource` rows and blobs, shared by a project and its batches | upload, delete orphans |
| Authorization | `Services/Authorization`, `ProjectVisibility.cs` | none | role checks before each handler |
| Everything else | reference data, reports, LOA upload, GDAL API, GeoServer, generated API client, maps, grids | independent rows, or none | CRUD, conversion, display |

How the server's parts interact: all through the database. A request has a `DbContext` of its
own; it loads rows, checks them, assigns properties and calls `SaveChanges`, which writes only
the columns that differ from what was loaded. No entity has a row version and no handler of the
workflows opens a transaction around its load and its save, so every handler is a
check-then-act over shared rows. `SaveChanges` goes through the audited save and the retrying
execution strategy of `Startup.cs:138`. The two workflows meet in the project: only an approved
project can be updated.

How the client's parts interact: through subjects and results. A page opens a dialog and
refetches when the dialog closes with a result; a step publishes to `WorkflowProgressService`,
which the guard and the sidebar listen to. Every request is asynchronous: its answer may be an
error although the server applied it, and it may come when the component that asked has been
left. `switchMap` drops older answers where a stream uses it; a plain `subscribe` in a handler
drops none, and an error that is not caught ends the stream it came through.

What is hard about it:

- load and save of overlapping requests (no row version);
- procedures and saves of one handler that commit separately: the start of a batch statement by
  statement, the merge before the approval is recorded, a revert in three saves;
- retries of saves and procedures by the connection;
- a merge that follows names (locations) because its rows (treatments) have no key;
- late, lost and out-of-order answers in the client, forms that are used before or after their
  data, dirty flags shared by components, streams that an error ends.

What makes each component correct: a proposal's status agrees with its dates and reviewer; a
project has one batch in progress, what is merged is what was under review, and history and
project agree with the state; foreign keys survive every merge and an unchanged batch changes
nothing; a row and its audit log are stored together; a dialog stores what it says, once, and
nothing after it said so; a page shows what it was told was written; what the user typed is
stored, shown, or announced before it goes.

## The modules

| Module | Models |
|---|---|
| `ApprovalWorkflow` | what the proposal workflow promises: five atomic transitions |
| `ProjectCreate` | the proposal workflow as requests that load, check and save |
| `UpdateWorkflow` | what the update workflow promises: one update at a time, and what may happen to it |
| `ProjectUpdateBatch` | the update workflow; batches and project as sets of rows |
| `ProjectUpdateCommit` | locations and treatments through start, edits, reverts and merge |
| `AtomicSave` | what an audited save promises: all rows with their logs, or nothing |
| `AuditedSave` | one audited `SaveChanges` with its retries |
| `WorkflowClient` | a user in a project workflow of the client; the steps are rows of `WorkflowSteps` |
| `EditDialog` | one edit dialog; the dialogs are rows of `DialogTable` |
| `PageRefresh` | one section of a page; the pages are rows of `PageTable` |
| `BudgetAutosave` | the budget table of a fund source allocation |
| `MC*` | what TLC instantiates them with, and checks of the tables |
| `*Proofs` | theorems with their proofs |

**ProjectCreate.** The columns of the row that the transitions read or write are variables;
`PlannedDate` has two values besides null, so that a stale Basics save can be told from a fresh
one. A request is a handler `h` with a program counter `pc[h]`: `BeginSubmit`, `BeginReview`, ...
are the load with its check, `CheckCanSubmit` is the second read in `CanSubmitAsync`, and
`SaveSubmit`, `SaveApprove`, ... are the save. `old[h]` keeps the loaded values of those columns
for which the comparison in `SaveChanges` matters; the operator `Saved` is that comparison. The
status needs none: every transition assigns another status than the one it loaded. `Fail` is a
save that throws or a request that ends; nothing is written. `SaveLocationSimple` and
`CreateFromBasics` write without depending on what was loaded and are one step. `IsBasicsComplete`
reduces to the planned date: type, name and stage are required by the request and by the table.

**ProjectUpdateBatch.** `project` and `content[b]` are sets of rows; `state` and `transitions`
are the state and the history of each batch. Each action is one database round trip of one
handler. `ProcCheck`, `ProcInsert`, `ProcCopy` and `ProcFails` are `pStartProjectUpdateBatch`,
which has no transaction: it can stop after any of its statements and may be run again by the
connection. All its copies are one step otherwise, since no other statement of the model
depends on which table was copied first. `SaveStep` replaces the rows of the batch by any
others, as the step saves together can; `FlushRevert` is an intermediate save of a revert. Four
kinds of requests add rows without asking for the state of the batch: `BeginGdb`/`SaveGdb` is the
approval of a GDB import, `BeginCreate`/`SaveCreate` the creation of a photo, a document or a note.
`Commit` is `pCommitProjectUpdateToProject`, one transaction, which may be repeated.
`GetCurrentBatchAsync` has no order, so `Begin` and `FindCurrent` take any active batch.
Loading the batch in `BeginApprove` and computing the diff are one step. `committed` is a history
variable for the properties. The refinement of `UpdateWorkflow` maps `project` to itself and
`phase` and `rows` to the state and the rows of the one batch in progress. There an update starts
empty, copying the project is an edit (the procedure may stop before any part of it), and
`AddRows` is the only action that touches the rows of an update under review: it adds some, for the
import and for the creates. So the refinement says of the rows that are merged only that nothing
was changed or removed in them since the submission, not that the reviewer saw them all.

**ProjectUpdateCommit.** Locations are functions from names to shapes, treatments are pairs of
a piece of work and its place (a location name or none); two treatment rows that agree in both
are one. The operators follow the statements of the procedure: `TreatmentsAfterDelete` and
`LocationsAfterDelete` are section 4, `UpdatedAndInserted` sections 4b and 5,
`TreatmentsInserted` section 6. `Rematched` is the join by name and geometry that the start and
both reverts make. The reverts use it without the treatments that have no location. One request
runs at a time; a revert or an approval may stop between its saves (`RevertFails`, the second
disjunct of `Approve`). The review states are left to `ProjectUpdateBatch`: an open batch may be
edited or approved at any time.

**AuditedSave.** `pending` is what the change tracker has not accepted as saved, `logs` the audit
logs this flow has added to it. An attempt is `BeginAttempt` (detach, begin, first phase),
`FirstSave`, `SecondSave`, `Commit`; a transient error rolls the transaction back but not the
tracker, and `Retry` is the execution strategy. `CommitAnswerLost` is a commit that succeeded
although the client saw an error. An entry is a row with one audit log. The refinement of
`AtomicSave` forgets attempts, tracker and transaction; once an answer of a commit was lost the
outcome is `unknown`: the code may report success or failure, but writes nothing more.
`WriteNothing` is both the failure and the retry that finds nothing to write.

**WorkflowClient.** What the user has edited is a set of numbered edits: `form` is what the step
shows, `stored` what the server has of the step, edit 0 what it had before the user came. `at` is
the visit and the step; a step that is left is destroyed, but its requests (`calls`) live on and
carry what their callbacks close over (`Origin`). `Publish` is what a control does to `formDirty$`,
by its kind: a control of the tracked form, a handler that calls `setFormDirty`, a list box that
resets itself, a control that publishes nothing. `ShowStep` is the arrival of the step's data,
which patches the form; `SaveSucceeds` is the callback of `saveStep`. The region steps of the
update wait for two answers (`load.place`): nothing is shown before both came once, and afterwards
either shows the latest data of both, so `ShowPlace` can put older step data into the form. The
explanation of a region step is one of `notes`: `Sendable` may leave it out when the form has
anything else, since the code sends it only while nothing is selected. `sidebar` follows
`progress$` of the outlet, which in the update shows no step before the first answer: `stale` is
whether it shows older progress than the server has, `missed` whether a request ended without
`triggerRefresh`. A dialog of a step is one request that can be dismissed; `EditDialog` has its
inside. The rows of `WorkflowSteps` state, for each of the twenty-six step components, its kinds of
controls, those that stay enabled while it saves, what a failed load leaves, what it lets the user
do before its data came (`early`: edit, save), whether Save needs something in the form (`needs`)
and leaves the explanation out (`omits`), whether it waits for two answers (`paired`), and which of
its requests reload the step and refresh the sidebar; `clears` is false for the two components
whose `ngOnDestroy` does not call the base class's. `exposed`, `lost`, `blanked`, `broken`,
`reverted`, `made`, `edits` and `notes` are history variables.

**EditDialog.** `plan` is the chain of requests that Save sends, drawn from the dialog's row: an
`update` writes over a record, every other stage stores a new row each time it is applied. A stage
may be many requests: one after the other (`series`) or at once by `forkJoin` (`several`, in seven
dialogs; in that of fund source allocations the budget codes are among them). `chain[i]` is the
stage that press `i` waits for. `Refuse`, `LoseAnswer` and `RefuseSome` are the ways a request
fails, `ShowError` is the error handler, `Tell` is `DialogRef.close`. An error does not mean that
nothing happened, nor that nothing will: an answer is lost before or after the server applies the
request, and the first error of a `forkJoin` ends the dialog's waiting while the other requests go
on. `late` counts what the client gave up on and the server may still apply (`ApplyLate`).
`CreateTag` and `AnswerTag` are the tag editor's `createAndAddTag`, which stores a tag beside Save
(slot 0) and which Save does not wait for. Loads are
classed by what Save does without them: `given` (the data comes with the dialog), `strict` (Save
stays disabled), `lenient` (a failed load counts as empty), `eager` (Save does not wait). `stored`,
`blank`, `lost`, `cut`, `finished` and `abandoned` are history. `DialogTable` has one row per
dialog, and `MCEditDialog` states which dialogs are exceptions, so the table cannot drift from the
comments of the properties.

**PageRefresh.** Sections do not influence each other, so a behaviour follows one section of one
page. `stale` is the set of handlers whose writes the section does not show; `coming` is what the
answer under way will lack, because it read before. A handler is `modal` (it writes through a
dialog, which covers the page until it is dismissed) or sends its request after a confirmation.
The rows of `PageTable` say what each observable reads and hears and what each handler writes and
fires. `gaps` names the handlers that write what a section reads without firing what it hears;
`MCPageRefresh` checks that these are exactly the ones that follow from the row.

**BudgetAutosave.** A cell shows the number of the edit it got last. `Blur` starts the timer of
`debounceTime`, `Send` is its end and the `switchMap`: the page forgets an older save, which may be
aborted before it reaches the server (`Abort`) or be applied late (`overtaken`). `Arrive` replaces
every row by new controls, also those typed into since (`clobbered`).

## The runs

| Run | Question | Distinct states |
|---|---|---|
| `proposal_concurrent` | do independently written columns stay consistent with the status, and does nothing without a location await a decision? | 89,316, by symmetry |
| `proposal_serial` | does one request at a time implement `ApprovalWorkflow`? | 248 |
| `batch_concurrent` | do state, history and merge agree under overlapping requests, and was an approved batch merged, a merged one submitted? | 960,340 |
| `batch_serial` | with failures and retries, one request at a time: one active batch, an alternating history; does it implement `UpdateWorkflow`, so that nothing but a submitted update is merged? | 23,492 |
| `commit_merge` | do foreign keys, locations and kept treatments survive every merge, do new locations get their treatments, and does a second merge change nothing? | 6,198 |
| `commit_treatments` | do the treatments of the batch reach the project? **violated** | |
| `audited_retry` | is every stored row audited exactly once, does a failed save write nothing (it implements `AtomicSave`), is a save that returns stored, does a save end? | 2,721 |
| `workflow_client` | is an edit ever lost without a question, is what is called clean stored, does Save erase what was never shown, is a revert shown, is the sidebar told? | 1,054,367 |
| `workflow_dirty` | does `formDirty$` track the unsaved changes? **violated** | |
| `edit_dialogs` | does what a dialog stores agree with what it tells its page, for all dialogs? | 29,092 |
| `page_refresh` | does every section of every page show the writes its page heard of? | 447,016 |
| `budget_autosave` | is what the user typed stored, and what is stored shown? | 72,026 |

Properties hold under the concurrency they are stated for. Those of `proposal_concurrent` and
`batch_concurrent` hold for overlapping requests. `ImplementsWorkflow` and the properties of
`batch_serial`, `ImplementsUpdateWorkflow` among them, do not, and the models show why: two starts
can pass the guard of the procedure before either inserts, and a transition can be saved over
another one. They are checked for a single handler, with every failure and retry, because nothing in
the code serializes requests and nothing in it claims more. `SubmittedIsComplete` and
`ApprovedWasReviewed` have the parts of the two abstract workflows that survive any overlap: what
the check established cannot be undone, or has left a trace that is never erased. The client's
properties hold for every interleaving of the user, the requests, their answers and the reloads.

A property of the client states its exceptions by name, and the exceptions are the defects that
remain. `NoSilentLoss` names the edits that list boxes, unwatched inputs, late answers and reloads
expose, with two of the region steps: an explanation that Save leaves out because a region is
selected, while it marks the step clean, and what the answer for the location overwrites with the
step data of an earlier load. `CleanIsStored` says of all other edits that a step which is called
clean has stored them. `BlankOnlyUnloaded` (of steps and of dialogs) names the forms that can be
saved without their data: of the steps, the basics, the detailed locations, the external links of
an update and the classifications of a proposal before the data came, and any step after a failed
load; of the dialogs, the nine that `MCEditDialog` lists. `NothingStoredAfterTold` names a second
press of an unguarded Save, a request whose answer was lost, one of several sent at once when
another of them failed, and a tag that is still being created; TLC finds a counterexample if any of
them is left out. `NothingMeansUnchanged` is about what Save sends, since a tag is on no page
before Save. `NoRepeatedRow` names the eight dialogs whose Save is not disabled and those that
store a record before a later request can fail; `UpToDate` the `gaps` of the pages: the block list
of a project, treatments after the detailed locations, notifications after a review, the balance of
a fund source, the relationship types. Outside the named exceptions TLC finds no violation within
the bounds; the names are no claim that the exceptions are harmless.

The two refinements of the server include properties that no run checks by themselves and that are
proved as theorems of their own: `OnlySubmittedIsMerged` and `ApprovalInstallsBatch` (the latter
with `HistoryAlternates`), `AuditedExactlyOnce` and `FailedWroteNothing`. `RetriesAreBounded` is
only proved.

Two violated properties are statements of the repository, quoted at the property and in the
findings:

- `CommitsAllChanges`: a batch changes a treatment at a location that stays; the merge skips it.
- `TracksUnsaved`: the user chooses a county from the list box of a step; the handler sets
  `formDirty$`, then resets the list box, which publishes `form.dirty` = FALSE. `CleanIsStored` is
  what remains true of `formDirty$`.

Other behaviours in which the code disagrees with its words are part of the models, but no run of
their own: a decision on a proposal that was withdrawn between load and save; rows that are added to
an update under review, by a GDB import or by the creation of a photo, a document or a note, against
"Changes cannot be made while under review."
(`project-update-workflow-outlet.component.html:50`; `UpdateWorkflow` has the action `AddRows` for
it, without which the refinement fails); a start that
fails half way, so that the approval removes rows nobody edited; a repeated approval, whose diff is
empty because the project already has the batch; a save whose retry finds nothing to write and
reports success (`StoredUnlessRetried` is what remains of the promise). The hazards say at which
line. In the client: the basics of a proposal do not refresh the sidebar although
`workflow-progress.service.ts:6-7` says that steps do.

**Bounds.** Three requests on one proposal are enough for a transition, a stale review and a third
writer between them; two reviewers distinguish "already held the caller" from "held another". Two
requests on the batches let every pair of handlers overlap; one row suffices there because no
property of that run looks at the rows, and three transitions allow submit, return, submit. With a
single handler two rows tell a partial copy from a whole one, and four transitions
(`MaxTransitions`) and two batches (`MaxBatch`) allow a batch to be returned, resubmitted and
approved before the next one is started. Three names allow a location to take the name of one that
takes the name of a third; two shapes distinguish a changed geometry. The retry count is the one of
`Startup.cs`. In the client, two visits with two requests and two edits, three actions in all
(`MaxVisits`, `MaxRequests`, `MaxEdits`, `MaxActions`), let a save of one step be answered in the
next one after an edit there; one step of each kind is opened first, any kind can follow through
Save & Continue, and each workflow has one step to reach from the sidebar. Three presses of Save
(`MaxSaves`, which also bounds how many tags are created) let a failed, a repeated and a late one
overlap. Two handlers (`MaxPresses`) are enough
for a refetch to be overtaken by a write. Two cells, two edits, two saves and one foreign reload
allow a save to be overtaken while the other cell is typed into. All theorems hold for every value
of these bounds. Symmetry is used only in runs without liveness.

**Fairness.** `AuditedSave`: weak fairness of its next step, since the caller awaits the save,
whose every round trip answers or times out. `EditDialog` and `PageRefresh`: weak fairness of the
answers, since the browser ends every request with an answer or an error; the user need not do
anything, and what the client gave up on (`ApplyLate`) need never be applied. `BudgetAutosave`: the
same for the save the page waits for and for reloads, and weak fairness of the timer; a forgotten
save need never arrive. The workflow models assume no fairness: users may stop at any point of a
workflow, so nothing has to happen in it. Deadlock checking is off where the system may stop: a
save that returned, a closed dialog, a page or a table that is left or quiet, and the client's
bounds on what the user does.

## The proofs

All of these hold for every value of the constants, with no assumption but the ones named in
the modules (nulls are not values, the bounds are naturals, rows of a table have the fields of a
row, a step that has Save & Continue has a next one, the gaps of a section contain the handlers
that make them).

- `ProjectCreateProofs`: `TypeCorrect`, `DecidedReviewed`, and `SubmittedComplete` from
  `PendingDated` and `SubmittedLocated`. The inductive invariant `IInv` adds what the requests
  remember (`ReviewsKeepReviewer`). A review skips the reviewer column when the row it loaded
  already held the caller, so a decided proposal could be left without a reviewer if another request
  had cleared the column since. The conjunct says that a request about to save a review has a
  caller, and that a reviewer it loaded is still there in some form: `reviewedBy` never becomes null
  again. `SubmittedLocated` needs that a request about to submit, or to save a review, has a
  location behind it (`LocatedOnce`). `SerialImplementsWorkflow` assumes a single handler and shows,
  step by step, that loads and failures stutter and saves are the atomic transitions; its invariant
  says that what the one request checked still holds when it saves.
- `ProjectUpdateBatchProofs`: `BatchTypes`, `HistoryMatches`, and `ApprovedReviewed` from
  `ApprovedCommitted` and `CommittedSubmitted`, for any number of handlers; `ApprovedCommitted`
  needs that a handler which is past the merge works on a merged batch or on one that is gone, and
  `CommittedSubmitted` that a handler which read its batch as submitted finds a submission in its
  history, or no batch (`SubmittedInv`). `OneActive`, `OnlySubmittedMerged`, `ApprovalInstalls` and
  `Alternates` assume a single handler; their invariant ties each program counter to the state its
  check established, and the merge to the rows of the batch. `Alternates` adds a lemma on appending
  to a history whose last entry is known. `SerialImplementsUpdate` is the refinement, for a single
  handler: `EditsHold` says that a batch which a save or a revert has checked is still editable when
  it writes, and since the mapping chooses the batch in progress, `CurrentIs`, `CurrentIsNext` and
  `NoneInProgress` say which one that is before and after a step.
- `ProjectUpdateCommitProofs`: types, `TreatmentsPlaced`, `LocationsInstalled`, `TreatmentsFollow`
  (from `KeptTreatments` and `NewTreatments`) and `UneditedIsNeutral`. Two lemmas carry the
  argument: the location statements together leave exactly the locations of the batch
  (`MergedLocations`), and rematching to unchanged locations is the identity on placed treatments
  (`RematchedSame`). The invariant says that an unedited open batch has the project's locations and
  its treatments without a location, and that a revert in progress has emptied the treatments.
- `AuditedSaveProofs`: types, `AuditedOnce`, `FailedNothing`, `StoredFirst`, `BoundedRetries` and
  `SaveIsAtomic`. The invariant `AuditInv` accounts for every log: in each step the rows of the open
  transaction are logged in the transaction or about to be, and the committed ones once. `Whole`
  adds that what an attempt has staged is the whole request or nothing, which makes its commit the
  atomic write; `FirstAttempt` that before any failure the tracker and the transaction together hold
  the request. `BoundedRetries` is a variant: every step lowers the number of round trips that are
  left, which is the provable part of `SaveEnds`.
- `EditDialogProofs`: types, `Rows`, `Results`, `Nothing`, `Shown`, `Blank`, `Told`, for any table
  of dialogs. `GuardedOK` is the heart: a dialog that disables Save has one chain at a time, which
  is over when the page is told. `StoredOK` says that a chain that waits for a stage has stored
  the ones before it, and `LastOK` and `ReportsOK` count the rows of the last stage by the chains
  that finished, lost an answer or were cut. `LateOK` says where requests the client gave up on come
  from: an answer was lost, or requests sent at once were cut; so `Told` needs no other exception
  for them than the two the property names.
- `BudgetAutosaveProofs`: types, `Saved`, `Edits`, `Table`, for any cells and bounds. The invariant
  says of every cell that rests (no timer, no focus) that the newest save carries it (`EditsOK`),
  and that the answer to the newest save is followed by a reload that reads what it stored
  (`TableOK`).
- `PageRefreshProofs`: types and `SectionUpToDate`, for any pages. It needs that what the answer
  under way lacks is excused by a call that has been applied but not ended (`ComingIsExcused`).
- `WorkflowClientProofs`: types, `Blank`, `Reverted`, `SidebarTold`, `NothingLost` and `CleanStored`,
  for any table of steps. `CallsOK`
  says that no request is from a later visit than the open one, so a new step has no request of
  its own; `BlankOK` that what the server had is in everything the step holds until a load fails;
  `RevertOK` that nothing which changes the step is under way once the user was told of a revert;
  `SidebarOK` that an answer which became old is followed by another. `LossOK` follows the edits
  that are not exposed (`Watched`): the step shows them, and the server has them as soon as nothing
  is dirty or a load may replace what the step shows (`WatchedShown`); a save under way carries them, or
  they are notes that it leaves out (`WatchedSent`), and once it was applied they are stored (`WatchedApplied`). So whenever a step is
  left or reloaded without a question, what goes is stored or exposed.

Only model-checked: the liveness properties `SaveEnds`, `SaveSettles`, `EditSettles` and
`WritesAreShown`, which are out of the prover's reach, and the violated properties.

## Not modelled

- The optional steps of a proposal on the server: no transition reads them. GIS imports create
  projects that are approved from the start, outside the proposal workflow.
- Edits of the live project while a batch is open, files shared with a batch, and geographic
  assignment on the server.
- Finance imports, the GIS bulk import and the other nightly jobs.
- Authorization, notifications, diffs as text, lookup tables: stateless, or nothing in the
  workflows depends on them.
- More than one project: the workflows of different projects share no rows but FHT numbers and
  files.
- A location's type, notes and program: merged with the shape, or unique together with the name.
  With the program ignored the model assumes that a project uses a location name once.
- In the client: the generated API client (each method is one request), maps, grids and charts,
  login, the wizard of the GIS import, pages that are only read, the rich-text editors that are
  part of a page, validation of fields, the end-to-end tests. Generated code and end-to-end tests
  are about 80,000 of the client's 130,000 lines; of the others the map covers about a third, and
  what remains is mostly display (columns, charts, layers, popups) and drawing on maps.
- A user with two tabs, and two users at one project, in the client's models; the server's models
  have overlapping requests instead.

## Plan

Done: the server's core (approval, update, merge, audited save), then the client around it
(workflows, dialogs, pages, budget). What would follow:

1. Finance imports: downloads with a status, clear-before-import, the choice of the latest
   success; property: a finance table is empty or one successful download.
2. Direct edits and GIS imports as further writers of the live project in `ProjectUpdateBatch`,
   and `FileResource` references of project and batch.
3. Geographic assignment with overlapping saves of locations.
4. `AuditedSave` below a transition: what a lost save means for a workflow that reports success.
5. `WorkflowClient` over `ProjectUpdateBatch`: the client's stale steps against a batch that
   another user submits.
6. Abstract specifications of the client's dialogs, pages and table, and the refinement proofs.

## Checking

    tlc -workers 2 -config ProjectCreate_serial.cfg MCProjectCreate.tla
    tlapm ProjectCreateProofs.tla

`PROJECT.json` lists the runs, a mutant of the code for each property that it must break, the
source lines of each definition, and the hazards the properties are aimed at.
