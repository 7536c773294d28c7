# Gnosis TMS: verification

Gnosis TMS is a local-first translation editor: a desktop app (Tauri) whose user interface and
state live in JavaScript (`src-ui/app`) and whose Rust backend (`src-tauri/src`) keeps every
project, glossary and QA list in a git repository on disk and synchronises it with GitHub. Whatever
the user does shows at once, is written to the local repository a moment later, and reaches the
others with the next sync. So the same three questions come back everywhere: is a wish of the user
ever lost or overtaken, do two writers ever meet in one repository, and does what the screen shows
agree in the end with what is stored?

This directory holds TLA+ modules translated from the source, the TLC configurations that check
them, and proofs checked by TLAPS. `PROJECT.json` names the lines each definition stands for.

## Inventory

Paths are under `src/src-ui/app/` unless they start with `src-tauri/`.

| Component | Source | State | Operations | What is hard |
|---|---|---|---|---|
| Repo write queue | `repo-write-queue.js` | per repository: queued items, the running operation, run depth, waiters | enqueue, permission check, run, settle, wait for idle | re-entrant writes of a run on its own repository, priorities, runs that throw, what a snapshot shows meanwhile |
| Write intent coordinator | `write-intent-coordinator.js`, clients `member-write-coordinator.js`, `team-write-coordinator.js` | the newest intent of each key, a queue of keys per scope | request, run, confirm, fail, clear | an intent replaced, cleared or requested again while its run is awaited |
| Editor operation queue | `editor-operation-queue.js` | operations, the newest of each coalesce key, awaiters | request, run, succeed, fail, wait for idle | coalescing against the moment the repo queue takes an operation; wake-ups |
| Quick actions of a row | `editor-persistence-flow.js`, `editor-persistence-state.js`, `editor-review-state.js`, `src-tauri/src/project_import/chapter_editor/row_fields.rs` | visible and persisted markers and style of a row, what is being saved | toggle a marker, change the style, unreview all; success, stale success, failure | optimistic values of overlapping writes rolled back in any order |
| AI batch pool | `editor-ai-batch-pool.js`, `editor-ai-batch-request.js` | slots, apply lane, stop outcome | claim a batch, acquire and release a slot, enter the lane, retry | two resources and a rule about their order, cancellation, errors in flight |
| Project write coordinator | `project-write-coordinator.js`, `project-chapter-flow.js`, `project-query.js`, `project-discovery-flow.js`, `project-flow.js` | intents of projects and chapters, the list of projects and the marks of its chapters, the query's data, the deferred sync | rename, change metadata, sync, list, publish, discover | refreshes that list before a write and publish after it; the latest version is read again after the wait |
| Row text | `editor-persistence-flow.js`, `editor-persistence-state.js`, `editor-row-merge.js`, `editor-row-sync-flow.js`, `editor-background-sync.js`, `row_fields.rs` | fields, persisted fields, base fields, freshness and save status of a row; its saves, reloads and merges under way | edit, save, merge, conflict, reload, mark stale | edits typed while a save or reload is awaited; three-way merge; another client's change |
| Row conflicts, structure | `editor-conflict-resolution-flow.js`, `editor-structural-change-flow.js` | conflict dialog, deferred structural changes | resolve, insert, delete, move | saves of the dialog beside the queue's; rows deleted while edited |
| Chapter session | `editor-background-sync.js`, `editor-chapter-load-flow.js`, `editor-chapter-reload.js`, `navigation.js`, `navigation-loading.js` | session, pending sync, reload reason, the chapter's rows and base commit, the loading modal | start, stop, sync, load, refresh, leave, come back | sessions that overlap, syncs that end after their session, loads applied to another screen than they were begun on |
| Project repo sync | `project-repo-sync-flow.js`, `src-tauri/src/project_repo_sync.rs`, `src-tauri/src/project_import/chapter_editor/git_conflicts.rs` | branches, HEAD, index and worktree, the rebase in progress, the conflict journal, the status of each project | save, back up, pull, rebase, resolve, recover, push, overwrite, poll | a kill or an error between any two git commands |
| Migrations and local sync state | `src-tauri/src/repo_migrations.rs`, `src-tauri/src/team_repo_migrations.rs`, `src-tauri/src/local_repo_sync_state.rs` | markers on disk | detect, migrate, record | a crash between two steps |
| Glossaries and QA lists | `glossary-write-coordinator.js`, `qa-list-write-coordinator.js`, `repo-resource/`, `src-tauri/src/repo_resource_sync.rs` | as projects | as projects | as projects |
| Resource lifecycle | `resource-lifecycle-engine.js`, `src-tauri/src/team_metadata_local.rs` | metadata records, tombstones | create, rename, delete, restore, purge, repair | metadata-first order with partial failure |
| Page sync, query snapshots | `page-sync.js`, `optimistic-collection.js`, `query-client.js` | page state, cached snapshots | start, finish, fail | superseded refreshes |
| Close and leave guards | `editor-close-wait-flow.js`, `editor-close-guard.js`, `editor-navigation-guards.js`, `navigation.js`, `app-window-close.js` | pending work as each guard sees it | flush, wait, close anyway | work that begins while one waits for the rest |
| Everything else | see `PROJECT.json` | | | transfers and imports (sequences of remote calls), exports and conversions, AI prompts, research studio, sign-in, updater, stores, rendering, telemetry |

How they interact: the screen's flows request **editor operations** or **write intents**; both
become operations of the **repo write queue**, whose runs call backend commands that commit to the
repository. The background sync and the project sync enqueue their work on the same queue. Refreshes
(page sync, background sync) bring what is stored back into the state of the app and must respect
the operations and intents still under way. JavaScript runs one turn of the event loop at a time:
what interleaves are the turns between two awaits, and those are the steps of the modules.

What makes each component correct:

- *Repo write queue*: one writer of a repository at a time; no write lost or run twice; urgent
  writes first, otherwise in order; the snapshot never hides a write; every write settles.
- *Write intents*: the newest wish of a key is carried out; an older one never lands on it; an
  intent shown as stored was stored.
- *Editor operations*: coalescing drops only superseded wishes; requests run in order; whoever
  waits for the queue to drain is woken, and not before.
- *Quick actions*: the file ends with the newest markers and style that were carried out; the row
  shows the wish while it is being saved and the file's value afterwards.
- *AI batch pool*: the number of calls in flight is bounded; no two applies overlap; the run ends.
- *Row text*: nothing the user typed is lost or forgotten; a row is never merged against the wrong
  base, and nobody's text is written over unseen.
- *Project repo sync*: no confirmed save is lost, whatever is killed or fails; a sync that says so has
  shared everything; no sync leaves a rebase open or blocks the write queue.
- *Project writes*: the list shows the newest wish while it is under way, whatever refresh arrives;
  what counts as written was; every write is followed by a sync.
- *Chapter session*: no load takes a draft it should keep; what a sync pulls reaches the screen; a
  requested reload is not forgotten; every flow ends and leaves no modal behind.
- *Migrations*: after any crash the next start finds a repository it can use.

## Modules

| Module | Models | Uses |
|---|---|---|
| `ScopedWriter` | what the repo write queue promises, with no queue in sight | |
| `RepoWriteQueue` | `repo-write-queue.js` | refines `ScopedWriter` |
| `RepoWriteQueueProofs` | proofs about it | `RepoWriteQueue` |
| `WriteIntentCoordinator` | `write-intent-coordinator.js` and the clearing of intents by its clients | |
| `EditorOperationQueue` | `editor-operation-queue.js` | extends `ScopedWriter` |
| `EditorOperationQueueProofs` | proofs about it | `EditorOperationQueue` |
| `EditorRowOperations` | markers, style and unreview all of one row | extends `EditorOperationQueue` |
| `EditorRowOperationsProofs` | proofs about it | `EditorRowOperations`, `EditorOperationQueueProofs` |
| `EditorRowText` | the text of one row under typing, saves, merges, reloads and syncs | extends `EditorOperationQueue` |
| `EditorRowTextProofs` | proofs about it | `EditorRowText`, `EditorOperationQueueProofs` |
| `AiBatchPool` | `editor-ai-batch-pool.js` | |
| `AiBatchPoolProofs` | proofs about it | `AiBatchPool` |
| `ProjectRepoSync` | saves and syncs of one project's git repository, with kills | |
| `ProjectRepoSyncProofs` | proofs about it | `ProjectRepoSync` |
| `EditorChapterSession` | the open chapter, its sync session, loads, refresh and leaving | |
| `EditorChapterSessionProofs` | proofs about it | `EditorChapterSession` |
| `ProjectWriteCoordinator` | chapters of a project: wishes, their writes, syncs, and the refreshes of the list | extends `WriteIntentCoordinator` |
| `WriteCoordinatorProofs` | proofs about both coordinators | `ProjectWriteCoordinator` |
| `MC...` | instances for TLC: requests, scopes, keys, symmetry | the module they are named after |

### ScopedWriter

A write is *queued*, *running* or *settled*. `SubmitWrite` adds one (running at once when its
repository is idle), `BeginWrite` takes the most urgent, oldest queued write of a repository nobody
writes to, `SettleWrite` ends it. `FairSpec` promises that each write settles. The editor operation
queue is written over this contract, and the repo write queue is checked to keep it
(`ImplementsWriter`, `ImplementsFairWriter`), so the composition needs no product of the two.

### RepoWriteQueue

`operations` is `operationsById` with the phase each one is in; `items`, `processing`,
`runningOperationId`, `runDepth` and `waiters` are the variables of those names in the code. `loop`
says whether a scope's loop awaits an operation or is about to go round. `stack` is
the one thing with no variable in the code: the nesting of synchronous `run()` calls, which decides
whether an enqueue is re-entrant (`scopeRunDepth` > 0). An enqueue is one of three actions, after the
code's branches: `EnqueueInline` (re-entrant: run now, inside the run that asks), `EnqueueBehind` (the
loop is active) and `EnqueueAndStart`. `EnterRun` is the synchronous part of `run()`; it returns,
throws, or is rejected later (`RunReturns`, `RunThrows`, `RunSettles`). Left out: the timers
that only log overdue writes, invalidation lists, labels, the test-only reset.

### WriteIntentCoordinator

`intents`, `items` and `running` are `intentsByKey`, the items of the scope queues and what each
scope's loop awaits. All that happens between two awaits is one action; operators take and return
the state in the middle of such a turn (`RequestIntent`, `TakeNext`, `Confirm`, `Fail`), because a
success callback may request again before the loop goes on. `requests` and `stored` are
history the properties need: which call of `request()` an intent stands for, and what was carried out.
`run()` and `onSuccess` may throw. `onError`, `onStatusChange` and the listeners are taken not to
(`write-intent-coordinator.js:91`, `:138`): they are called outside the `try` or in its `catch`, so a throw would end the loop with keys still
queued, until the next request of the scope starts it again.

### ProjectWriteCoordinator

The coordinator's intents with what they are for. `file` is what the project's `chapter.json` files say, `list` what
`state.projects` shows and the marks (`pendingMutation`, `localLifecycleIntent`) by which a refresh knows a title that is
being written. `step` is how far the `run()` of the scope's loop has come: a write waits for the repo queue and looks at the
versions once more (`StillNewest`), then writes; a sync reconciles, lists the files and publishes what it listed.
`Overlay`, `ClearConfirmed` and `Preserve` are the functions that every refresh calls, in the code's order (`Publish`, `Visible`). `discovery` is
`loadProjectSnapshotForTeam`, which lists once, publishes that listing again at each stage, lists again at the end, and
knows only the marks from before it began. When that page load finds it has become stale and the page is on screen again, it is begun
anew with the marks of the first time (`DiscoveryRestarts`). When the first listing fails (`DiscoveryListFails`), the load goes on with projects that have
no chapters, and the list loses them (`shown`) until the files are read again; `WishIsShown` speaks of a list that has them. `cache` is the data its query keeps, which the observer applies again in a later turn. `due` is the
timer of a deferred sync. `writer` and `owed` are history: whose value a field of the file is, and whether a wish was carried out that no sync followed.

### EditorOperationQueue and EditorRowOperations

An operation has the number of its write in `ScopedWriter`. The status of the operation changes a few
promise reactions before the write settles, so these are separate steps. `EditorRowOperations` adds
the row: `row` is what the screen and the dirty tracking use, `stored` the row's file, `wishes` the
`operation.value`s, and `click` the marker toggle between its click and its request, between which
the code awaits the queueing of the row's text. Success, stale success and failure call
exactly the functions named in the map. A command can fail after its commit (`row_fields.rs:1572`); `landed` has the operations this happened to,
whose value is in the file although the row was told it is not. `FileHasNewestMarkers` counts them as carried out. After such a failure the row
shows the file's older style until a later change is saved, which `StyleShowsTheWish` excuses by name (`StyleUntold`).

### EditorRowText

One row, several columns (a language's text, footnote, caption or attribution), and another person
whose commits arrive by background syncs. `row` has the texts on screen, the persisted ones (the code
keeps `persistedFields` and `baseFields` equal), `freshness` and `saveStatus`; `stored` is the row's file,
`head` and `chapterBase` the repository's head and the one the chapter believes in. `saves` holds
the inputs of the saves under way and what the command answered, `reload` the shared promise of
`reloadEditorRowFromDisk`, `sync` the phase of `runEditorBackgroundSyncOnce` and the load of its own
merge. `ui` is the focus, the active row, `dirtyRowIds` and the save that a blur or a save of
an older text has made due. The pure functions on rows (`applyEditorRow...`) are operators on rows with the
source's case distinctions. A save is requested, begun (where its base is taken anew), carried out by the command and
answered in four steps; a load is started, reads the file and is applied in three. The syncs are
the writes of `ScopedWriter` that are no editor operation; what they do after the write is over (marking,
merging, reloading) interleaves with everything else. A sync whose chapter has moved on
(`matchesCurrentHead`) is dropped, as in the code.

Abstracted: smart quotes and other normalisation of texts, timings, history entries, word counts. A text changed on both
sides of a push is a git conflict, after which the whole chapter is reloaded: `Pull` leaves it out, with
everything else that makes a sync block. A row in conflict stays so until a merge or a save under way clears it, the dialog being another component.

### AiBatchPool

A batch runs on one or more *strands*, and a strand is what awaits something: a slot, a model's
answer, the pause before a retry, its turn in the lane, an apply. `available` and `slotQueue` are
`available` and `waiters` of the semaphore; the promise chain of the lane is the number of a task in
it (`ticket`), the last number given out (`laneTail`) and the numbers of the tasks that are over
(`laneSettled`). What a batch calls and applies is left open: any client that keeps the rule stated
at the head of the source, that a slot is not held by one that waits for the lane. Both flows of the
app are such clients, with one strand for each batch; with one strand there are as many
workers as slots and no call ever waits, so the run has two, which the pool allows. The calls that
derive glossaries in the translate flow run outside the slots and are not modelled.

### ProjectRepoSync

One project on one computer, GitHub's default branch (`remote`), and teammates who push to it. A
commit is one *edit* of one file, and a branch is the set of edits it holds; this is all that the
properties tell apart, and it makes a replay, a merge or a fast-forward a union. `head` says what HEAD is on, `main` and `here` what the
default branch and anything else HEAD is on hold, `aside` the backup branches, `dirty` the worktree.
A rebase in progress is `rebasing` (the branch it will update), `orig`, `todo` and `stop`, which git keeps in
`.git/rebase-merge` and which therefore survive a kill, as `lock`, a stale `.git/index.lock`, does.
`op` and `pc` are the operation that has the repository and its next step: a save
(`write_row_files_and_commit`), the editor's sync, the reconcile's background job, or an overwrite. Each git command is
one step, and `Kill` may come between any two; what is lost with the process is the snapshot (`status`),
the poll loop and the conflicts not yet in the journal (`pending`).

Git is external: what it does is stated as the code uses it, and the less obvious parts were tried with git 2.39. Two matter.
`checkout -b` succeeds with a stale lock while `add`, `commit` and a checkout of another branch fail
(`LeaveForBackup`, `StayOnBackup`). And a pull during an interrupted rebase
whose HEAD the fetched branch contains moves HEAD forward and reports success without looking at the rebase (`PullForwards`).

`Continue` is `git rebase --continue` as the default merge backend does it, which drops an emptied step by itself. The exits with `git rebase --skip`
(`project_repo_sync.rs:1294`, `:1329`) are for the apply backend, where a skip that meets the next conflict returns with the rebase open; they are
not modelled, nor is a failing `git rebase --abort`. A journal write that fails (`FailJournal`, `:1313`) ends the sync with the rebase over and
the conflicts unrecorded, as a kill does.

Left out: cloning, first attachment, migrations and the app version check that precede a sync, the discarding of
old layouts, and the files the code always merges (`chapter.json`, `project.json`, export settings). A
resolution by fields is a choice between `Merge` and `TakeRemote`.

### EditorChapterSession

`screen`, `selected` and `editor` are `state.screen`, `state.selectedChapterId` and
`state.editorChapter`; of the chapter's rows the model keeps which commits of teammates they
show or are marked for (`known`), whether one has a draft, and `base`, the head the chapter believes in
(`chapterBaseCommitSha`). `session` is `editorBackgroundSyncSession`: its
chapter, `pendingSync`, and `pendingReloadReason`, of which the code keeps whether it is set and the model what it was set for.
`modal` is the owner of the loading modal's token.

Whatever awaits something is a *task*: flows of the user (open, refresh, leave, come back) and syncs. Its `pc` is the await it
is at. A task whose await is over goes on before anything else (microtasks): that is `NewTurn` in the guards of
the other actions. A load is in three steps because the backend reads rows and head
separately (`ReadRows`, `ReadHead`), and the answer is applied to whatever is open by then.
A flow may also end early: opening when the open chapter's drafts cannot be flushed (`OpenBlocked`), coming back when the access check throws (`BackFails`).
`current` says that a sync carries the id of the session there is now. Properties excuse some situations by name:
`clean` is false for a sync that met another one of its session, and for a refresh that a load has overtaken which read less than
the refresh's sync found (`Overtaken`); `sound` is false for a chapter that believes in a head its rows are not from. `DraftsSurviveReloads` excuses the beginning of a load off the editor's screen, or over rows of a chapter that is
not the selected one. What happens there is under *What the runs found*.

Left out: what a sync does to a single row (`EditorRowText`), tombstones and offline mode, the labels of the sync status, opening
another chapter directly from the editor, and changes of the list of languages.

## Runs

| Run | Shows | Bounds |
|---|---|---|
| `queue` | queue integrity, mutual exclusion, what the snapshot shows, what waiters see and that each wait ends, refinement of the fair `ScopedWriter` | one scope, four operations of three urgencies, nested runs awaited one at a time |
| `intents` | no newest request is lost, confirmed intents were stored, no old value lands on a newer one, every intent settles | three keys (one confirmed by a refresh, one cleared on success, one moved and cleared freely), two scopes, four requests |
| `editor_ops` | coalescing, request order, exclusive runs, wake-ups, every operation finishes | one repository, four writes, some of them of other components |
| `row_ops` | file, markers and style agree | one row, two markers, two styles, unreview all, four writes, one of which may fail after its commit |
| `row_text` | every unsaved text stays until the user or a reload replaces it, and is tracked for the flushes before leaving and closing | one row, two columns, two texts of the user's besides the empty one and one of another person; three saves and syncs |
| `row_text_drafts` | *violated*: a row typed into after a sync has planned its reload loses the text | as `row_text`, one text of the user's |
| `project_writes` | a list that has the chapters shows the newest wish, confirmed means written, a sync follows every write | one title, one workflow status, two values, two wishes, one change of a teammate, one page load at a time |
| `ai_pool` | slots are conserved, applies do not overlap, no batch begins after the run has stopped, the report is true, the run ends | two batches of two strands, two slots, one retry, three calls and applies for each batch |
| `repo_sync` | no confirmed save is lost, *synced* means shared, no sync leaves its rebase open, the queue is freed | two edits of the user's and three of teammates, one of them a deletion, in a row and in a file the code does not resolve; one kill |
| `repo_sync_strands` | *violated*: a backup under a stale index lock stays on the backup branch | as `repo_sync` |
| `chapter_session` | drafts survive reloads, a refresh shows what was pulled, a reload request outlives failures, no modal or session lingers | two chapters, one flow and two syncs at a time, an insertion of a teammate's, two commits of the user's |
| `chapter_ends` | every flow and sync ends | one chapter, one flow, one sync, an insertion and a conflict, one commit of the user's |

Why the bounds are enough: what these components do depends on the operation under way, the one
behind it and the one that replaces either, in one scope; scopes and keys share nothing but the
numbering. Three operations make every such pattern, four add one that overtakes, nests, or
belongs to another writer. In `row_text` three
writes are a sync between two saves, a save between two syncs, or a third save over two overlapping ones, and two columns are what a
merge tells apart: one edited here, one changed elsewhere. In the pool, four strands contend for two slots and one lane, so every
queue of it gets longer than one. In `repo_sync` two edits are a rebase that stops, goes on and
stops again, and the pairs of files give every outcome of the conflict plan; one kill is followed by syncs
of whatever state it left, and a second one in a recovery finds nothing that the first did not leave, since a recovery keeps no
state of its own: the proofs are for any number of kills. In `row_ops` *please check* starts off
(`RowSpecUnmarked`): it is only ever toggled and copied, so negating it everywhere maps behaviours to behaviours, and one value at the start stands for both.
One landed failure beside three other writes comes before, between and after them. In `project_writes` a field is in one request at a time; two wishes are one that replaces, follows or fails before another, for the same field or
the other kind of field, and a page load can begin before, between and after them. That run has a `VIEW` (`WhatIsRead`):
states that differ only in the numbers and the fates of requests that nothing reads again are one state, as their futures are the same. In `chapter_session` two syncs are what it takes for
one of an earlier session to meet one of the next; flows of the user are serialised by the screen except for a refresh left behind, so one
at a time with its syncs shows the interleavings that concern the session, and a second chapter is what a load that is left behind can
be applied over. Larger
instances were run by hand without a violation: two chapters with two flows and one sync (1.7 million states), one chapter with both
changes and one commit (3.2 million), liveness with two syncs or two flows. With one chapter two flows show nothing new: that the load of
one may be applied over another chapter (below) takes two of both. Every action fires in some passing run, and each property has a mutant of the code (an
operator beside the definition it replaces) that breaks it under the bounds of its run.

Fairness. In general, weak fairness of the steps the program takes by itself: the event loop runs a turn that is
ready, and an awaited command of the backend ends, with success or failure. The code relies on the
same: nothing has a timeout, the timers of the repo queue only report. Requests of the user are never
fair. A save or sync that has the repository goes on and the poll loop's
timer fires (`ProjectRepoSync`). In `EditorChapterSession` fairness is strong for a task's next turn, as the event loop's
queue of turns and the write queue are both first in, first out, while the guards (`NewTurn`, `RepoFree`) go up and down with the
turns of others; timer and user are not fair, nor are the early
ends of opening and coming back, which a flow need not meet to end. In the
pool a strand that can go on does, and a model's answer or error arrives; the cancelling user is not fair.
Deadlock is checked everywhere; a final stuttering step marks the states in
which the bounded number of operations is used up and everything is settled (in `EditorRowText` the user can always go on).
`ProjectWriteCoordinator` is safety only: that a requested sync runs is `EveryIntentSettles`, that a timer fires is the platform's promise.
The row modules state no liveness: what must end there is an operation of the queue, whose ends
`editor_ops` checks.

## What the runs found

- `row_text_drafts`: a sync chooses the clean rows it will reload, then reloads them one after the other. A row that the
  user activates in between is reloaded for the activation, typed into, and reloaded again by the sync,
  which does not look at it a second time.
- `repo_sync_strands`: a kill in a save leaves its file uncommitted and `.git/index.lock` behind. The
  next sync changes to a backup branch, cannot commit there and, for the same lock, cannot change
  back. Saves from then on fail, and after the lock is gone go to the backup branch, while a sync pushes the default one.

Other behaviour came to light for which no text of the repository says what should happen. It is excused by name in a
property, excluded by a parameter, or not stated at all:

- Repo queue (`repo-write-queue.js:441`): the running id is restored from a value read when an inline operation began. If
  two inline writes of one run settle in the order they began, the id of the first comes back, and a waiter for an idle scope
  wakes under the outer write. Callers await one inline write before the next, which is the parameter `Siblings` of the module. Only an enqueue in the
  synchronous part of `run()` is taken as re-entrant (`:406`); one after an await that is itself awaited would block the scope.
- Intents (`write-intent-coordinator.js:98`): versions restart at 1 after a clear, so a request made after its key was
  cleared mid-run may be confirmed by the old run.
- Quick actions (`editor-review-state.js:67`, `editor-persistence-flow.js:1452`, `editor-write-permission.js:244`): a row
  remembers one marker being saved and one pair of persisted ones, so when a batch and toggles of both
  overlap, the screen may for a while show what the file has not. The file itself is right (`FileHasNewestMarkers`). A
  failed toggle puts back what the row showed when it was clicked, and a permission lock rewrites the saving states of all rows.
- Quick actions: when a command fails after its commit, the row is rolled back and stays behind the file until the next saved change (`StyleUntold`).
- Project list: a title that was written keeps its intent until a snapshot agrees, and a snapshot is compared after the intents are laid over it
  (`project-query.js:151`). A listing from before the write thus carries the mark *pending* and clears the intent, and every later refresh preserves the
  mark and the title (`project-chapter-flow.js:829`); another person's rename does not show until the app is restarted or the title is
  renamed again. A page load that began while an older title was marked puts that title back. `WishIsShown` speaks of fields with an intent.
- Row text: the user edits one column and leaves; the save merges with the file, which has somebody else's text in
  another column; before the answer the user types into that other column. The answer cannot be merged, and where the
  sync's merge and the command would report a conflict, the row stays dirty with the other person's text
  as its base (`editor-persistence-state.js:518`), which the next save overwrites.
- Row text: a save that waited takes its base anew but not its texts (`editor-persistence-flow.js:323`), an
  unchanged row hides what its save merged from the file (`editor-persistence-state.js:489`), the merge of a
  changed row applies what it read before an await (`editor-background-sync.js:403`), turns a failed or conflicting row back into a dirty one
  that nothing saves until it is touched (`:417`), and a reload of one row moves the chapter's base (`:59`).
- Chapter session: the second sync of a session drops a reload request that the first one's load did not carry out
  (`editor-background-sync.js:524`, excused by `clean`). A load may apply rows older than those on screen, or rows of one commit with the head of the
  next (`sound`). The first load of a chapter wipes what is typed before it ends. Resuming a chapter whose operation is still queued begins a
  new session without the old one's reload request (`editor-chapter-load-flow.js:565`). A load that a refresh has left behind is applied
after the user has opened another chapter, since what is applied is not compared with the selected chapter
(`editor-chapter-load-flow.js:176`, `:458`): the editor then shows one chapter with another one selected, its background sync pauses, and the next refresh begins
by taking the drafts typed there.
- Repo sync: edits saved on top of an interrupted rebase, and overlapping texts that a kill or a failing write kept out of the journal, are not held
  by any branch (`exposed`). When `PullForwards` meets an open rebase, the push is rejected from then on
  (`project_repo_sync.rs:1242`). The overwrite runs under the team's scope and may meet a save (`project-flow.js:912`).

## Proofs

`RepoWriteQueueProofs` proves, for any scopes, request types, number of operations and nesting:

- `TypeCorrect`: `Spec => []TypeOK`.
- `QueueIsComplete`: `Spec => []QueueIntegrity`: every queued operation is in its scope's items exactly once and a
  loop is there to take it; nothing else is in the items.
- `MutualExclusion`: `Spec => []OneWriterAtATime`: two operations of one scope are in flight together
  only when one is an inline operation of the other's run.

The only assumption is the module's own on its constants. The argument is one inductive invariant,
`IInv` (`InductiveInvariant`), of which `TypeOK` alone is far from enough:

- `LoopInv`: a scope's loop awaits an operation that exactly then is in flight and not inline, so a loop about
  to go round has no top-level operation in flight. This carries mutual exclusion.
- `StackInv`, `InlineInv`: the stack of synchronous runs is a path of parents in flight, so
  `runDepth` > 0 only while the run that enqueues is itself in flight, and an inline operation's parent is older and of the
  same scope. Without them a re-entrant enqueue could start a second, independent writer.
- `ItemsInv`: the items of a scope are its queued operations, without repetition.
- `PriorInv`: the restored running ids are older operations or none (for the type of `runningOperationId`).

The proof that a step keeps it has one step per action and one per conjunct under it. Facts about
sequences (insertion, removal of the head) are lemmas.

On it rest two more results:

- `QueueIsAWriter`: `Spec => ImplementsWriter`, the refinement of `ScopedWriter`. The writes of the abstract specification are the
  operations that are not inline (`TopLevelWrites`). Every action submits, begins or settles one of them or changes
  none; that the one it begins is the most urgent and oldest follows from the items being in scheduling order, that
  nobody else writes from `LoopInv`.
- `WaitersAreRight`: `Spec => []WaitersSeeDrainedScope`, under the hypothesis `~ Siblings`: no run starts a second inline write
  before the first is settled, as in all callers. It needs `ShownInv`: the running id is always that of the
  innermost operation in flight. Without the hypothesis it does not hold (*What the runs found*).

`AiBatchPoolProofs` proves, for any number of batches, strands, slots, retries and calls, all the
safety properties of its run: `PoolTypeCorrect`, `SlotsAreConserved` (`SlotsAreCounted`),
`AppliesAreSerial` (`OneApplyAtATime`), `ReportIsTrue` (`RunReportsWhatHappened`) and the action
property `NoFurtherBatch` (`NoBatchAfterStop`). Its invariant (`PoolInvariant`) adds to these:

- `QueueInv`: the strands in the queue wait for a slot, each once; so the slot that is handed over
  goes to one that did not call before, and the number of calls does not change.
- `LaneInv`: the settled tickets are a beginning of those given out, and a task under way comes right after
  some settled one. Two tasks under way with different tickets would need the older one settled.
- `ClaimInv`: exactly the batches beyond the cursor are unclaimed; so only a claim begins one.
- `ReportInv`: what the batches' outcomes say about the stop outcome and the error.

The counting uses the library's facts on finite sets; the lemmas `AcquireKeeps` and `ReleaseKeeps` state
what `acquire()` and `release()` preserve, and the actions cite them.

`EditorOperationQueueProofs` proves, for any number of writes, repositories and coalesce keys, `QueueTypeCorrect`
(`TypeOK`), `RunsAreExclusive` (`RunsHoldTheRepo`), `NewestIsKept` (`NewestIsNeverDropped`) and the action properties
`NewestStarts` (`OnlyNewestStarts`) and `RequestsAreOrdered` (`RequestOrder`). Its invariant (`QueueInvariant`) consists of:

- `OneRunning`: no two writes of a repository are under way.
- `StatusInv`: what a write's status says of its operation, which is finished some promise reactions before the
  write is settled; and that all operations have one rank, on which their order rests.
- `LatestInv`: `latest` is the newest operation of each key.
- `SupersededInv`: an operation that is queued was not superseded, one that is not the latest of its key was. So one that
  starts has nothing newer, and one that fails as stale has.

`OperationsAreWrites` (`Spec => WriterSafety`) joins it to the repo write queue: its actions submit, begin and settle writes only as
`ScopedWriter` allows, which `QueueIsAWriter` shows `RepoWriteQueue` to implement. `SavesAndSyncsAreWrites` says the same of
the saves and background syncs of `EditorRowText` together.

The lemmas `RequestKeeps`, `BeginKeeps`, `EndKeeps`, `SubmitKeeps` and so on are about single operations, so that the modules built
on the queue cite them.

`EditorRowOperationsProofs` does so and proves, for any styles and number of writes, all properties of its run: `StyleIsTheWish`
(`StyleShowsTheWish`), `NewestMarkersAreInFile` (`FileHasNewestMarkers`) and `SavedIsShown` (`SavedMarkersAreShown`), and that the
quick actions take no step the queue's specification does not allow (`RowUsesTheQueue`). The invariant (`RowInvariant`) adds to the queue's:

- `WishesInv`: every operation has a value, of the kind its coalesce key says.
- `OrderInv`: what was requested before an operation that has begun is over. So what an operation finds in the file is
  what the one before it left, although they have different keys.
- `LandedInv`: an operation that failed after its commit came before all that is left to do.
- `FileInv`: for each marker, the file has what the last operation to write it wished; a step that writes, with success or not, is the last one by `OrderInv`.
- `StyleInv`, `ShownInv`: the remembered style is the file's unless a command failed after writing a newer one, and after a toggle that was saved row and file agree until the next one.

`EditorRowTextProofs` builds on it too and proves, for any columns, texts and number of writes, `DraftsStayTracked`
(`DraftsAreTracked`), the action property `DraftsAreSafe` (`OnlyReloadsDropDrafts`), `TextTypesAreRight` (`TextTypeOK`), and that the queue's safety holds in this
composition too (`SavesAreExclusive`). Its invariant (`TextInvariant`) adds to the queue's and to the types:

- `SavesInv`: what a save was answered with contains the texts it was to change, and only a save that has begun is answered,
  so its base is not rebased after the answer. A text that an answer replaces is then one the save did not change.
- `DraftsAreTracked` itself: every step that untracks a row reconciles it, and a merge of a row without drafts leaves none.

The lemmas `AnswerShape`, `SaveShape` and `MergeShape` say what the row's transformations do to texts; the actions cite them.

`TextTypesAreRight` says among the rest that there are no more commits than writes and that nobody has read a commit there was not. It
needs an invariant of its own on top, `CountInv`, and of the constants that the markers for no load are not loads (`MarkerAssumption`):

- `CommitsInv`: `head` is at most the number of writes in `Spent`: those that cannot commit, or not again. A save stays out of it until it is answered or
  given up, a sync until it has pulled or ended. No step takes a write out of `Spent`, and one that commits puts one in (`SpentGrows`).
- `SyncsInv`: one sync at a time has its write queued or running, and only while the session awaits it, so none that is forgotten pulls.
- `LoadsInv`: what a load has read, where the chapter is and where a sync began are commits up to `head`, and a merge has something to read.

`ProjectRepoSyncProofs` proves, for any edits, files and number of kills, `SyncTypeCorrect` (`TypeOK`), `SavedEditsAreKept`
(`NothingSavedIsLost`), and the action properties `PushSharesSaved` (`SyncedMeansShared`) and `SyncsEndRebases`
(`LoopEndsRebase`). The invariant (`SyncInvariant`) says where every confirmed edit is held at every step:

- `HeldAtHead`: without an open rebase on HEAD's branch, apart from what GitHub, the backup branches, the
  journal, the users' decisions and the two excuses account for (`Cover`).
- `HeldByBranch`, `HeldByRebase`: with one, twice: by the branch as it was, to which an abort goes back, and by the
  rebase, whose end replaces the branch: replayed, still to replay, stopped at, resolved in the worktree, or for the journal.
- `Shape`: what each step can rely on (where HEAD can be, when the worktree is clean).

There is one lemma for each action; an abort uses the first of the two, the end of a rebase the second.

The first part of `WriteCoordinatorProofs` is about `WriteIntentCoordinator` alone and proves, for any keys, scopes and number of requests, `IntentTypeCorrect` (`TypeOK`),
`NewestIsNotLost` (`NoRequestLost`), `ConfirmedIsStored` (`ConfirmedWasStored`) and the action property `NewestRuns`
(`OnlyNewestRuns`). Of the assumptions it uses only that module's `IntentAssumption`: targets are pairs of a key and a scope. The invariant (`IntentInvariant`) is one
on the state in the middle of a turn, `TurnInv(st, carried, ended)`, where `ended` are the scopes whose run has ended while the
loop has not gone round; at the end of a turn that set is empty. For every key that callers do not clear while it is active:

- `QueueInv`: it is queued once, under its own scope, and only while its intent is pending. A second entry would carry a wish out twice.
- `IntentInv`: its intent is of its newest request; a pending one is queued, a running one is what the scope's loop awaits, a
  confirmed one was carried out last.
- `RunInv`: a run under way is of the intent's version, or of an older one with a pending intent behind it. So what a loop does after
  a run that finds another version never puts back a wish that nothing waits for.
- `RequestInv`: a request whose `run()` has been called and not answered is the run of some loop; the newest one that waits is the intent's.
- `Idle`: a loop that stopped left an empty queue, so whatever is queued has a loop to take it.

There is a lemma for each operator (`TakeNextKeeps`, `PutBackKeeps`, `RequestKeeps`, `RunEndsKeeps`); an action's proof composes those of
the operators its turn calls. `BeganNewest` carries what has begun in the turn to its end, for `OnlyNewestRuns`.

The second part is about `ProjectWriteCoordinator` and proves, for any chapters' titles and metadata fields, values, number of wishes
and of pulls, the properties of its run, `WishesAreShown` (`WishIsShown`), `ConfirmedIsWritten` (`ConfirmedWasWritten`) and `SyncsFollow` (`SyncIsOnItsWay`),
and that the flows and refreshes take no step the coordinator's specification does not allow (`ProjectIsACoordinator`: `ProjectSpec => Spec`). From that
the coordinator's invariant comes for nothing at every step, and its safety theorems hold of projects. The assumption is `ProjectAssumption`: the keys are the
fields and one sync, in one scope. The three properties are inductive (`ProjectInvariant`) with the coordinator's invariant, the types and:

- `StepOK`: the step is one of the run the loop awaits; a write that is `written` has its field in the file from its own request, so the success that
  follows confirms what is in the file; a sync that has reconciled owes nothing.

`Advances` and `TakenUp` are what the project needs to know of the coordinator's turns (`RequestWriteAsks`, `GoingOnAdvances`,
`RunSucceedsEffect`, `RunAsksEffect`, `RunFailsKeeps`): a turn does nothing to other intents than to take up a pending one. `OverlayShows`
says that an overlay shows every wish whatever snapshot with chapters is beneath it, and `PublishShows` that this survives the clearing of confirmed intents
before and after, so no proof of a refresh depends on how old its listing is.

`EditorChapterSessionProofs` proves, for any chapters and changes and any number of flows and syncs under way at a time, `TypeCorrect` (`TypeOK`),
`NothingIsLeft` (`NothingLingers`), and the action properties `DraftsAreKept` (`DraftsSurviveReloads`), `RequestIsAnswered`
(`RequestOutlivesFailure`) and `RefreshIsTrue` (`RefreshBringsPulled`). The only assumptions are the module's own. The operators of the module take the tasks and the session they
change as arguments, and so does the invariant on them, `OK(ts, ses, m, pulled)`: a lemma for each operator says that it is kept
(`BeginOK`, `EndSyncOK`, `StartOK`, `AfterLoadOK`, ...), and an action's proof is a chain of them. Its parts (`SessionInvariant`):

- `GoodTasks`: each slot's task is at an await of its kind, and what it awaits is a sync under way.
- `ModalOK`: the owner of the modal is a task that hides it before it ends.
- `RequestOK`: the reload request is for changes that were pulled; each current sync, unless it is in doubt, has read them once it has
  read the session's chapter; and of two current syncs neither is clean. The last part is why a request that grows under one
  sync is not dropped by another.
- `Around`: drafts are in rows that are shown, and only the editor's screen has a session.

`RefreshIsTrue` needs an invariant of its own on top (`HeadsAreKnown`), again one lemma for each operator (`StartSettles`,
`EndSyncTold`, `AfterLoadTold`, `OvertakenTold`, ...):

- `HeadsOK`: a chapter that believes in the head its rows are from, and a load that read both of one head, know all that was pulled
  by then; and all that was there before, if a sync has just found that head. It is why an answer that matches the head (*rest*)
  leaves nothing to load.
- `PullsOK`: one sync at a time has pulled and not yet gone on, and nothing was committed since: it holds the repository.
- `FlowsOK`: what the sync a refresh awaits will answer is what it found, and is read or on screen already; a refresh that was told
  to load has it in what it reads, and once it has completed it is on screen, unless an older load was applied meanwhile.

Only model-checked: everything temporal that needs fairness (the prover has no ENABLED), that is `EverybodyWakes`, `EveryTaskEnds` and
the other liveness properties and the fair part of the refinement, `ImplementsFairWriter`.

## Not modelled

Rendering, wording and telemetry; what GitHub, the models and the file system do beyond success or
failure; the components with status `not_modelled` in `PROJECT.json`, each with its reason.

## Plan

1. `ProjectWriteCoordinator` for projects themselves (rename, delete, restore) and for imports, with the stored list across a restart.
2. `RepoMigration`: layout and content migrations with crashes between their steps.
3. The conflict dialog and structural changes on top of `EditorRowText`.

An abstract row, of which the user's wishes and the file are all there is, is the specification
`EditorRowText` should be shown to implement once `row_text_drafts` and what is said of row text above are repaired.

Proofs: every safety property of the passing runs is a theorem; what comes next are those of the modules above.
