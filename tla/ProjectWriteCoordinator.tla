----------------------- MODULE ProjectWriteCoordinator -----------------------
(***************************************************************************)
(* The chapters of one project in the list of projects:                    *)
(* src-ui/app/project-write-coordinator.js, the flows of                   *)
(* project-chapter-flow.js that request writes, and the refreshes of       *)
(* project-query.js and project-discovery-flow.js that replace the list    *)
(* while the writes are under way. It composes WriteIntentCoordinator with *)
(* the repository, the list and the refreshes.                             *)
(*                                                                         *)
(* A field is a title (renamed in a modal, marked on its chapter; deleting *)
(* and restoring one goes the same way) or a metadata field (workflow      *)
(* status, glossary link). Simplifications: the team stays selected and    *)
(* online, permission checks, tombstones and the editor's copy of a title  *)
(* are left out, success callbacks do not throw, a write that fails has    *)
(* restored the file (write_row_files_and_commit), another write of the    *)
(* repository only delays a step, and the stored list that a load may      *)
(* begin with is left out.                                                 *)
(***************************************************************************)
EXTENDS WriteIntentCoordinator, FiniteSets

CONSTANTS
  Titles,        \* titles (or deletions) of chapters, one per chapter
  Metadata,      \* workflow statuses and glossary links of chapters
  sync,          \* the key of the project's repo sync
  repo,          \* the project's write scope
  Values,        \* what a field can be
  Original,      \* what all are at first
  MaxWishes,     \* bound on the number of the user's requests
  MaxPulls       \* bound on the changes pulled from other people

Fields == Titles \cup Metadata

(* A wish that is carried out requests one sync at most.                   *)
ASSUME ProjectAssumption ==
  /\ Titles \cap Metadata = {} /\ sync \notin Fields
  /\ Keys = Fields \cup {sync} /\ Scopes = {repo}
  /\ Targets = Keys \X Scopes
  /\ OneShot = {sync} /\ Forgettable = {}
  /\ Original \in Values
  /\ MaxWishes \in Nat /\ MaxPulls \in Nat /\ MaxRequests = 2 * MaxWishes

VARIABLES
  wishes,      \* value and previousValue of each request
  step,        \* how far the run() the loop awaits has come
  due,         \* a deferred sync waits for its timer
  file,        \* the fields in the chapter.json files
  list,        \* the fields in state.projects, and the marks of titles
  listing,     \* the files as the sync's refresh has read them
  discovery,   \* the discovery of the page under way
  cache,       \* the query's data: what the last refresh that ended had
  notified,    \* the query's observer is to apply the cache
  pulls,       \* changes pulled so far
  writer,      \* the request each field of the files is from
  owed         \* a wish was carried out and no sync has followed

files == <<file, pulls, writer>>
query == <<cache, notified>>
projectVars == <<vars, wishes, step, due, files, list, listing, discovery,
                 query, owed>>

NoWish == [value |-> Original, before |-> Original]    \* a sync has no value
Nobody == 0
Somebody == MaxRequests + 1       \* another person, whose change was pulled

(* pendingMutation makes a mark "pending", localLifecycleIntent "local".   *)
Marks == {"none", "pending", "local"}

(* One in which the chapters are not shown is Missing: there is no project *)
(* in it, or the project has no chapters.                                  *)
Snapshot == [value : [Fields -> Values], mark : [Titles -> Marks], shown : BOOLEAN]

(* What a refresh keeps of the list it replaces.                           *)
Marked == [value : [Titles -> Values], mark : [Titles -> Marks]]
MarkedTitles(l) ==
  [value |-> [t \in Titles |-> IF l.mark[t] = "none" THEN Original ELSE l.value[t]],
   mark |-> l.mark]

(* loadProjectSnapshotForTeam: files is what it listed (discoveredLocal-   *)
(* Projects), merged what it published last (mappedProjects) and before    *)
(* the titles of the list as it was when the page began to load. What is   *)
(* not read any more is dropped.                                           *)
Discovery == [phase : {"idle", "started", "listed", "shown", "relisted", "ending"},
              before : Marked, files : Snapshot, merged : Snapshot]

AllUnmarked == [t \in Titles |-> "none"]
Listed(values) == [value |-> values, mark |-> AllUnmarked, shown |-> TRUE]
InitialList == Listed([k \in Fields |-> Original])
Missing == [InitialList EXCEPT !.shown = FALSE]
NoDiscovery == [phase |-> "idle", before |-> MarkedTitles(InitialList),
                files |-> InitialList, merged |-> InitialList]

ProjectInit ==
  /\ Init
  /\ wishes = <<>> /\ step = "none" /\ due = FALSE /\ owed = FALSE
  /\ file = [k \in Fields |-> Original] /\ list = InitialList
  /\ listing = file /\ discovery = NoDiscovery
  /\ cache = InitialList /\ notified = FALSE
  /\ pulls = 0 /\ writer = [k \in Fields |-> Nobody]
-----------------------------------------------------------------------------
(* Intents and snapshots of the list.                                      *)

WishOf(intent) == wishes[intent.request].value

(* intentMatchesSnapshot *)
Matches(its, k, snap) ==
  its[k] # NoIntent /\ snap.shown /\ snap.value[k] = WishOf(its[k])

(* clearConfirmedProjectWriteIntents *)
ClearConfirmed(its, snap) ==
  [k \in Keys |->
     IF /\ k \in Fields /\ its[k].status = "pendingConfirmation"
        /\ Matches(its, k, snap)
     THEN NoIntent ELSE its[k]]

(* The intents applyProjectWriteIntentsToSnapshot does not pass over.      *)
Overlays == {"pending", "running", "pendingConfirmation"}

(* Mutant of Overlay: only writes that are under way are kept visible.     *)
Overlay_Active(its, snap) ==
  LET over == {k \in Fields :
                 snap.shown /\ its[k].status \in {"pending", "running"}}
  IN  [value |-> [k \in Fields |-> IF k \in over THEN WishOf(its[k])
                                   ELSE snap.value[k]],
       mark |-> [t \in Titles |-> IF t \in over THEN "pending"
                                  ELSE snap.mark[t]],
       shown |-> snap.shown]

(* applyProjectWriteIntentsToSnapshot *)
Overlay(its, snap) ==
  LET over == {k \in Fields : snap.shown /\ its[k].status \in Overlays}
  IN  [value |-> [k \in Fields |-> IF k \in over THEN WishOf(its[k])
                                   ELSE snap.value[k]],
       mark |-> [t \in Titles |-> IF t \in over THEN "pending"
                                  ELSE snap.mark[t]],
       shown |-> snap.shown]

(* preserveChapterLifecyclePatchesInProjectSnapshot: a marked title stays, *)
(* unless its write has ended and the snapshot agrees.                     *)
Preserve(snap, before) ==
  LET kept == {t \in Titles :
                 /\ snap.shown
                 /\ \/ before.mark[t] = "pending"
                    \/ before.mark[t] = "local" /\ snap.value[t] # before.value[t]}
  IN  [value |-> [k \in Fields |-> IF k \in kept THEN before.value[k]
                                   ELSE snap.value[k]],
       mark |-> [t \in Titles |-> IF t \in kept THEN before.mark[t]
                                  ELSE snap.mark[t]],
       shown |-> snap.shown]

(* preserveProjectLifecyclePatches of a refresh: what it will publish.     *)
Visible(its, snap, before) ==
  Overlay(ClearConfirmed(its, snap), Preserve(snap, before))

(* applyProjectsQuerySnapshotToState: intents are compared once more, with *)
(* the snapshot that shows their wishes by now.                            *)
Publish(its, visible) ==
  /\ intents' = ClearConfirmed(its, visible)
  /\ list' = Overlay(intents', visible)
  /\ UNCHANGED <<items, running, requests, stored>>

(* A snapshot as listed is prepared and published in one turn.             *)
PublishListed(snap, before) ==
  Publish(ClearConfirmed(intents, snap), Visible(intents, snap, before))
-----------------------------------------------------------------------------
(* Requests.                                                               *)

Wishes == {n \in DOMAIN requests : requests[n].key # sync}

(* The steps of run(): a write enqueues in the repo queue, where it waits  *)
(* its turn; a sync starts right away (useRepoWriteQueue: false), and the  *)
(* reconcile operations it enqueues wait.                                  *)
FirstStep(run) ==
  IF run = NoRun THEN "none" ELSE IF run.key = sync THEN "syncing" ELSE "queued"

StartsIfIdle == step' = IF running[repo] = NoRun THEN FirstStep(running'[repo])
                        ELSE step

(* submitChapterRename, persistChapterMetadataField and                    *)
(* submitCoordinatedChapterLifecycleMutation, until the request: the list  *)
(* shows the wish at once.  (No failure restores a title's previous value.)*)
Request(k, v) ==
  /\ list.shown
  /\ Cardinality(Wishes) < MaxWishes
  /\ k \in Metadata => v # list.value[k]
  /\ RequestWrite(k, repo)
  /\ wishes' = Append(wishes, [value |-> v, before |->
                               IF k \in Metadata THEN list.value[k] ELSE v])
  /\ list' = [value |-> [list.value EXCEPT ![k] = v],
              mark |-> [t \in Titles |-> IF t = k THEN "pending"
                                         ELSE list.mark[t]],
              shown |-> TRUE]
  /\ StartsIfIdle
  /\ UNCHANGED <<due, files, listing, discovery, query, owed>>

(* The timer of scheduleDeferredProjectRepoSyncAfterLocalWrite.            *)
TimerFires ==
  /\ due
  /\ due' = FALSE
  /\ RequestWrite(sync, repo)
  /\ wishes' = Append(wishes, NoWish)
  /\ StartsIfIdle
  /\ UNCHANGED <<files, list, listing, discovery, query, owed>>
-----------------------------------------------------------------------------
(* A write in the repo queue.                                              *)

TheRun == running[repo]
TheWish == wishes[TheRun.request]
NextRun == step' = FirstStep(running'[repo])

(* The loop's test after the run, on the version it started with.          *)
IsNewest == intents[TheRun.key].version = TheRun.version

(* Mutant of StillNewest: compared with the version before this one.       *)
StillNewest_OffByOne ==
  intents[TheRun.key] # NoIntent
    /\ intents[TheRun.key].version + 1 = TheRun.version

(* The test in run() once the repo queue gets to it.                       *)
StillNewest ==
  intents[TheRun.key] # NoIntent
    /\ intents[TheRun.key].version = TheRun.version

(* The repo queue runs the operation: operations.run(latest) ...           *)
WriteStarts ==
  /\ step = "queued" /\ StillNewest
  /\ step' = "writing"
  /\ UNCHANGED <<vars, wishes, due, files, list, listing, discovery, query, owed>>

(* ... or nothing, when a newer request has come.                          *)
WriteIsSkipped ==
  /\ step = "queued" /\ ~ StillNewest
  /\ RunSucceeds(repo, NoFollowUp)
  /\ NextRun
  /\ UNCHANGED <<wishes, due, files, list, listing, discovery, query, owed>>

(* The backend writes and commits chapter.json.                            *)
FileIsWritten ==
  /\ step = "writing"
  /\ step' = "written"
  /\ file' = [file EXCEPT ![TheRun.key] = TheWish.value]
  /\ writer' = [writer EXCEPT ![TheRun.key] = TheRun.request]
  /\ UNCHANGED <<vars, wishes, due, list, listing, discovery, query, pulls, owed>>

(* onSuccess of a rename: the title's mark turns local, and the sync is    *)
(* requested at once, in place of a deferred one.                          *)
RenameSucceeds ==
  /\ step = "written" /\ IsNewest /\ TheRun.key \in Titles
  /\ RunSucceeds(repo, <<sync, repo>>)
  /\ wishes' = Append(wishes, NoWish)
  /\ list' = IF list.shown
             THEN [list EXCEPT !.value[TheRun.key] = TheWish.value,
                               !.mark[TheRun.key] = "local"]
             ELSE list
  /\ due' = FALSE /\ owed' = TRUE
  /\ NextRun
  /\ UNCHANGED <<files, listing, discovery, query>>

(* Mutant of DefersSync: not while the project's sync has an intent.       *)
DefersSync_Once == due' = (due \/ intents[sync] = NoIntent)

(* scheduleDeferredProjectRepoSyncAfterLocalWrite                          *)
DefersSync == due' = TRUE

(* onSuccess of a metadata field: the sync is put off.                     *)
MetadataSucceeds ==
  /\ step = "written" /\ IsNewest /\ TheRun.key \in Metadata
  /\ RunSucceeds(repo, NoFollowUp)
  /\ list' = IF list.shown THEN [list EXCEPT !.value[TheRun.key] = TheWish.value]
             ELSE list
  /\ DefersSync /\ owed' = TRUE
  /\ NextRun
  /\ UNCHANGED <<wishes, files, listing, discovery, query>>

(* A write of an older version has ended: no callback is called.           *)
OlderSucceeds ==
  /\ step = "written" /\ ~ IsNewest
  /\ RunSucceeds(repo, NoFollowUp)
  /\ NextRun
  /\ UNCHANGED <<wishes, due, files, list, listing, discovery, query, owed>>

(* onError: a metadata field shows its previous value again; a rename only *)
(* opens its modal with the error.                                         *)
WriteFails ==
  /\ step = "writing"
  /\ RunFails(repo)
  /\ list' = IF IsNewest /\ TheRun.key \in Metadata /\ list.shown
             THEN [list EXCEPT !.value[TheRun.key] = TheWish.before]
             ELSE list
  /\ NextRun
  /\ UNCHANGED <<wishes, due, files, listing, discovery, query, owed>>
-----------------------------------------------------------------------------
(* Syncs and refreshes.                                                    *)

(* A reconcile of the repository may bring another value of some field.    *)
Pull ==
  \/ UNCHANGED <<file, writer, pulls>>
  \/ /\ pulls < MaxPulls
     /\ pulls' = pulls + 1
     /\ \E k \in Fields : \E v \in Values \ {file[k]} :
          file' = [file EXCEPT ![k] = v]
          /\ writer' = [writer EXCEPT ![k] = Somebody]

(* run() of the sync's intent: reconcile, list the files, publish.         *)
SyncPulls ==
  /\ step = "syncing"
  /\ step' = "pulled"
  /\ Pull /\ owed' = FALSE
  /\ UNCHANGED <<vars, wishes, due, list, listing, discovery, query>>

SyncLists ==
  /\ step = "pulled"
  /\ step' = "listed"
  /\ listing' = file
  /\ UNCHANGED <<vars, wishes, due, files, list, discovery, query, owed>>

(* (A project that is not in the list is not put into it.)                 *)
SyncPublishes ==
  /\ step = "listed"
  /\ step' = "published"
  /\ listing' = InitialList.value
  /\ \E snap \in {Listed(listing)} \cup (IF list.shown THEN {} ELSE {Missing}) :
       PublishListed(snap, list) /\ cache' = Visible(intents, snap, list)
  /\ notified' = TRUE
  /\ UNCHANGED <<wishes, due, files, discovery, owed>>

SyncEnds ==
  /\ step = "published"
  /\ RunSucceeds(repo, NoFollowUp)
  /\ NextRun
  /\ UNCHANGED <<wishes, due, files, list, listing, discovery, query, owed>>

(* The failure of the newest sync is shown.                                *)
SyncFails ==
  /\ step \in {"syncing", "pulled"}
  /\ RunFails(repo)
  /\ owed' = (owed /\ ~ IsNewest)
  /\ NextRun
  /\ UNCHANGED <<wishes, due, files, list, listing, discovery, query>>

(* The query's observer applies the data the query has: when a fetch begins *)
(* (with the data of the one before), and when there is new data.  During  *)
(* a fetch, one without any project does not replace the list.             *)
ObserverApplies ==
  /\ notified
  /\ notified' = FALSE
  /\ \/ Publish(intents, cache)
     \/ discovery.phase # "idle" /\ ~ cache.shown /\ UNCHANGED <<vars, list>>
  /\ UNCHANGED <<wishes, step, due, files, listing, discovery, cache, owed>>

(* The page loads: loadTeamProjects and loadProjectSnapshotForTeam.        *)
DiscoveryStarts ==
  /\ discovery.phase = "idle"
  /\ discovery' = [discovery EXCEPT !.phase = "started", !.before = MarkedTitles(list)]
  /\ notified' = TRUE
  /\ UNCHANGED <<vars, wishes, step, due, files, list, listing, cache, owed>>

(* loadLocalProjectSnapshotForTeam reads the files ...                     *)
DiscoveryLists ==
  /\ discovery.phase = "started"
  /\ discovery' = [discovery EXCEPT !.phase = "listed", !.files = Listed(file)]
  /\ UNCHANGED <<vars, wishes, step, due, files, list, listing, query, owed>>

(* ... or fails to: the empty snapshot it publishes then does not replace  *)
(* the list, but what it publishes of the remote projects has no chapters. *)
DiscoveryListFails ==
  /\ discovery.phase = "started"
  /\ discovery' = [discovery EXCEPT !.phase = "shown", !.files = Missing,
                     !.merged = Missing]
  /\ UNCHANGED <<vars, wishes, step, due, files, list, listing, query, owed>>

(* What is visible of the files is published, and kept for the rest of the *)
(* discovery: when the remote projects are known, and after repairs, it is *)
(* prepared and published again.                                           *)
DiscoveryPublishes ==
  /\ discovery.phase \in {"listed", "shown"}
  /\ PublishListed(discovery.files, discovery.before)
  /\ LET visible == Visible(intents, discovery.files, discovery.before)
     IN  discovery' = [discovery EXCEPT !.phase = "shown", !.merged = visible,
                         !.files = IF discovery.phase = "listed" THEN visible
                                   ELSE discovery.files]
  /\ UNCHANGED <<wishes, step, due, files, listing, query, owed>>

(* The discovery's own syncs of the repository, which no write of it is    *)
(* under way with.                                                         *)
DiscoveryPulls ==
  /\ discovery.phase = "shown"
  /\ step \notin {"writing", "written"}
  /\ Pull
  /\ UNCHANGED <<vars, wishes, step, due, list, listing, discovery, query, owed>>

(* Their progress is published with the snapshot published last.           *)
DiscoveryReportsProgress ==
  /\ discovery.phase = "shown"
  /\ Publish(intents, discovery.merged)
  /\ UNCHANGED <<wishes, step, due, files, listing, discovery, query, owed>>

(* refreshProjectFilesFromDisk reads the files again ...                   *)
DiscoveryListsAgain ==
  /\ discovery.phase = "shown"
  /\ discovery' = [discovery EXCEPT !.phase = "relisted", !.files = Listed(file),
                     !.merged = InitialList]
  /\ UNCHANGED <<vars, wishes, step, due, files, list, listing, query, owed>>

(* ... and publishes them.                                                 *)
DiscoveryPublishesFiles ==
  /\ discovery.phase = "relisted"
  /\ PublishListed(discovery.files, discovery.before)
  /\ discovery' = [discovery EXCEPT !.phase = "ending", !.files = InitialList,
                     !.merged = Visible(intents, discovery.files, discovery.before)]
  /\ UNCHANGED <<wishes, step, due, files, listing, query, owed>>

(* The query's new data: what was published last, here or before an error. *)
DiscoveryEnds ==
  /\ discovery.phase \in {"shown", "ending"}
  /\ discovery' = NoDiscovery
  /\ intents' = ClearConfirmed(intents, discovery.merged)
  /\ cache' = Overlay(intents', discovery.merged) /\ notified' = TRUE
  /\ UNCHANGED <<items, running, requests, stored, wishes, step, due, files,
                 list, listing, owed>>

(* abortProjectDiscoveryIfStale: the page was left or loads anew.          *)
DiscoveryIsAborted ==
  /\ discovery.phase # "idle"
  /\ discovery' = NoDiscovery
  /\ UNCHANGED <<vars, wishes, step, due, files, list, listing, query, owed>>

(* loadTeamProjects finds that what it fetched has become stale, with its  *)
(* page on the screen: it fetches anew, with the list it began with.       *)
DiscoveryRestarts ==
  /\ discovery.phase # "idle"
  /\ discovery' = [NoDiscovery EXCEPT !.phase = "started", !.before = discovery.before]
  /\ notified' = TRUE
  /\ UNCHANGED <<vars, wishes, step, due, files, list, listing, cache, owed>>
-----------------------------------------------------------------------------
RunGoesOn ==
  \/ WriteStarts \/ WriteIsSkipped \/ FileIsWritten
  \/ RenameSucceeds \/ MetadataSucceeds \/ OlderSucceeds \/ WriteFails
  \/ SyncPulls \/ SyncLists \/ SyncPublishes \/ SyncEnds \/ SyncFails

Discover ==
  \/ DiscoveryStarts \/ DiscoveryLists \/ DiscoveryListFails
  \/ DiscoveryPublishes \/ DiscoveryPulls
  \/ DiscoveryReportsProgress \/ DiscoveryListsAgain
  \/ DiscoveryPublishesFiles \/ DiscoveryEnds
  \/ DiscoveryIsAborted \/ DiscoveryRestarts

ProjectNext ==
  \/ \E k \in Fields, v \in Values : Request(k, v)
  \/ TimerFires \/ RunGoesOn \/ ObserverApplies \/ Discover

ProjectSpec == ProjectInit /\ [][ProjectNext]_projectVars
-----------------------------------------------------------------------------
(* Properties.                                                             *)

(* Whatever refreshes do with what they listed before the write, and       *)
(* whatever fails of an older wish meanwhile, the list shows the newest    *)
(* wish for a field as long as the field has an intent that has not failed *)
(* and the list shows the chapters at all.                                 *)
WishIsShown ==
  list.shown => \A k \in Fields :
                  intents[k].status \in Overlays => list.value[k] = WishOf(intents[k])

(* A field whose intent awaits confirmation is in the file as wished, or   *)
(* another person's change has replaced it: a write that the repo queue    *)
(* skipped for a newer one is not taken for done.                          *)
ConfirmedWasWritten ==
  \A k \in Fields :
    intents[k].status = "pendingConfirmation" =>
      writer[k] \in {intents[k].request, Somebody}

(* After a wish was carried out the sync that pushes it is on its way, put *)
(* off or requested, until it has reconciled the repository or its failure *)
(* is shown, however requests, the timer and a sync under way overlap.     *)
SyncIsOnItsWay ==
  owed => due \/ intents[sync].status \in {"pending", "running"}
=============================================================================
