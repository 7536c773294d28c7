--------------------------- MODULE ProjectRepoSync ---------------------------
(***************************************************************************)
(* src-tauri/src/project_repo_sync.rs: how the local git repository of one *)
(* project is kept in step with GitHub, and what happens to the edits the  *)
(* user saved in it. A save commits one row file; a sync backs up what is  *)
(* not committed, rebases the local commits on the remote branch, resolves *)
(* row conflicts (the local text of an overlapping one goes to a journal,  *)
(* project_import/chapter_editor/git_conflicts.rs) and pushes. The app may *)
(* be killed between any two git commands; git then leaves its state, and  *)
(* sometimes .git/index.lock, behind.                                      *)
(*                                                                         *)
(* Simplifications. A commit is one edit of one file, and the text at the  *)
(* end of a branch is the set of edits it holds; two branches with the     *)
(* same edits are the same commit. Git itself is external: what it does to *)
(* HEAD, index and branches is stated from how the code uses it. The files *)
(* are rows, whose conflicts the code resolves, and others it refuses;     *)
(* chapter.json, project.json and the export settings, which it always     *)
(* merges, are left out, and so are cloning, attaching a project that was  *)
(* never synced, migrations and the app version check. One project is      *)
(* modelled, so its scope of the write queue is one lock (RepoWriteQueue). *)
(***************************************************************************)
EXTENDS Naturals

CONSTANTS
  Mine,          \* the edits the user may save, each once
  Theirs,        \* the edits teammates may push
  Deletes,       \* those of Theirs that delete their file
  Rows,          \* the files whose conflicts the code can resolve
  FileOf,        \* the file each edit is made in
  NoEdit,        \* not an edit
  MaxKills       \* bound on how often the app is killed

Edits == Mine \cup Theirs

ASSUME SyncAssumption ==
  /\ Mine \cap Theirs = {} /\ NoEdit \notin Edits
  /\ Deletes \subseteq Theirs
  /\ MaxKills \in Nat

VARIABLES
  remote,        \* the edits on the default branch at GitHub
  main,          \* the edits on the local default branch
  head,          \* what HEAD is on: "main", a backup branch or "detached"
  here,          \* the edits at HEAD when it is not on main
  aside,         \* the edits on the backup branches HEAD is not on
  dirty,         \* the edits in the worktree or index and not at HEAD
  lock,          \* a stale .git/index.lock
  rebasing,      \* the branch a rebase in progress will update, or "no"
  orig,          \* the edits of that branch when the rebase began
  todo,          \* the edits the rebase has yet to replay
  stop,          \* the edit it stopped at with unmerged files, or NoEdit
  journal,       \* edits whose text an imported conflict entry holds
  status,        \* of the stored snapshot of the project
  polling,       \* reconcileOneProjectRepoSyncState holds the queue
  op,            \* the operation under way in the repository
  pc,            \* its next step
  edit,          \* the edit that a save writes
  home, homeAt,  \* the branch a backup returns to, and its edits
  bare,          \* rebase --continue was run with nothing unmerged
  pending,       \* pending_imported_conflicts: edits not yet in the journal
  outcome,       \* what the last operation answered
  saved,         \* history: edits whose save was confirmed
  settled,       \* history: edits given up by a decision of the users
  exposed,       \* history: edits endangered by a kill, a failing journal
                 \* write or a rebase left open
  kills

gitVars   == <<main, head, here, aside, dirty, lock>>
stopVars  == <<rebasing, orig, todo, stop>>
jobVars   == <<edit, home, homeAt, bare, pending>>
storeVars == <<status, polling>>
histVars  == <<saved, settled, exposed, kills>>
vars == <<remote, gitVars, stopVars, journal, storeVars,
          op, pc, jobVars, outcome, histVars>>

Tip == IF head = "main" THEN main ELSE here
OffBranch == IF head = "backup" THEN here ELSE {}
SameFile(e) == {d \in Edits : FileOf[d] = FileOf[e]}
QueueFree == op = "none" /\ ~polling

Init ==
  /\ remote = {} /\ main = {} /\ head = "main" /\ here = {}
  /\ aside = {} /\ dirty = {} /\ lock = FALSE
  /\ rebasing = "no" /\ orig = {} /\ todo = {} /\ stop = NoEdit
  /\ journal = {} /\ status = "unknown" /\ polling = FALSE
  /\ op = "none" /\ pc = "idle" /\ edit = NoEdit
  /\ home = "main" /\ homeAt = {} /\ bare = FALSE /\ pending = {}
  /\ outcome = "none"
  /\ saved = {} /\ settled = {} /\ exposed = {} /\ kills = 0
-----------------------------------------------------------------------------
(* Operations begin when the scope is free and go on step by step.         *)

Begin(o, first) ==
  /\ QueueFree
  /\ op' = o /\ pc' = first
  /\ bare' = FALSE /\ pending' = {} /\ outcome' = "none"

Goto(next) == pc' = next /\ UNCHANGED <<op, outcome, status>>

(* snapshot_from_project_sync_error: the error, unless a rebase is open.   *)
ErrorStatus(of) == IF of # "no" THEN "unresolvedConflict" ELSE "syncError"

(* Mutant of End: the snapshot of a failed job stays at syncing.           *)
End_Silent(result, of) ==
  /\ op' = "none" /\ pc' = "idle" /\ outcome' = result
  /\ status' = IF op # "background" \/ result = "error" THEN status ELSE result

(* The operation answers; only the reconcile's job stores a snapshot. of   *)
(* is the rebase it leaves open.                                           *)
End(result, of) ==
  /\ op' = "none" /\ pc' = "idle" /\ outcome' = result
  /\ status' = CASE op # "background" -> status
                 [] op = "background" /\ result = "error" -> ErrorStatus(of)
                 [] OTHER -> result

SetTip(edits) ==
  IF head = "main" THEN main' = edits /\ UNCHANGED here
                   ELSE here' = edits /\ UNCHANGED main

(* git rebase --abort: HEAD and its branch go back to where they were, the *)
(* worktree with them. A backup branch that HEAD was on stays as it is.    *)
Abort ==
  /\ head' = rebasing
  /\ aside' = aside \cup OffBranch
  /\ IF rebasing = "main" THEN main' = orig /\ here' = {}
                          ELSE here' = orig /\ UNCHANGED main
  /\ dirty' = {}
  /\ rebasing' = "no" /\ orig' = {} /\ todo' = {} /\ stop' = NoEdit

(* checkout -B main origin/main, reset --hard, clean.                      *)
AdoptRemote(kept) ==
  /\ main' = remote /\ head' = "main" /\ here' = {} /\ dirty' = {}
  /\ aside' = aside \cup kept \cup OffBranch
-----------------------------------------------------------------------------
(* Saving a row: write_row_files_and_commit.                               *)

(* The file is written. A row whose file holds conflict markers cannot be  *)
(* read, so it is not saved.                                               *)
StartSave(e) ==
  /\ Begin("save", "commit")
  /\ e \notin saved
  /\ stop # NoEdit => FileOf[e] # FileOf[stop]
  /\ edit' = e
  /\ dirty' = dirty \cup {e}
  /\ UNCHANGED <<remote, main, head, here, aside, lock, stopVars,
                 journal, storeVars, home, homeAt, histVars>>

(* The file's changes are committed at HEAD. The save settles the imported *)
(* conflict of the row: the user has seen both texts.                      *)
CommitSave ==
  /\ pc = "commit" /\ ~lock
  /\ SetTip(Tip \cup (dirty \cap SameFile(edit)))
  /\ dirty' = dirty \ SameFile(edit)
  /\ saved' = saved \cup {edit}
  /\ exposed' = IF rebasing # "no" THEN exposed \cup {edit} ELSE exposed
  /\ settled' = settled \cup (journal \cap SameFile(edit))
  /\ journal' = journal \ SameFile(edit)
  /\ End("saved", rebasing)
  /\ edit' = NoEdit
  /\ UNCHANGED <<remote, head, aside, lock, stopVars, polling,
                 home, homeAt, bare, pending, kills>>

(* git add or commit fails; the file is put back and the error returned.   *)
FailSave ==
  /\ pc = "commit" /\ lock
  /\ dirty' = dirty \ {edit}
  /\ End("error", rebasing)
  /\ edit' = NoEdit
  /\ UNCHANGED <<remote, main, head, here, aside, lock, stopVars,
                 journal, polling, home, homeAt, bare, pending, histVars>>

(* clear_gtms_editor_imported_conflict_sync: the user took the remote text.*)
ClearConflict(e) ==
  /\ QueueFree /\ e \in journal
  /\ settled' = settled \cup (journal \cap SameFile(e))
  /\ journal' = journal \ SameFile(e)
  /\ UNCHANGED <<remote, gitVars, stopVars, storeVars, op, pc, jobVars,
                 outcome, saved, exposed, kills>>
-----------------------------------------------------------------------------
(* Syncs begin: the reconcile of the project list, and the editor's.       *)

(* inspect_project_repo_state. HEAD is compared with the remote head that  *)
(* the project list last told of, maybe an older one: it may equal it when *)
(* GitHub has all that HEAD has, and may differ from it in any case.       *)
Inspected ==
  CASE rebasing # "no" -> {"unresolvedConflict"}
    [] rebasing = "no" /\ journal # {} -> {"importedEditorConflicts"}
    [] rebasing = "no" /\ journal = {} /\ dirty # {} -> {"dirtyLocal"}
    [] OTHER -> {"outOfSync"} \cup (IF Tip \subseteq remote THEN {"upToDate"} ELSE {})

NeedTransport == {"dirtyLocal", "outOfSync"}

(* A job is spawned, and the queue is held until it has ended.             *)
ReconcileSpawns ==
  /\ Inspected \cap NeedTransport # {}
  /\ Begin("background", "gate")
  /\ status' = "syncing" /\ polling' = TRUE
  /\ UNCHANGED <<remote, gitVars, stopVars, journal, edit, home, homeAt,
                 histVars>>

ReconcileInspects ==
  /\ QueueFree
  /\ status' \in Inspected \ NeedTransport
  /\ UNCHANGED <<remote, gitVars, stopVars, journal, polling, op, pc,
                 jobVars, outcome, histVars>>

(* The poll loop of reconcileOneProjectRepoSyncState ends.                 *)
PollSync ==
  /\ polling /\ status # "syncing"
  /\ polling' = FALSE
  /\ UNCHANGED <<remote, gitVars, stopVars, journal, status, op, pc,
                 jobVars, outcome, histVars>>

(* sync_gtms_project_editor_repo_sync.                                     *)
StartEditorSync ==
  /\ Begin("editor", "backup")
  /\ UNCHANGED <<remote, gitVars, stopVars, journal, storeVars,
                 edit, home, homeAt, histVars>>
-----------------------------------------------------------------------------
(* backup_dirty_project_worktree: before the gate in the editor's sync, in *)
(* which the second call finds the worktree clean, after it in a job.      *)

AfterBackup == IF op = "editor" THEN "gate" ELSE "pull"

RefuseBackup ==
  /\ pc = "backup" /\ stop # NoEdit
  /\ End("error", rebasing)
  /\ UNCHANGED <<remote, gitVars, stopVars, journal, polling, jobVars,
                 histVars>>

NothingToBackUp ==
  /\ pc = "backup" /\ stop = NoEdit /\ dirty = {}
  /\ Goto(AfterBackup)
  /\ UNCHANGED <<remote, gitVars, stopVars, journal, polling, jobVars,
                 histVars>>

(* checkout -b, which works with an index.lock too. Without a branch at    *)
(* HEAD the default branch counts as the original one.                     *)
LeaveForBackup ==
  /\ pc = "backup" /\ stop = NoEdit /\ dirty # {}
  /\ home' = (IF head = "backup" THEN "backup" ELSE "main")
  /\ homeAt' = OffBranch
  /\ aside' = aside \cup OffBranch
  /\ head' = "backup" /\ here' = Tip
  /\ Goto("backupCommit")
  /\ UNCHANGED <<remote, main, dirty, lock, stopVars, journal, polling,
                 edit, bare, pending, histVars>>

(* add -A and commit; an error is kept for after the return.               *)
CommitBackup ==
  /\ pc = "backupCommit"
  /\ here' = IF lock THEN here ELSE here \cup dirty
  /\ dirty' = IF lock THEN dirty ELSE {}
  /\ Goto("backupReturn")
  /\ UNCHANGED <<remote, main, head, aside, lock, stopVars, journal,
                 polling, jobVars, histVars>>

(* checkout of the original branch; the backup branch stays.               *)
ReturnFromBackup ==
  /\ pc = "backupReturn" /\ ~lock
  /\ aside' = aside \cup here
  /\ head' = home /\ here' = homeAt
  /\ home' = "main" /\ homeAt' = {}
  /\ Goto(AfterBackup)
  /\ UNCHANGED <<remote, main, dirty, lock, stopVars, journal, polling,
                 edit, bare, pending, histVars>>

(* The checkout fails as add and commit did, and the error is returned.    *)
StayOnBackup ==
  /\ pc = "backupReturn" /\ lock
  /\ End("error", rebasing)
  /\ home' = "main" /\ homeAt' = {}
  /\ UNCHANGED <<remote, gitVars, stopVars, journal, polling, edit, bare,
                 pending, histVars>>
-----------------------------------------------------------------------------
(* sync_project_repo.                                                      *)

(* Unresolved imported conflicts keep the repository from being synced.    *)
Gate ==
  /\ pc = "gate"
  /\ IF journal # {} THEN End("importedEditorConflicts", rebasing)
     ELSE Goto(IF op = "editor" THEN "pull" ELSE "backup")
  /\ UNCHANGED <<remote, gitVars, stopVars, journal, polling, jobVars,
                 histVars>>

(* No token, no network, or a pull refused for the stale lock.             *)
FailPull ==
  /\ pc = "pull"
  /\ End("error", rebasing)
  /\ UNCHANGED <<remote, gitVars, stopVars, journal, polling, jobVars,
                 histVars>>

(* There is nothing to replay: HEAD is what was fetched, contains it or is *)
(* moved forward to it. Git does so before it looks for an open rebase.    *)
PullForwards ==
  /\ pc = "pull"
  /\ \/ Tip \subseteq remote
     \/ rebasing = "no" /\ remote \subseteq Tip
  /\ lock => remote \subseteq Tip
  /\ SetTip(Tip \cup remote)
  /\ Goto("journal")
  /\ UNCHANGED <<remote, head, aside, dirty, lock, stopVars, journal,
                 polling, jobVars, histVars>>

(* pull --rebase leaves the branch and replays what the remote lacks.      *)
PullRebases ==
  /\ pc = "pull" /\ rebasing = "no" /\ ~lock
  /\ ~(Tip \subseteq remote) /\ ~(remote \subseteq Tip)
  /\ rebasing' = head /\ orig' = Tip /\ todo' = Tip \ remote
  /\ head' = "detached" /\ here' = remote
  /\ Goto("replay")
  /\ UNCHANGED <<remote, main, aside, dirty, lock, stop, journal,
                 polling, jobVars, histVars>>

(* The pull fails because a rebase is open, which the loop then takes up.  *)
PullResumes ==
  /\ pc = "pull" /\ rebasing # "no"
  /\ Goto("plan")
  /\ UNCHANGED <<remote, gitVars, stopVars, journal, polling, jobVars,
                 histVars>>

(* What the branch came by since it diverged from e's own, in e's file.    *)
Clashes(e) == (Tip \ orig) \cap SameFile(e)

Replay(e) ==
  /\ pc = "replay" /\ e \in todo
  /\ Clashes(e) \cap Deletes = {} \/ e \in Tip
  /\ todo' = todo \ {e}
  /\ SetTip(Tip \cup {e})
  /\ Goto("replay")
  /\ UNCHANGED <<remote, head, aside, dirty, lock, rebasing, orig, stop,
                 journal, polling, jobVars, histVars>>

(* The rebase stops at a conflict. After a bare continue that error leads  *)
(* to the recovery, else to a plan.                                        *)
Conflict(e) ==
  /\ pc = "replay" /\ e \in todo \ Tip
  /\ Clashes(e) # {}
  /\ todo' = todo \ {e} /\ stop' = e
  /\ Goto(IF bare THEN "recover" ELSE "plan")
  /\ UNCHANGED <<remote, gitVars, rebasing, orig, journal, polling,
                 jobVars, histVars>>

(* The branch is updated, if nobody moved it meanwhile.                    *)
FinishRebase ==
  /\ pc = "replay" /\ todo = {}
  /\ IF head = "main" /\ rebasing = "main" /\ main # orig
     THEN /\ Goto("recover")
          /\ UNCHANGED <<main, head, here, aside, rebasing, orig>>
     ELSE /\ Goto("journal")
          /\ head' = rebasing /\ aside' = aside \cup OffBranch
          /\ IF rebasing = "main" THEN main' = Tip /\ here' = {}
                                  ELSE here' = Tip /\ UNCHANGED main
          /\ rebasing' = "no" /\ orig' = {}
  /\ UNCHANGED <<remote, dirty, lock, todo, stop, journal, polling, jobVars,
                 histVars>>

(* build_ and apply_semantic_conflict_resolution_plan at the edit it       *)
(* stopped at: both texts merged, when they touch different fields.        *)
Merge ==
  /\ pc = "plan" /\ stop # NoEdit
  /\ FileOf[stop] \in Rows /\ Clashes(stop) \cap Deletes = {}
  /\ dirty' = dirty \cup {stop} /\ stop' = NoEdit
  /\ Goto("continue")
  /\ UNCHANGED <<remote, main, head, here, aside, lock, rebasing, orig,
                 todo, journal, polling, jobVars, histVars>>

(* They overlap: the file takes the remote text, and the local one is to   *)
(* go to the journal.                                                      *)
TakeRemote ==
  /\ pc = "plan" /\ stop # NoEdit
  /\ FileOf[stop] \in Rows /\ Clashes(stop) \cap Deletes = {}
  /\ pending' = pending \cup {stop} /\ stop' = NoEdit
  /\ Goto("continue")
  /\ UNCHANGED <<remote, gitVars, rebasing, orig, todo, journal, polling,
                 edit, home, homeAt, bare, histVars>>

(* A deleted row stays deleted, and has no entry.                          *)
TakeDeletion ==
  /\ pc = "plan" /\ stop # NoEdit
  /\ FileOf[stop] \in Rows /\ Clashes(stop) \cap Deletes # {}
  /\ settled' = settled \cup {stop} \cup (pending \cap SameFile(stop))
  /\ pending' = pending \ SameFile(stop) /\ stop' = NoEdit
  /\ Goto("continue")
  /\ UNCHANGED <<remote, gitVars, rebasing, orig, todo, journal, polling,
                 edit, home, homeAt, bare, saved, exposed, kills>>

(* Mutant of RefusePlan: the rebase is left open.                          *)
RefusePlan_NoAbort ==
  /\ pc = "plan" /\ stop # NoEdit /\ FileOf[stop] \notin Rows
  /\ End("error", rebasing) /\ pending' = {}
  /\ UNCHANGED <<remote, gitVars, stopVars, journal, polling, edit, home, homeAt,
                 bare, histVars>>

(* Another file than the code knows: abort_rebase_after_failed_pull.       *)
RefusePlan ==
  /\ pc = "plan" /\ stop # NoEdit /\ FileOf[stop] \notin Rows
  /\ Abort
  /\ End("error", "no") /\ pending' = {}
  /\ UNCHANGED <<remote, lock, journal, polling, edit, home, homeAt, bare,
                 histVars>>

(* REBASE_STOPPED_WITHOUT_UNMERGED_FILES_MESSAGE: only continue.           *)
PlanNothing ==
  /\ pc = "plan" /\ stop = NoEdit
  /\ bare' = TRUE
  /\ Goto("continue")
  /\ UNCHANGED <<remote, gitVars, stopVars, journal, polling, edit, home,
                 homeAt, pending, histVars>>

(* continue_project_rebase commits what the plan resolved, or drops the    *)
(* edit when nothing is left of it, and replays on. Git's default merge    *)
(* backend drops it silently. The apply backend would fail there, and the  *)
(* code run git rebase --skip: a skip that met the next conflict would end *)
(* the sync with the rebase open, an exit that is left out here, as is a   *)
(* git rebase --abort that fails.                                          *)
Continue ==
  /\ pc = "continue" /\ ~lock
  /\ SetTip(Tip \cup dirty) /\ dirty' = {}
  /\ Goto("replay")
  /\ UNCHANGED <<remote, head, aside, lock, stopVars, journal, polling,
                 jobVars, histVars>>

FailContinue ==
  /\ pc = "continue" /\ lock
  /\ Goto("recover")
  /\ UNCHANGED <<remote, gitVars, stopVars, journal, polling, jobVars,
                 histVars>>

(* recover_project_rebase_without_unmerged_files: the stale lock goes, the *)
(* rebase is aborted, and the worktree is clean.                           *)
Recover ==
  /\ pc = "recover"
  /\ Abort /\ lock' = FALSE
  /\ Goto("adopt")
  /\ UNCHANGED <<remote, journal, polling, jobVars, histVars>>

FailAdopt ==
  /\ pc \in {"adopt", "overwriteAdopt"}
  /\ End("error", rebasing) /\ pending' = {}
  /\ UNCHANGED <<remote, gitVars, stopVars, journal, polling, edit, home, homeAt,
                 bare, histVars>>

(* Mutant of Adopt: no rebase-backup branch is made.                       *)
Adopt_NoBranch ==
  /\ pc = "adopt"
  /\ AdoptRemote({})
  /\ Goto("journal")
  /\ UNCHANGED <<remote, lock, stopVars, journal, polling, jobVars,
                 histVars>>

(* A rebase-backup branch keeps the local commits, main is the remote's.   *)
Adopt ==
  /\ pc = "adopt"
  /\ AdoptRemote(IF Tip # remote THEN Tip ELSE {})
  /\ Goto("journal")
  /\ UNCHANGED <<remote, lock, stopVars, journal, polling, jobVars,
                 histVars>>

(* Mutant of Journal: the entries of the conflicts are not written.        *)
Journal_Empty ==
  /\ pc = "journal"
  /\ Goto("push")
  /\ UNCHANGED <<remote, gitVars, stopVars, journal, polling, jobVars,
                 histVars>>

(* persist_imported_editor_conflict_entries.                               *)
Journal ==
  /\ pc = "journal"
  /\ journal' = journal \cup pending
  /\ Goto("push")
  /\ UNCHANGED <<remote, gitVars, stopVars, polling, jobVars, histVars>>

(* Reading or writing the journal fails, and the sync with it. The rebase  *)
(* has ended, so the texts that were to go there are nowhere else.         *)
FailJournal ==
  /\ pc = "journal" /\ pending # {}
  /\ exposed' = exposed \cup pending /\ pending' = {}
  /\ End("error", rebasing)
  /\ UNCHANGED <<remote, gitVars, stopVars, journal, polling, edit, home,
                 homeAt, bare, saved, settled, kills>>

(* git push origin main: what main holds, whatever HEAD is on.             *)
Push ==
  /\ pc = "push" /\ remote \subseteq main
  /\ remote' = main
  /\ pending' = {}
  /\ End(IF pending = {} THEN "upToDate" ELSE "importedEditorConflicts",
         rebasing)
  /\ UNCHANGED <<gitVars, stopVars, journal, polling, edit, home, homeAt,
                 bare, histVars>>

(* No network, or the remote branch is ahead again.                        *)
FailPush ==
  /\ pc = "push"
  /\ pending' = {}
  /\ End("error", rebasing)
  /\ UNCHANGED <<remote, gitVars, stopVars, journal, polling, edit, home,
                 homeAt, bare, histVars>>
-----------------------------------------------------------------------------
(* overwrite_project_repo_with_remote, when the user chose to drop the     *)
(* local work of a project whose conflict sync could not resolve.          *)

StartOverwrite ==
  /\ status = "unresolvedConflict" /\ rebasing # "no"
  /\ Begin("overwrite", "overwriteReset")
  /\ UNCHANGED <<remote, gitVars, stopVars, journal, storeVars,
                 edit, home, homeAt, histVars>>

OverwriteReset ==
  /\ pc = "overwriteReset"
  /\ Abort /\ lock' = FALSE
  /\ Goto("overwriteAdopt")
  /\ UNCHANGED <<remote, journal, polling, jobVars, histVars>>

OverwriteAdopt ==
  /\ pc = "overwriteAdopt"
  /\ settled' = settled \cup (main \ remote)
  /\ AdoptRemote({})
  /\ End("overwritten", "no")
  /\ UNCHANGED <<remote, lock, stopVars, journal, polling, jobVars, saved,
                 exposed, kills>>
-----------------------------------------------------------------------------
(* Others, and the end of the process.                                     *)

TeamPush(t) ==
  /\ t \in Theirs \ remote
  /\ remote' = remote \cup {t}
  /\ UNCHANGED <<gitVars, stopVars, journal, storeVars, op, pc, jobVars,
                 outcome, histVars>>

WritesIndex == pc \in {"commit", "backupCommit", "backupReturn", "plan", "continue",
                       "replay", "overwriteReset"}

(* The app dies with its memory: the snapshots, the queue, the conflicts a *)
(* sync had not journalled. A git command that dies leaves its lock.       *)
Kill ==
  /\ kills < MaxKills /\ op # "none"
  /\ kills' = kills + 1
  /\ op' = "none" /\ pc' = "idle" /\ outcome' = "killed"
  /\ lock' \in IF WritesIndex THEN {lock, TRUE} ELSE {lock}
  /\ exposed' = exposed \cup pending
  /\ edit' = NoEdit /\ pending' = {} /\ bare' = FALSE
  /\ home' = "main" /\ homeAt' = {}
  /\ status' = "unknown" /\ polling' = FALSE
  /\ UNCHANGED <<remote, main, head, here, aside, dirty, stopVars, journal,
                 saved, settled>>

SaveStep == CommitSave \/ FailSave
BackupStep ==
  \/ RefuseBackup \/ NothingToBackUp \/ LeaveForBackup \/ CommitBackup
  \/ ReturnFromBackup \/ StayOnBackup
PullStep == Gate \/ FailPull \/ PullForwards \/ PullRebases \/ PullResumes
ReplayStep == (\E e \in todo : Replay(e) \/ Conflict(e)) \/ FinishRebase
PlanStep ==
  \/ Merge \/ TakeRemote \/ TakeDeletion \/ RefusePlan \/ PlanNothing
  \/ Continue \/ FailContinue
EndStep ==
  \/ Recover \/ FailAdopt \/ Adopt \/ Journal \/ FailJournal
  \/ Push \/ FailPush
  \/ OverwriteReset \/ OverwriteAdopt
JobStep ==
  \/ SaveStep \/ BackupStep \/ PullStep \/ ReplayStep \/ PlanStep \/ EndStep

Next ==
  \/ \E e \in Mine : StartSave(e)
  \/ \E e \in journal : ClearConflict(e)
  \/ ReconcileSpawns \/ ReconcileInspects \/ PollSync \/ StartEditorSync
  \/ StartOverwrite \/ JobStep
  \/ \E t \in Theirs : TeamPush(t)
  \/ Kill

Spec == Init /\ [][Next]_vars

(* An operation under way goes on: no step waits for anything but git, and *)
(* the poll loop runs on its timer.                                        *)
FairSpec == Spec /\ WF_vars(JobStep) /\ WF_vars(PollSync)
-----------------------------------------------------------------------------
TypeOK ==
  /\ remote \subseteq Edits
  /\ main \subseteq Edits /\ here \subseteq Edits /\ aside \subseteq Edits
  /\ dirty \subseteq Edits /\ journal \subseteq Edits /\ pending \subseteq Edits
  /\ head \in {"main", "backup", "detached"} /\ lock \in BOOLEAN
  /\ rebasing \in {"no", "main", "backup"} /\ orig \subseteq Edits
  /\ todo \subseteq Edits /\ stop \in Edits \cup {NoEdit}
  /\ status \in {"unknown", "syncing", "upToDate", "unresolvedConflict",
                 "importedEditorConflicts", "syncError"}
  /\ polling \in BOOLEAN
  /\ op \in {"none", "save", "editor", "background", "overwrite"}
  /\ pc \in {"idle", "commit", "backup", "backupCommit", "backupReturn", "gate",
             "pull", "replay", "plan", "continue", "recover", "adopt", "journal",
             "push", "overwriteReset", "overwriteAdopt"}
  /\ edit \in Mine \cup {NoEdit} /\ home \in {"main", "backup"}
  /\ homeAt \subseteq Edits /\ bare \in BOOLEAN
  /\ outcome \in {"none", "saved", "upToDate", "importedEditorConflicts", "error",
                  "overwritten", "killed"}
  /\ saved \subseteq Mine /\ settled \subseteq Edits /\ exposed \subseteq Edits
  /\ kills \in 0 .. MaxKills

(* What some branch of the repository or of GitHub, or a rebase, holds.    *)
Kept == remote \cup Tip \cup main \cup aside \cup orig \cup journal \cup pending

(* An edit whose save was confirmed is never gone: it is at GitHub, on a   *)
(* local branch or in the conflict journal, unless a user gave it up. The  *)
(* sync may back up, rebase, abort, recover and adopt the remote branch in *)
(* any order, with kills and stale locks between its git commands. Excused *)
(* are the edits saved on top of an interrupted rebase, and conflicts that *)
(* a kill or a failing write kept out of the journal.                      *)
NothingSavedIsLost == saved \subseteq Kept \cup settled \cup exposed

SyncAnswers == op \in {"editor", "background"} /\ op' = "none"

(* A sync that pushes and says upToDate or importedEditorConflicts, with   *)
(* HEAD on the default branch and no rebase open, has shared all that was  *)
(* saved: what it left out is on a backup branch or in the journal. The    *)
(* push sends main; the answer is made from HEAD and what the pull did.    *)
SyncedMeansShared ==
  [][pc = "push" /\ outcome' \in {"upToDate", "importedEditorConflicts"}
       /\ head = "main" /\ rebasing = "no"
     => saved \subseteq remote' \cup aside \cup journal \cup settled \cup exposed]_vars

(* A sync that has taken up or begun a rebase never answers with the rebase *)
(* open, whatever the conflicts, or the network during the recovery.       *)
LoopEndsRebase ==
  [][SyncAnswers /\ outcome' # "killed"
       /\ pc \in {"plan", "continue", "replay", "recover", "adopt"}
     => rebasing' = "no"]_vars

(* The queue of the project is freed after every operation: the conflict   *)
(* loop ends, every way out of the job stores another status than syncing, *)
(* and the poll loop that keeps the queue sees it.                         *)
QueueIsFreed == ~QueueFree ~> QueueFree

(* A backup returns to the branch that HEAD was on, also when its add or   *)
(* commit failed.                                                          *)
HeadReturns ==
  [][pc = "backupReturn" /\ pc' # "backupReturn" /\ outcome' # "killed"
     => head' = home]_vars
=============================================================================
