------------------------ MODULE ProjectRepoSyncProofs ------------------------
(***************************************************************************)
(* Proofs about ProjectRepoSync, for any edits, files and number of kills. *)
(*                                                                         *)
(* What was saved is not lost, because at every step two things hold it.   *)
(* Without an open rebase it is HEAD's branch, apart from what GitHub, the *)
(* backup branches, the journal and the users' decisions account for. With *)
(* one it is both the branch as it was (which an abort goes back to) and   *)
(* the rebase (whose end replaces the branch): what it replayed, has yet   *)
(* to replay, stopped at, resolved in the worktree or put to the journal.  *)
(***************************************************************************)
EXTENDS ProjectRepoSync, TLAPS

(* The steps at which a sync may hold conflicts that no journal has.       *)
Loop == {"plan", "continue", "replay", "recover", "adopt", "journal", "push"}

(* What each step can rely on.                                             *)
Shape ==
  /\ (pc = "idle") = (op = "none")
  /\ op # "none" => outcome = "none"
  /\ pc = "commit" => op = "save" /\ edit \in dirty \ saved
  /\ pc \in {"overwriteReset", "overwriteAdopt"} => op = "overwrite"
  /\ pc \in {"backupCommit", "backupReturn"}
     => head = "backup" /\ stop = NoEdit
  /\ pc = "backupReturn" /\ ~lock => dirty = {}
  /\ rebasing = "no" => head # "detached"
  /\ pc \in {"plan", "continue", "replay", "recover", "overwriteReset"}
     => rebasing # "no"
  /\ pc \in {"adopt", "overwriteAdopt"} => rebasing = "no"
  /\ pc \notin Loop => pending = {}
  /\ pc = "push" => pending \subseteq journal
  /\ pc \in {"pull", "replay"} \/ (pc = "gate" /\ op = "editor")
     => stop = NoEdit /\ dirty = {}
  /\ pc = "continue" => stop = NoEdit
  /\ pc = "plan" => dirty = {}

Cover == remote \cup aside \cup journal \cup settled \cup exposed

Unwritten == IF pc = "journal" THEN pending ELSE {}
HeldAtHead == rebasing = "no" => saved \subseteq Cover \cup Tip \cup Unwritten

HeldByBranch == rebasing # "no" => saved \subseteq Cover \cup orig

HeldByRebase ==
  rebasing # "no"
  => saved \subseteq Cover \cup Tip \cup todo \cup {stop} \cup dirty \cup pending

Held == HeldAtHead /\ HeldByBranch /\ HeldByRebase

IInv == TypeOK /\ Shape /\ Held

-----------------------------------------------------------------------------
(* One lemma for each action: its step keeps the invariant.                *)

LEMMA StartSaveKeeps ==
  ASSUME IInv, NEW e \in Mine, StartSave(e)
  PROVE  IInv'
<1> USE SyncAssumption DEF Edits, Tip, gitVars, stopVars, jobVars, storeVars,
       histVars
<1>1. TypeOK'
  <2>1. /\ lock' \in BOOLEAN /\ polling' \in BOOLEAN /\ bare' \in BOOLEAN
    BY DEF IInv, TypeOK, StartSave, Begin, QueueFree
  <2>2. kills' \in 0 .. MaxKills
    BY DEF IInv, TypeOK, StartSave, Begin, QueueFree
  <2>3. QED
    BY <2>1, <2>2 DEF IInv, TypeOK, Shape, StartSave, Begin, QueueFree
<1>2. Shape'
  BY DEF IInv, TypeOK, Shape, Loop, StartSave, Begin, QueueFree
<1>3. Held'
  BY DEF IInv, TypeOK, Shape, Loop, Held, HeldAtHead, HeldByBranch,
         HeldByRebase, Cover, Unwritten, StartSave, Begin, QueueFree
<1>4. QED
  BY <1>1, <1>2, <1>3 DEF IInv

LEMMA CommitSaveKeeps ==
  ASSUME IInv, CommitSave
  PROVE  IInv'
<1> USE SyncAssumption DEF Edits, Tip, gitVars, stopVars, jobVars, storeVars,
       histVars
<1>1. TypeOK'
  BY DEF IInv, TypeOK, Shape, CommitSave, End, ErrorStatus, SetTip, SameFile
<1>2. Shape'
  BY DEF IInv, TypeOK, Shape, Loop, CommitSave, End, ErrorStatus, SetTip,
         SameFile
<1>3. Held'
  BY DEF IInv, TypeOK, Shape, Loop, Held, HeldAtHead, HeldByBranch,
         HeldByRebase, Cover, Unwritten, CommitSave, End, ErrorStatus, SetTip,
         SameFile
<1>4. QED
  BY <1>1, <1>2, <1>3 DEF IInv

LEMMA FailSaveKeeps ==
  ASSUME IInv, FailSave
  PROVE  IInv'
<1> USE SyncAssumption DEF Edits, Tip, gitVars, stopVars, jobVars, storeVars,
       histVars
<1>1. TypeOK'
  BY DEF IInv, TypeOK, Shape, FailSave, End, ErrorStatus
<1>2. Shape'
  BY DEF IInv, TypeOK, Shape, Loop, FailSave, End, ErrorStatus
<1>3. Held'
  BY DEF IInv, TypeOK, Shape, Loop, Held, HeldAtHead, HeldByBranch,
         HeldByRebase, Cover, Unwritten, FailSave, End, ErrorStatus
<1>4. QED
  BY <1>1, <1>2, <1>3 DEF IInv

LEMMA ClearConflictKeeps ==
  ASSUME IInv, NEW e \in journal, ClearConflict(e)
  PROVE  IInv'
<1> USE SyncAssumption DEF Edits, Tip, gitVars, stopVars, jobVars, storeVars,
       histVars
<1>1. TypeOK'
  BY DEF IInv, TypeOK, Shape, ClearConflict, QueueFree, SameFile
<1>2. Shape'
  BY DEF IInv, TypeOK, Shape, Loop, ClearConflict, QueueFree, SameFile
<1>3. Held'
  BY DEF IInv, TypeOK, Shape, Loop, Held, HeldAtHead, HeldByBranch,
         HeldByRebase, Cover, Unwritten, ClearConflict, QueueFree, SameFile
<1>4. QED
  BY <1>1, <1>2, <1>3 DEF IInv

LEMMA ReconcileSpawnsKeeps ==
  ASSUME IInv, ReconcileSpawns
  PROVE  IInv'
<1> USE SyncAssumption DEF Edits, Tip, gitVars, stopVars, jobVars, storeVars,
       histVars
<1>1. TypeOK'
  BY DEF IInv, TypeOK, Shape, ReconcileSpawns, Begin, QueueFree
<1>2. Shape'
  BY DEF IInv, TypeOK, Shape, Loop, ReconcileSpawns, Begin, QueueFree
<1>3. Held'
  BY DEF IInv, TypeOK, Shape, Loop, Held, HeldAtHead, HeldByBranch,
         HeldByRebase, Cover, Unwritten, ReconcileSpawns, Begin, QueueFree
<1>4. QED
  BY <1>1, <1>2, <1>3 DEF IInv

LEMMA ReconcileInspectsKeeps ==
  ASSUME IInv, ReconcileInspects
  PROVE  IInv'
<1> USE SyncAssumption DEF Edits, Tip, gitVars, stopVars, jobVars, storeVars,
       histVars
<1>1. TypeOK'
  BY DEF IInv, TypeOK, Shape, ReconcileInspects, QueueFree, Inspected,
         NeedTransport
<1>2. Shape'
  BY DEF IInv, TypeOK, Shape, Loop, ReconcileInspects, QueueFree, Inspected,
         NeedTransport
<1>3. Held'
  BY DEF IInv, TypeOK, Shape, Loop, Held, HeldAtHead, HeldByBranch,
         HeldByRebase, Cover, Unwritten, ReconcileInspects, QueueFree,
         Inspected, NeedTransport
<1>4. QED
  BY <1>1, <1>2, <1>3 DEF IInv

LEMMA PollSyncKeeps ==
  ASSUME IInv, PollSync
  PROVE  IInv'
<1> USE SyncAssumption DEF Edits, Tip, gitVars, stopVars, jobVars, storeVars,
       histVars
<1>1. TypeOK'
  <2>1. /\ lock' \in BOOLEAN /\ polling' \in BOOLEAN /\ bare' \in BOOLEAN
    BY DEF IInv, TypeOK, PollSync
  <2>2. kills' \in 0 .. MaxKills
    BY DEF IInv, TypeOK, PollSync
  <2>3. QED
    BY <2>1, <2>2 DEF IInv, TypeOK, Shape, PollSync
<1>2. Shape'
  BY DEF IInv, TypeOK, Shape, Loop, PollSync
<1>3. Held'
  BY DEF IInv, TypeOK, Shape, Loop, Held, HeldAtHead, HeldByBranch,
         HeldByRebase, Cover, Unwritten, PollSync
<1>4. QED
  BY <1>1, <1>2, <1>3 DEF IInv

LEMMA StartEditorSyncKeeps ==
  ASSUME IInv, StartEditorSync
  PROVE  IInv'
<1> USE SyncAssumption DEF Edits, Tip, gitVars, stopVars, jobVars, storeVars,
       histVars
<1>1. TypeOK'
  <2>1. /\ lock' \in BOOLEAN /\ polling' \in BOOLEAN /\ bare' \in BOOLEAN
    BY DEF IInv, TypeOK, StartEditorSync, Begin, QueueFree
  <2>2. kills' \in 0 .. MaxKills
    BY DEF IInv, TypeOK, StartEditorSync, Begin, QueueFree
  <2>3. QED
    BY <2>1, <2>2 DEF IInv, TypeOK, Shape, StartEditorSync, Begin, QueueFree
<1>2. Shape'
  BY DEF IInv, TypeOK, Shape, Loop, StartEditorSync, Begin, QueueFree
<1>3. Held'
  BY DEF IInv, TypeOK, Shape, Loop, Held, HeldAtHead, HeldByBranch,
         HeldByRebase, Cover, Unwritten, StartEditorSync, Begin, QueueFree
<1>4. QED
  BY <1>1, <1>2, <1>3 DEF IInv

LEMMA RefuseBackupKeeps ==
  ASSUME IInv, RefuseBackup
  PROVE  IInv'
<1> USE SyncAssumption DEF Edits, Tip, gitVars, stopVars, jobVars, storeVars,
       histVars
<1>1. TypeOK'
  BY DEF IInv, TypeOK, Shape, RefuseBackup, End, ErrorStatus
<1>2. Shape'
  BY DEF IInv, TypeOK, Shape, Loop, RefuseBackup, End, ErrorStatus
<1>3. Held'
  BY DEF IInv, TypeOK, Shape, Loop, Held, HeldAtHead, HeldByBranch,
         HeldByRebase, Cover, Unwritten, RefuseBackup, End, ErrorStatus
<1>4. QED
  BY <1>1, <1>2, <1>3 DEF IInv

LEMMA NothingToBackUpKeeps ==
  ASSUME IInv, NothingToBackUp
  PROVE  IInv'
<1> USE SyncAssumption DEF Edits, Tip, gitVars, stopVars, jobVars, storeVars,
       histVars
<1>1. TypeOK'
  BY DEF IInv, TypeOK, Shape, NothingToBackUp, Goto, AfterBackup
<1>2. Shape'
  BY DEF IInv, TypeOK, Shape, Loop, NothingToBackUp, Goto, AfterBackup
<1>3. Held'
  BY DEF IInv, TypeOK, Shape, Loop, Held, HeldAtHead, HeldByBranch,
         HeldByRebase, Cover, Unwritten, NothingToBackUp, Goto, AfterBackup
<1>4. QED
  BY <1>1, <1>2, <1>3 DEF IInv

LEMMA LeaveForBackupKeeps ==
  ASSUME IInv, LeaveForBackup
  PROVE  IInv'
<1> USE SyncAssumption DEF Edits, Tip, gitVars, stopVars, jobVars, storeVars,
       histVars
<1>1. TypeOK'
  BY DEF IInv, TypeOK, Shape, LeaveForBackup, Goto, OffBranch
<1>2. Shape'
  BY DEF IInv, TypeOK, Shape, Loop, LeaveForBackup, Goto, OffBranch
<1>3. Held'
  BY DEF IInv, TypeOK, Shape, Loop, Held, HeldAtHead, HeldByBranch,
         HeldByRebase, Cover, Unwritten, LeaveForBackup, Goto, OffBranch
<1>4. QED
  BY <1>1, <1>2, <1>3 DEF IInv

LEMMA CommitBackupKeeps ==
  ASSUME IInv, CommitBackup
  PROVE  IInv'
<1> USE SyncAssumption DEF Edits, Tip, gitVars, stopVars, jobVars, storeVars,
       histVars
<1>1. TypeOK'
  BY DEF IInv, TypeOK, Shape, CommitBackup, Goto
<1>2. Shape'
  BY DEF IInv, TypeOK, Shape, Loop, CommitBackup, Goto
<1>3. Held'
  BY DEF IInv, TypeOK, Shape, Loop, Held, HeldAtHead, HeldByBranch,
         HeldByRebase, Cover, Unwritten, CommitBackup, Goto
<1>4. QED
  BY <1>1, <1>2, <1>3 DEF IInv

LEMMA ReturnFromBackupKeeps ==
  ASSUME IInv, ReturnFromBackup
  PROVE  IInv'
<1> USE SyncAssumption DEF Edits, Tip, gitVars, stopVars, jobVars, storeVars,
       histVars
<1>1. TypeOK'
  BY DEF IInv, TypeOK, Shape, ReturnFromBackup, Goto, AfterBackup
<1>2. Shape'
  BY DEF IInv, TypeOK, Shape, Loop, ReturnFromBackup, Goto, AfterBackup
<1>3. Held'
  BY DEF IInv, TypeOK, Shape, Loop, Held, HeldAtHead, HeldByBranch,
         HeldByRebase, Cover, Unwritten, ReturnFromBackup, Goto, AfterBackup
<1>4. QED
  BY <1>1, <1>2, <1>3 DEF IInv

LEMMA StayOnBackupKeeps ==
  ASSUME IInv, StayOnBackup
  PROVE  IInv'
<1> USE SyncAssumption DEF Edits, Tip, gitVars, stopVars, jobVars, storeVars,
       histVars
<1>1. TypeOK'
  BY DEF IInv, TypeOK, Shape, StayOnBackup, End, ErrorStatus
<1>2. Shape'
  BY DEF IInv, TypeOK, Shape, Loop, StayOnBackup, End, ErrorStatus
<1>3. Held'
  BY DEF IInv, TypeOK, Shape, Loop, Held, HeldAtHead, HeldByBranch,
         HeldByRebase, Cover, Unwritten, StayOnBackup, End, ErrorStatus
<1>4. QED
  BY <1>1, <1>2, <1>3 DEF IInv

LEMMA GateKeeps ==
  ASSUME IInv, Gate
  PROVE  IInv'
<1> USE SyncAssumption DEF Edits, Tip, gitVars, stopVars, jobVars, storeVars,
       histVars
<1>1. TypeOK'
  BY DEF IInv, TypeOK, Shape, Gate, Goto, End, ErrorStatus
<1>2. Shape'
  BY DEF IInv, TypeOK, Shape, Loop, Gate, Goto, End, ErrorStatus
<1>3. Held'
  BY DEF IInv, TypeOK, Shape, Loop, Held, HeldAtHead, HeldByBranch,
         HeldByRebase, Cover, Unwritten, Gate, Goto, End, ErrorStatus
<1>4. QED
  BY <1>1, <1>2, <1>3 DEF IInv

LEMMA FailPullKeeps ==
  ASSUME IInv, FailPull
  PROVE  IInv'
<1> USE SyncAssumption DEF Edits, Tip, gitVars, stopVars, jobVars, storeVars,
       histVars
<1>1. TypeOK'
  BY DEF IInv, TypeOK, Shape, FailPull, End, ErrorStatus
<1>2. Shape'
  BY DEF IInv, TypeOK, Shape, Loop, FailPull, End, ErrorStatus
<1>3. Held'
  BY DEF IInv, TypeOK, Shape, Loop, Held, HeldAtHead, HeldByBranch,
         HeldByRebase, Cover, Unwritten, FailPull, End, ErrorStatus
<1>4. QED
  BY <1>1, <1>2, <1>3 DEF IInv

LEMMA PullForwardsKeeps ==
  ASSUME IInv, PullForwards
  PROVE  IInv'
<1> USE SyncAssumption DEF Edits, Tip, gitVars, stopVars, jobVars, storeVars,
       histVars
<1>1. TypeOK'
  BY DEF IInv, TypeOK, Shape, PullForwards, Goto, SetTip
<1>2. Shape'
  BY DEF IInv, TypeOK, Shape, Loop, PullForwards, Goto, SetTip
<1>3. Held'
  BY DEF IInv, TypeOK, Shape, Loop, Held, HeldAtHead, HeldByBranch,
         HeldByRebase, Cover, Unwritten, PullForwards, Goto, SetTip
<1>4. QED
  BY <1>1, <1>2, <1>3 DEF IInv

LEMMA PullRebasesKeeps ==
  ASSUME IInv, PullRebases
  PROVE  IInv'
<1> USE SyncAssumption DEF Edits, Tip, gitVars, stopVars, jobVars, storeVars,
       histVars
<1>1. TypeOK'
  BY DEF IInv, TypeOK, Shape, PullRebases, Goto
<1>2. Shape'
  BY DEF IInv, TypeOK, Shape, Loop, PullRebases, Goto
<1>3. Held'
  BY DEF IInv, TypeOK, Shape, Loop, Held, HeldAtHead, HeldByBranch,
         HeldByRebase, Cover, Unwritten, PullRebases, Goto
<1>4. QED
  BY <1>1, <1>2, <1>3 DEF IInv

LEMMA PullResumesKeeps ==
  ASSUME IInv, PullResumes
  PROVE  IInv'
<1> USE SyncAssumption DEF Edits, Tip, gitVars, stopVars, jobVars, storeVars,
       histVars
<1>1. TypeOK'
  BY DEF IInv, TypeOK, Shape, PullResumes, Goto
<1>2. Shape'
  BY DEF IInv, TypeOK, Shape, Loop, PullResumes, Goto
<1>3. Held'
  BY DEF IInv, TypeOK, Shape, Loop, Held, HeldAtHead, HeldByBranch,
         HeldByRebase, Cover, Unwritten, PullResumes, Goto
<1>4. QED
  BY <1>1, <1>2, <1>3 DEF IInv

LEMMA ReplayKeeps ==
  ASSUME IInv, NEW e \in todo, Replay(e)
  PROVE  IInv'
<1> USE SyncAssumption DEF Edits, Tip, gitVars, stopVars, jobVars, storeVars,
       histVars
<1>1. TypeOK'
  BY DEF IInv, TypeOK, Shape, Replay, Goto, SetTip
<1>2. Shape'
  BY DEF IInv, TypeOK, Shape, Loop, Replay, Goto, SetTip
<1>3. Held'
  BY DEF IInv, TypeOK, Shape, Loop, Held, HeldAtHead, HeldByBranch,
         HeldByRebase, Cover, Unwritten, Replay, Goto, SetTip
<1>4. QED
  BY <1>1, <1>2, <1>3 DEF IInv

LEMMA ConflictKeeps ==
  ASSUME IInv, NEW e \in todo, Conflict(e)
  PROVE  IInv'
<1> USE SyncAssumption DEF Edits, Tip, gitVars, stopVars, jobVars, storeVars,
       histVars
<1>1. TypeOK'
  BY DEF IInv, TypeOK, Shape, Conflict, Goto
<1>2. Shape'
  BY DEF IInv, TypeOK, Shape, Loop, Conflict, Goto
<1>3. Held'
  BY DEF IInv, TypeOK, Shape, Loop, Held, HeldAtHead, HeldByBranch,
         HeldByRebase, Cover, Unwritten, Conflict, Goto
<1>4. QED
  BY <1>1, <1>2, <1>3 DEF IInv

LEMMA FinishRebaseKeeps ==
  ASSUME IInv, FinishRebase
  PROVE  IInv'
<1> USE SyncAssumption DEF Edits, Tip, gitVars, stopVars, jobVars, storeVars,
       histVars
<1>1. TypeOK'
  BY DEF IInv, TypeOK, Shape, FinishRebase, Goto, OffBranch
<1>2. Shape'
  BY DEF IInv, TypeOK, Shape, Loop, FinishRebase, Goto, OffBranch
<1>3. Held'
  BY DEF IInv, TypeOK, Shape, Loop, Held, HeldAtHead, HeldByBranch,
         HeldByRebase, Cover, Unwritten, FinishRebase, Goto, OffBranch
<1>4. QED
  BY <1>1, <1>2, <1>3 DEF IInv

LEMMA MergeKeeps ==
  ASSUME IInv, Merge
  PROVE  IInv'
<1> USE SyncAssumption DEF Edits, Tip, gitVars, stopVars, jobVars, storeVars,
       histVars
<1>1. TypeOK'
  BY DEF IInv, TypeOK, Shape, Merge, Goto
<1>2. Shape'
  BY DEF IInv, TypeOK, Shape, Loop, Merge, Goto
<1>3. Held'
  BY DEF IInv, TypeOK, Shape, Loop, Held, HeldAtHead, HeldByBranch,
         HeldByRebase, Cover, Unwritten, Merge, Goto
<1>4. QED
  BY <1>1, <1>2, <1>3 DEF IInv

LEMMA TakeRemoteKeeps ==
  ASSUME IInv, TakeRemote
  PROVE  IInv'
<1> USE SyncAssumption DEF Edits, Tip, gitVars, stopVars, jobVars, storeVars,
       histVars
<1>1. TypeOK'
  BY DEF IInv, TypeOK, Shape, TakeRemote, Goto
<1>2. Shape'
  BY DEF IInv, TypeOK, Shape, Loop, TakeRemote, Goto
<1>3. Held'
  BY DEF IInv, TypeOK, Shape, Loop, Held, HeldAtHead, HeldByBranch,
         HeldByRebase, Cover, Unwritten, TakeRemote, Goto
<1>4. QED
  BY <1>1, <1>2, <1>3 DEF IInv

LEMMA TakeDeletionKeeps ==
  ASSUME IInv, TakeDeletion
  PROVE  IInv'
<1> USE SyncAssumption DEF Edits, Tip, gitVars, stopVars, jobVars, storeVars,
       histVars
<1>1. TypeOK'
  BY DEF IInv, TypeOK, Shape, TakeDeletion, Goto, SameFile
<1>2. Shape'
  BY DEF IInv, TypeOK, Shape, Loop, TakeDeletion, Goto, SameFile
<1>3. Held'
  BY DEF IInv, TypeOK, Shape, Loop, Held, HeldAtHead, HeldByBranch,
         HeldByRebase, Cover, Unwritten, TakeDeletion, Goto, SameFile
<1>4. QED
  BY <1>1, <1>2, <1>3 DEF IInv

LEMMA RefusePlanKeeps ==
  ASSUME IInv, RefusePlan
  PROVE  IInv'
<1> USE SyncAssumption DEF Edits, Tip, gitVars, stopVars, jobVars, storeVars,
       histVars
<1>1. TypeOK'
  BY DEF IInv, TypeOK, Shape, RefusePlan, End, ErrorStatus, Abort, OffBranch
<1>2. Shape'
  BY DEF IInv, TypeOK, Shape, Loop, RefusePlan, End, ErrorStatus, Abort,
         OffBranch
<1>3. Held'
  BY DEF IInv, TypeOK, Shape, Loop, Held, HeldAtHead, HeldByBranch,
         HeldByRebase, Cover, Unwritten, RefusePlan, End, ErrorStatus, Abort,
         OffBranch
<1>4. QED
  BY <1>1, <1>2, <1>3 DEF IInv

LEMMA PlanNothingKeeps ==
  ASSUME IInv, PlanNothing
  PROVE  IInv'
<1> USE SyncAssumption DEF Edits, Tip, gitVars, stopVars, jobVars, storeVars,
       histVars
<1>1. TypeOK'
  BY DEF IInv, TypeOK, Shape, PlanNothing, Goto
<1>2. Shape'
  BY DEF IInv, TypeOK, Shape, Loop, PlanNothing, Goto
<1>3. Held'
  BY DEF IInv, TypeOK, Shape, Loop, Held, HeldAtHead, HeldByBranch,
         HeldByRebase, Cover, Unwritten, PlanNothing, Goto
<1>4. QED
  BY <1>1, <1>2, <1>3 DEF IInv

LEMMA ContinueKeeps ==
  ASSUME IInv, Continue
  PROVE  IInv'
<1> USE SyncAssumption DEF Edits, Tip, gitVars, stopVars, jobVars, storeVars,
       histVars
<1>1. TypeOK'
  BY DEF IInv, TypeOK, Shape, Continue, Goto, SetTip
<1>2. Shape'
  BY DEF IInv, TypeOK, Shape, Loop, Continue, Goto, SetTip
<1>3. Held'
  BY DEF IInv, TypeOK, Shape, Loop, Held, HeldAtHead, HeldByBranch,
         HeldByRebase, Cover, Unwritten, Continue, Goto, SetTip
<1>4. QED
  BY <1>1, <1>2, <1>3 DEF IInv

LEMMA FailContinueKeeps ==
  ASSUME IInv, FailContinue
  PROVE  IInv'
<1> USE SyncAssumption DEF Edits, Tip, gitVars, stopVars, jobVars, storeVars,
       histVars
<1>1. TypeOK'
  BY DEF IInv, TypeOK, Shape, FailContinue, Goto
<1>2. Shape'
  BY DEF IInv, TypeOK, Shape, Loop, FailContinue, Goto
<1>3. Held'
  BY DEF IInv, TypeOK, Shape, Loop, Held, HeldAtHead, HeldByBranch,
         HeldByRebase, Cover, Unwritten, FailContinue, Goto
<1>4. QED
  BY <1>1, <1>2, <1>3 DEF IInv

LEMMA RecoverKeeps ==
  ASSUME IInv, Recover
  PROVE  IInv'
<1> USE SyncAssumption DEF Edits, Tip, gitVars, stopVars, jobVars, storeVars,
       histVars
<1>1. TypeOK'
  <2>1. /\ lock' \in BOOLEAN /\ polling' \in BOOLEAN /\ bare' \in BOOLEAN
    BY DEF IInv, TypeOK, Recover, Goto, Abort, OffBranch
  <2>2. kills' \in 0 .. MaxKills
    BY DEF IInv, TypeOK, Recover, Goto, Abort, OffBranch
  <2>3. QED
    BY <2>1, <2>2 DEF IInv, TypeOK, Shape, Recover, Goto, Abort, OffBranch
<1>2. Shape'
  BY DEF IInv, TypeOK, Shape, Loop, Recover, Goto, Abort, OffBranch
<1>3. Held'
  BY DEF IInv, TypeOK, Shape, Loop, Held, HeldAtHead, HeldByBranch,
         HeldByRebase, Cover, Unwritten, Recover, Goto, Abort, OffBranch
<1>4. QED
  BY <1>1, <1>2, <1>3 DEF IInv

LEMMA FailAdoptKeeps ==
  ASSUME IInv, FailAdopt
  PROVE  IInv'
<1> USE SyncAssumption DEF Edits, Tip, gitVars, stopVars, jobVars, storeVars,
       histVars
<1>1. TypeOK'
  BY DEF IInv, TypeOK, Shape, FailAdopt, End, ErrorStatus
<1>2. Shape'
  BY DEF IInv, TypeOK, Shape, Loop, FailAdopt, End, ErrorStatus
<1>3. Held'
  BY DEF IInv, TypeOK, Shape, Loop, Held, HeldAtHead, HeldByBranch,
         HeldByRebase, Cover, Unwritten, FailAdopt, End, ErrorStatus
<1>4. QED
  BY <1>1, <1>2, <1>3 DEF IInv

LEMMA AdoptKeeps ==
  ASSUME IInv, Adopt
  PROVE  IInv'
<1> USE SyncAssumption DEF Edits, Tip, gitVars, stopVars, jobVars, storeVars,
       histVars
<1>1. TypeOK'
  BY DEF IInv, TypeOK, Shape, Adopt, Goto, AdoptRemote, OffBranch
<1>2. Shape'
  BY DEF IInv, TypeOK, Shape, Loop, Adopt, Goto, AdoptRemote, OffBranch
<1>3. Held'
  BY DEF IInv, TypeOK, Shape, Loop, Held, HeldAtHead, HeldByBranch,
         HeldByRebase, Cover, Unwritten, Adopt, Goto, AdoptRemote, OffBranch
<1>4. QED
  BY <1>1, <1>2, <1>3 DEF IInv

LEMMA JournalKeeps ==
  ASSUME IInv, Journal
  PROVE  IInv'
<1> USE SyncAssumption DEF Edits, Tip, gitVars, stopVars, jobVars, storeVars,
       histVars
<1>1. TypeOK'
  BY DEF IInv, TypeOK, Shape, Journal, Goto
<1>2. Shape'
  BY DEF IInv, TypeOK, Shape, Loop, Journal, Goto
<1>3. Held'
  BY DEF IInv, TypeOK, Shape, Loop, Held, HeldAtHead, HeldByBranch,
         HeldByRebase, Cover, Unwritten, Journal, Goto
<1>4. QED
  BY <1>1, <1>2, <1>3 DEF IInv

LEMMA FailJournalKeeps ==
  ASSUME IInv, FailJournal
  PROVE  IInv'
<1> USE SyncAssumption DEF Edits, Tip, gitVars, stopVars, jobVars, storeVars,
       histVars
<1>1. TypeOK'
  BY DEF IInv, TypeOK, Shape, FailJournal, End, ErrorStatus
<1>2. Shape'
  BY DEF IInv, TypeOK, Shape, Loop, FailJournal, End, ErrorStatus
<1>3. Held'
  BY DEF IInv, TypeOK, Shape, Loop, Held, HeldAtHead, HeldByBranch,
         HeldByRebase, Cover, Unwritten, FailJournal, End, ErrorStatus
<1>4. QED
  BY <1>1, <1>2, <1>3 DEF IInv

LEMMA PushKeeps ==
  ASSUME IInv, Push
  PROVE  IInv'
<1> USE SyncAssumption DEF Edits, Tip, gitVars, stopVars, jobVars, storeVars,
       histVars
<1>1. TypeOK'
  BY DEF IInv, TypeOK, Shape, Push, End, ErrorStatus
<1>2. Shape'
  BY DEF IInv, TypeOK, Shape, Loop, Push, End, ErrorStatus
<1>3. Held'
  BY DEF IInv, TypeOK, Shape, Loop, Held, HeldAtHead, HeldByBranch,
         HeldByRebase, Cover, Unwritten, Push, End, ErrorStatus
<1>4. QED
  BY <1>1, <1>2, <1>3 DEF IInv

LEMMA FailPushKeeps ==
  ASSUME IInv, FailPush
  PROVE  IInv'
<1> USE SyncAssumption DEF Edits, Tip, gitVars, stopVars, jobVars, storeVars,
       histVars
<1>1. TypeOK'
  BY DEF IInv, TypeOK, Shape, FailPush, End, ErrorStatus
<1>2. Shape'
  BY DEF IInv, TypeOK, Shape, Loop, FailPush, End, ErrorStatus
<1>3. Held'
  BY DEF IInv, TypeOK, Shape, Loop, Held, HeldAtHead, HeldByBranch,
         HeldByRebase, Cover, Unwritten, FailPush, End, ErrorStatus
<1>4. QED
  BY <1>1, <1>2, <1>3 DEF IInv

LEMMA StartOverwriteKeeps ==
  ASSUME IInv, StartOverwrite
  PROVE  IInv'
<1> USE SyncAssumption DEF Edits, Tip, gitVars, stopVars, jobVars, storeVars,
       histVars
<1>1. TypeOK'
  BY DEF IInv, TypeOK, Shape, StartOverwrite, Begin, QueueFree
<1>2. Shape'
  BY DEF IInv, TypeOK, Shape, Loop, StartOverwrite, Begin, QueueFree
<1>3. Held'
  BY DEF IInv, TypeOK, Shape, Loop, Held, HeldAtHead, HeldByBranch,
         HeldByRebase, Cover, Unwritten, StartOverwrite, Begin, QueueFree
<1>4. QED
  BY <1>1, <1>2, <1>3 DEF IInv

LEMMA OverwriteResetKeeps ==
  ASSUME IInv, OverwriteReset
  PROVE  IInv'
<1> USE SyncAssumption DEF Edits, Tip, gitVars, stopVars, jobVars, storeVars,
       histVars
<1>1. TypeOK'
  <2>1. /\ lock' \in BOOLEAN /\ polling' \in BOOLEAN /\ bare' \in BOOLEAN
    BY DEF IInv, TypeOK, OverwriteReset, Goto, Abort, OffBranch
  <2>2. kills' \in 0 .. MaxKills
    BY DEF IInv, TypeOK, OverwriteReset, Goto, Abort, OffBranch
  <2>3. QED
    BY <2>1, <2>2 DEF IInv, TypeOK, Shape, OverwriteReset, Goto, Abort,
           OffBranch
<1>2. Shape'
  BY DEF IInv, TypeOK, Shape, Loop, OverwriteReset, Goto, Abort, OffBranch
<1>3. Held'
  BY DEF IInv, TypeOK, Shape, Loop, Held, HeldAtHead, HeldByBranch,
         HeldByRebase, Cover, Unwritten, OverwriteReset, Goto, Abort,
         OffBranch
<1>4. QED
  BY <1>1, <1>2, <1>3 DEF IInv

LEMMA OverwriteAdoptKeeps ==
  ASSUME IInv, OverwriteAdopt
  PROVE  IInv'
<1> USE SyncAssumption DEF Edits, Tip, gitVars, stopVars, jobVars, storeVars,
       histVars
<1>1. TypeOK'
  BY DEF IInv, TypeOK, Shape, OverwriteAdopt, End, ErrorStatus, AdoptRemote,
         OffBranch
<1>2. Shape'
  BY DEF IInv, TypeOK, Shape, Loop, OverwriteAdopt, End, ErrorStatus,
         AdoptRemote, OffBranch
<1>3. Held'
  BY DEF IInv, TypeOK, Shape, Loop, Held, HeldAtHead, HeldByBranch,
         HeldByRebase, Cover, Unwritten, OverwriteAdopt, End, ErrorStatus,
         AdoptRemote, OffBranch
<1>4. QED
  BY <1>1, <1>2, <1>3 DEF IInv

LEMMA TeamPushKeeps ==
  ASSUME IInv, NEW t \in Theirs, TeamPush(t)
  PROVE  IInv'
<1> USE SyncAssumption DEF Edits, Tip, gitVars, stopVars, jobVars, storeVars,
       histVars
<1>1. TypeOK'
  BY DEF IInv, TypeOK, Shape, TeamPush
<1>2. Shape'
  BY DEF IInv, TypeOK, Shape, Loop, TeamPush
<1>3. Held'
  BY DEF IInv, TypeOK, Shape, Loop, Held, HeldAtHead, HeldByBranch,
         HeldByRebase, Cover, Unwritten, TeamPush
<1>4. QED
  BY <1>1, <1>2, <1>3 DEF IInv

LEMMA KillKeeps ==
  ASSUME IInv, Kill
  PROVE  IInv'
<1> USE SyncAssumption DEF Edits, Tip, gitVars, stopVars, jobVars, storeVars,
       histVars
<1>1. TypeOK'
  <2>1. /\ lock' \in BOOLEAN /\ polling' \in BOOLEAN /\ bare' \in BOOLEAN
    BY DEF IInv, TypeOK, Kill, WritesIndex
  <2>2. kills' \in 0 .. MaxKills
    BY DEF IInv, TypeOK, Kill, WritesIndex
  <2>3. QED
    BY <2>1, <2>2 DEF IInv, TypeOK, Shape, Kill, WritesIndex
<1>2. Shape'
  BY DEF IInv, TypeOK, Shape, Loop, Kill, WritesIndex
<1>3. Held'
  BY DEF IInv, TypeOK, Shape, Loop, Held, HeldAtHead, HeldByBranch,
         HeldByRebase, Cover, Unwritten, Kill, WritesIndex
<1>4. QED
  BY <1>1, <1>2, <1>3 DEF IInv

(* Every step of a job keeps the invariant.                                *)
LEMMA JobKeeps ==
  ASSUME IInv, JobStep
  PROVE  IInv'
<1>1. CASE SaveStep
  BY <1>1, CommitSaveKeeps, FailSaveKeeps DEF SaveStep
<1>2. CASE BackupStep
  BY <1>2, RefuseBackupKeeps, NothingToBackUpKeeps, LeaveForBackupKeeps,
         CommitBackupKeeps, ReturnFromBackupKeeps, StayOnBackupKeeps DEF
         BackupStep
<1>3. CASE PullStep
  BY <1>3, GateKeeps, FailPullKeeps, PullForwardsKeeps, PullRebasesKeeps,
         PullResumesKeeps DEF PullStep
<1>4. CASE ReplayStep
  BY <1>4, ReplayKeeps, ConflictKeeps, FinishRebaseKeeps DEF ReplayStep
<1>5. CASE PlanStep
  BY <1>5, MergeKeeps, TakeRemoteKeeps, TakeDeletionKeeps, RefusePlanKeeps,
         PlanNothingKeeps, ContinueKeeps, FailContinueKeeps DEF PlanStep
<1>6. CASE EndStep
  BY <1>6, RecoverKeeps, FailAdoptKeeps, AdoptKeeps, JournalKeeps,
         FailJournalKeeps, PushKeeps, FailPushKeeps, OverwriteResetKeeps,
         OverwriteAdoptKeeps DEF EndStep
<1>7. QED
  BY <1>1, <1>2, <1>3, <1>4, <1>5, <1>6 DEF JobStep

LEMMA StutterKeeps ==
  ASSUME IInv, UNCHANGED vars
  PROVE  IInv'
BY DEF IInv, TypeOK, Shape, Loop, Held, HeldAtHead, HeldByBranch,
       HeldByRebase, Cover, Unwritten, Tip, vars, gitVars, stopVars, jobVars,
       storeVars, histVars

LEMMA InitHolds == Init => IInv
<1> SUFFICES ASSUME Init
             PROVE  IInv
  OBVIOUS
<1>1. kills = 0 /\ 0 \in 0 .. MaxKills
  BY SyncAssumption DEF Init
<1>2. TypeOK
  BY <1>1 DEF Init, TypeOK, Edits
<1>3. Shape /\ Held
  BY DEF Init, Shape, Loop, Held, HeldAtHead, HeldByBranch, HeldByRebase
<1>4. QED
  BY <1>2, <1>3 DEF IInv

LEMMA NextKeeps == IInv /\ [Next]_vars => IInv'
<1> SUFFICES ASSUME IInv, [Next]_vars
             PROVE  IInv'
  OBVIOUS
<1>1. CASE \E e \in Mine : StartSave(e)
  BY <1>1, StartSaveKeeps
<1>2. CASE \E e \in journal : ClearConflict(e)
  BY <1>2, ClearConflictKeeps
<1>3. CASE ReconcileSpawns
  BY <1>3, ReconcileSpawnsKeeps
<1>4. CASE ReconcileInspects
  BY <1>4, ReconcileInspectsKeeps
<1>5. CASE PollSync
  BY <1>5, PollSyncKeeps
<1>6. CASE StartEditorSync
  BY <1>6, StartEditorSyncKeeps
<1>7. CASE StartOverwrite
  BY <1>7, StartOverwriteKeeps
<1>8. CASE \E t \in Theirs : TeamPush(t)
  BY <1>8, TeamPushKeeps
<1>9. CASE Kill
  BY <1>9, KillKeeps
<1>10. CASE JobStep
  BY <1>10, JobKeeps
<1>11. CASE UNCHANGED vars
  BY <1>11, StutterKeeps
<1>12. QED
  BY <1>1, <1>2, <1>3, <1>4, <1>5, <1>6, <1>7, <1>8, <1>9, <1>10, <1>11 DEF
         Next

-----------------------------------------------------------------------------
(* The inductive invariant: what each step may rely on, and where a saved  *)
(* edit is held with and without an open rebase.                           *)
THEOREM SyncInvariant == Spec => []IInv
<1>1. Init => IInv
  BY InitHolds
<1>2. IInv /\ [Next]_vars => IInv'
  BY NextKeeps
<1>3. QED
  BY <1>1, <1>2, PTL DEF Spec

(* The variables have their types.                                         *)
THEOREM SyncTypeCorrect == Spec => []TypeOK
<1>1. IInv => TypeOK
  BY DEF IInv
<1>2. QED
  BY <1>1, SyncInvariant, PTL

(* An edit whose save was confirmed is never gone, whatever the order of   *)
(* backups, rebases, conflicts, aborts, recoveries and pushes, and however *)
(* often the app is killed between two git commands.                       *)
THEOREM SavedEditsAreKept == Spec => []NothingSavedIsLost
<1>1. IInv => NothingSavedIsLost
  BY DEF IInv, TypeOK, Shape, Held, HeldAtHead, HeldByBranch, Cover,
         Unwritten, NothingSavedIsLost, Kept
<1>2. QED
  BY <1>1, SyncInvariant, PTL

(* At the push a step pushes or does not answer that it did.               *)
LEMMA PushAnswers ==
  ASSUME IInv, Next, pc = "push"
  PROVE  Push \/ outcome' \in {"none", "error", "killed"}
<1>1. op # "none" /\ outcome = "none"
  BY DEF IInv, Shape
<1>2. CASE SaveStep \/ BackupStep \/ PullStep
  BY <1>2 DEF SaveStep, BackupStep, PullStep, CommitSave, FailSave,
         RefuseBackup, NothingToBackUp, LeaveForBackup, CommitBackup,
         ReturnFromBackup, StayOnBackup, Gate, FailPull, PullForwards,
         PullRebases, PullResumes
<1>3. CASE ReplayStep \/ PlanStep
  BY <1>3 DEF ReplayStep, PlanStep, Replay, Conflict, FinishRebase, Merge,
         TakeRemote, TakeDeletion, RefusePlan, PlanNothing, Continue,
         FailContinue
<1>4. CASE EndStep
  BY <1>4 DEF EndStep, Recover, FailAdopt, Adopt, Journal, FailJournal, FailPush,
         OverwriteReset, OverwriteAdopt, End
<1>5. CASE ~JobStep
  BY <1>1, <1>5 DEF Next, StartSave, ClearConflict, ReconcileSpawns,
         ReconcileInspects, PollSync, StartEditorSync, StartOverwrite,
         TeamPush, Kill, Begin, QueueFree
<1>6. QED
  BY <1>2, <1>3, <1>4, <1>5 DEF JobStep

(* After a push that answers upToDate or importedEditorConflicts, GitHub   *)
(* has what was saved, but for what the backup branches, the journal and   *)
(* the users' decisions account for.                                       *)
THEOREM PushSharesSaved == Spec => SyncedMeansShared
<1> DEFINE Shares ==
      pc = "push" /\ outcome' \in {"upToDate", "importedEditorConflicts"}
        /\ head = "main" /\ rebasing = "no"
      => saved \subseteq remote' \cup aside \cup journal \cup settled \cup exposed
<1>1. ASSUME IInv, [Next]_vars
      PROVE  [Shares]_vars
  <2> SUFFICES ASSUME Next, pc = "push", head = "main", rebasing = "no",
                      outcome' \in {"upToDate", "importedEditorConflicts"}
               PROVE  saved \subseteq remote' \cup aside \cup journal \cup settled
                                      \cup exposed
    BY <1>1
  <2>1. Push
    BY <1>1, PushAnswers
  <2>2. saved \subseteq Cover \cup main
    BY <1>1 DEF IInv, Held, HeldAtHead, Unwritten, Tip
  <2>3. remote \subseteq main /\ remote' = main
    BY <2>1 DEF Push
  <2>4. QED
    BY <2>2, <2>3 DEF Cover
<1>2. QED
  BY <1>1, SyncInvariant, PTL DEF Spec, SyncedMeansShared

(* What a step of the conflict loop leaves: an answer without an open      *)
(* rebase, or the sync under way.                                          *)
LEMMA LoopAnswers ==
  ASSUME IInv, Next, op # "none", op' = "none", outcome' # "killed",
         pc \in {"plan", "continue", "replay", "recover", "adopt"}
  PROVE  rebasing' = "no"
<1>1. CASE SaveStep \/ BackupStep \/ PullStep
  BY <1>1 DEF SaveStep, BackupStep, PullStep, CommitSave, FailSave,
         RefuseBackup, NothingToBackUp, LeaveForBackup, CommitBackup,
         ReturnFromBackup, StayOnBackup, Gate, FailPull, PullForwards,
         PullRebases, PullResumes
<1>2. CASE ReplayStep \/ PlanStep
  BY <1>2 DEF ReplayStep, PlanStep, Replay, Conflict, FinishRebase, Merge,
         TakeRemote, TakeDeletion, RefusePlan, PlanNothing, Continue,
         FailContinue, Goto, Abort
<1>3. CASE EndStep
  BY <1>3 DEF EndStep, Recover, FailAdopt, Adopt, Journal, FailJournal, Push,
         FailPush, OverwriteReset, OverwriteAdopt, Goto, IInv, Shape, stopVars
<1>4. CASE ~JobStep
  BY <1>4 DEF Next, StartSave, ClearConflict, ReconcileSpawns,
         ReconcileInspects, PollSync, StartEditorSync, StartOverwrite,
         TeamPush, Kill, Begin, QueueFree
<1>5. QED
  BY <1>1, <1>2, <1>3, <1>4 DEF JobStep

(* No sync that took up or began a rebase answers with the rebase open.    *)
THEOREM SyncsEndRebases == Spec => LoopEndsRebase
<1> DEFINE Ends ==
      SyncAnswers /\ outcome' # "killed"
        /\ pc \in {"plan", "continue", "replay", "recover", "adopt"}
      => rebasing' = "no"
<1>1. ASSUME IInv, [Next]_vars
      PROVE  [Ends]_vars
  <2> SUFFICES ASSUME Next, op # "none", op' = "none", outcome' # "killed",
                      pc \in {"plan", "continue", "replay", "recover", "adopt"}
               PROVE  rebasing' = "no"
    BY <1>1 DEF SyncAnswers
  <2>1. QED
    BY <1>1, LoopAnswers
<1>2. QED
  BY <1>1, SyncInvariant, PTL DEF Spec, LoopEndsRebase
=============================================================================
