---------------------------- MODULE EditorRowText ----------------------------
(***************************************************************************)
(* The text of one editor row while other people work on it too: typing,   *)
(* saving, three-way merges, conflicts and reloads                         *)
(* (src-ui/app/editor-persistence-flow.js, editor-persistence-state.js,    *)
(* editor-row-merge.js, editor-row-sync-flow.js, editor-background-sync.js *)
(* and update_gtms_editor_row_fields_sync of                               *)
(* src-tauri/src/project_import/chapter_editor/row_fields.rs).             *)
(*                                                                         *)
(* A row has a text for each column, a language or its footnote, caption   *)
(* or attribution. Saves are operations of the editor operation queue;     *)
(* background syncs are the other writes of the repo queue. What a sync    *)
(* does after its write, and the reloads of rows, do not hold the queue.   *)
(*                                                                         *)
(* Not here: rows deleted, inserted or moved, blocking reloads of the      *)
(* whole chapter, the conflict dialog, markers and styles (see             *)
(* EditorRowOperations). A row in conflict stays in conflict.              *)
(***************************************************************************)
EXTENDS EditorOperationQueue

CONSTANTS
  rowText,      \* the coalesce key of the row's text
  Repo,         \* the repository of the row's project
  Columns,
  UserTexts, OtherTexts, Blank,     \* what the user and others write
  None, Unread  \* no load is under way; its command has not read the file

ASSUME TextAssumption ==
  /\ CoalesceKeys = {rowText} /\ ScopeOf = [k \in CoalesceKeys |-> Repo]
  /\ Repo \in WriteScopes
  /\ IsFiniteSet(Columns)
  /\ Blank \notin UserTexts \cup OtherTexts

Texts == [Columns -> UserTexts \cup OtherTexts \cup {Blank}]

(* What a promise of the row's file stands for: its texts, at a commit.    *)
FileRead == [file : Texts, head : 0..MaxWrites]

(* No load reads one of the values that stand for none.                    *)
ASSUME MarkerAssumption == None # Unread /\ {None, Unread} \cap FileRead = {}

Row == [fields : Texts,
        persisted : Texts,    \* persistedFields, always equal to baseFields
        freshness : {"fresh", "dirty", "stale", "staleDirty", "conflict"},
        saveStatus : {"idle", "dirty", "saving", "error", "conflict"}]

(* The value of a save, and what its command answered.                     *)
Save == [fields : Texts, base : Texts,
         answer : [status : {"none", "saved", "conflict", "skipped"}, file : Texts]]

Empty == [c \in Columns |-> Blank]

NoAnswer == [status |-> "none", file |-> Empty]

VARIABLES
  row,        \* the row in state.editorChapter
  stored,     \* the texts in its file
  head,       \* how many commits the repository has
  chapterBase,  \* chapterBaseCommitSha
  unpushed,   \* columns with local commits that no sync has pushed
  saves,      \* the saves whose run() has not ended
  ui,         \* focus, activeRowId, dirtyRowIds and the pending blur scan
  reload,     \* pendingEditorRowReloads
  sync        \* the background sync: where it is, and its own load

repoVars == <<stored, head, unpushed>>

textVars == <<queueVars, repoVars, row, chapterBase, saves, ui, reload, sync>>

SyncPhases == {"none", "syncing", "pulled", "merge", "merging", "reload", "reloading"}

(* rowHasFieldChanges                                                      *)
Unsaved(r) == r.fields # r.persisted

InConflict(r) == r.freshness = "conflict" \/ r.saveStatus = "conflict"

(* Mutant of Reconciled: it trusts the row's freshness.                    *)
Reconciled_Fresh(r) == r.freshness = "dirty" \/ r.saveStatus = "saving"

(* reconcileDirtyTrackedEditorRows for the row; rowNeedsDirtyTracking      *)
Reconciled(r) == Unsaved(r) \/ r.saveStatus = "saving"

(* The columns changed on both sides, to different texts. The editor       *)
(* (mergeStringSlices) and the command (merge_editor_string_maps_by) agree.*)
Clash(base, local, remote) ==
  {c \in Columns : local[c] # base[c] /\ remote[c] # base[c] /\ local[c] # remote[c]}

(* ... and the merge when there are none.                                  *)
Merged(base, local, remote) ==
  [c \in Columns |-> IF local[c] = base[c] THEN remote[c] ELSE local[c]]
-----------------------------------------------------------------------------
(* The row's transformations, editor-persistence-state.js.                 *)

(* applyEditorRowFieldValue                                                *)
WithText(r, c, text) ==
  LET fields == [r.fields EXCEPT ![c] = text]
      clean == fields = r.persisted
  IN  [r EXCEPT !.fields = fields,
         !.freshness = IF @ = "conflict" THEN @
                       ELSE IF @ \in {"stale", "staleDirty"} THEN "staleDirty"
                       ELSE IF clean THEN "fresh" ELSE "dirty",
         !.saveStatus = IF @ = "conflict" THEN @
                        ELSE IF @ # "saving" /\ clean THEN "idle" ELSE "dirty"]

(* buildMergedRowState                                                     *)
WithMerge(fields, file) ==
  [fields |-> fields, persisted |-> file,
   freshness |-> IF fields = file THEN "fresh" ELSE "dirty",
   saveStatus |-> IF fields = file THEN "idle" ELSE "dirty"]

(* applyRowReloadedFromDisk                                                *)
Reloaded(file) == WithMerge(file, file)

(* applyEditorRowConflictDetected                                          *)
WithConflict(r) == [r EXCEPT !.freshness = "conflict", !.saveStatus = "conflict"]

(* Mutant of WithSave: the file's texts replace what was typed meanwhile.  *)
WithSave_Replaced(r, file, snapshot) == Reloaded(file)

(* applyEditorRowPersistSucceeded: snapshot was saved, file is the row the *)
(* command answered with.                                                  *)
WithSave(r, file, snapshot) ==
  IF r.fields = snapshot
  THEN Reloaded(snapshot)
  ELSE IF Clash(snapshot, r.fields, file) = {}
  THEN WithMerge(Merged(snapshot, r.fields, file), file)
  ELSE [fields |-> r.fields, persisted |-> file,
        freshness |-> "dirty", saveStatus |-> "dirty"]

(* applyRowTextSavePayload for an answer of status conflict                *)
WithConflictAnswer(r, save, stale) ==
  LET file == save.answer.file
  IN  IF stale
      THEN IF InConflict(r) THEN r ELSE WithConflict(r)
      ELSE IF Clash(save.base, r.fields, file) = {}
      THEN WithMerge(Merged(save.base, r.fields, file), file)
      ELSE IF save.fields = file
      THEN WithSave(r, file, save.fields)
      ELSE WithConflict(r)

(* applyRowTextSavePayload                                                 *)
WithAnswer(r, save, stale) ==
  CASE save.answer.status = "skipped"  -> r
    [] save.answer.status = "saved"    -> WithSave(r, save.answer.file, save.fields)
    [] save.answer.status = "conflict" -> WithConflictAnswer(r, save, stale)
-----------------------------------------------------------------------------
TextInit ==
  /\ Init
  /\ stored = Empty
  /\ row = Reloaded(stored)
  /\ unpushed = {}
  /\ head = 0 /\ chapterBase = 0
  /\ saves = <<>>
  /\ ui = [focused |-> FALSE, active |-> FALSE, tracked |-> FALSE, saveDue |-> FALSE]
  /\ reload = None
  /\ sync = [phase |-> "none", read |-> None, old |-> 0]

(* The user types; a stale row accepts no input.                           *)
Type(c, text) ==
  /\ ui.focused /\ row.freshness # "stale"
  /\ text # row.fields[c]
  /\ row' = WithText(row, c, text)
  /\ ui' = [ui EXCEPT !.tracked = TRUE]
  /\ UNCHANGED <<queueVars, repoVars, chapterBase, saves, reload, sync>>

(* setActiveEditorField, on focus and when a stale row refuses a key: a    *)
(* clean stale row is reloaded first.                                      *)
Activate ==
  /\ ui.focused => row.freshness = "stale"
  /\ IF row.freshness = "stale" /\ ~ Unsaved(row)
     THEN /\ reload' = IF reload = None THEN Unread ELSE reload
          /\ ui' = [ui EXCEPT !.focused = TRUE]
     ELSE /\ ui' = [ui EXCEPT !.focused = TRUE, !.active = TRUE]
          /\ UNCHANGED reload
  /\ UNCHANGED <<queueVars, row, chapterBase, repoVars, saves, sync>>

(* The text area loses the focus; scheduleDirtyEditorRowScan.              *)
Blur ==
  /\ ui.focused
  /\ ui' = [ui EXCEPT !.focused = FALSE, !.saveDue = TRUE]
  /\ UNCHANGED <<queueVars, row, chapterBase, repoVars, saves, reload, sync>>

(* Another row becomes the active one.                                     *)
LeaveRow ==
  /\ ui.active /\ ~ ui.focused
  /\ ui' = [ui EXCEPT !.active = FALSE]
  /\ UNCHANGED <<queueVars, row, chapterBase, repoVars, saves, reload, sync>>

(* persistEditorRow: the row's texts are queued to be saved. A queued save *)
(* of the row is superseded and never runs.                                *)
RequestSave(st) ==
  /\ NextWrite \in WriteIds
  /\ RequestOperation(NextWrite, Repo, rowText, st)
  /\ LET wanted == {w \in DOMAIN saves : operations'[w].status # "cancelled"}
     IN  saves' = Added(Restrict(saves, wanted), NextWrite,
                        [fields |-> row.fields, base |-> row.persisted,
                         answer |-> NoAnswer])
  /\ row' = [row EXCEPT !.saveStatus = "saving"]
  /\ ui' = [ui EXCEPT !.saveDue = FALSE]

(* The scan after a blur, and the save that follows a save or a merge of a *)
(* row left dirty: flushDirtyEditorRows.                                   *)
SaveIfDirty(st) ==
  /\ ui.saveDue
  /\ IF ui.focused \/ ~ ui.tracked \/ ~ Unsaved(row) \/ InConflict(row)
     THEN /\ st = "queued"
          /\ ui' = [ui EXCEPT !.saveDue = FALSE,
                              !.tracked = IF ui.focused THEN @ ELSE @ /\ Reconciled(row)]
          /\ UNCHANGED <<queueVars, row, saves>>
     ELSE RequestSave(st)
  /\ UNCHANGED <<repoVars, chapterBase, reload, sync>>

(* rebaseRowTextInputForRun: the base is that of the row as it is now, the *)
(* texts are those of the request.                                         *)
RebasedInput(save) == [save EXCEPT !.base = row.persisted]

(* run() of the save w.                                                    *)
BeginSave(w) ==
  /\ BeginOperation(w)
  /\ saves' = [saves EXCEPT ![w] =
                 IF InConflict(row) THEN [@ EXCEPT !.answer.status = "skipped"]
                 ELSE RebasedInput(@)]
  /\ UNCHANGED <<row, chapterBase, repoVars, ui, reload, sync>>

(* update_gtms_editor_row_fields merges into the file and commits, or      *)
(* refuses.                                                                *)
CommitSave(w) ==
  /\ w \in DOMAIN saves
  /\ operations[w].status = "running" /\ saves[w].answer.status = "none"
  /\ LET save == saves[w]
         refused == Clash(save.base, save.fields, stored) # {}
     IN  /\ stored' = IF refused THEN stored ELSE Merged(save.base, save.fields, stored)
         /\ saves' = [saves EXCEPT ![w].answer =
                        [status |-> IF refused THEN "conflict" ELSE "saved",
                         file |-> stored']]
  /\ head' = IF stored' = stored THEN head ELSE head + 1
  /\ unpushed' = unpushed \cup {c \in Columns : stored'[c] # stored[c]}
  /\ UNCHANGED <<queueVars, row, chapterBase, ui, reload, sync>>

(* onSuccess or onStaleSuccess. A row left dirty is saved again, unless it *)
(* is focused or a newer save exists.                                      *)
SaveAnswered(w) ==
  LET stale == ~ IsLatestCoalesced(w)
      applied == saves[w].answer.status # "skipped" /\ ~ InConflict(row')
  IN  /\ w \in DOMAIN saves
      /\ saves[w].answer.status # "none"
      /\ OperationSucceeds(w)
      /\ row' = WithAnswer(row, saves[w], stale)
      /\ saves' = Restrict(saves, DOMAIN saves \ {w})
      /\ ui' = [ui EXCEPT !.tracked = IF applied THEN Reconciled(row') ELSE @,
                          !.saveDue = @ \/ (applied /\ ~ stale /\ ~ ui.focused
                                          /\ row'.saveStatus = "dirty")]
      /\ chapterBase' = IF applied THEN head ELSE chapterBase
      /\ UNCHANGED <<repoVars, reload, sync>>

(* run() rejected. There is no onStaleError.                               *)
SaveFails(w) ==
  /\ w \in DOMAIN saves
  /\ saves[w].answer.status = "none"
  /\ OperationFails(w)
  /\ saves' = Restrict(saves, DOMAIN saves \ {w})
  /\ IF IsLatestCoalesced(w)
     THEN /\ row' = [row EXCEPT !.saveStatus = "error"]
          /\ ui' = [ui EXCEPT !.tracked = Reconciled(row')]
     ELSE UNCHANGED <<row, ui>>
  /\ UNCHANGED <<repoVars, chapterBase, reload, sync>>
-----------------------------------------------------------------------------
(* reloadEditorRowFromDisk, shared by activation and background syncs.     *)

ReloadReads ==
  /\ reload = Unread
  /\ reload' = [file |-> stored, head |-> head]
  /\ UNCHANGED <<queueVars, row, chapterBase, repoVars, saves, ui, sync>>

AfterReload ==
  /\ reload' = None
  /\ sync' = IF sync.phase = "reloading" THEN [sync EXCEPT !.phase = "none"] ELSE sync
  /\ UNCHANGED <<queueVars, repoVars, saves>>

ReloadEnds ==
  /\ reload \in FileRead
  /\ row' = Reloaded(reload.file)
  /\ chapterBase' = reload.head
  /\ ui' = [ui EXCEPT !.active = @ \/ ui.focused]
  /\ AfterReload

ReloadFails ==
  /\ reload = Unread
  /\ UNCHANGED <<row, chapterBase, ui>>
  /\ AfterReload
-----------------------------------------------------------------------------
(* runEditorBackgroundSyncOnce                                             *)

(* No sync starts while a row is tracked as dirty.                         *)
RequestSync(st) ==
  /\ sync.phase = "none" /\ ~ ui.tracked
  /\ NextWrite \in WriteIds
  /\ SubmitWrite(NextWrite, Repo, 0, st)
  /\ sync' = [sync EXCEPT !.phase = "syncing", !.old = head]
  /\ UNCHANGED <<operations, latest, waiting, row, chapterBase, repoVars, saves, ui, reload>>

SyncWrite(w) == w \in DOMAIN writes \ DOMAIN operations

SyncBegins(w) ==
  /\ SyncWrite(w)
  /\ BeginWrite(w)
  /\ sync' = [sync EXCEPT !.old = head]
  /\ UNCHANGED <<operations, latest, waiting, row, chapterBase, repoVars, saves, ui, reload>>

(* Somebody else's commit reaches the file. A text that both changed since *)
(* the last push makes a git conflict, and the chapter is reloaded.        *)
Pull(c, text) ==
  /\ sync.phase = "syncing"
  /\ \E w \in DOMAIN writes : SyncWrite(w) /\ writes[w].status = "running"
  /\ c \notin unpushed /\ text # stored[c]
  /\ stored' = [stored EXCEPT ![c] = text]
  /\ head' = head + 1
  /\ sync' = [sync EXCEPT !.phase = "pulled"]
  /\ UNCHANGED <<queueVars, row, chapterBase, unpushed, saves, ui, reload>>

(* rowIsSafeForBackgroundRefresh                                           *)
SafeToReload(r) ==
  ~ ui.active /\ ~ Unsaved(r) /\ r.freshness # "staleDirty" /\ ~ InConflict(r)

(* rowCanAttemptDirtyBackgroundMerge                                       *)
MayMerge(r) ==
  ~ ui.active /\ r.freshness = "staleDirty" /\ r.saveStatus \notin {"saving", "conflict"}

(* markEditorRowsStale                                                     *)
MarkedStale(r) ==
  IF r.freshness = "conflict" THEN r
  ELSE [r EXCEPT !.freshness = IF Unsaved(r) THEN "staleDirty" ELSE "stale"]

(* The sync has pushed the local commits. What it found is used only if    *)
(* the chapter is where the sync started from (matchesCurrentHead).        *)
(* Whether the row is to be reloaded is decided before it is marked, and   *)
(* not looked at again.                                                    *)
SyncEnds(w) ==
  /\ SyncWrite(w)
  /\ SettleWrite(w)
  /\ IF sync.phase = "pulled" /\ chapterBase = sync.old
     THEN /\ chapterBase' = head
          /\ row' = MarkedStale(row)
          /\ sync' = [sync EXCEPT !.phase = IF SafeToReload(row) THEN "reload"
                                            ELSE IF MayMerge(row') THEN "merge" ELSE "none"]
     ELSE /\ sync' = [sync EXCEPT !.phase = "none"]
          /\ UNCHANGED <<row, chapterBase>>
  /\ unpushed' = {}
  /\ UNCHANGED <<operations, latest, waiting, stored, head, saves, ui, reload>>

(* The sync failed, before it pulled anything or when it pushed: what it   *)
(* pulled stays in the file.                                               *)
SyncFails(w) ==
  /\ SyncWrite(w)
  /\ SettleWrite(w)
  /\ sync' = [sync EXCEPT !.phase = "none"]
  /\ UNCHANGED <<operations, latest, waiting, row, chapterBase, repoVars, saves, ui, reload>>

(* reloadBackgroundSyncSafeRows gets to the row.                           *)
SyncReloads ==
  /\ sync.phase = "reload"
  /\ sync' = [sync EXCEPT !.phase = "reloading"]
  /\ reload' = IF reload = None THEN Unread ELSE reload
  /\ UNCHANGED <<queueVars, row, chapterBase, repoVars, saves, ui>>

(* resolveBackgroundSyncDirtyRows gets to the row ...                      *)
SyncMerges ==
  /\ sync.phase = "merge"
  /\ sync' = IF MayMerge(row) THEN [sync EXCEPT !.phase = "merging", !.read = Unread]
             ELSE [sync EXCEPT !.phase = "none"]
  /\ UNCHANGED <<queueVars, row, chapterBase, repoVars, saves, ui, reload>>

SyncReads ==
  /\ sync.read = Unread
  /\ sync' = [sync EXCEPT !.read = [file |-> stored, head |-> head]]
  /\ UNCHANGED <<queueVars, row, chapterBase, repoVars, saves, ui, reload>>

(* ... and merges the row as it is by then with what was read.             *)
SyncMerged ==
  /\ sync.read \in FileRead
  /\ LET file == sync.read.file
     IN  row' = IF Clash(row.persisted, row.fields, file) = {}
                THEN WithMerge(Merged(row.persisted, row.fields, file), file)
                ELSE WithConflict(row)
  /\ sync' = [sync EXCEPT !.phase = "none", !.read = None]
  /\ UNCHANGED <<queueVars, repoVars, chapterBase, saves, ui, reload>>

(* Mutant of SyncMergeFails: what was being read is not forgotten.         *)
SyncMergeFails_Unread ==
  /\ sync.read = Unread
  /\ sync' = [sync EXCEPT !.phase = "none"]
  /\ UNCHANGED <<queueVars, row, chapterBase, repoVars, saves, ui, reload>>

SyncMergeFails ==
  /\ sync.read = Unread
  /\ sync' = [sync EXCEPT !.phase = "none", !.read = None]
  /\ UNCHANGED <<queueVars, row, chapterBase, repoVars, saves, ui, reload>>
-----------------------------------------------------------------------------
(* A write goes on without the row; a flush that awaited it reconciles the *)
(* tracking, the save after a save awaits nothing.                         *)
QueueRunsOn(w) ==
  /\ SkipCancelled(w) \/ SettleOperation(w)
  /\ \E tracked \in {ui.tracked, Reconciled(row)} : ui' = [ui EXCEPT !.tracked = tracked]
  /\ UNCHANGED <<row, chapterBase, repoVars, saves, reload, sync>>

SaveStep(w) == BeginSave(w) \/ CommitSave(w) \/ SaveAnswered(w) \/ SaveFails(w)

SyncStep ==
  \/ \E w \in DOMAIN writes : SyncBegins(w) \/ SyncEnds(w) \/ SyncFails(w)
  \/ \E c \in Columns, text \in OtherTexts : Pull(c, text)
  \/ SyncReloads \/ SyncMerges \/ SyncReads \/ SyncMerged \/ SyncMergeFails

ReloadStep == ReloadReads \/ ReloadEnds \/ ReloadFails

UserStep == Activate \/ Blur \/ LeaveRow

TextNext ==
  \/ \E c \in Columns, text \in UserTexts \cup {Blank} : Type(c, text)
  \/ UserStep
  \/ \E st \in {"queued", "running"} : SaveIfDirty(st) \/ RequestSync(st)
  \/ \E w \in DOMAIN writes : SaveStep(w) \/ QueueRunsOn(w)
  \/ ReloadStep
  \/ SyncStep

TextSpec == TextInit /\ [][TextNext]_textVars
-----------------------------------------------------------------------------
(* Properties.                                                             *)

TextTypeOK ==
  /\ TypeOK
  /\ row \in Row
  /\ stored \in Texts
  /\ unpushed \subseteq Columns
  /\ head \in 0..MaxWrites /\ chapterBase \in 0..head
  /\ DOMAIN saves \subseteq DOMAIN operations
  /\ \A w \in DOMAIN saves : saves[w] \in Save
  /\ ui \in [focused : BOOLEAN, active : BOOLEAN, tracked : BOOLEAN, saveDue : BOOLEAN]
  /\ reload \in {None, Unread} \cup FileRead
  /\ sync \in [phase : SyncPhases, read : {None, Unread} \cup FileRead, old : 0..head]
  /\ sync.read # None <=> sync.phase = "merging"

(* The texts of the row that its file, as the row knows it, does not have.  *)
Drafts(r) == {c \in Columns : r.fields[c] # r.persisted[c]}

Typing(c) == \E text \in UserTexts \cup {Blank} : Type(c, text)

(* Drafts are kept: saves, their answers in any order, merges and syncs     *)
(* never replace an unsaved text, only the user does, or a reload of the    *)
(* row. A text that the save now answered had started from does not count:  *)
(* it was put back over that save, and the file had it.                     *)
OnlyReloadsDropDrafts ==
  [][\A c \in Drafts(row) :
       row'.fields[c] # row.fields[c] =>
         \/ Typing(c)
         \/ reload \in FileRead
         \/ \E w \in DOMAIN saves \ DOMAIN saves' : row.fields[c] = saves[w].base[c]]_textVars

(* Every unsaved text is in dirtyRowIds, which is what leaving the editor,  *)
(* exporting and closing flush, and what keeps syncs from starting.         *)
DraftsAreTracked == Unsaved(row) => ui.tracked

(* Reloads keep drafts too, as plans/editor-unsaved-draft-sync-plan.md says *)
(* ("refuse a reload that would discard a dirty row"). Violated: a sync     *)
(* decides which rows to reload and then reloads them one after the other,  *)
(* without looking whether the user has typed in one by then.               *)
DraftsAreKept ==
  [][\A c \in Drafts(row) :
       reload \in FileRead /\ reload' = None => row'.fields[c] = row.fields[c]]_textVars
=============================================================================
