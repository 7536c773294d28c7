------------------------- MODULE EditorRowTextProofs -------------------------
(***************************************************************************)
(* What is typed into a row is not lost, for every number of writes, any   *)
(* columns and any texts: unsaved texts are tracked as dirty, and only the *)
(* user or a reload replaces them. And the types of row, file, saves,      *)
(* loads and syncs, which rest on counting the writes that may commit.     *)
(***************************************************************************)
EXTENDS EditorRowText, EditorOperationQueueProofs, FiniteSetTheorems

Ui == [focused : BOOLEAN, active : BOOLEAN, tracked : BOOLEAN, saveDue : BOOLEAN]

RowInv == row \in Row /\ stored \in Texts /\ ui \in Ui

(* What a save was answered with contains the texts it was to change ...   *)
SaveKept(save) ==
  /\ save \in Save
  /\ save.answer.status = "saved" =>
       \A c \in Columns : save.fields[c] # save.base[c]
                            => save.answer.file[c] = save.fields[c]

(* ... and it has begun.                                                   *)
SavesInv ==
  \A w \in DOMAIN saves :
    /\ w \in DOMAIN operations
    /\ SaveKept(saves[w])
    /\ saves[w].answer.status # "none" =>
         w \in DOMAIN writes /\ writes[w].status # "queued"

TextInv == QueueInv /\ RowInv /\ SavesInv /\ DraftsAreTracked

(* What was read is of a commit there was, and a merge reads something.    *)
KnownRead == [file : Texts, head : 0 .. head]

LoadsInv ==
  /\ unpushed \subseteq Columns
  /\ head \in Nat /\ chapterBase \in 0 .. head
  /\ reload \in {None, Unread} \cup KnownRead
  /\ sync \in [phase : SyncPhases, read : {None, Unread} \cup KnownRead, old : 0 .. head]
  /\ sync.read # None <=> sync.phase = "merging"

(* One background sync at a time has its write queued or running.          *)
SyncsUnderWay == {w \in DOMAIN writes \ DOMAIN operations : writes[w].status # "settled"}

SyncsInv ==
  /\ \A v, w \in SyncsUnderWay : v = w
  /\ SyncsUnderWay # {} => sync.phase \in {"syncing", "pulled"}

(* The writes that may still commit, and those that will not, or not again.*)
MayCommit ==
  {w \in DOMAIN saves : saves[w].answer.status = "none"}
    \cup {w \in SyncsUnderWay : sync.phase = "syncing"}

Spent == DOMAIN writes \ MayCommit

(* A write commits once at most.                                           *)
CommitsInv == head <= Cardinality(Spent)

(* The bounds of TextTypeOK rest on these.                                 *)
CountInv == LoadsInv /\ SyncsInv /\ CommitsInv

(* The queues never put a write back or forget an operation.               *)
NothingForgotten == DOMAIN operations \subseteq DOMAIN operations'

NothingRequeued ==
  \A w \in DOMAIN writes :
    /\ w \in DOMAIN writes'
    /\ writes[w].status # "queued" => writes'[w].status # "queued"
-----------------------------------------------------------------------------
(* Texts, merges and what an answer makes of a row.                        *)
LEMMA MergedTexts ==
  ASSUME NEW base \in Texts, NEW local \in Texts, NEW remote \in Texts
  PROVE  /\ Merged(base, local, remote) \in Texts
         /\ local = base => Merged(base, local, remote) = remote
BY DEF Merged, Texts

LEMMA EmptyTexts == Empty \in Texts
BY DEF Empty, Texts

LEMMA MergeShape ==
  ASSUME NEW fields \in Texts, NEW file \in Texts
  PROVE  /\ WithMerge(fields, file) \in Row
         /\ WithMerge(fields, file).fields = fields
         /\ WithMerge(fields, file).persisted = file
         /\ ~ InConflict(WithMerge(fields, file))
BY DEF WithMerge, Row, InConflict

LEMMA ReloadShape ==
  ASSUME NEW file \in Texts
  PROVE  /\ Reloaded(file) \in Row
         /\ Reloaded(file).fields = file
         /\ Reloaded(file).persisted = file
         /\ ~ InConflict(Reloaded(file))
BY MergeShape DEF Reloaded

LEMMA ConflictShape ==
  ASSUME NEW r \in Row
  PROVE  /\ WithConflict(r) \in Row
         /\ WithConflict(r).fields = r.fields
         /\ WithConflict(r).persisted = r.persisted
BY DEF WithConflict, Row

LEMMA TypedShape ==
  ASSUME NEW r \in Row, NEW c \in Columns, NEW text \in UserTexts \cup {Blank}
  PROVE  /\ WithText(r, c, text) \in Row
         /\ \A d \in Columns \ {c} : WithText(r, c, text).fields[d] = r.fields[d]
<1>1. [r.fields EXCEPT ![c] = text] \in Texts
  BY DEF Row, Texts
<1>2. \A d \in Columns \ {c} : [r.fields EXCEPT ![c] = text][d] = r.fields[d]
  BY DEF Row, Texts
<1>3. WithText(r, c, text).fields = [r.fields EXCEPT ![c] = text]
  BY DEF WithText, Row
<1>4. WithText(r, c, text) \in Row
  BY <1>1 DEF WithText, Row
<1> QED
  BY <1>2, <1>3, <1>4

(* applyEditorRowPersistSucceeded: a text of the row that is replaced was  *)
(* the one that was saved, and the file has another.                       *)
LEMMA SaveShape ==
  ASSUME NEW r \in Row, NEW file \in Texts, NEW snapshot \in Texts
  PROVE  /\ WithSave(r, file, snapshot) \in Row
         /\ ~ InConflict(WithSave(r, file, snapshot))
         /\ \A c \in Columns :
              WithSave(r, file, snapshot).fields[c] # r.fields[c] =>
                r.fields[c] = snapshot[c] /\ file[c] # snapshot[c]
<1> DEFINE new == WithSave(r, file, snapshot)
<1>1. r.fields \in Texts
  BY DEF Row
<1>2. CASE r.fields = snapshot
  BY <1>2, ReloadShape DEF WithSave
<1>3. CASE r.fields # snapshot /\ Clash(snapshot, r.fields, file) = {}
  <2> DEFINE merged == Merged(snapshot, r.fields, file)
  <2>1. merged \in Texts
    BY <1>1, MergedTexts
  <2>2. new = WithMerge(merged, file)
    BY <1>3 DEF WithSave
  <2>3. new \in Row /\ ~ InConflict(new) /\ new.fields = merged
    BY <2>1, <2>2, MergeShape
  <2>4. \A c \in Columns : merged[c] # r.fields[c] =>
          r.fields[c] = snapshot[c] /\ file[c] # snapshot[c]
    BY DEF Merged
  <2> QED
    BY <2>3, <2>4
<1>4. CASE r.fields # snapshot /\ Clash(snapshot, r.fields, file) # {}
  <2>1. new = [fields |-> r.fields, persisted |-> file,
               freshness |-> "dirty", saveStatus |-> "dirty"]
    BY <1>4 DEF WithSave
  <2> QED
    BY <1>1, <2>1 DEF Row, InConflict
<1> QED
  BY <1>2, <1>3, <1>4

LEMMA AnswerShape ==
  ASSUME NEW r \in Row, NEW save, SaveKept(save), save.answer.status # "none",
         NEW stale \in BOOLEAN
  PROVE  LET new == WithAnswer(r, save, stale)
         IN  /\ new \in Row
             /\ InConflict(new) => new.fields = r.fields /\ new.persisted = r.persisted
             /\ \A c \in Columns :
                  new.fields[c] # r.fields[c] => r.fields[c] = save.base[c]
<1> DEFINE new == WithAnswer(r, save, stale)
           file == save.answer.file
<1>1. /\ r.fields \in Texts /\ save.fields \in Texts /\ save.base \in Texts
      /\ file \in Texts
      /\ save.answer.status \in {"saved", "conflict", "skipped"}
  BY DEF SaveKept, Save, Row
<1> DEFINE saved == WithSave(r, file, save.fields)
<1>0. /\ saved \in Row /\ ~ InConflict(saved)
      /\ \A c \in Columns : saved.fields[c] # r.fields[c] =>
           r.fields[c] = save.fields[c] /\ file[c] # save.fields[c]
  <2>1. PICK snapshot \in Texts, answer \in Texts :
          snapshot = save.fields /\ answer = file
    BY <1>1
  <2>2. /\ WithSave(r, answer, snapshot) \in Row
        /\ ~ InConflict(WithSave(r, answer, snapshot))
        /\ \A c \in Columns :
             WithSave(r, answer, snapshot).fields[c] # r.fields[c] =>
               r.fields[c] = snapshot[c] /\ answer[c] # snapshot[c]
    BY SaveShape
  <2> QED
    BY <2>1, <2>2
<1> HIDE DEF saved
<1>2. CASE save.answer.status = "skipped"
  BY <1>2 DEF WithAnswer
<1>3. CASE save.answer.status = "saved"
  <2>1. new = saved
    BY <1>3 DEF WithAnswer, saved
  <2>2. \A c \in Columns : save.fields[c] # save.base[c] => file[c] = save.fields[c]
    BY <1>3 DEF SaveKept
  <2> QED
    BY <1>0, <2>1, <2>2
<1>4. CASE save.answer.status = "conflict"
  <2>1. new = WithConflictAnswer(r, save, stale)
    BY <1>4 DEF WithAnswer
  <2>2. CASE new = r
    BY <2>2
  <2>3. CASE new = WithConflict(r)
    BY <2>3, ConflictShape
  <2>4. CASE new = WithMerge(Merged(save.base, r.fields, file), file)
    <3> DEFINE merged == Merged(save.base, r.fields, file)
    <3>1. merged \in Texts
      BY <1>1, MergedTexts
    <3>2. new \in Row /\ ~ InConflict(new) /\ new.fields = merged
      BY <1>1, <2>4, <3>1, MergeShape
    <3>3. \A c \in Columns : merged[c] # r.fields[c] => r.fields[c] = save.base[c]
      BY DEF Merged
    <3> QED
      BY <3>2, <3>3
  <2>5. CASE save.fields = file /\ new = saved
    BY <1>0, <2>5
  <2> QED
    BY <2>1, <2>2, <2>3, <2>4, <2>5 DEF WithConflictAnswer, saved
<1> QED
  BY <1>1, <1>2, <1>3, <1>4
-----------------------------------------------------------------------------
(* The steps of the queue that the row's text makes.                       *)
LEMMA QueueStutters ==
  ASSUME QueueInv, UNCHANGED queueVars
  PROVE  QueueInv' /\ NothingRequeued
<1>1. QueueInv'
  BY NextKeeps
<1> QED
  BY <1>1 DEF queueVars, NothingRequeued

LEMMA SubmitRequeuesNothing ==
  ASSUME NEW w, NEW s, NEW k, NEW st, SubmitWrite(w, s, k, st), WriterTypeOK,
         w \in WriteIds
  PROVE  NothingRequeued
<1>1. w \notin DOMAIN writes
  BY IdsAreNumbers DEF SubmitWrite
<1> QED
  BY <1>1 DEF SubmitWrite, NothingRequeued

LEMMA BeginRequeuesNothing ==
  ASSUME NEW w, QueueInv, BeginWrite(w) \/ SettleWrite(w)
  PROVE  NothingRequeued
<1>1. TypeOK /\ OneRunning
  BY DEF QueueInv
<1>2. /\ DOMAIN writes' = DOMAIN writes
      /\ writes'[w].status # "queued"
      /\ \A v \in DOMAIN writes : v # w => writes'[v] = writes[v]
  BY <1>1, BeginMoves, SettleMoves
<1> QED
  BY <1>2 DEF NothingRequeued

LEMMA SaveRequestQueue ==
  ASSUME QueueInv, NEW st \in {"queued", "running"}, RequestSave(st)
  PROVE  QueueInv' /\ NothingRequeued
<1>1. /\ NextWrite \in WriteIds /\ RequestOperation(NextWrite, Repo, rowText, st)
      /\ Repo \in WriteScopes /\ rowText \in CoalesceKeys
  BY TextAssumption DEF RequestSave
<1>2. QueueInv'
  BY <1>1, RequestKeeps
<1>3. SubmitWrite(NextWrite, Repo, LocalWrite, st) /\ WriterTypeOK
  BY <1>1 DEF RequestOperation, QueueInv, TypeOK
<1> QED
  BY <1>1, <1>2, <1>3, SubmitRequeuesNothing

LEMMA SyncRequestQueue ==
  ASSUME QueueInv, NEW st \in {"queued", "running"}, RequestSync(st)
  PROVE  QueueInv' /\ NothingRequeued
<1>1. /\ NextWrite \in WriteIds /\ SubmitWrite(NextWrite, Repo, 0, st)
      /\ UNCHANGED <<operations, latest, waiting>>
      /\ Repo \in WriteScopes /\ 0 \in Ranks /\ WriterTypeOK
  BY TextAssumption DEF RequestSync, Ranks, QueueInv, TypeOK
<1>2. QueueInv'
  BY <1>1, SubmitKeeps
<1> QED
  BY <1>1, <1>2, SubmitRequeuesNothing

LEMMA SyncWriteQueue ==
  ASSUME QueueInv, NEW w, SyncWrite(w), BeginWrite(w) \/ SettleWrite(w),
         UNCHANGED <<operations, latest, waiting>>
  PROVE  QueueInv' /\ NothingRequeued
<1>1. w \in DOMAIN writes \ DOMAIN operations
  BY DEF SyncWrite
<1> QED
  BY <1>1, OtherWriteKeeps, BeginRequeuesNothing

LEMMA OperationQueue ==
  ASSUME QueueInv, NEW w, OperationStep(w)
  PROVE  QueueInv' /\ NothingRequeued
<1>1. CASE BeginOperation(w)
  <2>1. BeginWrite(w)
    BY <1>1 DEF BeginOperation
  <2> QED
    BY <1>1, <2>1, BeginKeeps, BeginRequeuesNothing
<1>2. CASE SkipCancelled(w)
  <2>1. BeginWrite(w)
    BY <1>2 DEF SkipCancelled
  <2> QED
    BY <1>2, <2>1, SkipKeeps, BeginRequeuesNothing
<1>3. CASE OperationSucceeds(w) \/ OperationFails(w)
  <2>1. writes' = writes
    BY <1>3 DEF OperationSucceeds, OperationFails
  <2> QED
    BY <1>3, <2>1, EndKeeps DEF NothingRequeued
<1>4. CASE SettleOperation(w)
  <2>1. SettleWrite(w)
    BY <1>4 DEF SettleOperation
  <2> QED
    BY <1>4, <2>1, SettleKeeps, BeginRequeuesNothing
<1> QED
  BY <1>1, <1>2, <1>3, <1>4 DEF OperationStep

LEMMA QueueGoesOn ==
  ASSUME QueueInv, [TextNext]_textVars
  PROVE  QueueInv' /\ NothingRequeued
<1>1. CASE UNCHANGED queueVars
  BY <1>1, QueueStutters
<1>2. ASSUME NEW st \in {"queued", "running"}, SaveIfDirty(st)
      PROVE  QueueInv' /\ NothingRequeued
  BY <1>1, <1>2, SaveRequestQueue DEF SaveIfDirty
<1>3. ASSUME NEW st \in {"queued", "running"}, RequestSync(st)
      PROVE  QueueInv' /\ NothingRequeued
  BY <1>3, SyncRequestQueue
<1>4. ASSUME NEW w \in DOMAIN writes, SaveStep(w) \/ QueueRunsOn(w)
      PROVE  QueueInv' /\ NothingRequeued
  BY <1>1, <1>4, OperationQueue
     DEF SaveStep, BeginSave, CommitSave, SaveAnswered, SaveFails, QueueRunsOn,
         OperationStep
<1>5. ASSUME NEW w \in DOMAIN writes, SyncBegins(w) \/ SyncEnds(w) \/ SyncFails(w)
      PROVE  QueueInv' /\ NothingRequeued
  BY <1>5, SyncWriteQueue DEF SyncBegins, SyncEnds, SyncFails
<1> QED
  BY <1>1, <1>2, <1>3, <1>4, <1>5
     DEF TextNext, textVars, UserStep, ReloadStep, SyncStep, Type, Activate, Blur,
         LeaveRow, ReloadReads, ReloadEnds, ReloadFails, AfterReload, Pull,
         SyncReloads, SyncMerges, SyncReads, SyncMerged, SyncMergeFails
-----------------------------------------------------------------------------
(* The row, its file and what is tracked, one lemma for the steps of each  *)
(* actor.                                                                  *)
RowKept == RowInv' /\ DraftsAreTracked'

LEMMA RowStutters ==
  ASSUME RowInv, DraftsAreTracked, UNCHANGED <<row, stored>>,
         ui' \in Ui, ui.tracked => ui'.tracked
  PROVE  RowKept
BY DEF RowKept, RowInv, DraftsAreTracked, Unsaved

LEMMA UserKeepsRow ==
  ASSUME RowInv, DraftsAreTracked,
         UserStep \/ \E c \in Columns, text \in UserTexts \cup {Blank} : Type(c, text)
  PROVE  RowKept
<1>1. ASSUME NEW c \in Columns, NEW text \in UserTexts \cup {Blank}, Type(c, text)
      PROVE  RowKept
  <2>1. row' = WithText(row, c, text) /\ stored' = stored
        /\ ui' = [ui EXCEPT !.tracked = TRUE]
    BY <1>1 DEF Type, repoVars
  <2>2. ui' \in Ui /\ ui'.tracked
    BY <2>1 DEF RowInv, Ui
  <2>3. RowInv'
    BY <2>1, <2>2, TypedShape DEF RowInv
  <2> QED
    BY <2>2, <2>3 DEF RowKept, DraftsAreTracked
<1>2. CASE UserStep
  <2>1. UNCHANGED <<row, stored>>
    BY <1>2 DEF UserStep, Activate, Blur, LeaveRow, repoVars
  <2>2. ui' \in Ui /\ (ui.tracked => ui'.tracked)
    BY <1>2 DEF UserStep, Activate, Blur, LeaveRow, RowInv, Ui
  <2> QED
    BY <2>1, <2>2, RowStutters
<1> QED
  BY <1>1, <1>2

LEMMA ScanKeepsRow ==
  ASSUME RowInv, DraftsAreTracked, NEW st \in {"queued", "running"}, SaveIfDirty(st)
  PROVE  RowKept
<1>1. stored' = stored
  BY DEF SaveIfDirty, repoVars
<1>2. CASE RequestSave(st)
  <2>1. row' = [row EXCEPT !.saveStatus = "saving"]
        /\ ui' = [ui EXCEPT !.saveDue = FALSE]
    BY <1>2 DEF RequestSave
  <2>2. row' \in Row /\ row'.fields = row.fields /\ row'.persisted = row.persisted
    BY <2>1 DEF RowInv, Row
  <2>3. ui' \in Ui /\ ui'.tracked = ui.tracked
    BY <2>1 DEF RowInv, Ui
  <2> QED
    BY <1>1, <2>2, <2>3 DEF RowKept, RowInv, DraftsAreTracked, Unsaved
<1>3. CASE /\ row' = row
           /\ ui' = [ui EXCEPT !.saveDue = FALSE,
                               !.tracked = IF ui.focused THEN @ ELSE @ /\ Reconciled(row)]
  <2>1. ui' \in Ui
    BY <1>3 DEF RowInv, Ui
  <2>2. Unsaved(row) => Reconciled(row)
    BY DEF Reconciled
  <2>3. Unsaved(row) => ui.tracked
    BY DEF DraftsAreTracked
  <2>4. Unsaved(row) => ui'.tracked
    BY <1>3, <2>2, <2>3 DEF RowInv, Ui
  <2> QED
    BY <1>1, <1>3, <2>1, <2>4 DEF RowKept, RowInv, DraftsAreTracked
<1> QED
  BY <1>2, <1>3 DEF SaveIfDirty

LEMMA SaveKeepsRow ==
  ASSUME TextInv, NEW w, SaveStep(w)
  PROVE  RowKept
<1>1. RowInv /\ DraftsAreTracked
  BY DEF TextInv
<1>2. CASE BeginSave(w)
  BY <1>1, <1>2, RowStutters DEF BeginSave, repoVars, RowInv
<1>3. CASE CommitSave(w)
  <2>1. SaveKept(saves[w]) /\ stored \in Texts
    BY <1>3 DEF CommitSave, TextInv, SavesInv, RowInv
  <2>2. stored' \in Texts
    BY <1>3, <2>1, MergedTexts DEF CommitSave, SaveKept, Save
  <2> QED
    BY <1>1, <1>3, <2>2 DEF CommitSave, RowKept, RowInv, DraftsAreTracked, Unsaved
<1>4. CASE SaveAnswered(w)
  <2> DEFINE stale == ~ IsLatestCoalesced(w)
  <2>1. /\ w \in DOMAIN saves /\ saves[w].answer.status # "none"
        /\ row' = WithAnswer(row, saves[w], stale)
        /\ stored' = stored
    BY <1>4 DEF SaveAnswered, repoVars
  <2>2. SaveKept(saves[w]) /\ row \in Row /\ stale \in BOOLEAN
    BY <1>1, <2>1 DEF TextInv, SavesInv, RowInv
  <2>3. /\ row' \in Row
        /\ InConflict(row') => row'.fields = row.fields /\ row'.persisted = row.persisted
    BY <2>1, <2>2, AnswerShape
  <2>4. saves[w].answer.status = "skipped" => row' = row
    BY <2>1 DEF WithAnswer
  <2>5. ui' \in Ui
    BY <1>1, <1>4 DEF SaveAnswered, RowInv, Ui, Reconciled, Unsaved
  <2>6. CASE saves[w].answer.status # "skipped" /\ ~ InConflict(row')
    <3>1. ui'.tracked = Reconciled(row')
      BY <1>1, <1>4, <2>6 DEF SaveAnswered, RowInv, Ui
    <3> QED
      BY <1>1, <2>1, <2>3, <2>5, <3>1
         DEF RowKept, RowInv, DraftsAreTracked, Reconciled
  <2>7. CASE saves[w].answer.status = "skipped" \/ InConflict(row')
    <3>1. ui'.tracked = ui.tracked
      BY <1>1, <1>4, <2>7 DEF SaveAnswered, RowInv, Ui
    <3>2. Unsaved(row') => Unsaved(row)
      BY <2>3, <2>4, <2>7 DEF Unsaved
    <3> QED
      BY <1>1, <2>1, <2>3, <2>5, <3>1, <3>2 DEF RowKept, RowInv, DraftsAreTracked
  <2> QED
    BY <2>6, <2>7
<1>5. CASE SaveFails(w)
  <2>1. stored' = stored
    BY <1>5 DEF SaveFails, repoVars
  <2>2. CASE UNCHANGED <<row, ui>>
    BY <1>1, <2>1, <2>2, RowStutters DEF RowInv
  <2>3. CASE /\ row' = [row EXCEPT !.saveStatus = "error"]
             /\ ui' = [ui EXCEPT !.tracked = Reconciled(row')]
    <3>1. row' \in Row
      BY <1>1, <2>3 DEF RowInv, Row
    <3>2. ui' \in Ui /\ ui'.tracked = Reconciled(row')
      BY <1>1, <2>3 DEF RowInv, Ui, Reconciled, Unsaved
    <3> QED
      BY <1>1, <2>1, <3>1, <3>2 DEF RowKept, RowInv, DraftsAreTracked, Reconciled
  <2> QED
    BY <1>5, <2>2, <2>3 DEF SaveFails
<1> QED
  BY <1>2, <1>3, <1>4, <1>5 DEF SaveStep

LEMMA QueueKeepsRow ==
  ASSUME RowInv, DraftsAreTracked, NEW w, QueueRunsOn(w)
  PROVE  RowKept
<1>1. UNCHANGED <<row, stored>>
  BY DEF QueueRunsOn, repoVars
<1>2. PICK tracked \in {ui.tracked, Reconciled(row)} : ui' = [ui EXCEPT !.tracked = tracked]
  BY DEF QueueRunsOn
<1>3. tracked \in BOOLEAN
  BY <1>2 DEF RowInv, Ui, Reconciled, Unsaved
<1>4. ui' \in Ui /\ ui'.tracked = tracked
  BY <1>2, <1>3 DEF RowInv, Ui
<1>5. Unsaved(row) => tracked
  BY <1>2 DEF DraftsAreTracked, Reconciled
<1> QED
  BY <1>1, <1>4, <1>5 DEF RowKept, RowInv, DraftsAreTracked, Unsaved

LEMMA ReloadKeepsRow ==
  ASSUME RowInv, DraftsAreTracked, ReloadStep
  PROVE  RowKept
<1>1. CASE ReloadReads \/ ReloadFails
  BY <1>1, RowStutters DEF ReloadReads, ReloadFails, AfterReload, repoVars, RowInv
<1>2. CASE ReloadEnds
  <2>1. /\ reload.file \in Texts /\ row' = Reloaded(reload.file)
        /\ ui' = [ui EXCEPT !.active = @ \/ ui.focused] /\ stored' = stored
    BY <1>2 DEF ReloadEnds, AfterReload, repoVars, FileRead
  <2>2. ui' \in Ui
    BY <2>1 DEF RowInv, Ui
  <2>3. row' \in Row /\ ~ Unsaved(row')
    BY <2>1, ReloadShape DEF Unsaved
  <2> QED
    BY <2>1, <2>2, <2>3 DEF RowKept, RowInv, DraftsAreTracked
<1> QED
  BY <1>1, <1>2 DEF ReloadStep

LEMMA SyncKeepsRow ==
  ASSUME RowInv, DraftsAreTracked,
         SyncStep \/ \E st \in {"queued", "running"} : RequestSync(st)
  PROVE  RowKept
<1>1. ui' = ui
  BY DEF SyncStep, SyncBegins, SyncEnds, SyncFails, Pull, SyncReloads, SyncMerges,
         SyncReads, SyncMerged, SyncMergeFails, RequestSync
<1>2. CASE UNCHANGED <<row, stored>>
  BY <1>1, <1>2, RowStutters DEF RowInv
<1>3. ASSUME NEW c \in Columns, NEW text \in OtherTexts, Pull(c, text)
      PROVE  RowKept
  <2>1. stored' \in Texts /\ row' = row
    BY <1>3 DEF Pull, RowInv, Texts
  <2> QED
    BY <1>1, <2>1 DEF RowKept, RowInv, DraftsAreTracked
<1>4. ASSUME NEW w, SyncEnds(w)
      PROVE  RowKept
  <2>1. stored' = stored /\ row' \in {row, MarkedStale(row)}
    BY <1>4 DEF SyncEnds
  <2>2. MarkedStale(row) \in Row /\ (Unsaved(MarkedStale(row)) => Unsaved(row))
    BY DEF MarkedStale, RowInv, Row, Unsaved
  <2> QED
    BY <1>1, <2>1, <2>2 DEF RowKept, RowInv, DraftsAreTracked
<1>5. CASE SyncMerged
  <2> DEFINE file == sync.read.file
             merged == Merged(row.persisted, row.fields, file)
  <2>1. file \in Texts /\ row.fields \in Texts /\ row.persisted \in Texts /\ row \in Row
    BY <1>5 DEF SyncMerged, FileRead, RowInv, Row
  <2>2. stored' = stored /\ row' \in {WithMerge(merged, file), WithConflict(row)}
    BY <1>5 DEF SyncMerged, repoVars
  <2>3. merged \in Texts /\ (row.fields = row.persisted => merged = file)
    BY <2>1, MergedTexts
  <2>4. row' \in Row /\ (Unsaved(row') => Unsaved(row))
    BY <2>1, <2>2, <2>3, MergeShape, ConflictShape DEF Unsaved
  <2> QED
    BY <1>1, <2>2, <2>4 DEF RowKept, RowInv, DraftsAreTracked
<1> QED
  BY <1>2, <1>3, <1>4, <1>5
     DEF SyncStep, SyncBegins, SyncFails, SyncReloads, SyncMerges, SyncReads,
         SyncMergeFails, RequestSync, repoVars
-----------------------------------------------------------------------------
(* The saves. Only a save that has begun is answered, so that the base an  *)
(* answer was made with is not rebased afterwards.                         *)
LEMMA OperationsStay ==
  ASSUME [TextNext]_textVars
  PROVE  NothingForgotten
<1>1. CASE operations' = operations
  BY <1>1 DEF NothingForgotten
<1>2. ASSUME NEW w, NEW st, SetStatus(w, st)
      PROVE  NothingForgotten
  BY <1>2 DEF SetStatus, NothingForgotten
<1>3. ASSUME NEW st, RequestSave(st)
      PROVE  NothingForgotten
  BY <1>3 DEF RequestSave, RequestOperation, Added, Superseded, NothingForgotten
<1>4. ASSUME NEW st, SaveIfDirty(st)
      PROVE  NothingForgotten
  BY <1>1, <1>3, <1>4 DEF SaveIfDirty, queueVars
<1>5. ASSUME NEW w, SaveStep(w) \/ QueueRunsOn(w)
      PROVE  NothingForgotten
  BY <1>1, <1>2, <1>5
     DEF SaveStep, BeginSave, CommitSave, SaveAnswered, SaveFails, QueueRunsOn,
         BeginOperation, OperationSucceeds, OperationFails, SkipCancelled,
         SettleOperation, queueVars
<1> QED
  BY <1>1, <1>4, <1>5
     DEF TextNext, textVars, queueVars, UserStep, ReloadStep, SyncStep, Type,
         Activate, Blur, LeaveRow, RequestSync, ReloadReads, ReloadEnds,
         ReloadFails, AfterReload, SyncBegins, SyncEnds, SyncFails, Pull,
         SyncReloads, SyncMerges, SyncReads, SyncMerged, SyncMergeFails

LEMMA SavesStutter ==
  ASSUME SavesInv, NothingRequeued, NothingForgotten, saves' = saves
  PROVE  SavesInv'
BY DEF SavesInv, NothingRequeued, NothingForgotten

LEMMA SavesShrink ==
  ASSUME SavesInv, NothingRequeued, NothingForgotten, NEW w, saves' = Restrict(saves, DOMAIN saves \ {w})
  PROVE  SavesInv'
BY DEF SavesInv, NothingRequeued, NothingForgotten, Restrict

LEMMA RequestKeepsSaves ==
  ASSUME TextInv, NothingRequeued, NothingForgotten, NEW st, RequestSave(st)
  PROVE  SavesInv'
<1> DEFINE new == [fields |-> row.fields, base |-> row.persisted, answer |-> NoAnswer]
<1>1. PICK wanted \in SUBSET DOMAIN saves :
        saves' = Added(Restrict(saves, wanted), NextWrite, new)
  BY DEF RequestSave
<1>2. new \in Save /\ new.answer.status = "none"
  BY EmptyTexts DEF TextInv, RowInv, Row, Save, NoAnswer
<1>3. SaveKept(new)
  BY <1>2 DEF SaveKept
<1>4. \A w \in DOMAIN saves' :
        \/ w = NextWrite /\ saves'[w] = new
        \/ w \in DOMAIN saves /\ saves'[w] = saves[w]
  BY <1>1 DEF Added, Restrict
<1>5. NextWrite \in DOMAIN operations'
  BY DEF RequestSave, RequestOperation, Added
<1> QED
  BY <1>2, <1>3, <1>4, <1>5 DEF TextInv, SavesInv, NothingRequeued, NothingForgotten

LEMMA BeginKeepsSaves ==
  ASSUME TextInv, NothingRequeued, NothingForgotten, NEW w, BeginSave(w)
  PROVE  SavesInv'
<1>1. w \in DOMAIN writes /\ writes[w].status = "queued" /\ writes'[w].status = "running"
  <2>1. BeginWrite(w) /\ TypeOK /\ OneRunning
    BY DEF BeginSave, BeginOperation, TextInv, QueueInv
  <2> QED
    BY <2>1, BeginMoves
<1>2. saves' = [saves EXCEPT ![w] =
                  IF InConflict(row) THEN [@ EXCEPT !.answer.status = "skipped"]
                  ELSE RebasedInput(@)]
  BY DEF BeginSave
<1>3. SUFFICES ASSUME w \in DOMAIN saves
               PROVE  /\ SaveKept(saves'[w])
                      /\ saves'[w].answer.status # "none" =>
                           w \in DOMAIN writes' /\ writes'[w].status # "queued"
  BY <1>2 DEF TextInv, SavesInv, NothingRequeued, NothingForgotten
<1>4. SaveKept(saves[w]) /\ saves[w].answer.status = "none"
  BY <1>1, <1>3 DEF TextInv, SavesInv
<1>5. CASE InConflict(row)
  <2>1. saves'[w] = [saves[w] EXCEPT !.answer.status = "skipped"]
    BY <1>2, <1>3, <1>5
  <2>2. saves'[w] \in Save /\ saves'[w].answer.status = "skipped"
    BY <1>4, <2>1 DEF SaveKept, Save
  <2> QED
    BY <1>1, <2>2 DEF SaveKept, NothingRequeued
<1>6. CASE ~ InConflict(row)
  <2>1. saves'[w] = [saves[w] EXCEPT !.base = row.persisted]
    BY <1>2, <1>3, <1>6 DEF RebasedInput
  <2>2. saves'[w] \in Save /\ saves'[w].answer.status = "none"
    BY <1>4, <2>1 DEF SaveKept, Save, TextInv, RowInv, Row
  <2> QED
    BY <2>2 DEF SaveKept
<1> QED
  BY <1>5, <1>6

LEMMA CommitKeepsSaves ==
  ASSUME TextInv, NothingRequeued, NothingForgotten, NEW w, CommitSave(w)
  PROVE  SavesInv'
<1> DEFINE save == saves[w]
           refused == Clash(save.base, save.fields, stored) # {}
           answer == [status |-> IF refused THEN "conflict" ELSE "saved", file |-> stored']
<1>1. /\ w \in DOMAIN saves /\ operations[w].status = "running"
      /\ stored' = IF refused THEN stored ELSE Merged(save.base, save.fields, stored)
      /\ saves' = [saves EXCEPT ![w].answer = answer]
      /\ queueVars' = queueVars
  BY DEF CommitSave
<1>2. w \in DOMAIN writes /\ writes[w].status = "running"
  <2>1. w \in DOMAIN operations
    BY <1>1 DEF TextInv, SavesInv
  <2> QED
    BY <1>1, <2>1 DEF TextInv, QueueInv, TypeOK, StatusInv
<1>3. SaveKept(save) /\ stored \in Texts
  BY <1>1 DEF TextInv, SavesInv, RowInv
<1>4. /\ stored' \in Texts
      /\ ~ refused => \A c \in Columns :
                        save.fields[c] # save.base[c] => stored'[c] = save.fields[c]
  BY <1>1, <1>3, MergedTexts DEF SaveKept, Save, Merged
<1>5. saves'[w] = [save EXCEPT !.answer = answer]
  BY <1>1
<1>6. SaveKept(saves'[w])
  BY <1>3, <1>4, <1>5 DEF SaveKept, Save
<1> QED
  BY <1>1, <1>2, <1>6 DEF TextInv, SavesInv, NothingRequeued, NothingForgotten, queueVars

LEMMA SavesKeep ==
  ASSUME TextInv, NothingRequeued, NothingForgotten, [TextNext]_textVars
  PROVE  SavesInv'
<1>1. SavesInv
  BY DEF TextInv
<1>2. CASE saves' = saves
  BY <1>1, <1>2, SavesStutter
<1>3. ASSUME NEW st, SaveIfDirty(st)
      PROVE  SavesInv'
  BY <1>2, <1>3, RequestKeepsSaves DEF SaveIfDirty
<1>4. ASSUME NEW w, SaveStep(w)
      PROVE  SavesInv'
  <2>1. CASE SaveAnswered(w) \/ SaveFails(w)
    BY <1>1, <2>1, SavesShrink DEF SaveAnswered, SaveFails
  <2> QED
    BY <1>4, <2>1, BeginKeepsSaves, CommitKeepsSaves DEF SaveStep
<1> QED
  BY <1>2, <1>3, <1>4
     DEF TextNext, textVars, UserStep, ReloadStep, SyncStep, Type, Activate, Blur,
         LeaveRow, RequestSync, QueueRunsOn, ReloadReads, ReloadEnds, ReloadFails,
         AfterReload, SyncBegins, SyncEnds, SyncFails, Pull, SyncReloads,
         SyncMerges, SyncReads, SyncMerged, SyncMergeFails
-----------------------------------------------------------------------------
LEMMA TextInitInv == TextInit => TextInv
<1> SUFFICES ASSUME TextInit PROVE TextInv
  OBVIOUS
<1>1. QueueInv
  BY InitInv DEF TextInit
<1>2. /\ stored = Empty /\ row = Reloaded(stored) /\ saves = <<>>
      /\ ui = [focused |-> FALSE, active |-> FALSE, tracked |-> FALSE, saveDue |-> FALSE]
  BY DEF TextInit
<1>3. RowInv /\ ~ Unsaved(row)
  BY <1>2, EmptyTexts, ReloadShape DEF RowInv, Ui, Unsaved
<1>4. SavesInv
  BY <1>2 DEF SavesInv
<1> QED
  BY <1>1, <1>3, <1>4 DEF TextInv, DraftsAreTracked

LEMMA TextNextInv == TextInv /\ [TextNext]_textVars => TextInv'
<1> SUFFICES ASSUME TextInv, [TextNext]_textVars PROVE TextInv'
  OBVIOUS
<1>1. QueueInv' /\ NothingRequeued /\ NothingForgotten
  BY QueueGoesOn, OperationsStay DEF TextInv
<1>2. SavesInv'
  BY <1>1, SavesKeep
<1>3. RowInv /\ DraftsAreTracked
  BY DEF TextInv
<1>4. RowKept
  <2>1. CASE UNCHANGED textVars
    BY <1>3, <2>1, RowStutters DEF textVars, repoVars, RowInv
  <2>2. CASE TextNext
    BY <1>3, <2>2, UserKeepsRow, ScanKeepsRow, SaveKeepsRow, QueueKeepsRow,
       ReloadKeepsRow, SyncKeepsRow DEF TextNext
  <2> QED
    BY <2>1, <2>2
<1> QED
  BY <1>1, <1>2, <1>4 DEF TextInv, RowKept

(* The invariant the theorems below follow from.                           *)
THEOREM TextInvariant == TextSpec => []TextInv
<1> QED
  BY TextInitInv, TextNextInv, PTL DEF TextSpec

(* Every unsaved text is tracked as dirty: leaving the editor, exporting   *)
(* and closing flush it, and no sync starts.                               *)
THEOREM DraftsStayTracked == TextSpec => []DraftsAreTracked
<1>1. TextInv => DraftsAreTracked
  BY DEF TextInv
<1> QED
  BY <1>1, TextInvariant, PTL

(* The operations of a row's text are those of the editor operation queue. *)
THEOREM SavesAreExclusive == TextSpec => [](RunsHoldTheRepo /\ NewestIsNeverDropped)
<1>1. TextInv => RunsHoldTheRepo /\ NewestIsNeverDropped
  BY DEF TextInv, QueueInv, TypeOK, OneRunning, StatusInv, SupersededInv,
         RunsHoldTheRepo, NewestIsNeverDropped
<1> QED
  BY <1>1, TextInvariant, PTL
-----------------------------------------------------------------------------
(* What may replace an unsaved text in a step.                             *)
MayDrop(c) ==
  \/ Typing(c)
  \/ reload \in FileRead
  \/ \E w \in DOMAIN saves \ DOMAIN saves' : row.fields[c] = saves[w].base[c]

LEMMA AnswersKeepDrafts ==
  ASSUME TextInv, NEW w, SaveAnswered(w), NEW c \in Columns,
         row'.fields[c] # row.fields[c]
  PROVE  MayDrop(c)
<1> DEFINE stale == ~ IsLatestCoalesced(w)
<1>1. /\ w \in DOMAIN saves /\ saves[w].answer.status # "none"
      /\ row' = WithAnswer(row, saves[w], stale)
      /\ saves' = Restrict(saves, DOMAIN saves \ {w})
  BY DEF SaveAnswered
<1>2. SaveKept(saves[w]) /\ row \in Row /\ stale \in BOOLEAN
  BY <1>1 DEF TextInv, SavesInv, RowInv
<1>3. row.fields[c] = saves[w].base[c]
  BY <1>1, <1>2, AnswerShape
<1>4. w \in DOMAIN saves \ DOMAIN saves'
  BY <1>1 DEF Restrict
<1> QED
  BY <1>3, <1>4 DEF MayDrop

LEMMA MergesKeepDrafts ==
  ASSUME TextInv, SyncMerged, NEW c \in Drafts(row)
  PROVE  row'.fields[c] = row.fields[c]
<1> DEFINE file == sync.read.file
           merged == Merged(row.persisted, row.fields, file)
<1>1. /\ file \in Texts /\ row.fields \in Texts /\ row.persisted \in Texts
      /\ row \in Row
  BY DEF SyncMerged, FileRead, TextInv, RowInv, Row
<1>2. row' \in {WithMerge(merged, file), WithConflict(row)}
  BY DEF SyncMerged
<1>3. merged \in Texts
  BY <1>1, MergedTexts
<1>4. row'.fields \in {merged, row.fields}
  BY <1>1, <1>2, <1>3, MergeShape, ConflictShape
<1>5. merged[c] = row.fields[c]
  BY DEF Drafts, Merged
<1> QED
  BY <1>4, <1>5

LEMMA StepsKeepDrafts ==
  ASSUME TextInv, [TextNext]_textVars, NEW c \in Drafts(row),
         row'.fields[c] # row.fields[c]
  PROVE  MayDrop(c)
<1>1. row.fields \in Texts /\ row \in Row /\ c \in Columns
  BY DEF TextInv, RowInv, Row, Drafts
<1>2. CASE row' = row
  BY <1>2
<1>3. ASSUME NEW d \in Columns, NEW text \in UserTexts \cup {Blank}, Type(d, text)
      PROVE  MayDrop(c)
  <2>1. row' = WithText(row, d, text)
    BY <1>3 DEF Type
  <2>2. c = d
    BY <1>1, <2>1, TypedShape
  <2> QED
    BY <1>3, <2>2 DEF MayDrop, Typing
<1>4. ASSUME NEW st, SaveIfDirty(st)
      PROVE  MayDrop(c)
  <2>1. row' = row \/ row' = [row EXCEPT !.saveStatus = "saving"]
    BY <1>4 DEF SaveIfDirty, RequestSave
  <2> QED
    BY <1>1, <2>1 DEF Row
<1>5. ASSUME NEW w, SaveStep(w)
      PROVE  MayDrop(c)
  <2>1. CASE SaveFails(w)
    <3>1. row' = row \/ row' = [row EXCEPT !.saveStatus = "error"]
      BY <2>1 DEF SaveFails
    <3> QED
      BY <1>1, <3>1 DEF Row
  <2>2. CASE BeginSave(w) \/ CommitSave(w)
    BY <1>2, <2>2 DEF BeginSave, CommitSave
  <2> QED
    BY <1>1, <1>5, <2>1, <2>2, AnswersKeepDrafts DEF SaveStep
<1>6. CASE ReloadStep
  BY <1>2, <1>6 DEF ReloadStep, ReloadReads, ReloadEnds, ReloadFails, MayDrop
<1>7. CASE SyncStep
  <2>1. ASSUME NEW w, SyncEnds(w)
        PROVE  MayDrop(c)
    <3>1. row' = row \/ row' = MarkedStale(row)
      BY <2>1 DEF SyncEnds
    <3> QED
      BY <1>1, <3>1 DEF MarkedStale, Row
  <2> QED
    BY <1>2, <1>7, <2>1, MergesKeepDrafts
       DEF SyncStep, SyncBegins, SyncFails, Pull, SyncReloads, SyncMerges,
           SyncReads, SyncMergeFails
<1> QED
  BY <1>2, <1>3, <1>4, <1>5, <1>6, <1>7
     DEF TextNext, textVars, UserStep, Activate, Blur, LeaveRow, RequestSync,
         QueueRunsOn

(* Saves, their answers in any order, merges and syncs never replace an    *)
(* unsaved text; only the user or a reload does.                           *)
THEOREM DraftsAreSafe == TextSpec => OnlyReloadsDropDrafts
<1>1. TextInv /\ [TextNext]_textVars
        => [\A c \in Drafts(row) :
              row'.fields[c] # row.fields[c] =>
                \/ Typing(c)
                \/ reload \in FileRead
                \/ \E w \in DOMAIN saves \ DOMAIN saves' :
                     row.fields[c] = saves[w].base[c]]_textVars
  BY StepsKeepDrafts DEF MayDrop
<1> QED
  BY <1>1, TextInvariant, PTL DEF TextSpec, OnlyReloadsDropDrafts
-----------------------------------------------------------------------------
(* Loads, commits and syncs: LoadsInv, SyncsInv and CommitsInv.            *)

LEMMA ReadsAreMarked ==
  /\ None # Unread
  /\ \A read \in FileRead : read # None /\ read # Unread
BY MarkerAssumption

(* A step that reads, if at all, what there is, and at most commits.       *)
LEMMA LoadsGo ==
  ASSUME LoadsInv, stored \in Texts,
         head' \in {head, head + 1}, chapterBase' \in 0 .. head', unpushed' \subseteq Columns,
         reload' \in {reload, None, Unread, [file |-> stored, head |-> head]},
         NEW p \in SyncPhases,
         NEW r \in {sync.read, None, Unread, [file |-> stored, head |-> head]},
         NEW o \in {sync.old, head},
         r # None <=> p = "merging",
         sync' = [phase |-> p, read |-> r, old |-> o]
  PROVE  LoadsInv'
<1>1. head \in Nat /\ head' \in Nat /\ head <= head'
  BY DEF LoadsInv
<1>2. \A n \in 0 .. head : n \in 0 .. head'
  BY <1>1
<1>3. [file |-> stored, head |-> head] \in KnownRead
  BY <1>1 DEF KnownRead
<1>4. KnownRead \subseteq KnownRead'
  BY <1>2 DEF KnownRead
<1>5. reload' \in {None, Unread} \cup KnownRead'
  BY <1>3, <1>4 DEF LoadsInv
<1>6. r \in {None, Unread} \cup KnownRead' /\ o \in 0 .. head'
  BY <1>1, <1>2, <1>3, <1>4 DEF LoadsInv
<1>7. /\ sync' \in [phase : SyncPhases, read : {None, Unread} \cup KnownRead', old : 0 .. head']
      /\ sync'.read # None <=> sync'.phase = "merging"
  BY <1>6
<1> QED
  BY <1>1, <1>5, <1>7 DEF LoadsInv

LEMMA SyncShape ==
  ASSUME LoadsInv
  PROVE  /\ sync = [phase |-> sync.phase, read |-> sync.read, old |-> sync.old]
         /\ sync.phase \in SyncPhases /\ (sync.read # None <=> sync.phase = "merging")
         /\ head \in Nat /\ chapterBase \in 0 .. head /\ unpushed \subseteq Columns
         /\ \A p : [sync EXCEPT !.phase = p] = [phase |-> p, read |-> sync.read, old |-> sync.old]
         /\ \A r : [sync EXCEPT !.read = r] = [phase |-> sync.phase, read |-> r, old |-> sync.old]
         /\ \A o : [sync EXCEPT !.old = o] = [phase |-> sync.phase, read |-> sync.read, old |-> o]
         /\ \A p, r : [sync EXCEPT !.phase = p, !.read = r] =
                        [phase |-> p, read |-> r, old |-> sync.old]
         /\ \A p, o : [sync EXCEPT !.phase = p, !.old = o] =
                        [phase |-> p, read |-> sync.read, old |-> o]
<1>1. PICK ps, rs, os : sync \in [phase : ps, read : rs, old : os]
  BY DEF LoadsInv
<1>2. sync = [phase |-> sync.phase, read |-> sync.read, old |-> sync.old]
  BY <1>1
<1>3. /\ sync.phase \in SyncPhases /\ (sync.read # None <=> sync.phase = "merging")
      /\ head \in Nat /\ chapterBase \in 0 .. head /\ unpushed \subseteq Columns
  BY DEF LoadsInv
<1>4. \A p : [sync EXCEPT !.phase = p] = [phase |-> p, read |-> sync.read, old |-> sync.old]
  BY <1>1
<1>5. \A r : [sync EXCEPT !.read = r] = [phase |-> sync.phase, read |-> r, old |-> sync.old]
  BY <1>1
<1>6. \A o : [sync EXCEPT !.old = o] = [phase |-> sync.phase, read |-> sync.read, old |-> o]
  BY <1>1
<1>7. ASSUME NEW p, NEW r
      PROVE  [sync EXCEPT !.phase = p, !.read = r] = [phase |-> p, read |-> r, old |-> sync.old]
  <2>1. PICK mid : mid = [sync EXCEPT !.phase = p]
    OBVIOUS
  <2>2. mid = [phase |-> p, read |-> sync.read, old |-> sync.old]
    BY <1>4, <2>1
  <2>3. [mid EXCEPT !.read = r] = [phase |-> p, read |-> r, old |-> sync.old]
    BY <2>2
  <2> QED
    BY <2>1, <2>3
<1>8. ASSUME NEW p, NEW o
      PROVE  [sync EXCEPT !.phase = p, !.old = o] = [phase |-> p, read |-> sync.read, old |-> o]
  <2>1. PICK mid : mid = [sync EXCEPT !.phase = p]
    OBVIOUS
  <2>2. mid = [phase |-> p, read |-> sync.read, old |-> sync.old]
    BY <1>4, <2>1
  <2>3. [mid EXCEPT !.old = o] = [phase |-> p, read |-> sync.read, old |-> o]
    BY <2>2
  <2> QED
    BY <2>1, <2>3
<1> QED
  BY <1>2, <1>3, <1>4, <1>5, <1>6, <1>7, <1>8

(* Steps that load nothing.                                                *)
LEMMA LoadsRest ==
  ASSUME LoadsInv, stored \in Texts, head' \in {head, head + 1},
         chapterBase' \in {chapterBase, head'}, unpushed' \subseteq Columns,
         reload' \in {reload, Unread}, sync' = sync
  PROVE  LoadsInv'
<1>1. chapterBase' \in 0 .. head'
  BY DEF LoadsInv
<1>2. PICK p, r, o : p = sync.phase /\ r = sync.read /\ o = sync.old
  OBVIOUS
<1> QED
  BY <1>1, <1>2, LoadsGo, SyncShape

(* What the steps of the queue do to the syncs under way.                  *)
SameSyncs == SyncsUnderWay' = SyncsUnderWay /\ DOMAIN writes' = DOMAIN writes

LEMMA SyncsStay ==
  ASSUME UNCHANGED queueVars
  PROVE  SameSyncs
BY DEF SameSyncs, SyncsUnderWay, queueVars

LEMMA OperationsKeepSyncs ==
  ASSUME QueueInv, NEW w, OperationStep(w)
  PROVE  SameSyncs
<1>1. /\ w \in DOMAIN operations /\ DOMAIN operations' = DOMAIN operations
      /\ writes' = writes \/ BeginWrite(w) \/ SettleWrite(w)
  BY DEF OperationStep, BeginOperation, SkipCancelled, OperationSucceeds,
         OperationFails, SettleOperation, SetStatus
<1>2. DOMAIN writes' = DOMAIN writes /\ \A v \in DOMAIN writes : v # w => writes'[v] = writes[v]
  BY <1>1, BeginMoves, SettleMoves DEF QueueInv
<1> QED
  BY <1>1, <1>2 DEF SameSyncs, SyncsUnderWay

LEMMA NextWriteIsNew ==
  ASSUME QueueInv, NextWrite \in WriteIds, NEW s, NEW k, NEW st,
         SubmitWrite(NextWrite, s, k, st)
  PROVE  /\ NextWrite \notin DOMAIN writes
         /\ DOMAIN writes' = DOMAIN writes \cup {NextWrite}
         /\ writes'[NextWrite].status = st
         /\ \A v \in DOMAIN writes : writes'[v] = writes[v]
<1>1. PICK n \in WriteIds : n = NextWrite
  OBVIOUS
<1>2. /\ \A v \in DOMAIN writes : v < n
      /\ writes' = [v \in DOMAIN writes \cup {n} |->
                      IF v = n THEN [scope |-> s, rank |-> k, status |-> st] ELSE writes[v]]
  BY <1>1 DEF SubmitWrite
<1>3. n \in Nat
  BY IdsAreNumbers
<1>4. n \notin DOMAIN writes
  BY <1>2, <1>3
<1> QED
  BY <1>1, <1>2, <1>4

LEMMA SaveRequestSyncs ==
  ASSUME QueueInv, NEW st, RequestSave(st)
  PROVE  /\ SyncsUnderWay' = SyncsUnderWay
         /\ NextWrite \notin DOMAIN writes /\ DOMAIN writes' = DOMAIN writes \cup {NextWrite}
<1>1. PICK n : n = NextWrite
  OBVIOUS
<1>2. /\ n \notin DOMAIN writes /\ DOMAIN writes' = DOMAIN writes \cup {n}
      /\ \A v \in DOMAIN writes : writes'[v] = writes[v]
  BY <1>1, NextWriteIsNew DEF RequestSave, RequestOperation
<1>3. DOMAIN operations' = DOMAIN operations \cup {n}
  BY <1>1 DEF RequestSave, RequestOperation, Added, Superseded
<1> QED
  BY <1>1, <1>2, <1>3 DEF SyncsUnderWay

LEMMA SyncRequestSyncs ==
  ASSUME QueueInv, NEW st \in {"queued", "running"}, RequestSync(st)
  PROVE  /\ SyncsUnderWay' = SyncsUnderWay \cup {NextWrite}
         /\ NextWrite \notin DOMAIN writes /\ DOMAIN writes' = DOMAIN writes \cup {NextWrite}
<1>1. PICK n : n = NextWrite
  OBVIOUS
<1>2. /\ n \notin DOMAIN writes /\ DOMAIN writes' = DOMAIN writes \cup {n}
      /\ writes'[n].status = st /\ \A v \in DOMAIN writes : writes'[v] = writes[v]
  BY <1>1, NextWriteIsNew DEF RequestSync
<1>3. operations' = operations /\ n \notin DOMAIN operations
  BY <1>2 DEF RequestSync, QueueInv, TypeOK
<1> QED
  BY <1>1, <1>2, <1>3 DEF SyncsUnderWay

LEMMA SyncBeginSyncs ==
  ASSUME QueueInv, NEW w, SyncWrite(w), BeginWrite(w), operations' = operations
  PROVE  SameSyncs
<1>1. /\ w \in DOMAIN writes /\ DOMAIN writes' = DOMAIN writes
      /\ writes[w].status = "queued" /\ writes'[w].status = "running"
      /\ \A v \in DOMAIN writes : v # w => writes'[v] = writes[v]
  BY BeginMoves DEF QueueInv
<1> QED
  BY <1>1 DEF SameSyncs, SyncsUnderWay

LEMMA SyncSettleSyncs ==
  ASSUME QueueInv, NEW w, SyncWrite(w), SettleWrite(w), operations' = operations
  PROVE  /\ w \in SyncsUnderWay /\ DOMAIN writes' = DOMAIN writes
         /\ SyncsUnderWay' = SyncsUnderWay \ {w}
<1>1. /\ w \in DOMAIN writes /\ DOMAIN writes' = DOMAIN writes
      /\ writes[w].status = "running" /\ writes'[w].status = "settled"
      /\ \A v \in DOMAIN writes : v # w => writes'[v] = writes[v]
  BY SettleMoves DEF QueueInv
<1> QED
  BY <1>1 DEF SyncsUnderWay, SyncWrite
-----------------------------------------------------------------------------
(* Most steps begin and end no sync, ...                                   *)
Uneventful ==
  /\ SyncsUnderWay' = SyncsUnderWay /\ DOMAIN writes \subseteq DOMAIN writes'
  /\ sync'.phase = sync.phase \/ {sync.phase, sync'.phase} \cap {"syncing", "pulled"} = {}

(* ... and the saves that may commit are those that could, and new ones.   *)
SavesOnlyEnd ==
  \A w \in DOMAIN saves' :
    saves'[w].answer.status = "none" =>
      \/ w \notin DOMAIN writes
      \/ w \in DOMAIN saves /\ saves[w].answer.status = "none"

LEMMA IdsAreFinite ==
  ASSUME NEW S \in SUBSET WriteIds
  PROVE  /\ IsFiniteSet(S) /\ Cardinality(S) \in Nat
         /\ Cardinality(S) <= MaxWrites
<1>1. IsFiniteSet(1 .. MaxWrites) /\ Cardinality(1 .. MaxWrites) = MaxWrites
  BY FS_Interval, WriterAssumption
<1>2. S \subseteq 1 .. MaxWrites
  BY DEF WriteIds
<1> QED
  BY <1>1, <1>2, FS_Subset, FS_CardinalityType

LEMMA SpentGrows ==
  ASSUME QueueInv, QueueInv', CommitsInv, Spent \subseteq Spent', head \in Nat,
         \/ head' = head
         \/ /\ head' = head + 1
            /\ \E w : w \in Spent' \ Spent
  PROVE  CommitsInv'
<1>1. PICK a, b : a = Spent /\ b = Spent'
  OBVIOUS
<1>2. a \subseteq WriteIds /\ b \subseteq WriteIds
  BY <1>1 DEF QueueInv, TypeOK, WriterTypeOK, Spent
<1>3. a \subseteq b /\ IsFiniteSet(b) /\ Cardinality(a) \in Nat /\ Cardinality(b) \in Nat
  BY <1>1, <1>2, IdsAreFinite
<1>4. /\ Cardinality(a) <= Cardinality(b)
      /\ a # b => Cardinality(a) < Cardinality(b)
  BY <1>3, FS_Subset
<1>5. head <= Cardinality(a)
  BY <1>1 DEF CommitsInv
<1>6. head' = head \/ (head' = head + 1 /\ a # b)
  <2>1. ASSUME NEW w, w \in Spent' \ Spent PROVE a # b
    BY <1>1, <2>1
  <2> QED
    BY <2>1
<1>7. head' <= Cardinality(b)
  BY <1>3, <1>4, <1>5, <1>6
<1> QED
  BY <1>1, <1>7 DEF CommitsInv

LEMMA NothingMoreCommits ==
  ASSUME SyncsInv, Uneventful, SavesOnlyEnd
  PROVE  SyncsInv' /\ Spent \subseteq Spent'
<1>1. SyncsInv'
  BY DEF SyncsInv, Uneventful
<1>2. ASSUME NEW w \in DOMAIN writes, w \in MayCommit' PROVE w \in MayCommit
  <2>1. CASE w \in DOMAIN saves' /\ saves'[w].answer.status = "none"
    BY <1>2, <2>1 DEF SavesOnlyEnd, MayCommit
  <2>2. CASE w \in SyncsUnderWay' /\ sync'.phase = "syncing"
    BY <2>2 DEF Uneventful, MayCommit
  <2> QED
    BY <1>2, <2>1, <2>2 DEF MayCommit
<1> QED
  BY <1>1, <1>2 DEF Spent, Uneventful

(* What a step is to show, besides TextInv'.                               *)
Counts ==
  /\ LoadsInv' /\ SyncsInv' /\ Spent \subseteq Spent'
  /\ \/ head' = head
     \/ /\ head' = head + 1
        /\ \E w : w \in Spent' \ Spent

LEMMA SavesStay ==
  ASSUME saves' = saves
  PROVE  SavesOnlyEnd
BY DEF SavesOnlyEnd

LEMMA SameSyncsAreQuiet ==
  ASSUME SameSyncs, sync'.phase = sync.phase
  PROVE  Uneventful
BY DEF SameSyncs, Uneventful

LEMMA UserCounts ==
  ASSUME TextInv, CountInv,
         UserStep \/ \E c \in Columns, text \in UserTexts \cup {Blank} : Type(c, text)
  PROVE  Counts
<1>1. /\ UNCHANGED <<queueVars, repoVars, chapterBase, saves, sync>>
      /\ reload' \in {reload, Unread}
  BY DEF UserStep, Type, Activate, Blur, LeaveRow
<1>2. LoadsInv /\ SyncsInv /\ stored \in Texts /\ unpushed \subseteq Columns
  BY DEF CountInv, LoadsInv, TextInv, RowInv
<1>3. head' = head /\ chapterBase' = chapterBase /\ unpushed' = unpushed
  BY <1>1 DEF repoVars
<1>4. LoadsInv'
  BY <1>1, <1>2, <1>3, LoadsRest
<1>5. Uneventful /\ SavesOnlyEnd
  BY <1>1, SyncsStay, SavesStay, SameSyncsAreQuiet
<1> QED
  BY <1>2, <1>3, <1>4, <1>5, NothingMoreCommits DEF Counts

LEMMA ScanCounts ==
  ASSUME TextInv, CountInv, NEW st, SaveIfDirty(st)
  PROVE  Counts
<1>1. UNCHANGED <<repoVars, chapterBase, reload, sync>>
  BY DEF SaveIfDirty
<1>2. LoadsInv /\ SyncsInv /\ stored \in Texts /\ unpushed \subseteq Columns /\ QueueInv
  BY DEF CountInv, LoadsInv, TextInv, RowInv
<1>3. head' = head /\ chapterBase' = chapterBase /\ unpushed' = unpushed
  BY <1>1 DEF repoVars
<1>4. LoadsInv'
  BY <1>1, <1>2, <1>3, LoadsRest
<1>5. Uneventful /\ SavesOnlyEnd
  <2>1. CASE UNCHANGED <<queueVars, saves>>
    BY <1>1, <2>1, SyncsStay, SavesStay, SameSyncsAreQuiet
  <2>2. CASE RequestSave(st)
    <3>1. Uneventful
      BY <1>1, <1>2, <2>2, SaveRequestSyncs DEF Uneventful
    <3> DEFINE new == [fields |-> row.fields, base |-> row.persisted, answer |-> NoAnswer]
    <3>2. PICK n : n = NextWrite
      OBVIOUS
    <3>3. PICK wanted \in SUBSET DOMAIN saves :
            saves' = Added(Restrict(saves, wanted), NextWrite, new)
      BY <2>2 DEF RequestSave
    <3>4. saves' = Added(Restrict(saves, wanted), n, new)
      BY <3>2, <3>3
    <3>5. n \notin DOMAIN writes
      BY <1>2, <2>2, <3>2, SaveRequestSyncs
    <3>6. \A w \in DOMAIN saves' : w # n => w \in DOMAIN saves /\ saves'[w] = saves[w]
      BY <3>4 DEF Added, Restrict
    <3> QED
      BY <3>1, <3>5, <3>6 DEF SavesOnlyEnd
  <2> QED
    BY <2>1, <2>2 DEF SaveIfDirty
<1> QED
  BY <1>2, <1>3, <1>4, <1>5, NothingMoreCommits DEF Counts

LEMMA ReloadCounts ==
  ASSUME TextInv, CountInv, ReloadStep
  PROVE  Counts
<1>1. LoadsInv /\ SyncsInv /\ stored \in Texts /\ unpushed \subseteq Columns
  BY DEF CountInv, LoadsInv, TextInv, RowInv
<1>2. UNCHANGED <<queueVars, repoVars, saves>>
  BY DEF ReloadStep, ReloadReads, ReloadEnds, ReloadFails, AfterReload
<1>3. head' = head /\ unpushed' = unpushed
  BY <1>2 DEF repoVars
<1>4. \/ sync' = sync
      \/ sync.phase = "reloading" /\ sync' = [sync EXCEPT !.phase = "none"]
  BY DEF ReloadStep, ReloadReads, ReloadEnds, ReloadFails, AfterReload
<1>5. PICK p, r, o : /\ sync' = [phase |-> p, read |-> r, old |-> o]
                     /\ p \in SyncPhases /\ r = sync.read /\ o = sync.old
                     /\ r # None <=> p = "merging"
                     /\ p = sync.phase \/ (sync.phase = "reloading" /\ p = "none")
  <2>1. CASE sync' = sync
    BY <1>1, <2>1, SyncShape
  <2>2. CASE sync.phase = "reloading" /\ sync' = [sync EXCEPT !.phase = "none"]
    BY <1>1, <2>2, SyncShape DEF SyncPhases
  <2> QED
    BY <1>4, <2>1, <2>2
<1>6. reload' \in {reload, None, Unread, [file |-> stored, head |-> head]}
  BY DEF ReloadStep, ReloadReads, ReloadEnds, ReloadFails, AfterReload
<1>7. chapterBase' \in 0 .. head'
  <2>1. CASE chapterBase' = chapterBase
    BY <1>1, <1>3, <2>1 DEF LoadsInv
  <2>2. CASE reload \in FileRead /\ chapterBase' = reload.head
    <3>1. reload \in KnownRead
      BY <1>1, <2>2, ReadsAreMarked DEF LoadsInv
    <3> QED
      BY <1>3, <2>2, <3>1 DEF KnownRead
  <2> QED
    BY <2>1, <2>2 DEF ReloadStep, ReloadReads, ReloadEnds, ReloadFails
<1>8. LoadsInv'
  BY <1>1, <1>3, <1>5, <1>6, <1>7, LoadsGo
<1>9. Uneventful /\ SavesOnlyEnd
  <2>1. sync'.phase = sync.phase \/ {sync.phase, sync'.phase} \cap {"syncing", "pulled"} = {}
    BY <1>5
  <2> QED
    BY <1>2, <2>1, SyncsStay, SavesStay DEF SameSyncs, Uneventful
<1> QED
  BY <1>1, <1>3, <1>8, <1>9, NothingMoreCommits DEF Counts

LEMMA SavesEnd ==
  ASSUME NEW w, saves' = Restrict(saves, DOMAIN saves \ {w})
  PROVE  SavesOnlyEnd
BY DEF SavesOnlyEnd, Restrict

LEMMA RunOnCounts ==
  ASSUME TextInv, CountInv, NEW w, QueueRunsOn(w)
  PROVE  Counts
<1>1. /\ OperationStep(w) /\ UNCHANGED <<chapterBase, repoVars, saves, reload, sync>>
  BY DEF QueueRunsOn, OperationStep
<1>2. LoadsInv /\ SyncsInv /\ stored \in Texts /\ unpushed \subseteq Columns /\ QueueInv
  BY DEF CountInv, LoadsInv, TextInv, RowInv
<1>3. head' = head /\ chapterBase' = chapterBase /\ unpushed' = unpushed
  BY <1>1 DEF repoVars
<1>4. LoadsInv'
  BY <1>1, <1>2, <1>3, LoadsRest
<1>5. Uneventful /\ SavesOnlyEnd
  BY <1>1, <1>2, OperationsKeepSyncs, SavesStay, SameSyncsAreQuiet
<1> QED
  BY <1>2, <1>3, <1>4, <1>5, NothingMoreCommits DEF Counts

LEMMA SaveCounts ==
  ASSUME TextInv, CountInv, NEW w, BeginSave(w) \/ SaveAnswered(w) \/ SaveFails(w)
  PROVE  Counts
<1>1. /\ OperationStep(w) /\ UNCHANGED <<repoVars, reload, sync>>
  BY DEF BeginSave, SaveAnswered, SaveFails, OperationStep
<1>2. LoadsInv /\ SyncsInv /\ stored \in Texts /\ unpushed \subseteq Columns /\ QueueInv
  BY DEF CountInv, LoadsInv, TextInv, RowInv
<1>3. head' = head /\ unpushed' = unpushed
  BY <1>1 DEF repoVars
<1>4. chapterBase' \in {chapterBase, head'}
  BY <1>3 DEF BeginSave, SaveAnswered, SaveFails
<1>5. LoadsInv'
  BY <1>1, <1>2, <1>3, <1>4, LoadsRest
<1>6. Uneventful
  BY <1>1, <1>2, OperationsKeepSyncs, SameSyncsAreQuiet
<1>7. SavesOnlyEnd
  <2>1. CASE SaveAnswered(w) \/ SaveFails(w)
    BY <2>1, SavesEnd DEF SaveAnswered, SaveFails
  <2>2. CASE BeginSave(w)
    <3>1. saves' = [saves EXCEPT ![w] =
                      IF InConflict(row) THEN [@ EXCEPT !.answer.status = "skipped"]
                      ELSE RebasedInput(@)]
      BY <2>2 DEF BeginSave
    <3>2. ASSUME NEW v \in DOMAIN saves, saves'[v].answer.status = "none"
          PROVE  saves[v].answer.status = "none"
      <4>1. CASE v # w
        BY <3>1, <3>2, <4>1
      <4>2. CASE v = w
        <5>1. saves[w] \in Save
          BY <3>2, <4>2 DEF TextInv, SavesInv, SaveKept
        <5>2. CASE InConflict(row)
          <6>1. saves'[w] = [saves[w] EXCEPT !.answer.status = "skipped"]
            BY <3>1, <3>2, <4>2, <5>2
          <6>2. saves'[w].answer.status = "skipped"
            BY <5>1, <6>1 DEF Save
          <6> QED
            BY <3>2, <4>2, <6>2
        <5>3. CASE ~ InConflict(row)
          <6>1. saves'[w] = [saves[w] EXCEPT !.base = row.persisted]
            BY <3>1, <3>2, <4>2, <5>3 DEF RebasedInput
          <6>2. saves'[w].answer = saves[w].answer
            BY <5>1, <6>1 DEF Save
          <6> QED
            BY <3>2, <4>2, <6>2
        <5> QED
          BY <5>2, <5>3
      <4> QED
        BY <4>1, <4>2
    <3>3. DOMAIN saves' = DOMAIN saves
      BY <3>1
    <3> QED
      BY <3>2, <3>3 DEF SavesOnlyEnd
  <2> QED
    BY <2>1, <2>2
<1> QED
  BY <1>2, <1>3, <1>5, <1>6, <1>7, NothingMoreCommits DEF Counts

LEMMA CommitCounts ==
  ASSUME TextInv, CountInv, NEW w, CommitSave(w)
  PROVE  Counts
<1> DEFINE refused == Clash(saves[w].base, saves[w].fields, stored) # {}
           answer == [status |-> IF refused THEN "conflict" ELSE "saved", file |-> stored']
<1>1. /\ saves' = [saves EXCEPT ![w].answer = answer]
      /\ answer.status \in {"conflict", "saved"}
  BY DEF CommitSave
<1> HIDE DEF answer
<1>2. /\ w \in DOMAIN saves /\ saves[w].answer.status = "none"
      /\ UNCHANGED <<queueVars, chapterBase, reload, sync>>
      /\ head' \in {head, head + 1}
      /\ unpushed' = unpushed \cup {c \in Columns : stored'[c] # stored[c]}
  BY DEF CommitSave
<1>3. /\ LoadsInv /\ SyncsInv /\ stored \in Texts /\ unpushed \subseteq Columns
      /\ w \in DOMAIN operations /\ w \in DOMAIN writes /\ saves[w] \in Save
  BY <1>2 DEF CountInv, LoadsInv, TextInv, RowInv, SavesInv, SaveKept, QueueInv, TypeOK
<1>4. LoadsInv'
  BY <1>2, <1>3, LoadsRest
<1>5. /\ DOMAIN saves' = DOMAIN saves /\ saves'[w].answer = answer
      /\ \A v \in DOMAIN saves : v # w => saves'[v] = saves[v]
  <2>1. saves'[w] = [saves[w] EXCEPT !.answer = answer]
    BY <1>1, <1>2
  <2>2. saves'[w].answer = answer
    BY <1>3, <2>1 DEF Save
  <2> QED
    BY <1>1, <2>2
<1>6. saves'[w].answer.status # "none"
  BY <1>1, <1>5
<1>7. SavesOnlyEnd
  BY <1>5, <1>6 DEF SavesOnlyEnd
<1>8. Uneventful
  BY <1>2, SyncsStay, SameSyncsAreQuiet
<1>9. w \in Spent' \ Spent
  <2>1. w \in MayCommit
    BY <1>2 DEF MayCommit
  <2>2. w \notin SyncsUnderWay'
    BY <1>2, <1>3 DEF SyncsUnderWay, queueVars
  <2>3. w \notin MayCommit'
    BY <1>6, <2>2 DEF MayCommit
  <2>4. w \in DOMAIN writes'
    BY <1>2, <1>3 DEF queueVars
  <2> QED
    BY <2>1, <2>3, <2>4 DEF Spent
<1>10. SyncsInv' /\ Spent \subseteq Spent'
  BY <1>3, <1>7, <1>8, NothingMoreCommits
<1> QED
  BY <1>2, <1>4, <1>9, <1>10 DEF Counts

LEMMA SyncRequestCounts ==
  ASSUME TextInv, CountInv, NEW st \in {"queued", "running"}, RequestSync(st)
  PROVE  Counts
<1>1. PICK n : n = NextWrite
  OBVIOUS
<1>2. /\ sync.phase = "none" /\ sync' = [sync EXCEPT !.phase = "syncing", !.old = head]
      /\ UNCHANGED <<chapterBase, repoVars, saves, reload>>
  BY DEF RequestSync
<1>3. /\ LoadsInv /\ SyncsInv /\ stored \in Texts /\ unpushed \subseteq Columns /\ QueueInv
      /\ DOMAIN saves \subseteq DOMAIN writes
  BY DEF CountInv, LoadsInv, TextInv, RowInv, SavesInv, QueueInv, TypeOK
<1>4. head' = head /\ chapterBase' = chapterBase /\ unpushed' = unpushed
  BY <1>2 DEF repoVars
<1>5. /\ SyncsUnderWay' = SyncsUnderWay \cup {n} /\ n \notin DOMAIN writes
      /\ DOMAIN writes' = DOMAIN writes \cup {n}
  BY <1>1, <1>3, SyncRequestSyncs
<1>6. SyncsUnderWay = {}
  BY <1>2, <1>3 DEF SyncsInv
<1>7. sync'.phase = "syncing" /\ sync' = [phase |-> "syncing", read |-> sync.read, old |-> head]
  BY <1>2, <1>3, SyncShape
<1>8. LoadsInv'
  <2>1. "syncing" \in SyncPhases /\ sync.read = None /\ chapterBase' \in 0 .. head'
    BY <1>2, <1>3, <1>4, SyncShape DEF SyncPhases
  <2>2. PICK p, r, o : p = "syncing" /\ r = sync.read /\ o = head
    OBVIOUS
  <2>3. sync' = [phase |-> p, read |-> r, old |-> o] /\ p \in SyncPhases
        /\ (r # None <=> p = "merging")
    BY <1>7, <2>1, <2>2
  <2> QED
    BY <1>2, <1>3, <1>4, <2>1, <2>2, <2>3, LoadsGo
<1>9. SyncsInv'
  BY <1>5, <1>6, <1>7 DEF SyncsInv
<1>10. Spent \subseteq Spent'
  <2>1. \A w \in MayCommit' : w = n \/ w \in MayCommit
    BY <1>2, <1>5, <1>6 DEF MayCommit
  <2> QED
    BY <1>5, <2>1 DEF Spent
<1> QED
  BY <1>4, <1>8, <1>9, <1>10 DEF Counts

(* A sync ends: its write was the only one under way.                      *)
LEMMA SyncEndCounts ==
  ASSUME TextInv, CountInv, NEW w, SyncEnds(w) \/ SyncFails(w)
  PROVE  Counts
<1>1. /\ SyncWrite(w) /\ SettleWrite(w) /\ UNCHANGED <<operations, head, saves, reload>>
      /\ chapterBase' \in {chapterBase, head'} /\ unpushed' \in {unpushed, {}}
  BY DEF SyncEnds, SyncFails, repoVars
<1>2. /\ LoadsInv /\ SyncsInv /\ stored \in Texts /\ unpushed \subseteq Columns /\ QueueInv
  BY DEF CountInv, LoadsInv, TextInv, RowInv
<1>3. /\ w \in SyncsUnderWay /\ DOMAIN writes' = DOMAIN writes
      /\ SyncsUnderWay' = SyncsUnderWay \ {w}
  BY <1>1, <1>2, SyncSettleSyncs
<1>4. SyncsUnderWay' = {} /\ sync.phase \in {"syncing", "pulled"}
  BY <1>2, <1>3 DEF SyncsInv
<1>5. PICK p \in {"reload", "merge", "none"} : sync' = [sync EXCEPT !.phase = p]
  <2>1. \/ sync' = [sync EXCEPT !.phase = "none"]
        \/ sync' = [sync EXCEPT !.phase = IF SafeToReload(row) THEN "reload"
                                          ELSE IF MayMerge(row') THEN "merge" ELSE "none"]
    BY DEF SyncEnds, SyncFails
  <2> QED
    BY <2>1
<1>6. PICK r, o : r = sync.read /\ o = sync.old
  OBVIOUS
<1>7. sync' = [phase |-> p, read |-> r, old |-> o] /\ r = None
  BY <1>2, <1>4, <1>5, <1>6, SyncShape
<1>8. LoadsInv'
  <2>1. p \in SyncPhases /\ p # "merging"
    BY <1>5 DEF SyncPhases
  <2>2. chapterBase' \in 0 .. head' /\ unpushed' \subseteq Columns
    BY <1>1, <1>2 DEF LoadsInv
  <2> QED
    BY <1>1, <1>2, <1>6, <1>7, <2>1, <2>2, LoadsGo
<1>9. SyncsInv'
  BY <1>4 DEF SyncsInv
<1>10. Spent \subseteq Spent'
  <2>1. \A v \in MayCommit' : v \in MayCommit
    BY <1>1, <1>4 DEF MayCommit
  <2> QED
    BY <1>3, <2>1 DEF Spent
<1> QED
  BY <1>1, <1>8, <1>9, <1>10 DEF Counts

(* The sync pulls somebody's commit, and will not pull again.              *)
LEMMA PullCounts ==
  ASSUME TextInv, CountInv, NEW c \in Columns, NEW text \in OtherTexts, Pull(c, text)
  PROVE  Counts
<1>1. /\ sync.phase = "syncing" /\ head' = head + 1
      /\ sync' = [sync EXCEPT !.phase = "pulled"]
      /\ UNCHANGED <<queueVars, chapterBase, unpushed, saves, reload>>
  BY DEF Pull
<1>2. PICK w \in DOMAIN writes : SyncWrite(w) /\ writes[w].status = "running"
  BY DEF Pull
<1>3. LoadsInv /\ SyncsInv /\ stored \in Texts /\ unpushed \subseteq Columns
  BY DEF CountInv, LoadsInv, TextInv, RowInv
<1>4. SyncsUnderWay' = SyncsUnderWay /\ DOMAIN writes' = DOMAIN writes
  BY <1>1, SyncsStay DEF SameSyncs
<1>5. PICK p, r, o : p = "pulled" /\ r = sync.read /\ o = sync.old
  OBVIOUS
<1>6. sync' = [phase |-> p, read |-> r, old |-> o] /\ sync'.phase = "pulled"
  BY <1>1, <1>3, <1>5, SyncShape
<1>7. LoadsInv'
  <2>1. p \in SyncPhases /\ (r # None <=> p = "merging")
    BY <1>1, <1>3, <1>5, SyncShape DEF SyncPhases
  <2>2. chapterBase' \in 0 .. head'
    BY <1>1, <1>3 DEF LoadsInv
  <2> QED
    BY <1>1, <1>3, <1>5, <1>6, <2>1, <2>2, LoadsGo
<1>8. SyncsInv'
  BY <1>3, <1>4, <1>6 DEF SyncsInv
<1>9. \A v \in MayCommit' : v \in MayCommit
  BY <1>1, <1>6 DEF MayCommit
<1>10. w \in Spent' \ Spent
  <2>1. w \in MayCommit
    BY <1>1, <1>2 DEF MayCommit, SyncsUnderWay, SyncWrite
  <2>2. w \notin DOMAIN saves
    BY <1>2 DEF TextInv, SavesInv, SyncWrite
  <2>3. w \notin MayCommit'
    BY <1>1, <1>6, <2>2 DEF MayCommit
  <2> QED
    BY <1>4, <2>1, <2>3 DEF Spent
<1>11. Spent \subseteq Spent'
  BY <1>4, <1>9 DEF Spent
<1> QED
  BY <1>1, <1>7, <1>8, <1>10, <1>11 DEF Counts

LEMMA HeadIsBounded ==
  ASSUME TextInv, CountInv
  PROVE  head \in 0 .. MaxWrites
<1>1. PICK a : a = Spent
  OBVIOUS
<1>2. a \subseteq WriteIds
  BY <1>1 DEF TextInv, QueueInv, TypeOK, WriterTypeOK, Spent
<1>3. Cardinality(a) \in Nat /\ Cardinality(a) <= MaxWrites
  BY <1>2, IdsAreFinite
<1>4. head \in Nat /\ head <= Cardinality(a)
  BY <1>1 DEF CountInv, LoadsInv, CommitsInv
<1> QED
  BY <1>3, <1>4, WriterAssumption

(* A sync whose write begins, or that is past it.                          *)
LEMMA SyncMoves ==
  ASSUME TextInv, CountInv, SameSyncs, UNCHANGED <<chapterBase, repoVars, saves>>,
         reload' \in {reload, Unread},
         NEW p \in SyncPhases,
         NEW r \in {sync.read, None, Unread, [file |-> stored, head |-> head]},
         NEW o \in {sync.old, head},
         r # None <=> p = "merging",
         p = sync.phase \/ {sync.phase, p} \cap {"syncing", "pulled"} = {},
         sync' = [phase |-> p, read |-> r, old |-> o]
  PROVE  Counts
<1>1. LoadsInv /\ SyncsInv /\ stored \in Texts /\ unpushed \subseteq Columns
  BY DEF CountInv, LoadsInv, TextInv, RowInv
<1>2. head' = head /\ chapterBase' \in 0 .. head' /\ unpushed' = unpushed
  BY <1>1 DEF repoVars, LoadsInv
<1>3. LoadsInv'
  BY <1>1, <1>2, LoadsGo
<1>4. Uneventful /\ SavesOnlyEnd
  BY SavesStay DEF SameSyncs, Uneventful
<1> QED
  BY <1>1, <1>2, <1>3, <1>4, NothingMoreCommits DEF Counts

LEMMA SyncGoesOnCounts ==
  ASSUME TextInv, CountInv,
         \/ SyncReloads \/ SyncMerges \/ SyncReads \/ SyncMerged \/ SyncMergeFails
         \/ \E w : SyncBegins(w)
  PROVE  Counts
<1>1. /\ UNCHANGED <<chapterBase, repoVars, saves>>
      /\ reload' \in {reload, Unread}
  BY DEF SyncReloads, SyncMerges, SyncReads, SyncMerged, SyncMergeFails, SyncBegins
<1>2. LoadsInv /\ QueueInv
  BY DEF CountInv, TextInv
<1>3. SameSyncs
  <2>1. CASE UNCHANGED queueVars
    BY <2>1, SyncsStay
  <2>2. ASSUME NEW w, SyncBegins(w) PROVE SameSyncs
    BY <1>2, <2>2, SyncBeginSyncs DEF SyncBegins
  <2> QED
    BY <2>1, <2>2 DEF SyncReloads, SyncMerges, SyncReads, SyncMerged, SyncMergeFails
<1>4. PICK phase, read, old : phase = sync.phase /\ read = sync.read /\ old = sync.old
  OBVIOUS
<1>5. /\ phase \in SyncPhases /\ (read # None <=> phase = "merging")
      /\ sync = [phase |-> phase, read |-> read, old |-> old]
      /\ None # Unread
  BY <1>2, <1>4, SyncShape, ReadsAreMarked
<1>6. CASE SyncReloads
  <2>1. phase = "reload" /\ sync' = [phase |-> "reloading", read |-> read, old |-> old]
    BY <1>2, <1>4, <1>6, SyncShape DEF SyncReloads
  <2>2. PICK p : p = "reloading"
    OBVIOUS
  <2>3. /\ p \in SyncPhases /\ (read # None <=> p = "merging")
        /\ {sync.phase, p} \cap {"syncing", "pulled"} = {}
    BY <1>4, <1>5, <2>1, <2>2 DEF SyncPhases
  <2> QED
    BY <1>1, <1>3, <1>4, <2>1, <2>2, <2>3, SyncMoves
<1>7. CASE SyncMerges
  <2>1. PICK p, r : /\ sync' = [phase |-> p, read |-> r, old |-> old]
                    /\ \/ p = "merging" /\ r = Unread
                       \/ p = "none" /\ r = read
    <3>1. CASE sync' = [sync EXCEPT !.phase = "merging", !.read = Unread]
      BY <1>2, <1>4, <3>1, SyncShape
    <3>2. CASE sync' = [sync EXCEPT !.phase = "none"]
      BY <1>2, <1>4, <3>2, SyncShape
    <3> QED
      BY <1>7, <3>1, <3>2 DEF SyncMerges
  <2>2. phase = "merge"
    BY <1>4, <1>7 DEF SyncMerges
  <2>3. /\ p \in SyncPhases /\ (r # None <=> p = "merging")
        /\ {sync.phase, p} \cap {"syncing", "pulled"} = {}
    BY <1>4, <1>5, <2>1, <2>2 DEF SyncPhases
  <2> QED
    BY <1>1, <1>3, <1>4, <2>1, <2>3, SyncMoves
<1>8. CASE SyncReads
  <2>1. PICK r : r = [file |-> stored, head |-> head]
    OBVIOUS
  <2>2. read = Unread /\ sync' = [phase |-> phase, read |-> r, old |-> old]
    BY <1>2, <1>4, <1>8, <2>1, SyncShape DEF SyncReads
  <2>3. r \in FileRead
    BY <2>1, HeadIsBounded DEF FileRead, TextInv, RowInv
  <2>4. r # None <=> phase = "merging"
    BY <1>5, <2>2, <2>3, ReadsAreMarked
  <2> QED
    BY <1>1, <1>3, <1>4, <1>5, <2>1, <2>2, <2>4, SyncMoves
<1>9. CASE SyncMerged \/ SyncMergeFails
  <2>1. sync' = [phase |-> "none", read |-> None, old |-> old]
    BY <1>2, <1>4, <1>9, SyncShape DEF SyncMerged, SyncMergeFails
  <2>2. read # None
    BY <1>4, <1>9, ReadsAreMarked DEF SyncMerged, SyncMergeFails
  <2>3. PICK p, r : p = "none" /\ r = None
    OBVIOUS
  <2>4. /\ p \in SyncPhases /\ (r # None <=> p = "merging")
        /\ {sync.phase, p} \cap {"syncing", "pulled"} = {}
    BY <1>4, <1>5, <2>2, <2>3 DEF SyncPhases
  <2> QED
    BY <1>1, <1>3, <1>4, <2>1, <2>3, <2>4, SyncMoves
<1>10. ASSUME NEW w, SyncBegins(w) PROVE Counts
  <2>1. PICK o : o = head
    OBVIOUS
  <2>2. sync' = [phase |-> phase, read |-> read, old |-> o]
    BY <1>2, <1>4, <1>10, <2>1, SyncShape DEF SyncBegins
  <2> QED
    BY <1>1, <1>3, <1>4, <1>5, <2>1, <2>2, SyncMoves
<1> QED
  BY <1>6, <1>7, <1>8, <1>9, <1>10

LEMMA CountsInit == TextInit => CountInv
<1> SUFFICES ASSUME TextInit PROVE CountInv
  OBVIOUS
<1>1. /\ writes = <<>> /\ operations = <<>> /\ unpushed = {} /\ head = 0 /\ chapterBase = 0
      /\ saves = <<>> /\ reload = None
      /\ sync = [phase |-> "none", read |-> None, old |-> 0]
  BY DEF TextInit, Init, WriterInit
<1>2. LoadsInv
  BY <1>1 DEF LoadsInv, SyncPhases
<1>3. SyncsUnderWay = {}
  BY <1>1 DEF SyncsUnderWay
<1>4. SyncsInv
  BY <1>3 DEF SyncsInv
<1>5. Spent = {}
  BY <1>1 DEF Spent
<1>6. CommitsInv
  BY <1>1, <1>5, FS_EmptySet DEF CommitsInv
<1> QED
  BY <1>2, <1>4, <1>6 DEF CountInv

LEMMA CountsNext == TextInv /\ CountInv /\ [TextNext]_textVars => CountInv'
<1> SUFFICES ASSUME TextInv, CountInv, [TextNext]_textVars PROVE CountInv'
  OBVIOUS
<1>1. QueueInv /\ QueueInv' /\ head \in Nat /\ CommitsInv
  BY TextNextInv DEF TextInv, CountInv, LoadsInv
<1>2. CASE TextNext
  <2>1. Counts
    <3>1. ASSUME NEW c \in Columns, NEW text \in UserTexts \cup {Blank}, Type(c, text)
          PROVE  Counts
      BY <3>1, UserCounts
    <3>2. ASSUME NEW st \in {"queued", "running"}, SaveIfDirty(st) \/ RequestSync(st)
          PROVE  Counts
      BY <3>2, ScanCounts, SyncRequestCounts
    <3>3. ASSUME NEW w, SaveStep(w) \/ QueueRunsOn(w) PROVE Counts
      BY <3>3, SaveCounts, CommitCounts, RunOnCounts DEF SaveStep
    <3>4. CASE SyncStep
      BY <3>4, SyncEndCounts, PullCounts, SyncGoesOnCounts DEF SyncStep
    <3> QED
      BY <1>2, <3>1, <3>2, <3>3, <3>4, UserCounts, ReloadCounts DEF TextNext
  <2>2. CommitsInv'
    BY <1>1, <2>1, SpentGrows DEF Counts
  <2> QED
    BY <2>1, <2>2 DEF Counts, CountInv
<1>3. CASE UNCHANGED textVars
  <2>1. UNCHANGED <<writes, operations, stored, head, unpushed, chapterBase, saves, reload, sync>>
    BY <1>3 DEF textVars, queueVars, repoVars
  <2>2. LoadsInv'
    BY <2>1, LoadsRest DEF CountInv, TextInv, RowInv, LoadsInv
  <2>3. SyncsInv' /\ Spent' = Spent
    BY <2>1 DEF CountInv, SyncsInv, SyncsUnderWay, Spent, MayCommit
  <2>4. CommitsInv'
    BY <1>1, <2>1, <2>3, SpentGrows
  <2> QED
    BY <2>2, <2>3, <2>4 DEF CountInv
<1> QED
  BY <1>2, <1>3

(* A repository has no more commits than there were writes, each of which  *)
(* commits once at most however it is answered, superseded or pulled over; *)
(* what the chapter and a load have read is of one of them. So row, file,  *)
(* saves, loads and syncs keep their types.                                *)
THEOREM TextTypesAreRight == TextSpec => []TextTypeOK
<1>1. TextInit => CountInv
  BY CountsInit
<1>2. TextSpec => []CountInv
  BY <1>1, CountsNext, TextInvariant, PTL DEF TextSpec
<1>3. TextInv /\ CountInv => TextTypeOK
  <2> SUFFICES ASSUME TextInv, CountInv PROVE TextTypeOK
    OBVIOUS
  <2>1. TypeOK /\ row \in Row /\ stored \in Texts /\ ui \in Ui
    BY DEF TextInv, QueueInv, RowInv
  <2>2. /\ DOMAIN saves \subseteq DOMAIN operations
        /\ \A w \in DOMAIN saves : saves[w] \in Save
    BY DEF TextInv, SavesInv, SaveKept
  <2>3. head \in 0 .. MaxWrites
    BY HeadIsBounded
  <2>4. KnownRead \subseteq FileRead
    <3>1. \A n \in 0 .. head : n \in 0 .. MaxWrites
      BY <2>3, WriterAssumption
    <3> QED
      BY <3>1 DEF KnownRead, FileRead
  <2>5. /\ unpushed \subseteq Columns /\ chapterBase \in 0 .. head
        /\ reload \in {None, Unread} \cup FileRead
        /\ sync.read # None <=> sync.phase = "merging"
    BY <2>4 DEF CountInv, LoadsInv
  <2>6. sync \in [phase : SyncPhases, read : {None, Unread} \cup FileRead, old : 0 .. head]
    <3>1. PICK reads : reads = {None, Unread} \cup KnownRead
      OBVIOUS
    <3>2. sync \in [phase : SyncPhases, read : reads, old : 0 .. head]
      BY <3>1 DEF CountInv, LoadsInv
    <3>3. reads \subseteq {None, Unread} \cup FileRead
      BY <2>4, <3>1
    <3> QED
      BY <3>2, <3>3
  <2> QED
    BY <2>1, <2>2, <2>3, <2>5, <2>6 DEF TextTypeOK, Ui
<1> QED
  BY <1>2, <1>3, TextInvariant, PTL

(* The saves of the row and the background syncs, between them, submit,    *)
(* begin and settle writes only as the repo write queue lets them.         *)
THEOREM SavesAndSyncsAreWrites == TextSpec => WriterSafety
<1>1. TextInit => WriterInit
  BY DEF TextInit, Init
<1>2. ASSUME TextInv, [TextNext]_textVars
      PROVE  [WriterNext]_writes
  <2>1. /\ DOMAIN writes \subseteq WriteIds /\ LocalWrite \in Ranks /\ 0 \in Ranks
        /\ Repo \in WriteScopes
    <3>1. DOMAIN writes \subseteq WriteIds
      BY <1>2 DEF TextInv, QueueInv, TypeOK, WriterTypeOK
    <3>2. LocalWrite \in Ranks /\ 0 \in Ranks /\ Repo \in WriteScopes
      BY TextAssumption DEF LocalWrite, Ranks
    <3> QED
      BY <3>1, <3>2
  <2>2. CASE UNCHANGED queueVars
    BY <2>2 DEF queueVars
  <2>3. ASSUME NEW st \in {"queued", "running"}, SaveIfDirty(st) \/ RequestSync(st)
        PROVE  [WriterNext]_writes
    <3>1. CASE RequestSave(st)
      BY <2>1, <3>1 DEF RequestSave, RequestOperation, WriterNext
    <3>2. CASE RequestSync(st)
      BY <2>1, <3>2 DEF RequestSync, WriterNext
    <3> QED
      BY <2>2, <2>3, <3>1, <3>2 DEF SaveIfDirty
  <2>4. ASSUME NEW w \in DOMAIN writes, SaveStep(w) \/ QueueRunsOn(w)
        PROVE  [WriterNext]_writes
    BY <2>1, <2>2, <2>4
       DEF SaveStep, BeginSave, CommitSave, SaveAnswered, SaveFails, QueueRunsOn,
           BeginOperation, SkipCancelled, OperationSucceeds, OperationFails,
           SettleOperation, WriterNext
  <2>5. ASSUME NEW w \in DOMAIN writes, SyncBegins(w) \/ SyncEnds(w) \/ SyncFails(w)
        PROVE  [WriterNext]_writes
    BY <2>1, <2>5 DEF SyncBegins, SyncEnds, SyncFails, WriterNext
  <2> QED
    BY <1>2, <2>2, <2>3, <2>4, <2>5
       DEF TextNext, textVars, UserStep, ReloadStep, SyncStep, Type, Activate, Blur,
           LeaveRow, ReloadReads, ReloadEnds, ReloadFails, AfterReload, Pull,
           SyncReloads, SyncMerges, SyncReads, SyncMerged, SyncMergeFails
<1>3. TextInv /\ [TextNext]_textVars => [WriterNext]_writes
  BY <1>2
<1> QED
  BY <1>1, <1>3, TextInvariant, PTL DEF TextSpec, WriterSafety
=============================================================================
