------------------------ MODULE EditorRowOperations ------------------------
(***************************************************************************)
(* The quick actions of one editor row and language, clients of the editor *)
(* operation queue: the markers "reviewed" and "please check", the text    *)
(* style, and "unreview all", which turns reviewed off in every row        *)
(* (src-ui/app/editor-persistence-flow.js, the row's state in              *)
(* editor-persistence-state.js and editor-review-state.js).                *)
(*                                                                         *)
(* Each shows its value at once (applyOptimistic), writes it to the row's  *)
(* file when its turn comes, and puts the row right when the write fails.  *)
(* The row's file answers with what it contains after the write. Writes of *)
(* other people reach the file through syncs, which are not modelled here. *)
(***************************************************************************)
EXTENDS EditorOperationQueue

CONSTANTS
  reviewed, pleaseCheck, textStyle,   \* the coalesce keys of the row
  Styles,                             \* the text styles
  Repo,                               \* the repository of the row's project
  Idle,                               \* no marker is being saved
  MaxLanded                           \* bound on the failures after a commit

Flags == {reviewed, pleaseCheck}

ASSUME RowAssumption ==
  /\ reviewed # pleaseCheck /\ textStyle \notin Flags /\ Idle \notin Flags
  /\ CoalesceKeys = Flags \cup {textStyle}
  /\ ScopeOf = [k \in CoalesceKeys |-> Repo]
  /\ MaxLanded \in Nat

FieldStates == [Flags -> BOOLEAN]
NoClick == [kind |-> Idle]

(* operation.value of each kind of operation.                              *)
MarkerWish == [kind : Flags, next : FieldStates, previous : FieldStates]
StyleWish  == [kind : {textStyle}, next : Styles]
BatchWish  == [kind : {NoKey}, turnedOff : BOOLEAN]

Row == [fieldStates : FieldStates, persistedFieldStates : FieldStates,
        markerSaveState : Flags \cup {Idle},
        textStyle : Styles, persistedTextStyle : Styles,
        textStyleSaving : BOOLEAN]

VARIABLES
  row,      \* the row in state.editorChapter
  stored,   \* what its file contains
  wishes,   \* the values of the operations
  click,    \* a toggle that awaits what comes before its request
  landed    \* history: operations that failed after their commit

rowVars == <<queueVars, row, stored, wishes, click, landed>>

Later(w, v) == v > w /\ operations[v].status \in {"queued", "running"}

MarkerOrBatch == {w \in DOMAIN wishes : wishes[w].kind # textStyle}
-----------------------------------------------------------------------------
RowInit ==
  /\ Init
  /\ stored \in [fieldStates : FieldStates, textStyle : Styles]
  /\ row = [fieldStates |-> stored.fieldStates,
            persistedFieldStates |-> stored.fieldStates,
            markerSaveState |-> Idle,
            textStyle |-> stored.textStyle,
            persistedTextStyle |-> stored.textStyle,
            textStyleSaving |-> FALSE]
  /\ wishes = <<>>
  /\ click = NoClick
  /\ landed = {}

Request(key, wish, st) ==
  /\ NextWrite \in WriteIds
  /\ RequestOperation(NextWrite, Repo, key, st)
  /\ wishes' = Added(wishes, NextWrite, wish)
  /\ UNCHANGED <<stored, landed>>

(* toggleEditorRowFieldMarker reads the row; the row's text may have to be *)
(* queued for saving before it goes on.                                    *)
ToggleMarker(flag) ==
  /\ click = NoClick
  /\ click' = [kind |-> flag, previous |-> row.fieldStates,
               next |-> [row.fieldStates EXCEPT ![flag] = ~ @]]
  /\ UNCHANGED <<queueVars, row, stored, wishes, landed>>

RequestMarker(st) ==
  /\ click # NoClick
  /\ Request(click.kind, click, st)
  /\ row' = [row EXCEPT !.fieldStates = click.next,
                        !.markerSaveState = click.kind]
  /\ click' = NoClick

RequestTextStyle(style, st) ==
  /\ style # row.textStyle
  /\ Request(textStyle, [kind |-> textStyle, next |-> style], st)
  /\ row' = [row EXCEPT !.textStyle = style, !.textStyleSaving = TRUE]
  /\ UNCHANGED click

RequestUnreviewAll(st) ==
  /\ Request(NoKey, [kind |-> NoKey,
                     turnedOff |-> row.fieldStates[reviewed]], st)
  /\ row' = [row EXCEPT !.fieldStates[reviewed] = FALSE]
  /\ UNCHANGED click

(* What the command of operation w writes to the row's file.               *)
Written(w) ==
  LET kind == wishes[w].kind
  IN  IF kind \in Flags
      THEN [stored EXCEPT !.fieldStates[kind] = wishes[w].next[kind]]
      ELSE IF kind = textStyle
      THEN [stored EXCEPT !.textStyle = wishes[w].next]
      ELSE [stored EXCEPT !.fieldStates[reviewed] = FALSE]

(* Mutant of MarkerSaved: only the visible markers are set.                *)
MarkerSaved_Shown(file) ==
  [row EXCEPT !.fieldStates = file.fieldStates, !.markerSaveState = Idle]

(* applyEditorRowMarkerSaved                                               *)
MarkerSaved(file) ==
  [row EXCEPT !.fieldStates = file.fieldStates,
              !.persistedFieldStates = file.fieldStates,
              !.markerSaveState = Idle]

(* Mutant of TextStyleSaved: a stale success shows its style.              *)
TextStyleSaved_Stale(file, stale) ==
  [row EXCEPT !.persistedTextStyle = file.textStyle,
              !.textStyle = file.textStyle,
              !.textStyleSaving = IF stale THEN @ ELSE FALSE]

(* applyEditorRowTextStyleSaved and applyEditorRowTextStyleStaleSaved      *)
TextStyleSaved(file, stale) ==
  [row EXCEPT !.persistedTextStyle = file.textStyle,
              !.textStyle = IF stale THEN @ ELSE file.textStyle,
              !.textStyleSaving = IF stale THEN @ ELSE FALSE]

(* rowHasLaterReviewedToggle                                               *)
HasLaterReviewedToggle == row.markerSaveState = reviewed

(* applyEditorChapterRowsUnreviewed                                        *)
Unreviewed ==
  [row EXCEPT !.persistedFieldStates[reviewed] = FALSE,
              !.fieldStates[reviewed] = HasLaterReviewedToggle /\ @]

(* run() succeeded. The markers have no onStaleSuccess.                    *)
Saved(w) ==
  LET kind == wishes[w].kind
      stale == ~ IsLatestCoalesced(w)
  IN  /\ OperationSucceeds(w)
      /\ stored' = Written(w)
      /\ row' = CASE kind \in Flags /\ ~ stale -> MarkerSaved(Written(w))
                  [] kind \in Flags /\ stale -> row
                  [] kind = textStyle -> TextStyleSaved(Written(w), stale)
                  [] kind = NoKey -> Unreviewed
      /\ UNCHANGED <<wishes, click, landed>>

(* applyEditorRowTextStyleSaveFailed                                       *)
TextStyleFailed ==
  [row EXCEPT !.textStyle = row.persistedTextStyle, !.textStyleSaving = FALSE]

(* applyEditorRowMarkerSaveFailed: back to what the toggle saw.            *)
MarkerFailed(w) ==
  [row EXCEPT !.fieldStates = wishes[w].previous, !.markerSaveState = Idle]

(* restoreEditorChapterRowsUnreviewing                                     *)
UnreviewFailed(w) ==
  IF wishes[w].turnedOff /\ ~ HasLaterReviewedToggle
  THEN [row EXCEPT !.fieldStates[reviewed] = row.persistedFieldStates[reviewed]]
  ELSE row

(* run() failed. None of these operations has an onStaleError. The command *)
(* may have failed after its commit, when it read the row's version.       *)
Failed(w) ==
  LET kind == wishes[w].kind
  IN  /\ OperationFails(w)
      /\ row' = CASE ~ IsLatestCoalesced(w) -> row
                  [] IsLatestCoalesced(w) /\ kind \in Flags -> MarkerFailed(w)
                  [] IsLatestCoalesced(w) /\ kind = textStyle -> TextStyleFailed
                  [] kind = NoKey -> UnreviewFailed(w)
      /\ \/ UNCHANGED <<stored, landed>>
         \/ /\ Cardinality(landed) < MaxLanded
            /\ stored' = Written(w) /\ landed' = landed \cup {w}
      /\ UNCHANGED <<wishes, click>>

QueueGoesOn(w) ==
  /\ BeginOperation(w) \/ SkipCancelled(w) \/ SettleOperation(w) \/ OtherWrite(w)
  /\ UNCHANGED <<row, stored, wishes, click, landed>>

RowDone ==
  /\ AllDone
  /\ UNCHANGED rowVars

RowNext ==
  \/ \E flag \in Flags : ToggleMarker(flag)
  \/ \E st \in {"queued", "running"} :
       \/ RequestMarker(st)
       \/ RequestUnreviewAll(st)
       \/ \E style \in Styles : RequestTextStyle(style, st)
  \/ \E w \in DOMAIN writes : Saved(w) \/ Failed(w) \/ QueueGoesOn(w)
  \/ NextWrite \in WriteIds /\ QueueGoesOn(NextWrite)
  \/ RowDone

RowSpec == RowInit /\ [][RowNext]_rowVars
-----------------------------------------------------------------------------
(* Properties.                                                             *)

Active(w) == operations[w].status \in {"queued", "running"}
Quiet == click = NoClick /\ \A w \in DOMAIN operations : ~ Active(w)

(* The newest style in the file was written by a command that failed after *)
(* its commit, so that the row has not been told of it.                    *)
StyleUntold ==
  \E w \in landed :
    /\ wishes[w].kind = textStyle
    /\ \A v \in DOMAIN wishes :
         wishes[v].kind = textStyle /\ operations[v].status = "succeeded" => v < w

(* The style selector shows the style wished for last while it is being     *)
(* saved, and otherwise the style in the row's file, however many changes   *)
(* overlapped, in whatever way they failed or were superseded. Excused is   *)
(* the style of a command that failed after its commit, until a later one   *)
(* is saved.                                                                *)
StyleShowsTheWish ==
  LET w == latest[textStyle]
  IN  IF w # NoOperation /\ Active(w) THEN row.textStyle = wishes[w].next
      ELSE StyleUntold \/ row.textStyle = stored.textStyle

(* The markers in the row's file are those of the newest operations that    *)
(* were carried out, with an answer or without: a toggle made after         *)
(* "unreview all" lands after it, one made before it does not undo it.      *)
FileHasNewestMarkers ==
  \A flag \in Flags :
    LET saved == {w \in DOMAIN wishes :
                    /\ operations[w].status = "succeeded" \/ w \in landed
                    /\ \/ wishes[w].kind = flag
                       \/ wishes[w].kind = NoKey /\ flag = reviewed}
    IN  \A w \in saved :
          (\A v \in saved : v <= w) =>
            stored.fieldStates[flag] =
              (wishes[w].kind = flag /\ wishes[w].next[flag])

(* When everything has settled and the last thing done was a toggle that    *)
(* was saved, the row shows and remembers what its file contains.           *)
SavedMarkersAreShown ==
  Quiet => \A w \in MarkerOrBatch :
    /\ \A v \in MarkerOrBatch : v <= w
    /\ wishes[w].kind \in Flags
    /\ operations[w].status = "succeeded"
    => /\ row.fieldStates = stored.fieldStates
       /\ row.persistedFieldStates = stored.fieldStates
=============================================================================
