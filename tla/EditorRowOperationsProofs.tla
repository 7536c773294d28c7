---------------------- MODULE EditorRowOperationsProofs ----------------------
(***************************************************************************)
(* The quick actions of a row, for every number of writes and any styles:  *)
(* they use the operation queue as its specification allows, the style     *)
(* shown is the one wished for or the one saved, and the file and the row  *)
(* agree with the newest operations carried out.                           *)
(***************************************************************************)
EXTENDS EditorRowOperations, EditorOperationQueueProofs

Stored == [fieldStates : FieldStates, textStyle : Styles]
Wish == MarkerWish \cup StyleWish \cup BatchWish

RowTypeOK ==
  /\ row \in Row /\ stored \in Stored
  /\ click = NoClick \/ click \in MarkerWish

(* Each operation has the value that fits its key, and writes to the row's *)
(* repository.                                                             *)
WishesInv ==
  /\ DOMAIN wishes = DOMAIN operations
  /\ \A w \in DOMAIN operations :
       /\ wishes[w] \in Wish
       /\ wishes[w].kind = operations[w].key
       /\ writes[w].scope = Repo

(* What comes before an operation that was begun has ended.                *)
Begun(v) == operations[v].status \in {"running", "succeeded", "failed"}

OrderInv ==
  \A v, w \in DOMAIN operations : v < w /\ Begun(w) => ~ Active(v)

(* What landed with an error was begun before all that is left to do.      *)
LandedInv ==
  /\ landed \subseteq DOMAIN operations
  /\ \A v \in landed, w \in DOMAIN operations : Active(w) => v < w

StyleInv ==
  /\ StyleShowsTheWish
  /\ StyleUntold \/ row.persistedTextStyle = stored.textStyle

(* The row shows and remembers what a toggle has saved until a marker is   *)
(* toggled, or reviewed turned off everywhere, again.                      *)
ShownInv ==
  \A w \in MarkerOrBatch :
    /\ \A v \in MarkerOrBatch : v <= w
    /\ wishes[w].kind \in Flags
    /\ operations[w].status = "succeeded"
    => /\ row.fieldStates = stored.fieldStates
       /\ row.persistedFieldStates = stored.fieldStates

(* Which operations have written a marker to the file, and what it says    *)
(* then: FileHasNewestMarkers in a form the steps can be matched with.     *)
Carried(w, flag) ==
  /\ w \in DOMAIN wishes /\ (operations[w].status = "succeeded" \/ w \in landed)
  /\ wishes[w].kind = flag \/ (wishes[w].kind = NoKey /\ flag = reviewed)

FileInv ==
  \A flag \in Flags : \A w \in DOMAIN wishes :
    Carried(w, flag) /\ (\A v \in DOMAIN wishes : Carried(v, flag) => v <= w)
      => stored.fieldStates[flag] = (wishes[w].kind = flag /\ wishes[w].next[flag])

RowInv ==
  RowTypeOK /\ WishesInv /\ OrderInv /\ LandedInv /\ StyleInv /\ FileInv /\ ShownInv
-----------------------------------------------------------------------------
(* The keys of a row are told apart; an operation's value has its kind.    *)
LEMMA KeysDiffer ==
  /\ reviewed \in Flags /\ pleaseCheck \in Flags /\ reviewed # pleaseCheck
  /\ textStyle \notin Flags /\ Idle \notin Flags
  /\ NoKey \notin Flags /\ NoKey # textStyle
  /\ Flags \subseteq CoalesceKeys /\ textStyle \in CoalesceKeys
  /\ CoalesceKeys = Flags \cup {textStyle}
  /\ Repo \in WriteScopes
  /\ \A k \in CoalesceKeys : ScopeOf[k] = Repo
<1>1. reviewed \in Flags /\ pleaseCheck \in Flags
  BY DEF Flags
<1> QED
  BY <1>1, RowAssumption, KeyAssumption

LEMMA WishKinds ==
  ASSUME NEW wish \in Wish
  PROVE  /\ wish.kind \in Flags => wish \in MarkerWish
         /\ wish.kind = textStyle => wish \in StyleWish
         /\ wish.kind = NoKey => wish \in BatchWish
         /\ wish.kind \in Flags \cup {textStyle, NoKey}
BY KeysDiffer DEF Wish, MarkerWish, StyleWish, BatchWish

(* The row's actions are steps of the operation queue: the operations are  *)
(* requested in the repository of their keys, and only those there are     *)
(* taken further.                                                          *)
LEMMA RequestIsQueueStep ==
  ASSUME NEW key \in CoalesceKeys \cup {NoKey}, NEW wish,
         NEW st \in {"queued", "running"}, Request(key, wish, st)
  PROVE  Next
<1>1. NextWrite \in WriteIds /\ RequestOperation(NextWrite, Repo, key, st)
  BY DEF Request
<1>2. Repo \in WriteScopes /\ (key # NoKey => Repo = ScopeOf[key])
  BY KeysDiffer
<1> QED
  BY <1>1, <1>2 DEF Next

LEMMA GoesOnIsQueueStep ==
  ASSUME QueueInv, NEW w, w \in DOMAIN writes \/ (w = NextWrite /\ NextWrite \in WriteIds),
         QueueGoesOn(w)
  PROVE  Next
<1>1. DOMAIN operations \subseteq DOMAIN writes
  BY DEF QueueInv, TypeOK
<1>2. CASE w \in DOMAIN writes
  BY <1>2 DEF QueueGoesOn, Next, WritesGoOn, OperationStep
<1>3. CASE w \in DOMAIN operations
  BY <1>1, <1>2, <1>3
<1>4. CASE w \notin DOMAIN operations /\ w = NextWrite /\ NextWrite \in WriteIds
  BY <1>4 DEF QueueGoesOn, Next, BeginOperation, SkipCancelled, SettleOperation
<1> QED
  BY <1>2, <1>3, <1>4

LEMMA RowStepIsQueueStep ==
  ASSUME QueueInv, RowTypeOK, [RowNext]_rowVars
  PROVE  [Next]_queueVars
<1>1. ASSUME NEW flag \in Flags, ToggleMarker(flag)
      PROVE  UNCHANGED queueVars
  BY <1>1 DEF ToggleMarker
<1>2. ASSUME NEW st \in {"queued", "running"}, RequestMarker(st)
      PROVE  Next
  <2>1. click.kind \in CoalesceKeys /\ Request(click.kind, click, st)
    BY <1>2, KeysDiffer DEF RequestMarker, RowTypeOK, MarkerWish
  <2> QED
    BY <2>1, RequestIsQueueStep
<1>3. ASSUME NEW st \in {"queued", "running"}, RequestUnreviewAll(st)
      PROVE  Next
  BY <1>3, RequestIsQueueStep DEF RequestUnreviewAll
<1>4. ASSUME NEW st \in {"queued", "running"}, NEW style \in Styles,
             RequestTextStyle(style, st)
      PROVE  Next
  BY <1>4, KeysDiffer, RequestIsQueueStep DEF RequestTextStyle
<1>5. ASSUME NEW w \in DOMAIN writes, Saved(w) \/ Failed(w)
      PROVE  Next
  BY <1>5 DEF Saved, Failed, Next, WritesGoOn, OperationStep
<1>6. ASSUME NEW w, w \in DOMAIN writes \/ (w = NextWrite /\ NextWrite \in WriteIds),
             QueueGoesOn(w)
      PROVE  Next
  BY <1>6, GoesOnIsQueueStep
<1>7. CASE RowDone
  BY <1>7 DEF RowDone, rowVars
<1>8. CASE UNCHANGED rowVars
  BY <1>8 DEF rowVars
<1> QED
  BY <1>1, <1>2, <1>3, <1>4, <1>5, <1>6, <1>7, <1>8 DEF RowNext
-----------------------------------------------------------------------------
(* What a request, and what the end of an operation, leaves of the queue.  *)
RequestEffect(w, key) ==
  /\ w \in Nat /\ w # NoOperation /\ w \notin DOMAIN operations
  /\ \A v \in DOMAIN operations : v < w
  /\ DOMAIN operations' = DOMAIN operations \cup {w}
  /\ operations'[w].key = key /\ Active(w)'
  /\ writes'[w].scope = Repo
  /\ \A v \in DOMAIN operations :
       /\ operations'[v].key = operations[v].key
       /\ writes'[v].scope = writes[v].scope
       /\ operations'[v].status = "succeeded" <=> operations[v].status = "succeeded"
       /\ Active(v)' => Active(v)
       /\ Begun(v)' => Begun(v)
       /\ operations[v].key # key => operations'[v] = operations[v]
  /\ \A k \in CoalesceKeys : latest'[k] = IF k = key THEN w ELSE latest[k]

GoesOnEffect ==
  /\ latest' = latest
  /\ DOMAIN operations' = DOMAIN operations
  /\ \A v \in DOMAIN operations :
       /\ operations'[v].key = operations[v].key
       /\ writes'[v].scope = writes[v].scope
       /\ operations'[v].status = "succeeded" <=> operations[v].status = "succeeded"
       /\ Active(v)' <=> Active(v)
       /\ Begun(v)' => Begun(v) \/ Starts(v)

EndEffect(w, st) ==
  /\ latest' = latest
  /\ w \in DOMAIN operations /\ operations[w].status = "running"
  /\ DOMAIN operations' = DOMAIN operations
  /\ operations'[w].status = st
  /\ operations'[w].key = operations[w].key
  /\ \A v \in DOMAIN operations :
       /\ v # w => operations'[v] = operations[v]
       /\ writes'[v].scope = writes[v].scope

LEMMA RequestEffects ==
  ASSUME QueueInv, WishesInv, NEW w \in WriteIds,
         NEW key \in CoalesceKeys \cup {NoKey},
         NEW st \in {"queued", "running"}, RequestOperation(w, Repo, key, st)
  PROVE  RequestEffect(w, key)
<1>1. TypeOK /\ OneRunning /\ LocalWrite \in Ranks /\ Repo \in WriteScopes
  BY KeysDiffer DEF QueueInv, LocalWrite, Ranks
<1>2. PICK r \in Ranks, s \in WriteScopes : s = Repo /\ SubmitWrite(w, s, r, st)
  BY <1>1 DEF RequestOperation
<1>3. writes'[w] = [scope |-> s, rank |-> r, status |-> st]
  BY <1>1, <1>2, SubmitMoves
<1>4. /\ \A v \in DOMAIN writes : v < w
      /\ w \notin DOMAIN writes
      /\ \A v \in DOMAIN writes : writes'[v] = writes[v]
  BY <1>1, <1>2, SubmitMoves
<1>5. DOMAIN operations \subseteq DOMAIN writes
  BY <1>1 DEF TypeOK
<1>6. w \notin DOMAIN operations /\ \A v \in DOMAIN operations : v < w
  BY <1>4, <1>5
<1>7. operations' = Added(Superseded(key, w), w,
                          [key |-> key, status |-> st, supersededBy |-> NoOperation])
  BY DEF RequestOperation
<1>8. DOMAIN Superseded(key, w) = DOMAIN operations
  BY DEF Superseded
<1>9. /\ DOMAIN operations' = DOMAIN operations \cup {w}
      /\ operations'[w] = [key |-> key, status |-> st, supersededBy |-> NoOperation]
      /\ \A v \in DOMAIN operations : operations'[v] = Superseded(key, w)[v]
  BY <1>6, <1>7, <1>8 DEF Added
<1>10. ASSUME NEW v \in DOMAIN operations
       PROVE  /\ operations'[v].key = operations[v].key
              /\ operations'[v].status = "succeeded" <=> operations[v].status = "succeeded"
              /\ Active(v)' => Active(v)
              /\ Begun(v)' => Begun(v)
              /\ operations[v].key # key => operations'[v] = operations[v]
  <2>1. operations[v] \in Operation
    BY <1>1 DEF TypeOK
  <2>2. CASE /\ key # NoKey /\ v = latest[key]
             /\ operations[v].status \in {"queued", "running"}
    <3>1. operations'[v] = [operations[v] EXCEPT !.supersededBy = w,
                  !.status = IF @ = "queued" THEN "cancelled" ELSE @]
      BY <1>9, <2>2 DEF Superseded
    <3>2. operations[v].key = key
      <4>1. latest[key] \in WriteIds
        BY <1>5, <2>2, <1>1 DEF TypeOK, WriterTypeOK
      <4> QED
        BY <2>2, <4>1, IdsAreNumbers DEF QueueInv, LatestInv
    <3> QED
      BY <2>1, <2>2, <3>1, <3>2 DEF Operation, Active, Begun
  <2>3. CASE ~ /\ key # NoKey /\ v = latest[key]
               /\ operations[v].status \in {"queued", "running"}
    <3>1. operations'[v] = operations[v]
      BY <1>9, <2>3 DEF Superseded
    <3> QED
      BY <3>1 DEF Active, Begun
  <2> QED
    BY <2>2, <2>3
<1>11. \A k \in CoalesceKeys : latest'[k] = IF k = key THEN w ELSE latest[k]
  BY <1>1, KeyAssumption DEF RequestOperation, TypeOK
<1>12. operations'[w].key = key /\ Active(w)' /\ writes'[w].scope = Repo
  BY <1>2, <1>3, <1>9 DEF Active
<1>13. w \in Nat /\ w # NoOperation
  BY IdsAreNumbers
<1>14. \A v \in DOMAIN operations : writes'[v].scope = writes[v].scope
  BY <1>4, <1>5
<1> QED
  BY <1>6, <1>9, <1>10, <1>11, <1>12, <1>13, <1>14 DEF RequestEffect

LEMMA EndEffects ==
  ASSUME QueueInv, NEW w,
         NEW st \in {"succeeded", "failed", "cancelled"},
         w \in DOMAIN operations, operations[w].status = "running",
         UNCHANGED writes, SetStatus(w, st)
  PROVE  EndEffect(w, st)
<1>1. /\ TypeOK /\ WriterTypeOK' /\ DOMAIN writes' = DOMAIN writes
  BY DEF QueueInv, TypeOK, WriterTypeOK
<1>2. /\ latest' = latest
      /\ DOMAIN operations' = DOMAIN operations
      /\ operations'[w].status = st
      /\ operations'[w].key = operations[w].key
      /\ \A v \in DOMAIN operations : v # w => operations'[v] = operations[v]
  BY <1>1, StatusMoves
<1> QED
  BY <1>2 DEF EndEffect

LEMMA GoesOnEffects ==
  ASSUME QueueInv, NEW w \in WriteIds, QueueGoesOn(w)
  PROVE  GoesOnEffect
<1>1. TypeOK /\ OneRunning /\ DOMAIN operations \subseteq DOMAIN writes
  BY DEF QueueInv, TypeOK
<1>2. CASE BeginOperation(w)
  <2>1. w \in DOMAIN operations /\ BeginWrite(w) /\ SetStatus(w, "running")
    BY <1>2 DEF BeginOperation
  <2>2. /\ WriterTypeOK' /\ DOMAIN writes' = DOMAIN writes
        /\ writes[w].status = "queued"
        /\ writes'[w].scope = writes[w].scope
        /\ \A v \in DOMAIN writes : v # w => writes'[v] = writes[v]
    BY <1>1, <2>1, BeginMoves
  <2>3. operations[w].status = "queued"
    BY <1>2, <2>1, <2>2 DEF QueueInv, StatusInv, BeginOperation
  <2>4. /\ latest' = latest
        /\ DOMAIN operations' = DOMAIN operations
        /\ operations'[w].status = "running"
        /\ operations'[w].key = operations[w].key
        /\ \A v \in DOMAIN operations : v # w => operations'[v] = operations[v]
    BY <1>1, <2>1, <2>2, StatusMoves
  <2>5. Starts(w)
    BY <2>1, <2>3, <2>4 DEF Starts
  <2> QED
    BY <1>1, <2>2, <2>3, <2>4, <2>5 DEF GoesOnEffect, Active, Begun
<1>3. CASE SkipCancelled(w) \/ SettleOperation(w)
  <2>1. /\ w \in DOMAIN operations /\ (BeginWrite(w) \/ SettleWrite(w))
        /\ UNCHANGED <<operations, latest, waiting>>
    BY <1>3 DEF SkipCancelled, SettleOperation
  <2>2. \A v \in DOMAIN writes : v # w => writes'[v] = writes[v]
    BY <1>1, <2>1, BeginMoves, SettleMoves
  <2>3. writes'[w].scope = writes[w].scope
    BY <1>1, <2>1 DEF BeginWrite, SettleWrite, TypeOK, WriterTypeOK, Write
  <2> QED
    BY <1>1, <2>1, <2>2, <2>3 DEF GoesOnEffect, Active, Begun
<1>4. CASE OtherWrite(w)
  <2>1. UNCHANGED <<operations, latest, waiting>>
    BY <1>4 DEF OtherWrite
  <2>2. \A v \in DOMAIN operations : writes'[v] = writes[v]
    <3>1. ASSUME NEW s \in WriteScopes, NEW k \in OtherRanks,
                 NEW st \in {"queued", "running"}, SubmitWrite(w, s, k, st)
          PROVE  \A v \in DOMAIN writes : writes'[v] = writes[v]
      <4>1. k \in Ranks
        BY KeyAssumption DEF Ranks
      <4> QED
        BY <1>1, <3>1, <4>1, SubmitMoves
    <3>2. ASSUME w \notin DOMAIN operations, BeginWrite(w) \/ SettleWrite(w)
          PROVE  \A v \in DOMAIN operations : writes'[v] = writes[v]
      <4>1. \A v \in DOMAIN writes : v # w => writes'[v] = writes[v]
        BY <1>1, <3>2, BeginMoves, SettleMoves
      <4> QED
        BY <1>1, <3>2, <4>1
    <3> QED
      BY <1>1, <1>4, <3>1, <3>2 DEF OtherWrite
  <2> QED
    BY <2>1, <2>2 DEF GoesOnEffect, Active, Begun
<1> QED
  BY <1>2, <1>3, <1>4 DEF QueueGoesOn
-----------------------------------------------------------------------------
(* What the actions do to the row and to its file.                         *)
LEMMA WrittenMarker ==
  ASSUME stored \in Stored, NEW w, wishes[w] \in MarkerWish
  PROVE  /\ Written(w) \in Stored
         /\ Written(w).textStyle = stored.textStyle
         /\ Written(w).fieldStates[wishes[w].kind] = wishes[w].next[wishes[w].kind]
         /\ \A f \in Flags : f # wishes[w].kind =>
              Written(w).fieldStates[f] = stored.fieldStates[f]
<1>1. wishes[w].kind \in Flags /\ wishes[w].next \in FieldStates
  BY DEF MarkerWish
<1>2. Written(w) = [stored EXCEPT !.fieldStates[wishes[w].kind] =
                                    wishes[w].next[wishes[w].kind]]
  BY <1>1 DEF Written
<1>3. wishes[w].next[wishes[w].kind] \in BOOLEAN
  BY <1>1 DEF FieldStates
<1> QED
  BY <1>1, <1>2, <1>3 DEF Stored, FieldStates

LEMMA WrittenStyle ==
  ASSUME stored \in Stored, NEW w, wishes[w] \in StyleWish
  PROVE  /\ Written(w) \in Stored
         /\ Written(w).textStyle = wishes[w].next
         /\ Written(w).fieldStates = stored.fieldStates
<1>1. wishes[w].kind = textStyle /\ wishes[w].next \in Styles
  BY DEF StyleWish
<1> QED
  BY <1>1, KeysDiffer DEF Written, Stored

LEMMA WrittenBatch ==
  ASSUME stored \in Stored, NEW w, wishes[w] \in BatchWish
  PROVE  /\ Written(w) \in Stored
         /\ Written(w).textStyle = stored.textStyle
         /\ Written(w).fieldStates[reviewed] = FALSE
         /\ \A f \in Flags : f # reviewed =>
              Written(w).fieldStates[f] = stored.fieldStates[f]
<1>1. wishes[w].kind = NoKey
  BY DEF BatchWish
<1>2. Written(w) = [stored EXCEPT !.fieldStates[reviewed] = FALSE]
  BY <1>1, KeysDiffer DEF Written
<1> QED
  BY <1>2, KeysDiffer DEF Stored, FieldStates

(* A step that leaves the style of the row and its file alone.             *)
StyleUntouched ==
  /\ row'.textStyle = row.textStyle
  /\ row'.persistedTextStyle = row.persistedTextStyle
  /\ stored'.textStyle = stored.textStyle

(* A step that leaves the markers of the row and its file alone.           *)
MarkersUntouched ==
  /\ row'.fieldStates = row.fieldStates
  /\ row'.persistedFieldStates = row.persistedFieldStates
  /\ stored'.fieldStates = stored.fieldStates

LEMMA RequestMarkerShape ==
  ASSUME RowTypeOK, NEW st \in {"queued", "running"}, RequestMarker(st)
  PROVE  RowTypeOK' /\ StyleUntouched /\ click \in MarkerWish
<1>1. click \in MarkerWish
  BY DEF RowTypeOK, RequestMarker
<1>2. /\ stored' = stored /\ click' = NoClick
      /\ row' = [row EXCEPT !.fieldStates = click.next, !.markerSaveState = click.kind]
  BY DEF RequestMarker, Request
<1>3. /\ row' \in Row
      /\ row'.textStyle = row.textStyle
      /\ row'.persistedTextStyle = row.persistedTextStyle
  BY <1>1, <1>2 DEF RowTypeOK, Row, MarkerWish
<1> QED
  BY <1>1, <1>2, <1>3 DEF RowTypeOK, StyleUntouched

LEMMA ToggleShape ==
  ASSUME RowTypeOK, NEW flag \in Flags, ToggleMarker(flag)
  PROVE  RowTypeOK' /\ UNCHANGED <<queueVars, row, stored, wishes, landed>>
<1>1. row.fieldStates \in FieldStates
  BY DEF RowTypeOK, Row
<1>2. [row.fieldStates EXCEPT ![flag] = ~ @] \in FieldStates
  BY <1>1 DEF FieldStates
<1> QED
  BY <1>1, <1>2 DEF ToggleMarker, RowTypeOK, MarkerWish

LEMMA RequestStyleShape ==
  ASSUME RowTypeOK, NEW style \in Styles, NEW st \in {"queued", "running"},
         RequestTextStyle(style, st)
  PROVE  /\ RowTypeOK' /\ MarkersUntouched
         /\ stored' = stored
         /\ row'.textStyle = style
         /\ row'.persistedTextStyle = row.persistedTextStyle
         /\ [kind |-> textStyle, next |-> style] \in StyleWish
BY DEF RequestTextStyle, Request, RowTypeOK, Row, MarkersUntouched, StyleWish

LEMMA RequestUnreviewShape ==
  ASSUME RowTypeOK, NEW st \in {"queued", "running"}, RequestUnreviewAll(st)
  PROVE  /\ RowTypeOK' /\ StyleUntouched
         /\ stored' = stored
         /\ [kind |-> NoKey, turnedOff |-> row.fieldStates[reviewed]] \in BatchWish
<1>1. row' = [row EXCEPT !.fieldStates[reviewed] = FALSE] /\ stored' = stored /\ click' = click
  BY DEF RequestUnreviewAll, Request
<1>2. row.fieldStates \in FieldStates /\ row.fieldStates[reviewed] \in BOOLEAN
  BY KeysDiffer DEF RowTypeOK, Row, FieldStates
<1>3. [row.fieldStates EXCEPT ![reviewed] = FALSE] \in FieldStates
  BY <1>2 DEF FieldStates
<1> QED
  BY <1>1, <1>2, <1>3 DEF RowTypeOK, Row, StyleUntouched, BatchWish

SavedEffect(w) ==
  /\ EndEffect(w, "succeeded")
  /\ wishes' = wishes /\ click' = click /\ landed' = landed
  /\ stored' = Written(w) /\ RowTypeOK'

LEMMA SavedShapes ==
  ASSUME QueueInv, RowTypeOK, WishesInv, NEW w, Saved(w)
  PROVE  /\ SavedEffect(w)
         /\ wishes[w] \in MarkerWish =>
              /\ StyleUntouched
              /\ IsLatestCoalesced(w) =>
                   /\ row'.fieldStates = stored'.fieldStates
                   /\ row'.persistedFieldStates = stored'.fieldStates
         /\ wishes[w] \in StyleWish =>
              /\ MarkersUntouched
              /\ row'.persistedTextStyle = stored'.textStyle
              /\ row'.textStyle = IF IsLatestCoalesced(w) THEN stored'.textStyle
                                  ELSE row.textStyle
         /\ wishes[w] \in BatchWish => StyleUntouched
<1>1. /\ w \in DOMAIN operations /\ operations[w].status = "running"
      /\ UNCHANGED writes /\ SetStatus(w, "succeeded")
      /\ stored' = Written(w) /\ wishes' = wishes /\ click' = click
      /\ landed' = landed
  BY DEF Saved, OperationSucceeds
<1>2. EndEffect(w, "succeeded")
  BY <1>1, EndEffects
<1>3. stored \in Stored /\ row \in Row /\ wishes[w] \in Wish
  BY <1>1 DEF RowTypeOK, WishesInv
<1>4. CASE wishes[w] \in MarkerWish
  <2>1. wishes[w].kind \in Flags
    BY <1>4 DEF MarkerWish
  <2>2. /\ Written(w) \in Stored
        /\ Written(w).textStyle = stored.textStyle
    BY <1>3, <1>4, WrittenMarker
  <2>3. row' = IF IsLatestCoalesced(w) THEN MarkerSaved(Written(w)) ELSE row
    BY <2>1, KeysDiffer DEF Saved
  <2>4. wishes[w] \notin StyleWish /\ wishes[w] \notin BatchWish
    BY <2>1, KeysDiffer DEF StyleWish, BatchWish
  <2>5. CASE IsLatestCoalesced(w)
    <3>1. row' = [row EXCEPT !.fieldStates = stored'.fieldStates,
                             !.persistedFieldStates = stored'.fieldStates,
                             !.markerSaveState = Idle]
      BY <1>1, <2>3, <2>5 DEF MarkerSaved
    <3>2. stored' \in Stored /\ stored'.fieldStates \in FieldStates
      BY <1>1, <2>2 DEF Stored
    <3>3. /\ row' \in Row
          /\ row'.fieldStates = stored'.fieldStates
          /\ row'.persistedFieldStates = stored'.fieldStates
          /\ row'.textStyle = row.textStyle
          /\ row'.persistedTextStyle = row.persistedTextStyle
      BY <1>3, <3>1, <3>2 DEF Row
    <3> QED
      BY <1>1, <1>2, <2>2, <2>4, <3>2, <3>3 DEF SavedEffect, StyleUntouched, RowTypeOK
  <2>6. CASE ~ IsLatestCoalesced(w)
    BY <1>1, <1>2, <1>3, <2>2, <2>3, <2>4, <2>6 DEF SavedEffect, StyleUntouched, RowTypeOK
  <2> QED
    BY <2>5, <2>6
<1>5. CASE wishes[w] \in StyleWish
  <2>1. wishes[w].kind = textStyle
    BY <1>5 DEF StyleWish
  <2>2. /\ Written(w) \in Stored
        /\ Written(w).fieldStates = stored.fieldStates
    BY <1>3, <1>5, WrittenStyle
  <2>3. row' = TextStyleSaved(Written(w), ~ IsLatestCoalesced(w))
    BY <2>1, KeysDiffer DEF Saved
  <2>4. wishes[w] \notin MarkerWish /\ wishes[w] \notin BatchWish
    BY <2>1, KeysDiffer DEF MarkerWish, BatchWish
  <2>5. stored' \in Stored /\ stored'.textStyle \in Styles
    BY <1>1, <2>2 DEF Stored
  <2>6. row' = [row EXCEPT !.persistedTextStyle = stored'.textStyle,
                  !.textStyle = IF ~ IsLatestCoalesced(w) THEN row.textStyle
                                ELSE stored'.textStyle,
                  !.textStyleSaving = IF ~ IsLatestCoalesced(w)
                                      THEN row.textStyleSaving ELSE FALSE]
    BY <1>1, <1>3, <2>3 DEF TextStyleSaved, Row
  <2>7. /\ row' \in Row
        /\ row'.persistedTextStyle = stored'.textStyle
        /\ row'.textStyle = IF IsLatestCoalesced(w) THEN stored'.textStyle
                            ELSE row.textStyle
        /\ row'.fieldStates = row.fieldStates
        /\ row'.persistedFieldStates = row.persistedFieldStates
    BY <1>3, <2>5, <2>6 DEF Row
  <2> QED
    BY <1>1, <1>2, <2>2, <2>4, <2>5, <2>7 DEF SavedEffect, MarkersUntouched, RowTypeOK
<1>6. CASE wishes[w] \in BatchWish
  <2>1. wishes[w].kind = NoKey
    BY <1>6 DEF BatchWish
  <2>2. /\ Written(w) \in Stored
        /\ Written(w).textStyle = stored.textStyle
    BY <1>3, <1>6, WrittenBatch
  <2>3. row' = Unreviewed
    BY <2>1, KeysDiffer DEF Saved
  <2>4. wishes[w] \notin MarkerWish /\ wishes[w] \notin StyleWish
    BY <2>1, KeysDiffer DEF MarkerWish, StyleWish
  <2>5. /\ row' \in Row
        /\ row'.textStyle = row.textStyle
        /\ row'.persistedTextStyle = row.persistedTextStyle
    BY <1>3, <2>3, KeysDiffer DEF Unreviewed, HasLaterReviewedToggle, Row, FieldStates
  <2> QED
    BY <1>1, <1>2, <2>2, <2>4, <2>5 DEF SavedEffect, StyleUntouched, RowTypeOK
<1> QED
  BY <1>3, <1>4, <1>5, <1>6 DEF Wish

(* A failure leaves the file as it was, or with the change.                *)
Lands(w) ==
  \/ stored' = stored /\ landed' = landed
  \/ stored' = Written(w) /\ landed' = landed \cup {w}

FailedEffect(w) ==
  /\ \E st \in {"failed", "cancelled"} : EndEffect(w, st)
  /\ wishes' = wishes /\ click' = click
  /\ Lands(w) /\ RowTypeOK'
  /\ row'.persistedTextStyle = row.persistedTextStyle

LEMMA FailedShapes ==
  ASSUME QueueInv, RowTypeOK, WishesInv, NEW w, Failed(w)
  PROVE  /\ FailedEffect(w)
         /\ wishes[w] \notin StyleWish => StyleUntouched
         /\ wishes[w] \in StyleWish =>
              /\ MarkersUntouched
              /\ row'.textStyle = IF IsLatestCoalesced(w) THEN row.persistedTextStyle
                                  ELSE row.textStyle
<1>1. /\ w \in DOMAIN operations /\ operations[w].status = "running"
      /\ UNCHANGED writes
      /\ Lands(w) /\ wishes' = wishes /\ click' = click
  BY DEF Failed, OperationFails, Lands
<1>2. \E st \in {"failed", "cancelled"} : EndEffect(w, st)
  <2>1. PICK st \in {"failed", "cancelled"} : SetStatus(w, st)
    BY DEF Failed, OperationFails
  <2>2. EndEffect(w, st)
    BY <1>1, <2>1, EndEffects
  <2> QED
    BY <2>2
<1>3. stored \in Stored /\ row \in Row /\ wishes[w] \in Wish
  BY <1>1 DEF RowTypeOK, WishesInv
<1>4. /\ stored' \in Stored
      /\ wishes[w] \notin StyleWish => stored'.textStyle = stored.textStyle
      /\ wishes[w] \in StyleWish => stored'.fieldStates = stored.fieldStates
  BY <1>1, <1>3, WrittenMarker, WrittenStyle, WrittenBatch DEF Lands, Wish
<1>5. CASE row' = row
  <2>1. wishes[w] \in StyleWish /\ IsLatestCoalesced(w)
          => row'.textStyle = row.persistedTextStyle
    <3> SUFFICES ASSUME wishes[w] \in StyleWish, IsLatestCoalesced(w)
                 PROVE  row'.textStyle = row.persistedTextStyle
      OBVIOUS
    <3>1. wishes[w].kind = textStyle
      BY DEF StyleWish
    <3>2. row' = TextStyleFailed
      BY <3>1, KeysDiffer DEF Failed
    <3> QED
      BY <1>3, <3>2 DEF TextStyleFailed, Row
  <2> QED
    BY <1>1, <1>2, <1>3, <1>5, <1>4, <2>1
       DEF FailedEffect, StyleUntouched, MarkersUntouched, RowTypeOK
<1>6. CASE row' # row /\ wishes[w] \in MarkerWish
  <2>1. wishes[w].kind \in Flags /\ wishes[w].previous \in FieldStates
    BY <1>6 DEF MarkerWish
  <2>2. row' = MarkerFailed(w)
    BY <1>6, <2>1, KeysDiffer DEF Failed
  <2>3. wishes[w] \notin StyleWish
    BY <2>1, KeysDiffer DEF StyleWish
  <2>4. /\ row' \in Row
        /\ row'.textStyle = row.textStyle
        /\ row'.persistedTextStyle = row.persistedTextStyle
    BY <1>3, <2>1, <2>2 DEF MarkerFailed, Row
  <2> QED
    BY <1>1, <1>2, <1>3, <1>4, <2>3, <2>4 DEF FailedEffect, StyleUntouched, RowTypeOK
<1>7. CASE row' # row /\ wishes[w] \in StyleWish
  <2>1. wishes[w].kind = textStyle
    BY <1>7 DEF StyleWish
  <2>2. row' = TextStyleFailed /\ IsLatestCoalesced(w)
    BY <1>7, <2>1, KeysDiffer DEF Failed
  <2>3. /\ row' \in Row
        /\ row'.textStyle = row.persistedTextStyle
        /\ row'.persistedTextStyle = row.persistedTextStyle
        /\ row'.fieldStates = row.fieldStates
        /\ row'.persistedFieldStates = row.persistedFieldStates
    BY <1>3, <2>2 DEF TextStyleFailed, Row
  <2> QED
    BY <1>1, <1>2, <1>3, <1>7, <1>4, <2>2, <2>3 DEF FailedEffect, MarkersUntouched, RowTypeOK
<1>8. CASE row' # row /\ wishes[w] \in BatchWish
  <2>1. wishes[w].kind = NoKey
    BY <1>8 DEF BatchWish
  <2>2. row' = UnreviewFailed(w)
    <3>1. operations[w].key = NoKey
      BY <1>1, <2>1 DEF WishesInv
    <3>2. IsLatestCoalesced(w)
      BY <3>1 DEF IsLatestCoalesced
    <3> QED
      BY <2>1, <3>2, KeysDiffer DEF Failed
  <2>3. wishes[w] \notin StyleWish
    BY <2>1, KeysDiffer DEF StyleWish
  <2>4. /\ row' \in Row
        /\ row'.textStyle = row.textStyle
        /\ row'.persistedTextStyle = row.persistedTextStyle
    BY <1>3, <2>2, KeysDiffer DEF UnreviewFailed, Row, FieldStates
  <2> QED
    BY <1>1, <1>2, <1>3, <1>4, <2>3, <2>4 DEF FailedEffect, StyleUntouched, RowTypeOK
<1> QED
  BY <1>3, <1>5, <1>6, <1>7, <1>8 DEF Wish
-----------------------------------------------------------------------------
LEMMA FileInvIsProperty == FileInv <=> FileHasNewestMarkers
BY DEF FileInv, FileHasNewestMarkers, Carried

LEMMA NumbersOfOperations ==
  ASSUME QueueInv
  PROVE  DOMAIN operations \subseteq Nat /\ NoOperation \notin DOMAIN operations
BY IdsAreNumbers DEF QueueInv, TypeOK, WriterTypeOK

LEMMA LatestOf ==
  ASSUME QueueInv, NEW k \in CoalesceKeys
  PROVE  /\ latest[k] \in Nat
         /\ latest[k] # NoOperation =>
              latest[k] \in DOMAIN operations /\ operations[latest[k]].key = k
BY NumbersOfOperations DEF QueueInv, TypeOK, LatestInv, NoOperation

(* A request.                                                              *)
LEMMA RequestWishes ==
  ASSUME QueueInv, RowInv, NEW key \in CoalesceKeys \cup {NoKey},
         NEW wish \in Wish, wish.kind = key, NEW n, n = NextWrite,
         NEW st \in {"queued", "running"}, Request(key, wish, st)
  PROVE  /\ RequestEffect(n, key)
         /\ DOMAIN wishes' = DOMAIN wishes \cup {n}
         /\ wishes'[n] = wish
         /\ \A v \in DOMAIN wishes : wishes'[v] = wishes[v]
         /\ stored' = stored /\ landed' = landed
         /\ WishesInv' /\ LandedInv'
         /\ StyleUntold' <=> StyleUntold
<1>1. /\ n \in WriteIds /\ RequestOperation(n, Repo, key, st)
      /\ wishes' = Added(wishes, n, wish)
      /\ stored' = stored /\ landed' = landed
  BY DEF Request
<1>2. RequestEffect(n, key)
  BY <1>1, RequestEffects DEF RowInv
<1>3. DOMAIN wishes = DOMAIN operations
  BY DEF RowInv, WishesInv
<1>4. /\ DOMAIN wishes' = DOMAIN wishes \cup {n}
      /\ wishes'[n] = wish
      /\ \A v \in DOMAIN wishes : v # n => wishes'[v] = wishes[v]
  BY <1>1 DEF Added
<1>5. n \notin DOMAIN operations /\ DOMAIN operations' = DOMAIN operations \cup {n}
  BY <1>2 DEF RequestEffect
<1>6. \A v \in DOMAIN wishes : wishes'[v] = wishes[v]
  BY <1>3, <1>4, <1>5
<1>7. WishesInv'
  BY <1>2, <1>3, <1>4, <1>5, <1>6 DEF RequestEffect, RowInv, WishesInv, Wish
<1>8. LandedInv'
  BY <1>1, <1>2 DEF RequestEffect, RowInv, LandedInv
<1>9. operations'[n].status # "succeeded"
  BY <1>2 DEF RequestEffect, Active
<1>10. \A v \in DOMAIN wishes :
         wishes'[v] = wishes[v]
           /\ (operations'[v].status = "succeeded" <=> operations[v].status = "succeeded")
  BY <1>2, <1>3, <1>6 DEF RequestEffect
<1>11. landed \subseteq DOMAIN wishes
  BY <1>3 DEF RowInv, LandedInv
<1>12. StyleUntold' <=> StyleUntold
  BY <1>1, <1>4, <1>9, <1>10, <1>11 DEF StyleUntold
<1> QED
  BY <1>1, <1>2, <1>4, <1>6, <1>7, <1>8, <1>12

LEMMA RequestOrders ==
  ASSUME QueueInv, OrderInv, NEW n, NEW key, RequestEffect(n, key),
         QueueInv', WishesInv', [Next]_queueVars
  PROVE  OrderInv'
<1> SUFFICES ASSUME NEW v \in DOMAIN operations', NEW w \in DOMAIN operations',
                    v < w, Begun(w)', Active(v)'
             PROVE  FALSE
  BY DEF OrderInv, Begun
<1>1. DOMAIN operations' = DOMAIN operations \cup {n}
  BY DEF RequestEffect
<1>2. CASE w \in DOMAIN operations /\ v \in DOMAIN operations
  <2>1. Begun(w) /\ Active(v)
    BY <1>2 DEF RequestEffect
  <2> QED
    BY <1>2, <2>1 DEF OrderInv, Begun
<1>3. CASE w = n
  <2>1. Starts(n)
    BY <1>3 DEF RequestEffect, Starts, Active, Begun
  <2>2. writes'[v].scope = writes'[w].scope
    BY DEF WishesInv
  <2>3. n \in WriteIds
    BY <1>1 DEF QueueInv, TypeOK, WriterTypeOK
  <2> QED
    BY <1>3, <2>1, <2>2, <2>3, StartsInOrder DEF Active
<1>4. CASE w \in DOMAIN operations /\ v = n
  <2>1. w < n /\ w \in Nat /\ n \in Nat
    BY <1>4, NumbersOfOperations DEF RequestEffect
  <2> QED
    BY <1>4, <2>1
<1> QED
  BY <1>1, <1>2, <1>3, <1>4

LEMMA RequestFile ==
  ASSUME QueueInv, RowInv, NEW n, NEW key, RequestEffect(n, key),
         DOMAIN wishes' = DOMAIN wishes \cup {n},
         \A v \in DOMAIN wishes : wishes'[v] = wishes[v],
         stored' = stored, landed' = landed
  PROVE  FileInv'
<1>1. DOMAIN wishes = DOMAIN operations
  BY DEF RowInv, WishesInv
<1>2. \A flag \in Flags, v \in DOMAIN wishes' :
        Carried(v, flag)' <=> v \in DOMAIN wishes /\ Carried(v, flag)
  BY <1>1 DEF Carried, RequestEffect, Active, RowInv, LandedInv
<1> SUFFICES ASSUME NEW flag \in Flags, NEW w \in DOMAIN wishes',
                    Carried(w, flag)',
                    \A v \in DOMAIN wishes' : Carried(v, flag)' => v <= w
             PROVE  stored'.fieldStates[flag]
                      = (wishes'[w].kind = flag /\ wishes'[w].next[flag])
  BY DEF FileInv
<1>3. w \in DOMAIN wishes /\ Carried(w, flag) /\ wishes'[w] = wishes[w]
  BY <1>2
<1>4. \A v \in DOMAIN wishes : Carried(v, flag) => v <= w
  BY <1>2
<1> QED
  BY <1>3, <1>4 DEF RowInv, FileInv

LEMMA RequestStyle ==
  ASSUME QueueInv, RowInv, NEW n, NEW key, RequestEffect(n, key), key # textStyle,
         \A v \in DOMAIN wishes : wishes'[v] = wishes[v],
         StyleUntouched, StyleUntold' <=> StyleUntold
  PROVE  StyleInv'
<1> DEFINE w == latest[textStyle]
<1>1. latest'[textStyle] = w
  BY KeysDiffer DEF RequestEffect
<1>2. w # NoOperation => w \in DOMAIN operations /\ operations[w].key = textStyle
  BY LatestOf, KeysDiffer
<1>3. w # NoOperation => w \in DOMAIN wishes /\ operations'[w] = operations[w]
  BY <1>2 DEF RequestEffect, RowInv, WishesInv
<1>4. w # NoOperation => (Active(w)' <=> Active(w)) /\ wishes'[w] = wishes[w]
  BY <1>1, <1>3 DEF Active
<1> QED
  BY <1>1, <1>4 DEF RowInv, StyleInv, StyleShowsTheWish, StyleUntouched, w

LEMMA RequestShown ==
  ASSUME QueueInv, RowInv, NEW n, NEW key, RequestEffect(n, key),
         DOMAIN wishes' = DOMAIN wishes \cup {n},
         \A v \in DOMAIN wishes : wishes'[v] = wishes[v],
         wishes'[n].kind = key,
         key # textStyle \/ MarkersUntouched
  PROVE  ShownInv'
<1>1. DOMAIN wishes = DOMAIN operations
  BY DEF RowInv, WishesInv
<1> SUFFICES ASSUME NEW w \in MarkerOrBatch',
                    \A v \in MarkerOrBatch' : v <= w,
                    wishes'[w].kind \in Flags, operations'[w].status = "succeeded"
             PROVE  /\ row'.fieldStates = stored'.fieldStates
                    /\ row'.persistedFieldStates = stored'.fieldStates
  BY DEF ShownInv
<1>2. w # n /\ w \in DOMAIN wishes
  BY DEF MarkerOrBatch, RequestEffect, Active
<1>3. w \in MarkerOrBatch /\ operations[w].status = "succeeded" /\ wishes'[w] = wishes[w]
  BY <1>1, <1>2 DEF MarkerOrBatch, RequestEffect
<1>4. n \notin MarkerOrBatch'
  <2>1. w < n /\ w \in Nat /\ n \in Nat
    BY <1>1, <1>2, NumbersOfOperations DEF RequestEffect
  <2> QED
    BY <2>1
<1>5. key = textStyle
  BY <1>4 DEF MarkerOrBatch
<1>6. \A v \in MarkerOrBatch : v <= w
  BY DEF MarkerOrBatch
<1>7. row.fieldStates = stored.fieldStates /\ row.persistedFieldStates = stored.fieldStates
  BY <1>3, <1>6 DEF RowInv, ShownInv
<1> QED
  BY <1>5, <1>7 DEF MarkersUntouched

LEMMA ToggleKeeps ==
  ASSUME QueueInv, RowInv, RowTypeOK', UNCHANGED <<queueVars, row, stored, wishes, landed>>
  PROVE  RowInv'
<1>1. WishesInv' /\ OrderInv' /\ LandedInv'
  BY DEF queueVars, RowInv, WishesInv, OrderInv, LandedInv, Begun, Active
<1>2. StyleInv'
  BY DEF queueVars, RowInv, StyleInv, StyleShowsTheWish, StyleUntold, Active
<1>3. FileInv'
  BY DEF queueVars, RowInv, FileInv, Carried
<1>4. ShownInv'
  BY DEF queueVars, RowInv, ShownInv, MarkerOrBatch
<1> QED
  BY <1>1, <1>2, <1>3, <1>4 DEF RowInv

LEMMA MarkerRequestKeeps ==
  ASSUME QueueInv, RowInv, [Next]_queueVars, NEW st \in {"queued", "running"},
         RequestMarker(st)
  PROVE  RowInv'
<1>1. RowTypeOK' /\ StyleUntouched /\ click \in MarkerWish /\ Request(click.kind, click, st)
  BY RequestMarkerShape DEF RowInv, RequestMarker
<1>2. PICK key \in CoalesceKeys \cup {NoKey}, wish \in Wish :
        /\ key = click.kind /\ wish = click /\ key \in Flags
        /\ Request(key, wish, st)
  BY <1>1, KeysDiffer DEF MarkerWish, Wish
<1> PICK n : n = NextWrite
  OBVIOUS
<1>3. /\ RequestEffect(n, key)
      /\ DOMAIN wishes' = DOMAIN wishes \cup {n}
      /\ wishes'[n] = wish
      /\ \A v \in DOMAIN wishes : wishes'[v] = wishes[v]
      /\ stored' = stored /\ landed' = landed /\ WishesInv' /\ LandedInv'
      /\ StyleUntold' <=> StyleUntold
  BY <1>2, RequestWishes
<1>4. QueueInv'
  BY NextKeeps
<1>5. OrderInv'
  BY <1>3, <1>4, RequestOrders DEF RowInv
<1>6. FileInv' /\ StyleInv' /\ ShownInv'
  BY <1>1, <1>2, <1>3, KeysDiffer, RequestFile, RequestStyle, RequestShown
<1> QED
  BY <1>1, <1>3, <1>5, <1>6 DEF RowInv

LEMMA UnreviewRequestKeeps ==
  ASSUME QueueInv, RowInv, [Next]_queueVars, NEW st \in {"queued", "running"},
         RequestUnreviewAll(st)
  PROVE  RowInv'
<1>1. PICK wish \in Wish :
        /\ RowTypeOK' /\ StyleUntouched /\ wish.kind = NoKey
        /\ Request(NoKey, wish, st)
  <2>1. [kind |-> NoKey, turnedOff |-> row.fieldStates[reviewed]] \in BatchWish
    BY RequestUnreviewShape DEF RowInv
  <2> QED
    BY <2>1, RequestUnreviewShape DEF RowInv, RequestUnreviewAll, Wish
<1> PICK n : n = NextWrite
  OBVIOUS
<1>3. /\ RequestEffect(n, NoKey)
      /\ DOMAIN wishes' = DOMAIN wishes \cup {n}
      /\ wishes'[n] = wish
      /\ \A v \in DOMAIN wishes : wishes'[v] = wishes[v]
      /\ stored' = stored /\ landed' = landed /\ WishesInv' /\ LandedInv'
      /\ StyleUntold' <=> StyleUntold
  BY <1>1, RequestWishes
<1>4. QueueInv'
  BY NextKeeps
<1>5. OrderInv'
  BY <1>3, <1>4, RequestOrders DEF RowInv
<1>6. FileInv' /\ StyleInv' /\ ShownInv'
  BY <1>1, <1>3, KeysDiffer, RequestFile, RequestStyle, RequestShown
<1> QED
  BY <1>1, <1>3, <1>5, <1>6 DEF RowInv

LEMMA StyleRequestKeeps ==
  ASSUME QueueInv, RowInv, [Next]_queueVars, NEW style \in Styles,
         NEW st \in {"queued", "running"}, RequestTextStyle(style, st)
  PROVE  RowInv'
<1>1. PICK wish \in Wish :
        /\ RowTypeOK' /\ MarkersUntouched
        /\ wish = [kind |-> textStyle, next |-> style]
        /\ row'.textStyle = style
        /\ row'.persistedTextStyle = row.persistedTextStyle
        /\ Request(textStyle, wish, st)
  BY RequestStyleShape DEF RowInv, RequestTextStyle, Wish
<1>2. textStyle \in CoalesceKeys \cup {NoKey} /\ wish.kind = textStyle
  BY <1>1, KeysDiffer
<1> PICK n : n = NextWrite
  OBVIOUS
<1>3. /\ RequestEffect(n, textStyle)
      /\ DOMAIN wishes' = DOMAIN wishes \cup {n}
      /\ wishes'[n] = wish
      /\ \A v \in DOMAIN wishes : wishes'[v] = wishes[v]
      /\ stored' = stored /\ landed' = landed /\ WishesInv' /\ LandedInv'
      /\ StyleUntold' <=> StyleUntold
  BY <1>1, <1>2, RequestWishes
<1>4. QueueInv'
  BY NextKeeps
<1>5. OrderInv'
  BY <1>3, <1>4, RequestOrders DEF RowInv
<1>6. FileInv' /\ ShownInv'
  BY <1>1, <1>2, <1>3, RequestFile, RequestShown
<1>7. StyleInv'
  <2>1. /\ latest'[textStyle] = n /\ n # NoOperation
        /\ Active(n)'
    BY <1>3, KeysDiffer DEF RequestEffect
  <2>2. wishes'[n].next = style
    BY <1>1, <1>3
  <2> QED
    BY <1>1, <1>3, <2>1, <2>2 DEF StyleInv, StyleShowsTheWish, RowInv
<1> QED
  BY <1>1, <1>3, <1>5, <1>6, <1>7 DEF RowInv

(* The queue goes on.                                                      *)
LEMMA GoesOnKeeps ==
  ASSUME QueueInv, RowInv, [Next]_queueVars, NEW w \in WriteIds, QueueGoesOn(w)
  PROVE  RowInv'
<1>1. GoesOnEffect /\ UNCHANGED <<row, stored, wishes, click, landed>>
  BY GoesOnEffects DEF QueueGoesOn
<1>2. RowTypeOK'
  BY <1>1 DEF RowInv, RowTypeOK
<1>3. WishesInv'
  BY <1>1 DEF RowInv, WishesInv, GoesOnEffect
<1>4. QueueInv'
  BY NextKeeps
<1>5. OrderInv'
  <2> SUFFICES ASSUME NEW v \in DOMAIN operations', NEW u \in DOMAIN operations',
                      v < u, Begun(u)', Active(v)'
               PROVE  FALSE
    BY DEF OrderInv, Begun
  <2>1. u \in DOMAIN operations /\ v \in DOMAIN operations /\ Active(v)
    BY <1>1 DEF GoesOnEffect
  <2>2. CASE Begun(u)
    BY <2>1, <2>2 DEF RowInv, OrderInv, Begun
  <2>3. CASE Starts(u)
    <3>1. u \in WriteIds
      BY <1>4 DEF QueueInv, TypeOK, WriterTypeOK
    <3>2. writes'[v].scope = writes'[u].scope
      BY <1>3 DEF WishesInv
    <3> QED
      BY <2>3, <3>1, <3>2, StartsInOrder DEF Active
  <2> QED
    BY <1>1, <2>1, <2>2, <2>3 DEF GoesOnEffect
<1>6. StyleUntold' <=> StyleUntold
  BY <1>1 DEF GoesOnEffect, RowInv, WishesInv, StyleUntold
<1>7. LandedInv'
  BY <1>1 DEF GoesOnEffect, RowInv, LandedInv
<1>8. StyleInv'
  <2>1. latest[textStyle] # NoOperation => latest[textStyle] \in DOMAIN operations
    BY LatestOf, KeysDiffer
  <2>2. latest[textStyle] # NoOperation =>
          (Active(latest[textStyle])' <=> Active(latest[textStyle]))
    BY <1>1, <2>1 DEF GoesOnEffect, Active
  <2> QED
    BY <1>1, <2>2, <1>6 DEF RowInv, StyleInv, StyleShowsTheWish, GoesOnEffect
<1>9. FileInv'
  BY <1>1 DEF RowInv, FileInv, Carried, GoesOnEffect, WishesInv
<1>10. ShownInv'
  BY <1>1 DEF RowInv, ShownInv, MarkerOrBatch, GoesOnEffect, WishesInv
<1> QED
  BY <1>2, <1>3, <1>5, <1>8, <1>9, <1>10, <1>7 DEF RowInv

(* The end of an operation.                                                *)
LEMMA EndCommon ==
  ASSUME QueueInv, RowInv, NEW w, NEW st \in {"succeeded", "failed", "cancelled"},
         EndEffect(w, st), wishes' = wishes, landed' \in {landed, landed \cup {w}}
  PROVE  WishesInv' /\ OrderInv' /\ LandedInv'
<1>1. WishesInv'
  BY DEF RowInv, WishesInv, EndEffect
<1>2. \A v \in DOMAIN operations :
        /\ Begun(v)' => Begun(v)
        /\ Active(v)' => Active(v) /\ v # w
  BY DEF EndEffect, Begun, Active
<1>3. OrderInv'
  BY <1>2 DEF RowInv, OrderInv, EndEffect, Begun
<1>4. \A v \in DOMAIN operations : Active(v) /\ v # w => w < v
  <2>1. w \in DOMAIN operations /\ Begun(w)
    BY DEF EndEffect, Begun
  <2> QED
    BY <2>1, NumbersOfOperations DEF RowInv, OrderInv
<1>5. LandedInv'
  BY <1>2, <1>4 DEF RowInv, LandedInv, EndEffect
<1> QED
  BY <1>1, <1>3, <1>5

(* Only the end of a style change has to do with what the row is told.     *)
LEMMA EndedUntold ==
  ASSUME RowInv, NEW w, NEW st \in {"succeeded", "failed", "cancelled"},
         EndEffect(w, st), wishes' = wishes, landed' \in {landed, landed \cup {w}},
         wishes[w].kind # textStyle \/ (landed' = landed /\ st # "succeeded")
  PROVE  StyleUntold' <=> StyleUntold
<1>1. \A v \in DOMAIN wishes :
        wishes[v].kind = textStyle =>
          (operations'[v].status = "succeeded" <=> operations[v].status = "succeeded")
  BY DEF EndEffect, RowInv, WishesInv
<1> QED
  BY <1>1 DEF StyleUntold

(* While an operation runs, no later one has been begun.                   *)
LEMMA RunningIsNewest ==
  ASSUME QueueInv, OrderInv, NEW w \in DOMAIN operations,
         operations[w].status = "running",
         NEW v \in DOMAIN operations, v # w, Begun(v)
  PROVE  v < w
<1>1. v \in Nat /\ w \in Nat
  BY NumbersOfOperations
<1>2. ~ w < v
  BY DEF OrderInv, Active, Begun
<1> QED
  BY <1>1, <1>2

(* The latest operation of a key is not given up.                          *)
LEMMA LatestIsKept ==
  ASSUME QueueInv, NEW k \in CoalesceKeys, latest[k] # NoOperation
  PROVE  operations[latest[k]].status # "cancelled"
<1> DEFINE w == latest[k]
<1>1. w \in DOMAIN operations /\ operations[w].key = k /\ k # NoKey
  BY LatestOf, KeyAssumption
<1>2. SUFFICES ASSUME operations[w].status = "cancelled" PROVE FALSE
  OBVIOUS
<1> DEFINE v == operations[w].supersededBy
<1>3. v \in DOMAIN operations /\ v > w /\ operations[v].key = k
  BY <1>1, <1>2 DEF QueueInv, SupersededInv
<1>4. w >= v
  BY <1>1, <1>3 DEF QueueInv, LatestInv
<1>5. v \in Nat /\ w \in Nat
  BY <1>1, <1>3, NumbersOfOperations
<1> QED
  BY <1>3, <1>4, <1>5

(* An operation that is stale ends before the newest of its key does.      *)
LEMMA StaleStyle ==
  ASSUME QueueInv, RowInv, NEW w \in DOMAIN operations,
         operations[w].status = "running", operations[w].key = textStyle,
         ~ IsLatestCoalesced(w)
  PROVE  /\ latest[textStyle] # NoOperation /\ latest[textStyle] # w
         /\ Active(latest[textStyle])
<1>1. latest[textStyle] # w
  BY DEF IsLatestCoalesced
<1>2. w \in Nat /\ w # NoOperation /\ latest[textStyle] \in Nat
  BY NumbersOfOperations, LatestOf, KeysDiffer
<1>3. latest[textStyle] >= w
  BY KeysDiffer DEF QueueInv, LatestInv
<1>4. latest[textStyle] # NoOperation
  BY <1>2, <1>3 DEF NoOperation
<1>5. latest[textStyle] \in DOMAIN operations
  BY <1>4, LatestOf, KeysDiffer
<1>6. operations[latest[textStyle]].status # "cancelled"
  BY <1>4, LatestIsKept, KeysDiffer
<1>7. ~ Begun(latest[textStyle])
  BY <1>1, <1>2, <1>3, <1>5, RunningIsNewest DEF RowInv
<1>8. operations[latest[textStyle]] \in Operation
  BY <1>5 DEF QueueInv, TypeOK
<1> QED
  BY <1>1, <1>4, <1>6, <1>7, <1>8 DEF Begun, Active, Operation

LEMMA EndedStyle ==
  ASSUME QueueInv, RowInv, NEW w, NEW st \in {"succeeded", "failed", "cancelled"},
         EndEffect(w, st), wishes' = wishes,
         StyleUntold' \/ row'.persistedTextStyle = stored'.textStyle,
         IF operations[w].key = textStyle /\ IsLatestCoalesced(w)
         THEN StyleUntold' \/ row'.textStyle = stored'.textStyle
         ELSE row'.textStyle = row.textStyle,
         operations[w].key # textStyle =>
           stored'.textStyle = stored.textStyle /\ (StyleUntold' <=> StyleUntold)
  PROVE  StyleInv'
<1>1. /\ w \in DOMAIN operations /\ operations[w].status = "running"
      /\ latest' = latest /\ operations'[w].status = st
      /\ \A v \in DOMAIN operations : v # w => operations'[v] = operations[v]
  BY DEF EndEffect
<1> DEFINE l == latest[textStyle]
<1>2. l # NoOperation => l \in DOMAIN operations /\ operations[l].key = textStyle
  BY LatestOf, KeysDiffer
<1>3. latest'[textStyle] = l /\ l' = l
  BY <1>1
<1>4. l # NoOperation /\ l # w => (Active(l)' <=> Active(l))
  BY <1>1, <1>2, <1>3 DEF Active
<1>5. l = w => ~ Active(l)'
  BY <1>1, <1>3 DEF Active
<1>6. CASE operations[w].key = textStyle /\ IsLatestCoalesced(w)
  <2>1. l = w
    BY <1>6, KeysDiffer DEF IsLatestCoalesced
  <2> QED
    BY <1>3, <1>5, <1>6, <2>1 DEF StyleInv, StyleShowsTheWish
<1>7. CASE operations[w].key = textStyle /\ ~ IsLatestCoalesced(w)
  <2>1. l # NoOperation /\ l # w /\ Active(l)
    BY <1>1, <1>7, StaleStyle
  <2> QED
    BY <1>3, <1>4, <1>7, <2>1 DEF RowInv, StyleInv, StyleShowsTheWish
<1>8. CASE operations[w].key # textStyle
  <2>1. l # NoOperation => l # w
    BY <1>2, <1>8
  <2> QED
    BY <1>3, <1>4, <1>8, <2>1 DEF RowInv, StyleInv, StyleShowsTheWish
<1> QED
  BY <1>6, <1>7, <1>8

LEMMA WrittenFile ==
  ASSUME QueueInv, RowInv, NEW w, NEW st \in {"succeeded", "failed", "cancelled"},
         EndEffect(w, st), wishes' = wishes, stored' = Written(w),
         \/ st = "succeeded" /\ landed' = landed
         \/ landed' = landed \cup {w}
  PROVE  FileInv'
<1>1. /\ w \in DOMAIN operations /\ operations[w].status = "running"
      /\ operations'[w].status = "succeeded" \/ w \in landed'
      /\ \A v \in DOMAIN operations : v # w => operations'[v] = operations[v]
      /\ \A v : v # w => (v \in landed' <=> v \in landed)
  BY DEF EndEffect
<1>2. DOMAIN wishes = DOMAIN operations /\ stored \in Stored /\ wishes[w] \in Wish
  BY <1>1 DEF RowInv, WishesInv, RowTypeOK
<1>3. \A flag \in Flags, v \in DOMAIN wishes :
        v # w => (Carried(v, flag)' <=> Carried(v, flag))
  BY <1>1, <1>2 DEF Carried
<1>4. \A flag \in Flags, v \in DOMAIN wishes :
        v # w /\ Carried(v, flag) => v < w
  <2>1. \A flag \in Flags, v \in DOMAIN wishes :
          Carried(v, flag) => Begun(v) \/ v \in landed
    BY DEF Carried, Begun
  <2>2. \A v \in landed : v < w
    BY <1>1 DEF RowInv, LandedInv, Active
  <2> QED
    BY <1>1, <1>2, <2>1, <2>2, RunningIsNewest DEF RowInv
<1>5. DOMAIN operations \subseteq Nat
  BY NumbersOfOperations
<1> SUFFICES ASSUME NEW flag \in Flags, NEW u \in DOMAIN wishes,
                    Carried(u, flag)',
                    \A v \in DOMAIN wishes : Carried(v, flag)' => v <= u
             PROVE  stored'.fieldStates[flag]
                      = (wishes[u].kind = flag /\ wishes[u].next[flag])
  BY <1>1 DEF FileInv
<1> DEFINE touches == wishes[w].kind = flag \/ (wishes[w].kind = NoKey /\ flag = reviewed)
<1>6. CASE touches
  <2>1. Carried(w, flag)'
    BY <1>1, <1>2, <1>6 DEF Carried
  <2>2. w <= u
    BY <1>1, <1>2, <2>1
  <2>3. u = w
    <3>1. u \in Nat /\ w \in Nat
      BY <1>1, <1>2, <1>5
    <3> QED
      BY <1>3, <1>4, <2>2, <3>1
  <2>4. CASE wishes[w].kind = flag
    <3>1. wishes[w] \in MarkerWish /\ wishes[w].next[flag] \in BOOLEAN
      BY <1>2, <2>4, WishKinds DEF MarkerWish, FieldStates
    <3>2. Written(w).fieldStates[wishes[w].kind] = wishes[w].next[wishes[w].kind]
      BY <1>2, <3>1, WrittenMarker
    <3> QED
      BY <1>1, <2>3, <2>4, <3>1, <3>2
  <2>5. CASE wishes[w].kind = NoKey /\ flag = reviewed
    <3>1. Written(w).fieldStates[reviewed] = FALSE
      BY <1>2, <2>5, WishKinds, WrittenBatch
    <3> QED
      BY <1>1, <2>3, <2>5, <3>1, KeysDiffer
  <2> QED
    BY <1>6, <2>4, <2>5
<1>7. CASE ~ touches
  <2>1. u # w /\ Carried(u, flag)
    BY <1>1, <1>3, <1>7 DEF Carried
  <2>2. \A v \in DOMAIN wishes : Carried(v, flag) => v <= u
    BY <1>1, <1>2, <1>3, <1>7 DEF Carried
  <2>3. stored.fieldStates[flag] = (wishes[u].kind = flag /\ wishes[u].next[flag])
    BY <2>1, <2>2 DEF RowInv, FileInv
  <2>4. Written(w).fieldStates[flag] = stored.fieldStates[flag]
    <3>1. wishes[w] \in MarkerWish => wishes[w].kind \in Flags
      BY DEF MarkerWish
    <3>2. wishes[w] \in BatchWish => flag # reviewed
      BY <1>7 DEF BatchWish
    <3>3. CASE wishes[w] \in MarkerWish
      BY <1>2, <1>7, <3>3, WrittenMarker
    <3>4. CASE wishes[w] \in StyleWish
      BY <1>2, <3>4, WrittenStyle
    <3>5. CASE wishes[w] \in BatchWish
      BY <1>2, <3>2, <3>5, WrittenBatch
    <3> QED
      BY <1>2, <3>3, <3>4, <3>5 DEF Wish
  <2> QED
    BY <1>1, <2>3, <2>4
<1> QED
  BY <1>6, <1>7

(* What is shown when an operation ends, seen from the newest toggle or    *)
(* batch: when that one was saved earlier, only a style can be ending.     *)
LEMMA EndedShown ==
  ASSUME QueueInv, RowInv, NEW w, NEW st \in {"succeeded", "failed", "cancelled"},
         EndEffect(w, st), wishes' = wishes,
         wishes[w] \in StyleWish => MarkersUntouched,
         /\ wishes[w] \in MarkerWish /\ st = "succeeded" /\ IsLatestCoalesced(w)
         => /\ row'.fieldStates = stored'.fieldStates
            /\ row'.persistedFieldStates = stored'.fieldStates
  PROVE  ShownInv'
<1>1. /\ w \in DOMAIN operations /\ operations[w].status = "running"
      /\ operations'[w].status = st
      /\ \A v \in DOMAIN operations : v # w => operations'[v] = operations[v]
  BY DEF EndEffect
<1>2. DOMAIN wishes = DOMAIN operations /\ wishes[w] \in Wish
  BY <1>1 DEF RowInv, WishesInv
<1>3. DOMAIN operations \subseteq Nat
  BY NumbersOfOperations
<1>4. MarkerOrBatch' = MarkerOrBatch
  BY DEF MarkerOrBatch
<1> SUFFICES ASSUME NEW u \in MarkerOrBatch,
                    \A v \in MarkerOrBatch : v <= u,
                    wishes[u].kind \in Flags, operations'[u].status = "succeeded"
             PROVE  /\ row'.fieldStates = stored'.fieldStates
                    /\ row'.persistedFieldStates = stored'.fieldStates
  BY <1>4 DEF ShownInv
<1>5. u \in DOMAIN operations /\ u \in Nat
  BY <1>2, <1>3 DEF MarkerOrBatch
<1>6. CASE u = w
  <2>1. wishes[w] \in MarkerWish /\ st = "succeeded"
    BY <1>1, <1>2, <1>6, WishKinds
  <2>2. IsLatestCoalesced(w)
    <3> SUFFICES ASSUME ~ IsLatestCoalesced(w) PROVE FALSE
      OBVIOUS
    <3> DEFINE k == operations[w].key
               l == latest[k]
    <3>1. k \in Flags /\ k \in CoalesceKeys /\ k = wishes[w].kind
      BY <1>1, <1>6, KeysDiffer DEF RowInv, WishesInv
    <3>2. l # w
      BY DEF IsLatestCoalesced
    <3>3. l >= w
      BY <1>1, <3>1, KeysDiffer DEF QueueInv, LatestInv
    <3>4. l \in Nat /\ w \in Nat /\ w # NoOperation
      BY <1>1, <3>1, LatestOf, NumbersOfOperations
    <3>5. l # NoOperation
      BY <3>3, <3>4 DEF NoOperation
    <3>6. l \in DOMAIN operations /\ operations[l].key = k
      BY <3>1, <3>5, LatestOf
    <3>7. wishes[l].kind = k
      BY <3>6 DEF RowInv, WishesInv
    <3>8. l \in MarkerOrBatch
      BY <1>2, <3>1, <3>6, <3>7, KeysDiffer DEF MarkerOrBatch
    <3> QED
      BY <1>6, <3>2, <3>3, <3>4, <3>8
  <2> QED
    BY <2>1, <2>2
<1>7. CASE u # w
  <2>1. operations[u].status = "succeeded" /\ Begun(u)
    BY <1>1, <1>5, <1>7 DEF Begun
  <2>2. u < w /\ w \in Nat
    BY <1>1, <1>3, <1>5, <1>7, <2>1, RunningIsNewest DEF RowInv
  <2>3. w \notin MarkerOrBatch
    BY <1>5, <2>2
  <2>4. wishes[w] \in StyleWish
    BY <1>1, <1>2, <2>3, WishKinds DEF MarkerOrBatch
  <2>5. row.fieldStates = stored.fieldStates /\ row.persistedFieldStates = stored.fieldStates
    BY <2>1 DEF RowInv, ShownInv
  <2> QED
    BY <2>4, <2>5 DEF MarkersUntouched
<1> QED
  BY <1>6, <1>7

LEMMA SavedKeeps ==
  ASSUME QueueInv, RowInv, NEW w, Saved(w)
  PROVE  RowInv'
<1>1. RowTypeOK /\ WishesInv
  BY DEF RowInv
<1>2. SavedEffect(w)
  BY <1>1, SavedShapes
<1>3. /\ EndEffect(w, "succeeded") /\ wishes' = wishes /\ stored' = Written(w)
      /\ RowTypeOK' /\ landed' = landed
  BY <1>2 DEF SavedEffect
<1>4. /\ w \in DOMAIN operations /\ wishes[w] \in Wish
      /\ wishes[w].kind = operations[w].key
  BY <1>1, <1>3 DEF EndEffect, WishesInv
<1>5. operations[w].key = textStyle <=> wishes[w] \in StyleWish
  BY <1>4, WishKinds, KeysDiffer DEF StyleWish
<1>6. WishesInv' /\ OrderInv' /\ LandedInv'
  BY <1>3, EndCommon
<1>7. FileInv'
  BY <1>3, WrittenFile
<1>8. StyleInv'
  <2>1. CASE wishes[w] \in StyleWish
    <3>1. /\ row'.persistedTextStyle = stored'.textStyle
          /\ row'.textStyle = IF IsLatestCoalesced(w) THEN stored'.textStyle
                              ELSE row.textStyle
      BY <1>1, <2>1, SavedShapes
    <3> QED
      BY <1>3, <1>5, <2>1, <3>1, EndedStyle
  <2>2. CASE wishes[w] \notin StyleWish
    <3>1. StyleUntouched
      BY <1>1, <1>4, <2>2, SavedShapes DEF Wish
    <3>2. StyleUntold' <=> StyleUntold
      BY <1>3, <1>4, <1>5, <2>2, EndedUntold
    <3> QED
      BY <1>3, <1>5, <2>2, <3>1, <3>2, EndedStyle DEF StyleUntouched, RowInv, StyleInv
  <2> QED
    BY <2>1, <2>2
<1>9. ShownInv'
  BY <1>1, <1>3, SavedShapes, EndedShown
<1> QED
  BY <1>3, <1>6, <1>7, <1>8, <1>9 DEF RowInv

LEMMA FailedKeeps ==
  ASSUME QueueInv, RowInv, NEW w, Failed(w)
  PROVE  RowInv'
<1>1. RowTypeOK /\ WishesInv
  BY DEF RowInv
<1>2. FailedEffect(w)
  BY <1>1, FailedShapes
<1>3. PICK st \in {"failed", "cancelled"} : EndEffect(w, st)
  BY <1>2 DEF FailedEffect
<1>4. /\ wishes' = wishes /\ RowTypeOK' /\ Lands(w)
      /\ row'.persistedTextStyle = row.persistedTextStyle
  BY <1>2 DEF FailedEffect
<1>5. /\ w \in DOMAIN operations /\ wishes[w] \in Wish
      /\ wishes[w].kind = operations[w].key
      /\ operations[w].status = "running"
      /\ \A v \in DOMAIN operations : v # w => operations'[v] = operations[v]
      /\ operations'[w].status = st
  BY <1>1, <1>3 DEF EndEffect, WishesInv
<1>6. operations[w].key = textStyle <=> wishes[w] \in StyleWish
  BY <1>5, WishKinds, KeysDiffer DEF StyleWish
<1>7. WishesInv' /\ OrderInv' /\ LandedInv'
  BY <1>3, <1>4, EndCommon DEF Lands
<1>8. FileInv'
  <2>1. CASE stored' = stored /\ landed' = landed
    <3>1. \A flag \in Flags, v \in DOMAIN wishes : Carried(v, flag)' <=> Carried(v, flag)
      BY <1>1, <1>3, <1>4, <2>1 DEF Carried, EndEffect, WishesInv
    <3> QED
      BY <1>4, <2>1, <3>1 DEF RowInv, FileInv
  <2>2. CASE stored' = Written(w) /\ landed' = landed \cup {w}
    BY <1>3, <1>4, <2>2, WrittenFile
  <2> QED
    BY <1>4, <2>1, <2>2 DEF Lands
<1>9. StyleUntold \/ row.persistedTextStyle = stored.textStyle
  BY DEF RowInv, StyleInv
<1>10. StyleInv'
  <2>1. CASE wishes[w] \in StyleWish
    <3>1. row'.textStyle = IF IsLatestCoalesced(w) THEN row.persistedTextStyle
                           ELSE row.textStyle
      BY <1>1, <2>1, FailedShapes
    <3>2. CASE stored' = stored /\ landed' = landed
      <4>1. StyleUntold' <=> StyleUntold
        BY <1>3, <1>4, <3>2, EndedUntold
      <4> QED
        BY <1>3, <1>4, <1>6, <1>9, <2>1, <3>1, <3>2, <4>1, EndedStyle
    <3>3. CASE landed' = landed \cup {w}
      <4>1. \A v \in DOMAIN wishes : operations'[v].status = "succeeded" => v < w
        BY <1>1, <1>5, RunningIsNewest DEF RowInv, WishesInv, Begun
      <4>2. wishes[w].kind = textStyle
        BY <2>1 DEF StyleWish
      <4>3. StyleUntold'
        BY <1>4, <3>3, <4>1, <4>2 DEF StyleUntold
      <4> QED
        BY <1>3, <1>4, <1>6, <2>1, <3>1, <4>3, EndedStyle
    <3> QED
      BY <1>4, <3>2, <3>3 DEF Lands
  <2>2. CASE wishes[w] \notin StyleWish
    <3>1. StyleUntouched
      BY <1>1, <2>2, FailedShapes
    <3>2. StyleUntold' <=> StyleUntold
      BY <1>3, <1>4, <1>5, <1>6, <2>2, EndedUntold DEF Lands
    <3> QED
      BY <1>3, <1>4, <1>6, <1>9, <2>2, <3>1, <3>2, EndedStyle DEF StyleUntouched
  <2> QED
    BY <2>1, <2>2
<1>11. ShownInv'
  BY <1>1, <1>3, <1>4, FailedShapes, EndedShown
<1> QED
  BY <1>4, <1>7, <1>8, <1>10, <1>11 DEF RowInv
-----------------------------------------------------------------------------
LEMMA RowInitInv == RowInit => QueueInv /\ RowInv
<1> SUFFICES ASSUME RowInit PROVE QueueInv /\ RowInv
  OBVIOUS
<1>1. QueueInv
  BY InitInv DEF RowInit
<1>2. /\ operations = <<>> /\ wishes = <<>> /\ click = NoClick /\ landed = {}
      /\ latest = [k \in CoalesceKeys |-> NoOperation]
      /\ stored \in Stored
      /\ row = [fieldStates |-> stored.fieldStates,
                persistedFieldStates |-> stored.fieldStates,
                markerSaveState |-> Idle,
                textStyle |-> stored.textStyle,
                persistedTextStyle |-> stored.textStyle,
                textStyleSaving |-> FALSE]
  BY DEF RowInit, Init, Stored
<1>3. DOMAIN operations = {} /\ DOMAIN wishes = {}
  BY <1>2
<1>4. RowTypeOK
  BY <1>2 DEF RowTypeOK, Row, Stored
<1>5. WishesInv /\ OrderInv /\ LandedInv /\ FileInv /\ ShownInv
  BY <1>2, <1>3 DEF WishesInv, OrderInv, LandedInv, FileInv, ShownInv, MarkerOrBatch
<1>6. StyleInv
  <2>1. latest[textStyle] = NoOperation
    BY <1>2, KeysDiffer
  <2> QED
    BY <1>2, <2>1 DEF StyleInv, StyleShowsTheWish
<1> QED
  BY <1>1, <1>4, <1>5, <1>6 DEF RowInv

LEMMA RowNextKeeps == QueueInv /\ RowInv /\ [RowNext]_rowVars => (QueueInv /\ RowInv)'
<1> SUFFICES ASSUME QueueInv, RowInv, [RowNext]_rowVars PROVE QueueInv' /\ RowInv'
  OBVIOUS
<1>1. [Next]_queueVars
  BY RowStepIsQueueStep DEF RowInv
<1>2. QueueInv'
  BY <1>1, NextKeeps
<1>3. ASSUME NEW flag \in Flags, ToggleMarker(flag) PROVE RowInv'
  BY <1>3, ToggleShape, ToggleKeeps DEF RowInv
<1>4. ASSUME NEW st \in {"queued", "running"}, RequestMarker(st) PROVE RowInv'
  BY <1>1, <1>4, MarkerRequestKeeps
<1>5. ASSUME NEW st \in {"queued", "running"}, RequestUnreviewAll(st) PROVE RowInv'
  BY <1>1, <1>5, UnreviewRequestKeeps
<1>6. ASSUME NEW st \in {"queued", "running"}, NEW style \in Styles,
             RequestTextStyle(style, st)
      PROVE  RowInv'
  BY <1>1, <1>6, StyleRequestKeeps
<1>7. ASSUME NEW w \in DOMAIN writes, Saved(w) PROVE RowInv'
  BY <1>7, SavedKeeps
<1>8. ASSUME NEW w \in DOMAIN writes, Failed(w) PROVE RowInv'
  BY <1>8, FailedKeeps
<1>9. ASSUME NEW w \in WriteIds, QueueGoesOn(w) PROVE RowInv'
  BY <1>1, <1>9, GoesOnKeeps
<1>10. CASE UNCHANGED rowVars
  <2>1. UNCHANGED <<queueVars, row, stored, wishes, landed>> /\ click' = click
    BY <1>10 DEF rowVars
  <2>2. RowTypeOK'
    BY <2>1 DEF RowInv, RowTypeOK
  <2> QED
    BY <1>2, <2>1, <2>2, ToggleKeeps
<1>11. DOMAIN writes \subseteq WriteIds
  BY DEF QueueInv, TypeOK, WriterTypeOK
<1>12. CASE RowDone
  BY <1>10, <1>12 DEF RowDone
<1>13. CASE RowNext
  BY <1>2, <1>3, <1>4, <1>5, <1>6, <1>7, <1>8, <1>9, <1>11, <1>12, <1>13 DEF RowNext
<1> QED
  BY <1>2, <1>10, <1>13

(* The invariant the theorems below follow from.                           *)
THEOREM RowInvariant == RowSpec => [](QueueInv /\ RowInv)
<1> QED
  BY RowInitInv, RowNextKeeps, PTL DEF RowSpec

(* The quick actions use the operation queue as its specification allows,  *)
(* so all that is proved of the queue holds of them.                       *)
THEOREM RowUsesTheQueue == RowSpec => Spec
<1>1. RowInit => Init
  BY DEF RowInit
<1>2. QueueInv /\ RowInv /\ [RowNext]_rowVars => [Next]_queueVars
  BY RowStepIsQueueStep DEF RowInv
<1> QED
  BY <1>1, <1>2, RowInvariant, PTL DEF RowSpec, Spec

(* The style selector shows the style wished for last while it is being    *)
(* saved, and the one in the row's file otherwise.                         *)
THEOREM StyleIsTheWish == RowSpec => []StyleShowsTheWish
<1>1. QueueInv /\ RowInv => StyleShowsTheWish
  BY DEF RowInv, StyleInv
<1> QED
  BY <1>1, RowInvariant, PTL

(* The markers in the file are those of the newest operations carried out. *)
THEOREM NewestMarkersAreInFile == RowSpec => []FileHasNewestMarkers
<1>1. QueueInv /\ RowInv => FileHasNewestMarkers
  BY FileInvIsProperty DEF RowInv
<1> QED
  BY <1>1, RowInvariant, PTL

(* Once everything has settled after a toggle that was saved, the row      *)
(* shows and remembers the markers of its file.                            *)
THEOREM SavedIsShown == RowSpec => []SavedMarkersAreShown
<1>1. QueueInv /\ RowInv => SavedMarkersAreShown
  BY DEF RowInv, ShownInv, SavedMarkersAreShown
<1> QED
  BY <1>1, RowInvariant, PTL
=============================================================================
