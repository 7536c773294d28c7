--------------------- MODULE EditorOperationQueueProofs ---------------------
(***************************************************************************)
(* The safety of the editor operation queue for every number of writes,    *)
(* repositories and coalesce keys: a run() has its repository to itself,   *)
(* only the newest operation of a key is started, and one is given up only *)
(* for a newer one.                                                        *)
(*                                                                         *)
(* The lemmas about single operations are stated so that a module that     *)
(* builds on the queue can cite them.                                      *)
(***************************************************************************)
EXTENDS EditorOperationQueue, TLAPS

(* No two writes of one repository are under way.                          *)
OneRunning ==
  \A v, w \in DOMAIN writes :
    /\ writes[v].status = "running" /\ writes[w].status = "running"
    /\ writes[v].scope = writes[w].scope
    => v = w

(* What a write's status says of its operation; all have the same rank.    *)
StatusInv ==
  \A w \in DOMAIN operations :
    /\ writes[w].rank = LocalWrite
    /\ operations[w].status = "queued" => writes[w].status = "queued"
    /\ operations[w].status = "running" => writes[w].status = "running"
    /\ writes[w].status = "queued" => operations[w].status \in {"queued", "cancelled"}

(* latest is the newest operation of each key.                             *)
LatestInv ==
  /\ \A k \in CoalesceKeys : latest[k] # NoOperation => operations[latest[k]].key = k
  /\ \A w \in DOMAIN operations :
       operations[w].key # NoKey => latest[operations[w].key] >= w

(* An operation that is queued was not superseded; one that is not the     *)
(* latest of its key was, if it was not finished by then.                  *)
SupersededInv ==
  \A w \in DOMAIN operations :
    LET op == operations[w]
    IN  /\ op.status = "queued" => op.supersededBy = NoOperation
        /\ op.supersededBy # NoOperation =>
             /\ op.supersededBy \in DOMAIN operations
             /\ op.supersededBy > w /\ operations[op.supersededBy].key = op.key
        /\ op.status = "cancelled" => op.supersededBy # NoOperation
        /\ op.status \in {"queued", "running"} /\ ~ IsLatestCoalesced(w)
             => op.supersededBy # NoOperation

QueueInv == TypeOK /\ OneRunning /\ StatusInv /\ LatestInv /\ SupersededInv

LEMMA IdsAreNumbers == WriteIds \subseteq Nat /\ NoOperation \notin WriteIds
BY WriterAssumption DEF WriteIds, NoOperation
-----------------------------------------------------------------------------
(* How the steps of the repo queue change the writes.                      *)
LEMMA SubmitMoves ==
  ASSUME TypeOK, OneRunning,
         NEW w \in WriteIds, NEW s \in WriteScopes, NEW k \in Ranks,
         NEW st \in {"queued", "running"}, SubmitWrite(w, s, k, st)
  PROVE  /\ WriterTypeOK' /\ OneRunning'
         /\ w \notin DOMAIN writes
         /\ \A v \in DOMAIN writes : v < w
         /\ DOMAIN writes' = DOMAIN writes \cup {w}
         /\ writes'[w] = [scope |-> s, rank |-> k, status |-> st]
         /\ \A v \in DOMAIN writes : writes'[v] = writes[v]
<1> USE DEF TypeOK
<1>1. \A v \in DOMAIN writes : v < w
  BY DEF SubmitWrite
<1>2. w \notin DOMAIN writes
  BY <1>1, IdsAreNumbers
<1>3. /\ DOMAIN writes' = DOMAIN writes \cup {w}
      /\ writes'[w] = [scope |-> s, rank |-> k, status |-> st]
      /\ \A v \in DOMAIN writes : writes'[v] = writes[v]
  BY <1>2 DEF SubmitWrite
<1>4. WriterTypeOK'
  <2>1. \A v \in DOMAIN writes' : writes'[v] \in Write
    BY <1>3 DEF WriterTypeOK, Write
  <2>2. writes' = [v \in DOMAIN writes' |-> writes'[v]]
    BY DEF SubmitWrite
  <2> QED
    BY <1>3, <2>1, <2>2 DEF WriterTypeOK
<1>5. OneRunning'
  <2>1. st = "running" => \A v \in DOMAIN writes :
          writes[v].scope = s => writes[v].status = "settled"
    BY DEF SubmitWrite
  <2> QED
    BY <1>3, <2>1 DEF OneRunning
<1> QED
  BY <1>1, <1>2, <1>3, <1>4, <1>5

LEMMA BeginMoves ==
  ASSUME TypeOK, OneRunning, NEW w, BeginWrite(w)
  PROVE  /\ WriterTypeOK' /\ OneRunning'
         /\ w \in DOMAIN writes /\ writes[w].status = "queued"
         /\ DOMAIN writes' = DOMAIN writes
         /\ writes'[w].status = "running" /\ writes'[w].scope = writes[w].scope
         /\ writes'[w].rank = writes[w].rank
         /\ \A v \in DOMAIN writes : v # w => writes'[v] = writes[v]
<1> USE DEF TypeOK
<1>1. w \in DOMAIN writes /\ writes[w].status = "queued" /\ writes[w] \in Write
  BY DEF BeginWrite, WithStatus, WriterTypeOK
<1>2. writes' = [writes EXCEPT ![w].status = "running"]
  BY DEF BeginWrite
<1>3. /\ DOMAIN writes' = DOMAIN writes
      /\ writes'[w] \in Write
      /\ writes'[w].status = "running" /\ writes'[w].scope = writes[w].scope
      /\ writes'[w].rank = writes[w].rank
      /\ \A v \in DOMAIN writes : v # w => writes'[v] = writes[v]
  BY <1>1, <1>2 DEF Write
<1>4. WriterTypeOK'
  <2>1. \A v \in DOMAIN writes' : writes'[v] \in Write
    BY <1>3 DEF WriterTypeOK
  <2> QED
    BY <1>2, <1>3, <2>1 DEF WriterTypeOK
<1>5. OneRunning'
  <2>1. \A v \in DOMAIN writes :
          writes[v].status = "running" => writes[v].scope # writes[w].scope
    BY DEF BeginWrite, WithStatus
  <2> QED
    BY <1>1, <1>3, <2>1 DEF OneRunning
<1> QED
  BY <1>1, <1>3, <1>4, <1>5

LEMMA SettleMoves ==
  ASSUME TypeOK, OneRunning, NEW w, SettleWrite(w)
  PROVE  /\ WriterTypeOK' /\ OneRunning'
         /\ w \in DOMAIN writes /\ writes[w].status = "running"
         /\ DOMAIN writes' = DOMAIN writes
         /\ writes'[w].status = "settled" /\ writes'[w].rank = writes[w].rank
         /\ \A v \in DOMAIN writes : v # w => writes'[v] = writes[v]
<1> USE DEF TypeOK
<1>1. w \in DOMAIN writes /\ writes[w].status = "running" /\ writes[w] \in Write
  BY DEF SettleWrite, WithStatus, WriterTypeOK
<1>2. writes' = [writes EXCEPT ![w].status = "settled"]
  BY DEF SettleWrite
<1>3. /\ DOMAIN writes' = DOMAIN writes
      /\ writes'[w] \in Write
      /\ writes'[w].status = "settled" /\ writes'[w].rank = writes[w].rank
      /\ \A v \in DOMAIN writes : v # w => writes'[v] = writes[v]
  BY <1>1, <1>2 DEF Write
<1>4. WriterTypeOK'
  <2>1. \A v \in DOMAIN writes' : writes'[v] \in Write
    BY <1>3 DEF WriterTypeOK
  <2> QED
    BY <1>2, <1>3, <2>1 DEF WriterTypeOK
<1>5. OneRunning'
  BY <1>3 DEF OneRunning
<1> QED
  BY <1>1, <1>3, <1>4, <1>5
-----------------------------------------------------------------------------
(* SetStatus changes one field of one operation.                           *)
LEMMA StatusMoves ==
  ASSUME TypeOK, WriterTypeOK', DOMAIN writes' = DOMAIN writes,
         NEW w \in DOMAIN operations,
         NEW st \in {"queued", "running", "succeeded", "failed", "cancelled"},
         SetStatus(w, st)
  PROVE  /\ TypeOK'
         /\ latest' = latest
         /\ DOMAIN operations' = DOMAIN operations
         /\ operations'[w].status = st
         /\ operations'[w].key = operations[w].key
         /\ operations'[w].supersededBy = operations[w].supersededBy
         /\ \A v \in DOMAIN operations : v # w => operations'[v] = operations[v]
<1>1. operations[w] \in Operation
  BY DEF TypeOK
<1>2. operations' = [operations EXCEPT ![w].status = st] /\ latest' = latest
  BY DEF SetStatus
<1>3. /\ DOMAIN operations' = DOMAIN operations
      /\ operations'[w] \in Operation
      /\ operations'[w].status = st
      /\ operations'[w].key = operations[w].key
      /\ operations'[w].supersededBy = operations[w].supersededBy
      /\ \A v \in DOMAIN operations : v # w => operations'[v] = operations[v]
  BY <1>1, <1>2 DEF Operation
<1>4. operations' \in [DOMAIN operations' -> Operation]
  <2>1. \A v \in DOMAIN operations' : operations'[v] \in Operation
    BY <1>3 DEF TypeOK
  <2> QED
    BY <1>2, <1>3, <2>1 DEF TypeOK
<1>5. waiting' \subseteq WriteScopes
  BY DEF SetStatus, EmitChanged, TypeOK
<1>6. latest' \in [CoalesceKeys -> {NoOperation} \cup DOMAIN operations']
  BY <1>2, <1>3 DEF TypeOK
<1> QED
  BY <1>2, <1>3, <1>4, <1>5, <1>6 DEF TypeOK

(* Other writes of the repo queue do not touch the operations.             *)
LEMMA SubmitKeeps ==
  ASSUME QueueInv,
         NEW w \in WriteIds, NEW s \in WriteScopes, NEW k \in Ranks,
         NEW st \in {"queued", "running"}, SubmitWrite(w, s, k, st),
         UNCHANGED <<operations, latest, waiting>>
  PROVE  QueueInv'
<1>1. TypeOK /\ OneRunning
  BY DEF QueueInv
<1>2. /\ WriterTypeOK' /\ OneRunning'
      /\ DOMAIN writes' = DOMAIN writes \cup {w}
      /\ \A v \in DOMAIN writes : writes'[v] = writes[v]
  BY <1>1, SubmitMoves
<1>3. TypeOK'
  BY <1>1, <1>2 DEF TypeOK
<1>4. StatusInv'
  BY <1>2 DEF QueueInv, StatusInv, TypeOK
<1>5. LatestInv' /\ SupersededInv'
  BY DEF QueueInv, LatestInv, SupersededInv, IsLatestCoalesced
<1> QED
  BY <1>2, <1>3, <1>4, <1>5 DEF QueueInv

LEMMA OtherWriteKeeps ==
  ASSUME QueueInv, NEW w \in DOMAIN writes \ DOMAIN operations,
         BeginWrite(w) \/ SettleWrite(w),
         UNCHANGED <<operations, latest, waiting>>
  PROVE  QueueInv'
<1>1. TypeOK /\ OneRunning
  BY DEF QueueInv
<1>2. /\ WriterTypeOK' /\ OneRunning'
      /\ DOMAIN writes' = DOMAIN writes
      /\ \A v \in DOMAIN writes : v # w => writes'[v] = writes[v]
  BY <1>1, BeginMoves, SettleMoves
<1>3. TypeOK'
  BY <1>1, <1>2 DEF TypeOK
<1>4. StatusInv'
  BY <1>2 DEF QueueInv, StatusInv, TypeOK
<1>5. LatestInv' /\ SupersededInv'
  BY DEF QueueInv, LatestInv, SupersededInv, IsLatestCoalesced
<1> QED
  BY <1>2, <1>3, <1>4, <1>5 DEF QueueInv

LEMMA BeginKeeps ==
  ASSUME QueueInv, NEW w, BeginOperation(w)
  PROVE  QueueInv'
<1>1. TypeOK /\ OneRunning /\ w \in DOMAIN operations
  BY DEF QueueInv, BeginOperation
<1>2. /\ WriterTypeOK' /\ OneRunning'
      /\ writes[w].status = "queued" /\ writes'[w].status = "running"
      /\ writes'[w].rank = writes[w].rank
      /\ DOMAIN writes' = DOMAIN writes
      /\ \A v \in DOMAIN writes : v # w => writes'[v] = writes[v]
  BY <1>1, BeginMoves DEF BeginOperation
<1>3. operations[w].status = "queued" /\ operations[w].supersededBy = NoOperation
  BY <1>1, <1>2 DEF QueueInv, StatusInv, SupersededInv, BeginOperation
<1>4. /\ TypeOK' /\ latest' = latest
      /\ DOMAIN operations' = DOMAIN operations
      /\ operations'[w].status = "running"
      /\ operations'[w].key = operations[w].key
      /\ operations'[w].supersededBy = operations[w].supersededBy
      /\ \A v \in DOMAIN operations : v # w => operations'[v] = operations[v]
  BY <1>1, <1>2, StatusMoves DEF BeginOperation
<1>5. StatusInv'
  BY <1>1, <1>2, <1>4 DEF QueueInv, StatusInv, TypeOK
<1>6. LatestInv'
  BY <1>1, <1>4 DEF QueueInv, LatestInv, TypeOK
<1>7. SupersededInv'
  BY <1>1, <1>3, <1>4 DEF QueueInv, SupersededInv, IsLatestCoalesced
<1> QED
  BY <1>2, <1>4, <1>5, <1>6, <1>7 DEF QueueInv

LEMMA SkipKeeps ==
  ASSUME QueueInv, NEW w, SkipCancelled(w)
  PROVE  QueueInv'
<1>1. /\ TypeOK /\ OneRunning
      /\ w \in DOMAIN operations /\ operations[w].status = "cancelled"
      /\ UNCHANGED <<operations, latest, waiting>>
  BY DEF QueueInv, SkipCancelled
<1>2. /\ WriterTypeOK' /\ OneRunning'
      /\ writes'[w].status = "running" /\ writes'[w].rank = writes[w].rank
      /\ DOMAIN writes' = DOMAIN writes
      /\ \A v \in DOMAIN writes : v # w => writes'[v] = writes[v]
  BY <1>1, BeginMoves DEF SkipCancelled
<1>3. TypeOK'
  BY <1>1, <1>2 DEF TypeOK
<1>4. StatusInv'
  BY <1>1, <1>2 DEF QueueInv, StatusInv, TypeOK
<1>5. LatestInv' /\ SupersededInv'
  BY <1>1 DEF QueueInv, LatestInv, SupersededInv, IsLatestCoalesced
<1> QED
  BY <1>2, <1>3, <1>4, <1>5 DEF QueueInv

LEMMA SettleKeeps ==
  ASSUME QueueInv, NEW w, SettleOperation(w)
  PROVE  QueueInv'
<1>1. /\ TypeOK /\ OneRunning
      /\ w \in DOMAIN operations /\ operations[w].status # "running"
      /\ UNCHANGED <<operations, latest, waiting>>
  BY DEF QueueInv, SettleOperation
<1>2. /\ WriterTypeOK' /\ OneRunning'
      /\ writes[w].status = "running"
      /\ writes'[w].status = "settled" /\ writes'[w].rank = writes[w].rank
      /\ DOMAIN writes' = DOMAIN writes
      /\ \A v \in DOMAIN writes : v # w => writes'[v] = writes[v]
  BY <1>1, SettleMoves DEF SettleOperation
<1>3. TypeOK'
  BY <1>1, <1>2 DEF TypeOK
<1>4. StatusInv'
  BY <1>1, <1>2 DEF QueueInv, StatusInv, TypeOK
<1>5. LatestInv' /\ SupersededInv'
  BY <1>1 DEF QueueInv, LatestInv, SupersededInv, IsLatestCoalesced
<1> QED
  BY <1>2, <1>3, <1>4, <1>5 DEF QueueInv

(* An operation that ends; one that fails and counts no more was           *)
(* superseded while it ran.                                                *)
LEMMA EndKeeps ==
  ASSUME QueueInv, NEW w, OperationSucceeds(w) \/ OperationFails(w)
  PROVE  QueueInv'
<1>1. /\ TypeOK /\ WriterTypeOK' /\ DOMAIN writes' = DOMAIN writes
      /\ w \in DOMAIN operations /\ operations[w].status = "running"
      /\ writes' = writes
  BY DEF QueueInv, OperationSucceeds, OperationFails, TypeOK, WriterTypeOK, Write
<1>2. PICK st \in {"succeeded", "failed", "cancelled"} :
        /\ SetStatus(w, st)
        /\ st = "cancelled" => ~ IsLatestCoalesced(w)
  BY DEF OperationSucceeds, OperationFails
<1>3. /\ TypeOK' /\ latest' = latest
      /\ DOMAIN operations' = DOMAIN operations
      /\ operations'[w].status = st
      /\ operations'[w].key = operations[w].key
      /\ operations'[w].supersededBy = operations[w].supersededBy
      /\ \A v \in DOMAIN operations : v # w => operations'[v] = operations[v]
  BY <1>1, <1>2, StatusMoves
<1>4. OneRunning'
  BY <1>1 DEF QueueInv, OneRunning
<1>5. StatusInv'
  BY <1>1, <1>3 DEF QueueInv, StatusInv, TypeOK
<1>6. LatestInv'
  BY <1>1, <1>3 DEF QueueInv, LatestInv, TypeOK
<1>7. SupersededInv'
  BY <1>1, <1>2, <1>3 DEF QueueInv, SupersededInv, IsLatestCoalesced
<1> QED
  BY <1>3, <1>4, <1>5, <1>6, <1>7 DEF QueueInv

(* A new operation: the previous one of its key is superseded, cancelled   *)
(* if it was still queued, and the others stay as they are.                *)
LEMMA RequestKeeps ==
  ASSUME QueueInv, NEW w \in WriteIds, NEW s \in WriteScopes,
         NEW key \in CoalesceKeys \cup {NoKey}, NEW st \in {"queued", "running"},
         RequestOperation(w, s, key, st)
  PROVE  QueueInv'
<1>1. TypeOK /\ OneRunning /\ LocalWrite \in Ranks
  BY DEF QueueInv, LocalWrite, Ranks
<1>2. /\ WriterTypeOK' /\ OneRunning'
      /\ w \notin DOMAIN writes
      /\ \A v \in DOMAIN writes : v < w
      /\ DOMAIN writes' = DOMAIN writes \cup {w}
      /\ writes'[w].status = st /\ writes'[w].rank = LocalWrite
      /\ writes'[w].scope = s
      /\ \A v \in DOMAIN writes : writes'[v] = writes[v]
  <2>1. PICK k \in Ranks : k = LocalWrite /\ SubmitWrite(w, s, k, st)
    BY <1>1 DEF RequestOperation
  <2>2. writes'[w] = [scope |-> s, rank |-> k, status |-> st]
    BY <1>1, <2>1, SubmitMoves
  <2>3. /\ WriterTypeOK' /\ OneRunning'
        /\ w \notin DOMAIN writes
        /\ \A v \in DOMAIN writes : v < w
        /\ DOMAIN writes' = DOMAIN writes \cup {w}
        /\ \A v \in DOMAIN writes : writes'[v] = writes[v]
    BY <1>1, <2>1, SubmitMoves
  <2> QED
    BY <2>1, <2>2, <2>3
<1>3. w \notin DOMAIN operations /\ \A v \in DOMAIN operations : v < w
  BY <1>1, <1>2 DEF TypeOK
<1>4. operations' = Added(Superseded(key, w), w,
                          [key |-> key, status |-> st, supersededBy |-> NoOperation])
  BY DEF RequestOperation
<1>5. DOMAIN Superseded(key, w) = DOMAIN operations
  BY DEF Superseded
<1>6. /\ DOMAIN operations' = DOMAIN operations \cup {w}
      /\ operations' = [v \in DOMAIN operations' |-> operations'[v]]
      /\ operations'[w] = [key |-> key, status |-> st, supersededBy |-> NoOperation]
      /\ \A v \in DOMAIN operations : operations'[v] = Superseded(key, w)[v]
  BY <1>3, <1>4, <1>5 DEF Added
<1>7. ASSUME NEW v \in DOMAIN operations
      PROVE  /\ operations'[v] \in Operation
             /\ operations'[v].key = operations[v].key
             /\ IF key # NoKey /\ v = latest[key]
                      /\ operations[v].status \in {"queued", "running"}
                THEN /\ operations'[v].supersededBy = w
                     /\ operations'[v].status =
                          IF operations[v].status = "queued" THEN "cancelled"
                          ELSE "running"
                ELSE operations'[v] = operations[v]
  <2>1. operations[v] \in Operation
    BY <1>1 DEF TypeOK
  <2> QED
    BY <1>6, <2>1 DEF Superseded, Operation
<1>8. /\ latest' \in [CoalesceKeys -> {NoOperation} \cup DOMAIN operations']
      /\ \A k \in CoalesceKeys : latest'[k] = IF k = key THEN w ELSE latest[k]
  BY <1>1, <1>6, KeyAssumption DEF RequestOperation, TypeOK
<1>9. waiting' \subseteq WriteScopes
  BY <1>1 DEF RequestOperation, EmitChanged, TypeOK
<1>10. /\ DOMAIN operations \subseteq DOMAIN writes
       /\ \A v \in DOMAIN operations : v \in Nat /\ operations[v] \in Operation
       /\ w \in Nat /\ w # NoOperation
  BY IdsAreNumbers DEF QueueInv, TypeOK, WriterTypeOK
<1>11. TypeOK'
  <2>1. operations'[w] \in Operation
    BY <1>6, <1>7 DEF Operation
  <2> QED
    BY <1>2, <1>3, <1>6, <1>7, <1>8, <1>9, <1>10, <2>1 DEF TypeOK
<1>12. StatusInv'
  BY <1>2, <1>3, <1>6, <1>7, <1>10 DEF QueueInv, StatusInv
<1>13. LatestInv'
  <2>1. ASSUME NEW k \in CoalesceKeys, latest'[k] # NoOperation
        PROVE  operations'[latest'[k]].key = k
    BY <1>6, <1>7, <1>8, <1>9, <1>10, <2>1 DEF QueueInv, LatestInv, TypeOK
  <2>2. ASSUME NEW v \in DOMAIN operations', operations'[v].key # NoKey
        PROVE  latest'[operations'[v].key] >= v
    <3>1. CASE v = w
      BY <1>6, <1>8, <1>10, <2>2, <3>1
    <3>2. CASE v \in DOMAIN operations
      <4>1. operations[v].key \in CoalesceKeys /\ operations'[v].key = operations[v].key
        BY <1>7, <1>10, <2>2, <3>2 DEF Operation
      <4>2. latest[operations[v].key] >= v
        BY <2>2, <3>2, <4>1 DEF QueueInv, LatestInv
      <4> QED
        BY <1>3, <1>8, <1>10, <3>2, <4>1, <4>2
    <3> QED
      BY <1>6, <3>1, <3>2
  <2> QED
    BY <2>1, <2>2 DEF LatestInv
<1>14. SupersededInv'
  <2> SUFFICES ASSUME NEW v \in DOMAIN operations'
               PROVE  LET op == operations'[v]
                      IN  /\ op.status = "queued" => op.supersededBy = NoOperation
                          /\ op.supersededBy # NoOperation =>
                               /\ op.supersededBy \in DOMAIN operations'
                               /\ op.supersededBy > v
                               /\ operations'[op.supersededBy].key = op.key
                          /\ op.status = "cancelled" => op.supersededBy # NoOperation
                          /\ op.status \in {"queued", "running"}
                               /\ ~ IsLatestCoalesced(v)'
                               => op.supersededBy # NoOperation
    BY DEF SupersededInv
  <2>1. CASE v = w
    BY <1>6, <1>7, <1>8, <1>9, <1>10, <2>1 DEF IsLatestCoalesced
  <2>2. CASE v \in DOMAIN operations /\ operations'[v] = operations[v]
             /\ ~ (key # NoKey /\ v = latest[key]
                    /\ operations[v].status \in {"queued", "running"})
    BY <1>6, <1>7, <1>8, <1>9, <1>10, <2>2
       DEF QueueInv, SupersededInv, IsLatestCoalesced, Operation
  <2>3. CASE /\ v \in DOMAIN operations
             /\ key # NoKey /\ v = latest[key]
             /\ operations[v].status \in {"queued", "running"}
    <3>1. operations[v].key = key
      BY <1>10, <2>3, IdsAreNumbers DEF QueueInv, LatestInv, TypeOK, WriterTypeOK
    <3> QED
      BY <1>2, <1>3, <1>6, <1>7, <1>10, <2>3, <3>1
  <2> QED
    BY <1>6, <1>7, <2>1, <2>2, <2>3
<1> QED
  BY <1>2, <1>3, <1>11, <1>12, <1>13, <1>14 DEF QueueInv
-----------------------------------------------------------------------------
LEMMA InitInv == Init => QueueInv
<1> SUFFICES ASSUME Init PROVE QueueInv
  OBVIOUS
<1>1. /\ writes = <<>> /\ operations = <<>> /\ waiting = {}
      /\ latest = [k \in CoalesceKeys |-> NoOperation]
  BY DEF Init, WriterInit
<1>2. DOMAIN writes = {} /\ DOMAIN operations = {}
  BY <1>1
<1>3. TypeOK
  BY <1>1, <1>2 DEF TypeOK, WriterTypeOK
<1>4. OneRunning /\ StatusInv /\ LatestInv /\ SupersededInv
  BY <1>1, <1>2 DEF OneRunning, StatusInv, LatestInv, SupersededInv
<1> QED
  BY <1>3, <1>4 DEF QueueInv

LEMMA OtherKeeps ==
  ASSUME QueueInv, NEW w \in WriteIds, OtherWrite(w)
  PROVE  QueueInv'
<1>1. UNCHANGED <<operations, latest, waiting>>
  BY DEF OtherWrite
<1>2. CASE \E s \in WriteScopes, k \in OtherRanks, st \in {"queued", "running"} :
             SubmitWrite(w, s, k, st)
  <2>1. OtherRanks \subseteq Ranks
    BY KeyAssumption DEF Ranks
  <2> QED
    BY <1>1, <1>2, <2>1, SubmitKeeps
<1>3. CASE w \in DOMAIN writes \ DOMAIN operations /\ (BeginWrite(w) \/ SettleWrite(w))
  BY <1>1, <1>3, OtherWriteKeeps
<1> QED
  BY <1>2, <1>3 DEF OtherWrite

LEMMA NextKeeps == QueueInv /\ [Next]_queueVars => QueueInv'
<1> SUFFICES ASSUME QueueInv, [Next]_queueVars PROVE QueueInv'
  OBVIOUS
<1>1. ASSUME NextWrite \in WriteIds,
             NEW s \in WriteScopes, NEW k \in CoalesceKeys \cup {NoKey},
             NEW st \in {"queued", "running"}, RequestOperation(NextWrite, s, k, st)
      PROVE  QueueInv'
  BY <1>1, RequestKeeps
<1>2. CASE NextWrite \in WriteIds /\ OtherWrite(NextWrite)
  BY <1>2, OtherKeeps
<1>3. ASSUME NEW w \in DOMAIN writes, WritesGoOn(w)
      PROVE  QueueInv'
  <2>1. w \in WriteIds
    BY DEF QueueInv, TypeOK, WriterTypeOK
  <2>2. CASE OtherWrite(w)
    BY <2>1, <2>2, OtherKeeps
  <2>3. CASE OperationStep(w)
    BY <2>3, BeginKeeps, SkipKeeps, EndKeeps, SettleKeeps DEF OperationStep
  <2> QED
    BY <1>3, <2>2, <2>3 DEF WritesGoOn
<1>4. ASSUME NEW s \in WriteScopes, WaitForIdle(s)
      PROVE  QueueInv'
  <2>1. UNCHANGED <<writes, operations, latest>> /\ waiting' \subseteq WriteScopes
    BY <1>4 DEF WaitForIdle, QueueInv, TypeOK
  <2>2. TypeOK' /\ OneRunning' /\ StatusInv'
    BY <2>1 DEF QueueInv, TypeOK, WriterTypeOK, OneRunning, StatusInv
  <2>3. LatestInv' /\ SupersededInv'
    BY <2>1 DEF QueueInv, LatestInv, SupersededInv, IsLatestCoalesced
  <2> QED
    BY <2>2, <2>3 DEF QueueInv
<1>5. CASE UNCHANGED queueVars
  <2>1. TypeOK' /\ OneRunning' /\ StatusInv'
    BY <1>5 DEF queueVars, QueueInv, TypeOK, WriterTypeOK, OneRunning, StatusInv
  <2>2. LatestInv' /\ SupersededInv'
    BY <1>5 DEF queueVars, QueueInv, LatestInv, SupersededInv, IsLatestCoalesced
  <2> QED
    BY <2>1, <2>2 DEF QueueInv
<1>6. CASE AllDone
  BY <1>5, <1>6 DEF AllDone
<1> QED
  BY <1>1, <1>2, <1>3, <1>4, <1>5, <1>6 DEF Next

(* The invariant the theorems below follow from.                           *)
THEOREM QueueInvariant == Spec => []QueueInv
<1> QED
  BY InitInv, NextKeeps, PTL DEF Spec

(* For every number of writes, repositories and keys, the queue's state is *)
(* well formed.                                                            *)
THEOREM QueueTypeCorrect == Spec => []TypeOK
<1>1. QueueInv => TypeOK
  BY DEF QueueInv
<1> QED
  BY <1>1, QueueInvariant, PTL

(* A run() of the editor has its repository to itself while it is under    *)
(* way.                                                                    *)
THEOREM RunsAreExclusive == Spec => []RunsHoldTheRepo
<1>1. QueueInv => RunsHoldTheRepo
  <2> SUFFICES ASSUME QueueInv, NEW w \in DOMAIN operations,
                      operations[w].status = "running"
               PROVE  /\ writes[w].status = "running"
                      /\ \A v \in DOMAIN writes :
                           /\ writes[v].scope = writes[w].scope
                           /\ writes[v].status = "running"
                           => v = w
    BY DEF RunsHoldTheRepo
  <2>1. w \in DOMAIN writes /\ writes[w].status = "running"
    BY DEF QueueInv, TypeOK, StatusInv
  <2> QED
    BY <2>1 DEF QueueInv, OneRunning
<1> QED
  BY <1>1, QueueInvariant, PTL

(* An operation is given up only for a newer one of its key.               *)
THEOREM NewestIsKept == Spec => []NewestIsNeverDropped
<1>1. QueueInv => NewestIsNeverDropped
  BY DEF QueueInv, SupersededInv, NewestIsNeverDropped
<1> QED
  BY <1>1, QueueInvariant, PTL

(* What starts was not superseded before it started, so no newer operation *)
(* of its key exists.                                                      *)
LEMMA StartsUnsuperseded ==
  ASSUME QueueInv, [Next]_queueVars, NEW w \in WriteIds, Starts(w)
  PROVE  operations'[w].supersededBy = NoOperation
<1>1. /\ w \in DOMAIN operations' /\ operations'[w].status = "running"
      /\ w \in DOMAIN operations => operations[w].status # "running"
  BY DEF Starts
<1>2. operations' # operations
  BY <1>1
<1>3. ASSUME NEW n \in WriteIds, NEW s \in WriteScopes,
             NEW k \in CoalesceKeys \cup {NoKey},
             NEW st \in {"queued", "running"}, RequestOperation(n, s, k, st)
      PROVE  operations'[w].supersededBy = NoOperation
  <2>1. operations' = Added(Superseded(k, n), n,
                            [key |-> k, status |-> st, supersededBy |-> NoOperation])
    BY <1>3 DEF RequestOperation
  <2>2. CASE w = n
    BY <2>1, <2>2 DEF Added, Superseded
  <2>3. CASE w # n
    <3>1. w \in DOMAIN operations /\ operations'[w] = Superseded(k, n)[w]
      BY <1>1, <2>1, <2>3 DEF Added, Superseded
    <3>2. operations[w] \in Operation
      BY <3>1 DEF QueueInv, TypeOK
    <3> QED
      BY <1>1, <3>1, <3>2 DEF Superseded, Operation
  <2> QED
    BY <2>2, <2>3
<1>4. ASSUME NEW v, BeginOperation(v)
      PROVE  operations'[w].supersededBy = NoOperation
  <2>1. /\ TypeOK /\ OneRunning /\ BeginWrite(v)
        /\ v \in DOMAIN operations /\ operations[v].status # "cancelled"
        /\ operations' = [operations EXCEPT ![v].status = "running"]
    BY <1>4 DEF QueueInv, BeginOperation, SetStatus
  <2>2. writes[v].status = "queued"
    BY <2>1, BeginMoves
  <2>3. operations[v].status = "queued" /\ operations[v].supersededBy = NoOperation
    BY <2>1, <2>2 DEF QueueInv, StatusInv, SupersededInv
  <2>4. w = v
    BY <1>1, <2>1
  <2>5. operations[v] \in Operation
    BY <2>1 DEF TypeOK
  <2> QED
    BY <2>1, <2>3, <2>4, <2>5 DEF Operation
<1>5. ASSUME NEW v, OperationSucceeds(v) \/ OperationFails(v)
      PROVE  FALSE
  <2>1. PICK st \in {"succeeded", "failed", "cancelled"} :
          operations' = [operations EXCEPT ![v].status = st]
    BY <1>5 DEF OperationSucceeds, OperationFails, SetStatus
  <2>2. v \in DOMAIN operations /\ operations[v].status = "running"
    BY <1>5 DEF OperationSucceeds, OperationFails
  <2>3. operations[v] \in Operation
    BY <2>2 DEF QueueInv, TypeOK
  <2> QED
    BY <1>1, <2>1, <2>2, <2>3 DEF Operation
<1> QED
  BY <1>2, <1>3, <1>4, <1>5
     DEF Next, WritesGoOn, OperationStep, OtherWrite, SkipCancelled,
         SettleOperation, WaitForIdle, AllDone, queueVars

(* run() is called only for the newest operation of a key.                 *)
THEOREM NewestStarts == Spec => OnlyNewestStarts
<1>1. ASSUME QueueInv, QueueInv', [Next]_queueVars
      PROVE  [\A w \in WriteIds : Starts(w) =>
                \A v \in DOMAIN operations' :
                  operations'[v].key = operations'[w].key /\ v > w
                    => operations'[v].key = NoKey]_queueVars
  <2> SUFFICES ASSUME NEW w \in WriteIds, Starts(w),
                      NEW v \in DOMAIN operations',
                      operations'[v].key = operations'[w].key, v > w,
                      operations'[v].key # NoKey
               PROVE  FALSE
    OBVIOUS
  <2>1. /\ w \in DOMAIN operations' /\ operations'[w].status = "running"
        /\ operations'[w].supersededBy = NoOperation
    BY <1>1, StartsUnsuperseded DEF Starts
  <2>2. latest'[operations'[w].key] >= v
    BY <1>1 DEF QueueInv, LatestInv
  <2>3. v \in Nat /\ w \in Nat /\ latest'[operations'[w].key] \in Nat
    <3>1. DOMAIN operations' \subseteq Nat
      BY <1>1, IdsAreNumbers DEF QueueInv, TypeOK, WriterTypeOK
    <3>2. operations'[w].key \in CoalesceKeys
      BY <1>1, <2>1 DEF QueueInv, TypeOK, Operation
    <3> QED
      BY <1>1, <2>1, <3>1, <3>2 DEF QueueInv, TypeOK, NoOperation
  <2>4. ~ IsLatestCoalesced(w)'
    BY <2>2, <2>3 DEF IsLatestCoalesced
  <2> QED
    BY <1>1, <2>1, <2>4 DEF QueueInv, SupersededInv
<1>2. QueueInv /\ QueueInv' /\ [Next]_queueVars
        => [\A w \in WriteIds : Starts(w) =>
              \A v \in DOMAIN operations' :
                operations'[v].key = operations'[w].key /\ v > w
                  => operations'[v].key = NoKey]_queueVars
  BY <1>1
<1> QED
  BY <1>2, QueueInvariant, PTL DEF Spec, OnlyNewestStarts

(* When an operation starts, those requested before it for the repository  *)
(* have ended: a queued one would have been taken first, and one that runs *)
(* holds the repository.                                                   *)
LEMMA StartsInOrder ==
  ASSUME QueueInv, [Next]_queueVars, NEW w \in WriteIds, Starts(w),
         NEW v \in DOMAIN operations', v < w, writes'[v].scope = writes'[w].scope
  PROVE  operations'[v].status \notin {"queued", "running"}
<1>1. /\ w \in DOMAIN operations' /\ operations'[w].status = "running"
      /\ w \in DOMAIN operations => operations[w].status # "running"
  BY DEF Starts
<1>2. operations' # operations
  BY <1>1
<1>3. v \in Nat /\ w \in Nat /\ v # w
  <2>1. v \in DOMAIN writes'
    BY NextKeeps DEF QueueInv, TypeOK
  <2> QED
    BY <2>1, NextKeeps, IdsAreNumbers DEF QueueInv, TypeOK, WriterTypeOK
<1>4. ASSUME NEW n \in WriteIds, NEW s \in WriteScopes,
             NEW k \in CoalesceKeys \cup {NoKey},
             NEW st \in {"queued", "running"}, RequestOperation(n, s, k, st)
      PROVE  operations'[v].status \notin {"queued", "running"}
  <2>1. PICK r \in Ranks : r = LocalWrite /\ SubmitWrite(n, s, r, st)
    BY <1>4 DEF RequestOperation, LocalWrite, Ranks
  <2>2. /\ writes'[n].scope = s
        /\ \A u \in DOMAIN writes : writes'[u] = writes[u]
    <3>1. n \notin DOMAIN writes
      BY <2>1, IdsAreNumbers DEF SubmitWrite
    <3> QED
      BY <2>1, <3>1 DEF SubmitWrite
  <2>3. operations' = Added(Superseded(k, n), n,
                            [key |-> k, status |-> st, supersededBy |-> NoOperation])
    BY <1>4 DEF RequestOperation
  <2>4. \A u \in DOMAIN operations : operations[u] \in Operation
    BY DEF QueueInv, TypeOK
  <2>5. w = n
    BY <1>1, <2>3, <2>4 DEF Added, Superseded, Operation
  <2>6. v \in DOMAIN operations /\ v \in DOMAIN writes
    BY <1>3, <2>3, <2>5 DEF Added, Superseded, QueueInv, TypeOK
  <2>7. writes[v].status = "settled"
    BY <1>1, <2>1, <2>2, <2>3, <2>5, <2>6 DEF SubmitWrite, Added
  <2>8. operations[v].status \notin {"queued", "running"}
    BY <2>6, <2>7 DEF QueueInv, StatusInv
  <2>9. operations'[v] = operations[v]
    BY <1>3, <2>3, <2>5, <2>6, <2>8 DEF Added, Superseded
  <2> QED
    BY <2>8, <2>9
<1>5. ASSUME NEW u, BeginOperation(u)
      PROVE  operations'[v].status \notin {"queued", "running"}
  <2>1. /\ TypeOK /\ OneRunning /\ BeginWrite(u)
        /\ u \in DOMAIN operations
        /\ operations' = [operations EXCEPT ![u].status = "running"]
    BY <1>5 DEF QueueInv, BeginOperation, SetStatus
  <2>2. w = u
    BY <1>1, <2>1
  <2>3. /\ v \in DOMAIN operations /\ v \in DOMAIN writes
        /\ operations'[v] = operations[v]
    BY <1>3, <2>1, <2>2 DEF TypeOK
  <2>4. writes[v].scope = writes[w].scope
    BY <1>3, <2>1, <2>2, <2>3, BeginMoves
  <2>5. writes[v].rank = LocalWrite /\ writes[w].rank = LocalWrite
    BY <2>1, <2>2, <2>3 DEF QueueInv, StatusInv
  <2>6. writes[v].status # "queued"
    BY <2>1, <2>2, <2>3, <2>4, <2>5 DEF BeginWrite, WithStatus, Precedes
  <2>7. writes[v].status # "running"
    BY <2>1, <2>2, <2>3, <2>4 DEF BeginWrite, WithStatus
  <2> QED
    BY <2>3, <2>6, <2>7 DEF QueueInv, StatusInv
<1>6. ASSUME NEW u, OperationSucceeds(u) \/ OperationFails(u)
      PROVE  FALSE
  <2>1. PICK st \in {"succeeded", "failed", "cancelled"} :
          operations' = [operations EXCEPT ![u].status = st]
    BY <1>6 DEF OperationSucceeds, OperationFails, SetStatus
  <2>2. u \in DOMAIN operations /\ operations[u].status = "running"
    BY <1>6 DEF OperationSucceeds, OperationFails
  <2>3. operations[u] \in Operation
    BY <2>2 DEF QueueInv, TypeOK
  <2> QED
    BY <1>1, <2>1, <2>2, <2>3 DEF Operation
<1> QED
  BY <1>2, <1>4, <1>5, <1>6
     DEF Next, WritesGoOn, OperationStep, OtherWrite, SkipCancelled,
         SettleOperation, WaitForIdle, AllDone, queueVars

(* The operations of a repository are carried out in the order in which    *)
(* they were requested, whatever else is written to it.                    *)
THEOREM RequestsAreOrdered == Spec => RequestOrder
<1>1. QueueInv /\ [Next]_queueVars
        => [\A w \in WriteIds : Starts(w) =>
              \A v \in DOMAIN operations' :
                v < w /\ writes'[v].scope = writes'[w].scope
                  => operations'[v].status \notin {"queued", "running"}]_queueVars
  BY StartsInOrder
<1> QED
  BY <1>1, QueueInvariant, PTL DEF Spec, RequestOrder

(* The operations and the other writes of the app submit, begin and settle *)
(* writes only as the repo write queue lets them: all that is proved of    *)
(* operations is proved of what RepoWriteQueue implements.                 *)
THEOREM OperationsAreWrites == Spec => WriterSafety
<1>1. Init => WriterInit
  BY DEF Init
<1>2. ASSUME QueueInv, [Next]_queueVars
      PROVE  [WriterNext]_writes
  <2>1. DOMAIN writes \subseteq WriteIds /\ LocalWrite \in Ranks /\ OtherRanks \subseteq Ranks
    <3>1. DOMAIN writes \subseteq WriteIds
      BY <1>2 DEF QueueInv, TypeOK, WriterTypeOK
    <3>2. LocalWrite \in Ranks /\ OtherRanks \subseteq Ranks
      BY KeyAssumption DEF LocalWrite, Ranks
    <3> QED
      BY <3>1, <3>2
  <2>2. ASSUME NEW n \in WriteIds, NEW s \in WriteScopes,
               NEW k \in CoalesceKeys \cup {NoKey},
               NEW st \in {"queued", "running"}, RequestOperation(n, s, k, st)
        PROVE  WriterNext
    <3>1. PICK rank \in Ranks : SubmitWrite(n, s, rank, st)
      BY <2>1, <2>2 DEF RequestOperation
    <3> QED
      BY <3>1 DEF WriterNext
  <2>3. ASSUME NEW w \in WriteIds, OtherWrite(w)
        PROVE  WriterNext
    BY <2>1, <2>3 DEF OtherWrite, WriterNext
  <2>4. ASSUME NEW w \in DOMAIN writes, OperationStep(w)
        PROVE  [WriterNext]_writes
    BY <2>1, <2>4 DEF OperationStep, BeginOperation, SkipCancelled, OperationSucceeds,
                      OperationFails, SettleOperation, WriterNext
  <2>5. CASE writes' = writes
    BY <2>5
  <2> QED
    BY <1>2, <2>1, <2>2, <2>3, <2>4, <2>5
       DEF Next, WritesGoOn, WaitForIdle, AllDone, queueVars
<1>3. QueueInv /\ [Next]_queueVars => [WriterNext]_writes
  BY <1>2
<1> QED
  BY <1>1, <1>3, QueueInvariant, PTL DEF Spec, WriterSafety
=============================================================================
