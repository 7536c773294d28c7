------------------------ MODULE RepoWriteQueueProofs ------------------------
(***************************************************************************)
(* The safety of the repo write queue for every set of scopes, every set   *)
(* of requests and every number of operations: RepoWriteQueue's TypeOK,    *)
(* QueueIntegrity and OneWriterAtATime are invariants, from the inductive  *)
(* invariant IInv; the queue implements ScopedWriter, step by step; and,   *)
(* with ShownInv, what is shown as running is what runs, so that a wait    *)
(* for an idle queue ends when it should.                                  *)
(***************************************************************************)
EXTENDS RepoWriteQueue, SequenceTheorems, WellFoundedInduction, TLAPS

(* A scope's loop awaits the one operation in flight that is not inline.   *)
LoopInv ==
  \A s \in Scopes :
    /\ s \in processing => awaiting[s] \in Ids
    /\ s \notin processing => items[s] = <<>>
    /\ \A i \in Ids :
         InFlight(i) /\ ~ IsInline(i) /\ Scope(i) = s =>
           s \in processing /\ awaiting[s] = i

(* The operations on the call stack are distinct and executing.            *)
StackInv ==
  /\ \A k \in DOMAIN callStack : operations[callStack[k]].phase = "executing"
  /\ \A j, k \in DOMAIN callStack : callStack[j] = callStack[k] => j = k

(* An inline operation is never queued, and while it is in flight so is    *)
(* the operation it runs under.                                            *)
InlineInv ==
  \A i \in Ids :
    /\ operations[i].phase = "queued" => ~ IsInline(i)
    /\ InFlight(i) /\ IsInline(i) =>
         /\ operations[i].outer \in Ids
         /\ operations[operations[i].outer].phase = "executing"
         /\ Scope(operations[i].outer) = Scope(i)

(* The items of a scope, position by position.                             *)
ItemsInv ==
  \A s \in Scopes :
    /\ \A k \in DOMAIN items[s] : items[s][k] \in Queued(s)
    /\ \A i \in Queued(s) : \E k \in DOMAIN items[s] : items[s][k] = i
    /\ \A j, k \in DOMAIN items[s] :
         j < k => RunsFirst(items[s][j], items[s][k])

(* The running id an operation will restore is that of an operation.       *)
PriorInv == \A i \in Ids : operations[i].prior \in {None} \cup Ids

IInv == TypeOK /\ LoopInv /\ StackInv /\ InlineInv /\ ItemsInv /\ PriorInv
-----------------------------------------------------------------------------
(* Sequences of operations and of ids.                                     *)

LEMMA SeqFacts ==
  ASSUME NEW S, NEW q \in Seq(S)
  PROVE  /\ Len(q) \in Nat
         /\ DOMAIN q = 1 .. Len(q)
         /\ \A k \in 1 .. Len(q) : q[k] \in S
  BY LenProperties, ElementOfSeq

(* A new operation gets the next id and leaves the others alone.           *)
LEMMA AppendOperation ==
  ASSUME NEW ops \in Seq(Operation), NEW o \in Operation
  PROVE  LET new == Append(ops, o) IN
           /\ new \in Seq(Operation)
           /\ Len(new) = Len(ops) + 1
           /\ DOMAIN new = DOMAIN ops \cup {Len(ops) + 1}
           /\ Len(ops) + 1 \notin DOMAIN ops
           /\ \A i \in DOMAIN ops : new[i] = ops[i]
           /\ new[Len(ops) + 1] = o
<1>1. /\ Append(ops, o) \in Seq(Operation)
      /\ Len(Append(ops, o)) = Len(ops) + 1
      /\ \A i \in 1 .. Len(ops) : Append(ops, o)[i] = ops[i]
      /\ Append(ops, o)[Len(ops) + 1] = o
  BY AppendProperties
<1>2. /\ Len(ops) \in Nat
      /\ DOMAIN ops = 1 .. Len(ops)
      /\ DOMAIN Append(ops, o) = 1 .. (Len(ops) + 1)
  BY <1>1, LenProperties
<1> QED
  BY <1>1, <1>2

(* Changing the phase (and the prior) of an operation keeps the others.    *)
LEMMA ChangeOperation ==
  ASSUME NEW ops \in Seq(Operation), NEW i \in DOMAIN ops, NEW o \in Operation
  PROVE  LET new == [ops EXCEPT ![i] = o] IN
           /\ new \in Seq(Operation)
           /\ Len(new) = Len(ops)
           /\ DOMAIN new = DOMAIN ops
           /\ \A j \in DOMAIN ops : j # i => new[j] = ops[j]
           /\ new[i] = o
<1>1. /\ DOMAIN ops = 1 .. Len(ops)
      /\ i \in 1 .. Len(ops)
  BY LenProperties
<1>2. /\ [ops EXCEPT ![i] = o] \in Seq(Operation)
      /\ Len([ops EXCEPT ![i] = o]) = Len(ops)
  BY <1>1, ExceptSeq
<1> QED
  BY <1>1, <1>2

(* InsertAt at position n: what was before n stays, the rest moves up.     *)
LEMMA InsertAtProperties ==
  ASSUME NEW S, NEW q \in Seq(S), NEW n \in 1 .. (Len(q) + 1), NEW e \in S
  PROVE  /\ InsertAt(q, n, e) \in Seq(S)
         /\ Len(InsertAt(q, n, e)) = Len(q) + 1
         /\ \A k \in 1 .. (n - 1) : InsertAt(q, n, e)[k] = q[k]
         /\ InsertAt(q, n, e)[n] = e
         /\ \A k \in (n + 1) .. (Len(q) + 1) : InsertAt(q, n, e)[k] = q[k - 1]
<1> DEFINE a == SubSeq(q, 1, n - 1)
           b == SubSeq(q, n, Len(q))
<1>1. Len(q) \in Nat /\ n \in Nat /\ n >= 1 /\ n <= Len(q) + 1
  BY LenProperties
<1>2. \A k \in 1 .. Len(q) : q[k] \in S
  BY ElementOfSeq
<1>3. /\ a \in Seq(S)
      /\ Len(a) = n - 1
      /\ \A k \in 1 .. (n - 1) : a[k] = q[k]
  <2>1. \A k \in 1 .. (n - 1) : q[k] \in S
    BY <1>1, <1>2
  <2> QED
    BY <1>1, <2>1, SubSeqProperties
<1>4. /\ b \in Seq(S)
      /\ Len(b) = Len(q) - n + 1
      /\ \A k \in 1 .. (Len(q) - n + 1) : b[k] = q[n + k - 1]
  <2>1. \A k \in n .. Len(q) : q[k] \in S
    BY <1>1, <1>2
  <2> QED
    BY <1>1, <2>1, SubSeqProperties
<1>5. InsertAt(q, n, e) = a \o <<e>> \o b
  BY DEF InsertAt
<1> HIDE DEF a, b
<1>6. <<e>> \in Seq(S) /\ Len(<<e>>) = 1 /\ <<e>>[1] = e
  OBVIOUS
<1> DEFINE c == a \o <<e>>
<1>7. /\ c \in Seq(S)
      /\ Len(c) = n
      /\ \A k \in 1 .. n : c[k] = IF k < n THEN q[k] ELSE e
  <2>1. c \in Seq(S) /\ Len(c) = n
    BY <1>1, <1>3, <1>6, ConcatProperties
  <2>2. \A k \in 1 .. n : c[k] = IF k <= Len(a) THEN a[k] ELSE <<e>>[k - Len(a)]
    BY <1>1, <1>3, <1>6
  <2> QED
    BY <1>1, <1>3, <1>6, <2>1, <2>2
<1> HIDE DEF c
<1>8. /\ c \o b \in Seq(S)
      /\ Len(c \o b) = Len(q) + 1
      /\ \A k \in 1 .. (Len(q) + 1) :
           (c \o b)[k] = IF k < n THEN q[k] ELSE IF k = n THEN e ELSE q[k - 1]
  <2>1. /\ c \o b \in Seq(S)
        /\ Len(c \o b) = Len(c) + Len(b)
        /\ \A k \in 1 .. Len(c) + Len(b) :
             (c \o b)[k] = IF k <= Len(c) THEN c[k] ELSE b[k - Len(c)]
    BY <1>4, <1>7, ConcatProperties
  <2>2. Len(c) + Len(b) = Len(q) + 1
    BY <1>1, <1>4, <1>7
  <2>3. ASSUME NEW k \in 1 .. (Len(q) + 1), k > n
        PROVE  b[k - n] = q[k - 1]
    <3>1. k - n \in 1 .. (Len(q) - n + 1)
      BY <1>1, <2>3
    <3>2. b[k - n] = q[n + (k - n) - 1]
      BY <1>4, <3>1
    <3>3. n + (k - n) - 1 = k - 1
      BY <1>1
    <3> QED
      BY <3>2, <3>3
  <2> QED
    BY <1>1, <1>7, <2>1, <2>2, <2>3
<1>9. InsertAt(q, n, e) = c \o b
  BY <1>5 DEF c
<1>10. /\ 1 .. (n - 1) \subseteq 1 .. (Len(q) + 1)
       /\ (n + 1) .. (Len(q) + 1) \subseteq 1 .. (Len(q) + 1)
       /\ \A k \in 1 .. (n - 1) : k < n
       /\ \A k \in (n + 1) .. (Len(q) + 1) : ~ (k < n) /\ k # n
       /\ ~ (n < n)
  BY <1>1
<1> QED
  BY <1>8, <1>9, <1>10

(* A non-empty set of numbers has a least element.                         *)
LEMMA LeastElement ==
  ASSUME NEW T, T \subseteq Nat, T # {}
  PROVE  \E m \in T : \A k \in T : m <= k
<1> DEFINE R == {ss \in Nat \X Nat : ss[1] < ss[2]}
<1>1. IsWellFoundedOn(R, Nat)
  BY NatLessThanWellFounded DEF OpToRel
<1> HIDE DEF R
<1>2. PICK m \in T : \A k \in T : ~ (<<k, m>> \in R)
  BY <1>1, WFMin
<1>3. ASSUME NEW k \in T PROVE m <= k
  <2>1. k \in Nat /\ m \in Nat /\ ~ (k < m)
    BY <1>2 DEF R
  <2> QED
    BY <2>1
<1> QED
  BY <1>2, <1>3

(* InsertIndex is where everything before it has the rank of the request   *)
(* or more, and the item at it, if there is one, has less.                 *)
LEMMA InsertIndexProperties ==
  ASSUME NEW s, NEW r, NEW S, items[s] \in Seq(S)
  PROVE  LET n == InsertIndex(s, r) IN
           /\ n \in 1 .. (Len(items[s]) + 1)
           /\ \A k \in DOMAIN items[s] :
                k < n => ~ (RankOf(items[s][k]) < Rank(r))
           /\ n \in DOMAIN items[s] => RankOf(items[s][n]) < Rank(r)
<1> DEFINE lower == {k \in DOMAIN items[s] : RankOf(items[s][k]) < Rank(r)}
           n == InsertIndex(s, r)
<1>1. Len(items[s]) \in Nat /\ DOMAIN items[s] = 1 .. Len(items[s])
  BY LenProperties
<1>2. CASE lower = {}
  <2>1. n = Len(items[s]) + 1
    BY <1>2 DEF InsertIndex
  <2> QED
    BY <1>1, <1>2, <2>1
<1>3. CASE lower # {}
  <2>1. \E k \in lower : \A j \in lower : k <= j
    <3>1. lower \subseteq Nat
      BY <1>1
    <3> HIDE DEF lower
    <3> QED
      BY <1>3, <3>1, LeastElement
  <2>2. n = CHOOSE k \in lower : \A j \in lower : k <= j
    BY <1>3 DEF InsertIndex
  <2>3. n \in lower /\ \A j \in lower : n <= j
    BY <2>1, <2>2
  <2> HIDE DEF n
  <2> QED
    BY <1>1, <2>3 DEF n
<1> QED
  BY <1>2, <1>3

(* A non-empty set of positions of a sequence has a greatest element.      *)
LEMMA GreatestElement ==
  ASSUME NEW n \in Nat, NEW T, T \subseteq 1 .. n, T # {}
  PROVE  \E m \in T : \A k \in T : k <= m
<1> DEFINE D == {n - k : k \in T}
<1>1. D \subseteq Nat /\ D # {}
  <2>1. \A k \in T : n - k \in Nat
    OBVIOUS
  <2> QED
    BY <2>1
<1>2. PICK d \in D : \A e \in D : d <= e
  <2> HIDE DEF D
  <2> QED
    BY <1>1, LeastElement
<1>3. PICK m \in T : d = n - m
  OBVIOUS
<1>4. ASSUME NEW k \in T PROVE k <= m
  <2>1. n - m <= n - k
    BY <1>2, <1>3
  <2> QED
    BY <2>1
<1> QED
  BY <1>4
-----------------------------------------------------------------------------
(* What the operators of the model change.                                 *)

LEMMA TypeFacts ==
  ASSUME TypeOK
  PROVE  /\ Len(operations) \in Nat
         /\ Ids = 1 .. Len(operations)
         /\ Ids \subseteq OperationIds
         /\ None \notin Ids
         /\ \A i \in Ids : operations[i] \in Operation /\ Scope(i) \in Scopes
         /\ \A i \in Ids : RankOf(i) \in 0 .. 2
         /\ DOMAIN callStack = 1 .. Len(callStack)
         /\ Len(callStack) \in Nat
         /\ \A k \in DOMAIN callStack : callStack[k] \in Ids
<1>1. /\ Len(operations) \in Nat
      /\ Ids = 1 .. Len(operations)
      /\ \A i \in Ids : operations[i] \in Operation
  BY SeqFacts DEF TypeOK, Ids
<1>2. Ids \subseteq OperationIds /\ None \notin Ids
  BY <1>1, QueueAssumption DEF TypeOK, OperationIds, None, QueueAssumption
<1>3. \A i \in Ids : Scope(i) \in Scopes /\ RankOf(i) \in 0 .. 2
  BY <1>1 DEF Operation, Scope, RankOf, PriorityRank
<1>4. /\ DOMAIN callStack = 1 .. Len(callStack)
      /\ Len(callStack) \in Nat
      /\ \A k \in DOMAIN callStack : callStack[k] \in Ids
  BY SeqFacts DEF TypeOK
<1> QED
  BY <1>1, <1>2, <1>3, <1>4

(* A new operation: the others keep their place and their state.           *)
LEMMA NewOperationEffect ==
  ASSUME TypeOK, Len(operations) < MaxOperations,
         NEW s \in Scopes, NEW r \in Requests,
         NEW phase \in {"queued", "checking", "executing"},
         NEW outer \in {None} \cup Ids, NEW prior \in {None} \cup Ids,
         NewOperation(s, r, phase, outer, prior)
  PROVE  LET id == Len(operations) + 1 IN
           /\ operations' \in Seq(Operation)
           /\ Len(operations') <= MaxOperations
           /\ Ids' = Ids \cup {id}
           /\ id \notin Ids
           /\ id # None
           /\ \A i \in Ids : operations'[i] = operations[i] /\ i < id
           /\ operations'[id] =
                [scope |-> s, request |-> r, priority |-> EffectivePriority(r),
                 phase |-> phase, outer |-> outer, prior |-> prior]
<1> DEFINE o == [scope |-> s, request |-> r, priority |-> EffectivePriority(r),
                 phase |-> phase, outer |-> outer, prior |-> prior]
<1>1. r \in Request /\ MaxOperations \in Nat
  BY QueueAssumption DEF QueueAssumption
<1>2. EffectivePriority(r) \in Priorities
  BY DEF EffectivePriority, Priorities
<1>3. outer \in {None} \cup OperationIds /\ prior \in {None} \cup OperationIds
  BY TypeFacts
<1>4. o \in Operation
  BY <1>1, <1>2, <1>3 DEF Operation
<1>5. operations \in Seq(Operation) /\ operations' = Append(operations, o)
  BY DEF TypeOK, NewOperation
<1> HIDE DEF o
<1>6. /\ operations' \in Seq(Operation)
      /\ Len(operations') = Len(operations) + 1
      /\ DOMAIN operations' = DOMAIN operations \cup {Len(operations) + 1}
      /\ Len(operations) + 1 \notin DOMAIN operations
      /\ \A i \in DOMAIN operations : operations'[i] = operations[i]
      /\ operations'[Len(operations) + 1] = o
  BY <1>4, <1>5, AppendOperation
<1>7. Len(operations) \in Nat /\ \A i \in Ids : i < Len(operations) + 1
  BY TypeFacts
<1> QED
  BY <1>1, <1>6, <1>7 DEF Ids, o, None

(* An operation's phase changes, nothing else of it but maybe its prior.   *)
LEMMA PhaseEffect ==
  ASSUME TypeOK, NEW i \in Ids,
         NEW ph \in {"queued", "checking", "executing", "succeeded", "failed"},
         NEW prior \in {None} \cup Ids,
         operations' = [operations EXCEPT ![i].phase = ph, ![i].prior = prior]
  PROVE  /\ operations' \in Seq(Operation)
         /\ Len(operations') <= MaxOperations
         /\ Ids' = Ids
         /\ \A j \in Ids : j # i => operations'[j] = operations[j]
         /\ operations'[i].phase = ph
         /\ operations'[i].scope = operations[i].scope
         /\ operations'[i].outer = operations[i].outer
         /\ operations'[i].request = operations[i].request
         /\ operations'[i].priority = operations[i].priority
<1> DEFINE o == [operations[i] EXCEPT !.phase = ph, !.prior = prior]
<1>1. operations[i] \in Operation /\ prior \in {None} \cup OperationIds
  BY TypeFacts
<1>2. /\ o \in Operation
      /\ o.phase = ph
      /\ o.scope = operations[i].scope
      /\ o.outer = operations[i].outer
      /\ o.request = operations[i].request
      /\ o.priority = operations[i].priority
  BY <1>1 DEF Operation
<1>3. operations' = [operations EXCEPT ![i] = o]
  BY DEF Ids
<1> HIDE DEF o
<1>4. /\ operations' \in Seq(Operation)
      /\ Len(operations') = Len(operations)
      /\ DOMAIN operations' = DOMAIN operations
      /\ \A j \in DOMAIN operations : j # i => operations'[j] = operations[j]
      /\ operations'[i] = o
  <2> DEFINE new == [operations EXCEPT ![i] = o]
  <2>1. operations \in Seq(Operation) /\ i \in DOMAIN operations
    BY DEF TypeOK, Ids
  <2>2. /\ new \in Seq(Operation)
        /\ Len(new) = Len(operations)
        /\ DOMAIN new = DOMAIN operations
        /\ \A j \in DOMAIN operations : j # i => new[j] = operations[j]
        /\ new[i] = o
    BY <1>2, <2>1, ChangeOperation
  <2> QED
    BY <1>3, <2>2
<1> QED
  BY <1>2, <1>4 DEF TypeOK, Ids

LEMMA SettleEffect ==
  ASSUME TypeOK, NEW i \in Ids, NEW ph \in {"executing", "succeeded", "failed"},
         operations' = [operations EXCEPT ![i].phase = ph]
  PROVE  /\ operations' \in Seq(Operation)
         /\ Len(operations') <= MaxOperations
         /\ Ids' = Ids
         /\ \A j \in Ids : j # i => operations'[j] = operations[j]
         /\ operations'[i].phase = ph
         /\ operations'[i].scope = operations[i].scope
         /\ operations'[i].outer = operations[i].outer
         /\ operations'[i].request = operations[i].request
         /\ operations'[i].priority = operations[i].priority
<1> DEFINE o == [operations[i] EXCEPT !.phase = ph]
<1>1. operations[i] \in Operation
  BY TypeFacts
<1>2. /\ o \in Operation
      /\ o.phase = ph
      /\ o.scope = operations[i].scope
      /\ o.outer = operations[i].outer
      /\ o.request = operations[i].request
      /\ o.priority = operations[i].priority
  BY <1>1 DEF Operation
<1>3. operations' = [operations EXCEPT ![i] = o]
  BY DEF Ids
<1> HIDE DEF o
<1>4. /\ operations' \in Seq(Operation)
      /\ Len(operations') = Len(operations)
      /\ DOMAIN operations' = DOMAIN operations
      /\ \A j \in DOMAIN operations : j # i => operations'[j] = operations[j]
      /\ operations'[i] = o
  <2> DEFINE new == [operations EXCEPT ![i] = o]
  <2>1. operations \in Seq(Operation) /\ i \in DOMAIN operations
    BY DEF TypeOK, Ids
  <2>2. /\ new \in Seq(Operation)
        /\ Len(new) = Len(operations)
        /\ DOMAIN new = DOMAIN operations
        /\ \A j \in DOMAIN operations : j # i => new[j] = operations[j]
        /\ new[i] = o
    BY <1>2, <2>1, ChangeOperation
  <2> QED
    BY <1>3, <2>2
<1> QED
  BY <1>2, <1>4 DEF TypeOK, Ids

(* The innermost run of a scope that is held is an executing operation of  *)
(* that scope.                                                             *)
LEMMA InnermostRunProperties ==
  ASSUME TypeOK, StackInv, NEW s \in Scopes, RunDepth(s)
  PROVE  /\ InnermostRun(s) \in Ids
         /\ Scope(InnermostRun(s)) = s
         /\ operations[InnermostRun(s)].phase = "executing"
<1> DEFINE ks == {k \in DOMAIN callStack : Scope(callStack[k]) = s}
<1>1. ks # {} /\ ks \subseteq 1 .. Len(callStack) /\ Len(callStack) \in Nat
  BY TypeFacts DEF RunDepth
<1>2. \E k \in ks : \A j \in ks : j <= k
  <2> HIDE DEF ks
  <2> QED
    BY <1>1, GreatestElement
<1>3. InnermostRun(s) = callStack[CHOOSE k \in ks : \A j \in ks : j <= k]
  BY DEF InnermostRun
<1>4. PICK k \in ks : InnermostRun(s) = callStack[k]
  <2> HIDE DEF ks
  <2> QED
    BY <1>2, <1>3
<1> QED
  BY <1>4, TypeFacts DEF StackInv
-----------------------------------------------------------------------------
(* Parts of the invariant that many steps keep for the same reason.        *)

(* The queues are as they were and no operation became or ceased to be     *)
(* queued.                                                                 *)
LEMMA ItemsKept ==
  ASSUME TypeOK, ItemsInv, items' = items, Ids \subseteq Ids',
         \A i \in Ids : operations'[i].priority = operations[i].priority,
         \A i \in Ids : operations'[i].scope = operations[i].scope,
         \A i \in Ids : (operations'[i].phase = "queued")
                          <=> (operations[i].phase = "queued"),
         \A i \in Ids' : operations'[i].phase = "queued" => i \in Ids
  PROVE  ItemsInv'
<1>1. \A s : Queued(s)' = Queued(s)
  BY DEF Queued, Scope
<1>2. \A i \in Ids : RankOf(i)' = RankOf(i)
  BY DEF RankOf
<1>3. \A s \in Scopes : \A k \in DOMAIN items[s] : items[s][k] \in Ids
  BY DEF ItemsInv, Queued
<1>4. \A i, j \in Ids : RunsFirst(i, j) => RunsFirst(i, j)'
  BY <1>2 DEF RunsFirst
<1> QED
  BY <1>1, <1>3, <1>4 DEF ItemsInv

LEMMA ItemsTypeKept ==
  ASSUME TypeOK, items' = items, Ids \subseteq Ids'
  PROVE  items' \in [Scopes -> Seq(Ids')]
<1>1. \A s \in Scopes : items[s] \in Seq(Ids')
  BY SeqMonotonic DEF TypeOK
<1> QED
  BY <1>1 DEF TypeOK

(* Entering a run, or waiting for its permission check first.              *)
LEMMA EnterRunEffect ==
  ASSUME TypeOK, StackInv, NEW i \in Ids', Ids \subseteq Ids',
         \A k \in DOMAIN callStack : callStack[k] # i, NEW r, EnterRun(i, r),
         \A j \in Ids : j # i => operations'[j] = operations[j],
         operations'[i].phase = FirstPhase(r)
  PROVE  callStack' \in Seq(Ids') /\ StackInv'
<1>1. callStack \in Seq(Ids')
  BY SeqMonotonic DEF TypeOK
<1>2. \A k \in DOMAIN callStack : operations'[callStack[k]].phase = "executing"
  BY TypeFacts DEF StackInv
<1>3. CASE r.checkPermission
  BY <1>1, <1>2, <1>3 DEF EnterRun, StackInv
<1>4. CASE ~ r.checkPermission
  <2>1. callStack' = Append(callStack, i)
    BY <1>4 DEF EnterRun
  <2>2. operations'[i].phase = "executing"
    BY <1>4 DEF FirstPhase
  <2>3. /\ callStack' \in Seq(Ids')
        /\ Len(callStack') = Len(callStack) + 1
        /\ \A k \in 1 .. Len(callStack) : callStack'[k] = callStack[k]
        /\ callStack'[Len(callStack) + 1] = i
    BY <1>1, <2>1, AppendProperties
  <2>4. /\ DOMAIN callStack = 1 .. Len(callStack)
        /\ DOMAIN callStack' = 1 .. (Len(callStack) + 1)
        /\ Len(callStack) \in Nat
    BY <2>3, SeqFacts, TypeFacts
  <2>5. \A k \in DOMAIN callStack' : operations'[callStack'[k]].phase = "executing"
    BY <1>2, <2>2, <2>3, <2>4
  <2>6. \A j, k \in DOMAIN callStack' : callStack'[j] = callStack'[k] => j = k
    BY <2>3, <2>4 DEF StackInv
  <2> QED
    BY <2>3, <2>5, <2>6 DEF StackInv
<1> QED
  BY <1>3, <1>4

(* The call stack is left alone and what is on it goes on executing.       *)
LEMMA StackKept ==
  ASSUME TypeOK, StackInv, callStack' = callStack, Ids \subseteq Ids',
         \A k \in DOMAIN callStack :
           operations'[callStack[k]].phase = operations[callStack[k]].phase
  PROVE  callStack' \in Seq(Ids') /\ StackInv'
  BY SeqMonotonic DEF TypeOK, StackInv

LEMMA WaitersKept ==
  ASSUME TypeOK, NotifyWaiters
  PROVE  waiters' \subseteq [scope : Scopes, types : WaitFilters]
  BY DEF TypeOK, NotifyWaiters
-----------------------------------------------------------------------------
(* Every action keeps the invariant.                                       *)

LEMMA EnqueueInlineInv ==
  ASSUME IInv, Len(operations) < MaxOperations,
         NEW s \in Scopes, NEW r \in Requests, EnqueueInline(s, r)
  PROVE  IInv'
<1> DEFINE id == Len(operations) + 1
           outer == InnermostRun(s)
<1>1. /\ outer \in Ids
      /\ Scope(outer) = s
      /\ operations[outer].phase = "executing"
  BY InnermostRunProperties DEF EnqueueInline, IInv
<1>2. FirstPhase(r) \in {"checking", "executing"}
  BY DEF FirstPhase
<1>3. runningOperationId[s] \in {None} \cup Ids
  BY DEF IInv, TypeOK
<1>4. /\ operations' \in Seq(Operation)
      /\ Len(operations') <= MaxOperations
      /\ Ids' = Ids \cup {id}
      /\ id \notin Ids
      /\ \A i \in Ids : operations'[i] = operations[i]
      /\ operations'[id].phase = FirstPhase(r)
      /\ operations'[id].scope = s
      /\ operations'[id].outer = outer
      /\ operations'[id].prior = runningOperationId[s]
  <2>1. TypeOK /\ NewOperation(s, r, FirstPhase(r), outer, runningOperationId[s])
    BY DEF EnqueueInline, IInv
  <2> HIDE DEF outer
  <2>2. FirstPhase(r) \in {"queued", "checking", "executing"}
    BY <1>2
  <2>3. outer \in {None} \cup Ids
    BY <1>1
  <2>4. /\ operations' \in Seq(Operation)
        /\ Len(operations') <= MaxOperations
        /\ Ids' = Ids \cup {id}
        /\ id \notin Ids
        /\ \A i \in Ids : operations'[i] = operations[i] /\ i < id
        /\ operations'[id] =
             [scope |-> s, request |-> r, priority |-> EffectivePriority(r),
              phase |-> FirstPhase(r), outer |-> outer,
              prior |-> runningOperationId[s]]
    BY <1>3, <2>1, <2>2, <2>3, NewOperationEffect
  <2> QED
    BY <2>4
<1> HIDE DEF id, outer
<1>5. /\ items' = items /\ processing' = processing /\ awaiting' = awaiting
      /\ repoQueueErrors' = repoQueueErrors
      /\ runningOperationId' = [runningOperationId EXCEPT ![s] = id]
      /\ EnterRun(id, r)
      /\ NotifyWaiters
  BY DEF EnqueueInline, id
<1>6. callStack' \in Seq(Ids') /\ StackInv'
  <2>1. \A k \in DOMAIN callStack : callStack[k] # id
    BY <1>4, TypeFacts DEF IInv
  <2> QED
    BY <1>4, <1>5, <2>1, EnterRunEffect DEF IInv
<1>7. TypeOK'
  <2>1. items' \in [Scopes -> Seq(Ids')]
    BY <1>4, <1>5, ItemsTypeKept DEF IInv
  <2>2. waiters' \subseteq [scope : Scopes, types : WaitFilters]
    BY <1>5, WaitersKept DEF IInv
  <2> QED
    BY <1>4, <1>5, <1>6, <2>1, <2>2 DEF TypeOK, IInv
<1>8. InlineInv'
  <2>1. ASSUME NEW i \in Ids'
        PROVE  /\ operations'[i].phase = "queued" => operations'[i].outer = None
               /\ operations'[i].phase \in {"checking", "executing"}
                    /\ operations'[i].outer # None =>
                    /\ operations'[i].outer \in Ids'
                    /\ operations'[operations'[i].outer].phase = "executing"
                    /\ operations'[operations'[i].outer].scope = operations'[i].scope
    <3>1. CASE i = id
      BY <1>1, <1>2, <1>4, <3>1 DEF Scope
    <3>2. CASE i \in Ids
      BY <1>4, <3>2 DEF IInv, InlineInv, InFlight, IsInline, Scope
    <3> QED
      BY <1>4, <3>1, <3>2
  <2> QED
    BY <2>1 DEF InlineInv, InFlight, IsInline, Scope
<1>9. LoopInv'
  <2>1. ASSUME NEW i \in Ids', operations'[i].outer = None,
               operations'[i].phase \in {"checking", "executing"}
        PROVE  i \in Ids
    BY <1>1, <1>4, <2>1, TypeFacts DEF IInv
  <2> QED
    BY <1>4, <1>5, <2>1 DEF LoopInv, IInv, InFlight, IsInline, Scope
<1>10. ItemsInv'
  BY <1>2, <1>4, <1>5, ItemsKept DEF IInv
<1>11. PriorInv'
  BY <1>3, <1>4 DEF IInv, PriorInv
<1> QED
  BY <1>6, <1>7, <1>8, <1>9, <1>10, <1>11 DEF IInv

LEMMA EnqueueBehindInv ==
  ASSUME IInv, Len(operations) < MaxOperations,
         NEW s \in Scopes, NEW r \in Requests, EnqueueBehind(s, r)
  PROVE  IInv'
<1>0. PICK id, n, q, new :
        /\ id = Len(operations) + 1
        /\ n = InsertIndex(s, r)
        /\ q = items[s]
        /\ new = InsertAt(q, n, id)
  OBVIOUS
<1>1. /\ operations' \in Seq(Operation)
      /\ Len(operations') <= MaxOperations
      /\ Ids' = Ids \cup {id}
      /\ id \notin Ids
      /\ \A i \in Ids : operations'[i] = operations[i] /\ i < id
      /\ operations'[id] =
           [scope |-> s, request |-> r, priority |-> EffectivePriority(r),
            phase |-> "queued", outer |-> None, prior |-> None]
  BY <1>0, NewOperationEffect DEF EnqueueBehind, IInv
<1>2. /\ operations'[id].phase = "queued" /\ operations'[id].scope = s
      /\ operations'[id].outer = None /\ operations'[id].prior = None
      /\ operations'[id].priority = EffectivePriority(r)
  BY <1>1
<1>3. /\ q \in Seq(Ids) /\ q \in Seq(Ids')
      /\ items' = [items EXCEPT ![s] = new]
  <2>1. q \in Seq(Ids)
    BY <1>0 DEF IInv, TypeOK
  <2>2. q \in Seq(Ids')
    BY <1>1, <2>1, SeqMonotonic
  <2> QED
    BY <1>0, <2>1, <2>2 DEF EnqueueBehind
<1>4. /\ n \in 1 .. (Len(q) + 1)
      /\ \A k \in DOMAIN q : k < n => ~ (RankOf(q[k]) < Rank(r))
      /\ n \in DOMAIN q => RankOf(q[n]) < Rank(r)
  BY <1>0, <1>3, InsertIndexProperties
<1>5. /\ processing' = processing /\ awaiting' = awaiting
      /\ repoQueueErrors' = repoQueueErrors /\ callStack' = callStack
      /\ runningOperationId' = runningOperationId
      /\ NotifyWaiters /\ s \in processing
  BY DEF EnqueueBehind
<1>6. /\ new \in Seq(Ids')
      /\ Len(new) = Len(q) + 1
      /\ \A k \in 1 .. (Len(q) + 1) :
           new[k] = IF k < n THEN q[k] ELSE IF k = n THEN id ELSE q[k - 1]
  <2>0. PICK T : T = Ids'
    OBVIOUS
  <2>1. id \in T
    BY <1>1, <2>0
  <2>2. q \in Seq(T) /\ n \in 1 .. (Len(q) + 1)
    BY <1>3, <1>4, <2>0
  <2>3. /\ InsertAt(q, n, id) \in Seq(T)
        /\ Len(InsertAt(q, n, id)) = Len(q) + 1
        /\ \A k \in 1 .. (n - 1) : InsertAt(q, n, id)[k] = q[k]
        /\ InsertAt(q, n, id)[n] = id
        /\ \A k \in (n + 1) .. (Len(q) + 1) : InsertAt(q, n, id)[k] = q[k - 1]
    <3>1. /\ InsertAt(q, n, id) \in Seq(T)
          /\ Len(InsertAt(q, n, id)) = Len(q) + 1
      BY <2>1, <2>2, InsertAtProperties
    <3>2. \A k \in 1 .. (n - 1) : InsertAt(q, n, id)[k] = q[k]
      BY <2>1, <2>2, InsertAtProperties
    <3>3. InsertAt(q, n, id)[n] = id
      BY <2>1, <2>2, InsertAtProperties
    <3>4. \A k \in (n + 1) .. (Len(q) + 1) : InsertAt(q, n, id)[k] = q[k - 1]
      BY <2>1, <2>2, InsertAtProperties
    <3> QED
      BY <3>1, <3>2, <3>3, <3>4
  <2>4. Len(q) \in Nat /\ n \in Nat
    BY <1>3, <1>4, SeqFacts
  <2> QED
    BY <1>0, <2>0, <2>3, <2>4
<1>7. /\ items'[s] = new
      /\ \A t \in Scopes : t # s => items'[t] = items[t]
      /\ items' \in [Scopes -> Seq(Ids')]
  <2>1. \A t \in Scopes : items[t] \in Seq(Ids')
    BY <1>1, SeqMonotonic DEF IInv, TypeOK
  <2> QED
    BY <1>3, <1>6, <2>1 DEF IInv, TypeOK
<1>8. callStack' \in Seq(Ids') /\ StackInv'
  <2>1. \A k \in DOMAIN callStack : callStack[k] \in Ids
    BY TypeFacts DEF IInv
  <2> QED
    BY <1>1, <1>5, <2>1, StackKept DEF IInv
<1>9. TypeOK'
  <2>1. waiters' \subseteq [scope : Scopes, types : WaitFilters]
    BY <1>5, WaitersKept DEF IInv
  <2> QED
    BY <1>1, <1>5, <1>7, <1>8, <2>1 DEF TypeOK, IInv
<1>10. LoopInv'
  BY <1>1, <1>2, <1>5, <1>7 DEF LoopInv, IInv, InFlight, IsInline, Scope
<1>11. InlineInv'
  BY <1>1, <1>2 DEF IInv, InlineInv, InFlight, IsInline, Scope
<1>12. PriorInv'
  BY <1>1, <1>2 DEF IInv, PriorInv
<1>13. /\ \A t \in Scopes : t # s => Queued(t)' = Queued(t)
       /\ Queued(s)' = Queued(s) \cup {id}
       /\ Queued(s) \subseteq Ids
  BY <1>1, <1>2 DEF Queued, Scope
<1>14. /\ RankOf(id)' = Rank(r)
       /\ Rank(r) \in Nat
       /\ \A i \in Ids : RankOf(i)' = RankOf(i) /\ RankOf(i) \in Nat
  <2>1. \A i \in Ids : RankOf(i) \in Nat
    BY TypeFacts DEF IInv
  <2> QED
    BY <1>1, <1>2, <2>1 DEF RankOf, Rank, PriorityRank
<1>15. /\ Len(q) \in Nat /\ n \in Nat
       /\ DOMAIN q = 1 .. Len(q)
       /\ DOMAIN new = 1 .. (Len(q) + 1)
       /\ \A k \in 1 .. Len(q) : q[k] \in Queued(s)
       /\ \A j, k \in 1 .. Len(q) : j < k => RunsFirst(q[j], q[k])
       /\ \A i \in Queued(s) : \E k \in 1 .. Len(q) : q[k] = i
  <2>1. Len(q) \in Nat /\ DOMAIN q = 1 .. Len(q)
    BY <1>3, SeqFacts
  <2>2. DOMAIN new = 1 .. (Len(q) + 1)
    BY <1>6, SeqFacts
  <2>3. n \in Nat
    BY <1>4, <2>1
  <2> QED
    BY <1>0, <2>1, <2>2, <2>3 DEF IInv, ItemsInv
<1>16. ASSUME NEW k \in DOMAIN new PROVE new[k] \in Queued(s)'
  <2>1. CASE k < n
    <3>1. k \in 1 .. Len(q) /\ new[k] = q[k]
      BY <1>4, <1>6, <1>15, <2>1
    <3> QED
      BY <1>13, <1>15, <3>1
  <2>2. CASE k = n
    BY <1>6, <1>13, <1>15, <2>2
  <2>3. CASE k > n
    <3>1. k - 1 \in 1 .. Len(q) /\ new[k] = q[k - 1]
      BY <1>4, <1>6, <1>15, <2>3
    <3> QED
      BY <1>13, <1>15, <3>1
  <2> QED
    BY <1>15, <2>1, <2>2, <2>3
<1>17. ASSUME NEW i \in Queued(s)' PROVE \E k \in DOMAIN new : new[k] = i
  <2>1. CASE i = id
    <3>1. n \in DOMAIN new /\ new[n] = id
      BY <1>4, <1>6, <1>15
    <3> QED
      BY <2>1, <3>1
  <2>2. CASE i \in Queued(s)
    <3>1. PICK k \in 1 .. Len(q) : q[k] = i
      BY <1>15, <2>2
    <3>2. CASE k < n
      BY <1>6, <1>15, <3>1, <3>2
    <3>3. CASE ~ (k < n)
      <4>1. k + 1 \in 1 .. (Len(q) + 1) /\ ~ (k + 1 < n) /\ k + 1 # n
            /\ (k + 1) - 1 = k
        BY <1>15, <3>3
      <4>2. new[k + 1] = q[k]
        BY <1>6, <4>1
      <4> QED
        BY <1>15, <3>1, <4>1, <4>2
    <3> QED
      BY <3>2, <3>3
  <2> QED
    BY <1>13, <2>1, <2>2
<1>18. ASSUME NEW j \in DOMAIN new, NEW k \in DOMAIN new, j < k
       PROVE  RunsFirst(new[j], new[k])'
  <2> DEFINE old(m) == IF m < n THEN m ELSE m - 1
  <2>1. \A m \in DOMAIN new : m # n =>
          old(m) \in 1 .. Len(q) /\ new[m] = q[old(m)] /\ q[old(m)] \in Ids
    BY <1>4, <1>6, <1>13, <1>15
  <2>2. new[n] = id
    BY <1>4, <1>6, <1>15
  <2>3. \A a, b \in Ids : RunsFirst(a, b) => RunsFirst(a, b)'
    BY <1>14 DEF RunsFirst
  <2>4. \A a \in 1 .. Len(q) : a < n => RankOf(q[a]) >= Rank(r)
    <3> SUFFICES ASSUME NEW a \in 1 .. Len(q), a < n
                 PROVE  RankOf(q[a]) >= Rank(r)
      OBVIOUS
    <3>1. ~ (RankOf(q[a]) < Rank(r))
      BY <1>4, <1>15
    <3>2. q[a] \in Ids
      BY <1>13, <1>15
    <3>3. RankOf(q[a]) \in Nat /\ Rank(r) \in Nat
      BY <1>14, <3>2
    <3> QED
      BY <3>1, <3>3
  <2>5. \A a \in 1 .. Len(q) : a >= n => RankOf(q[a]) < Rank(r)
    <3> SUFFICES ASSUME NEW a \in 1 .. Len(q), a >= n
                 PROVE  RankOf(q[a]) < Rank(r)
      OBVIOUS
    <3>1. n \in 1 .. Len(q) /\ RankOf(q[n]) < Rank(r)
      BY <1>4, <1>15
    <3>2. a = n \/ RunsFirst(q[n], q[a])
      BY <1>15, <3>1
    <3>3. q[n] \in Ids /\ q[a] \in Ids
      BY <1>13, <1>15, <3>1
    <3> QED
      BY <1>14, <3>1, <3>2, <3>3 DEF RunsFirst
  <2>6. j \in Nat /\ k \in Nat
    BY <1>15
  <2>7. CASE j = n
    <3>1. k > n /\ k - 1 \in 1 .. Len(q) /\ new[k] = q[k - 1] /\ k - 1 >= n
      BY <1>15, <1>18, <2>1, <2>6, <2>7
    <3>2. RankOf(q[k - 1]) < Rank(r) /\ q[k - 1] \in Ids
      BY <1>13, <1>15, <2>5, <3>1
    <3> QED
      BY <1>1, <1>14, <2>2, <2>7, <3>1, <3>2 DEF RunsFirst
  <2>8. CASE k = n
    <3>1. j < n /\ j \in 1 .. Len(q) /\ new[j] = q[j]
      BY <1>15, <1>18, <2>1, <2>6, <2>8
    <3>2. RankOf(q[j]) >= Rank(r) /\ q[j] \in Ids /\ q[j] < id
      BY <1>1, <1>13, <1>15, <2>4, <3>1
    <3> QED
      BY <1>14, <2>2, <2>8, <3>1, <3>2 DEF RunsFirst
  <2>9. CASE j # n /\ k # n
    <3>1. old(j) < old(k)
      BY <1>15, <1>18, <2>6, <2>9
    <3>2. RunsFirst(q[old(j)], q[old(k)])
      BY <1>15, <2>1, <2>9, <3>1
    <3> HIDE DEF old
    <3> QED
      BY <2>1, <2>3, <2>9, <3>2
  <2> QED
    BY <2>7, <2>8, <2>9
<1>19. ItemsInv'
  <2>1. ASSUME NEW t \in Scopes, t # s
        PROVE  (/\ \A k \in DOMAIN items[t] : items[t][k] \in Queued(t)
                /\ \A i \in Queued(t) : \E k \in DOMAIN items[t] : items[t][k] = i
                /\ \A j, k \in DOMAIN items[t] :
                     j < k => RunsFirst(items[t][j], items[t][k]))'
    <3>1. items'[t] = items[t] /\ Queued(t)' = Queued(t) /\ Queued(t) \subseteq Ids
      BY <1>7, <1>13, <2>1 DEF Queued
    <3>2. \A a, b \in Ids : RunsFirst(a, b) => RunsFirst(a, b)'
      BY <1>14 DEF RunsFirst
    <3> QED
      BY <3>1, <3>2 DEF IInv, ItemsInv
  <2> QED
    BY <1>7, <1>16, <1>17, <1>18, <2>1 DEF ItemsInv
<1> QED
  BY <1>8, <1>9, <1>10, <1>11, <1>12, <1>19 DEF IInv

LEMMA EnqueueAndStartInv ==
  ASSUME IInv, Len(operations) < MaxOperations,
         NEW s \in Scopes, NEW r \in Requests, EnqueueAndStart(s, r)
  PROVE  IInv'
<1>0. PICK id : id = Len(operations) + 1
  OBVIOUS
<1>1. FirstPhase(r) \in {"queued", "checking", "executing"}
      /\ FirstPhase(r) # "queued"
  BY DEF FirstPhase
<1>2. runningOperationId[s] \in {None} \cup Ids
  BY DEF IInv, TypeOK
<1>3. /\ operations' \in Seq(Operation)
      /\ Len(operations') <= MaxOperations
      /\ Ids' = Ids \cup {id}
      /\ id \notin Ids
      /\ \A i \in Ids : operations'[i] = operations[i]
      /\ operations'[id].phase = FirstPhase(r)
      /\ operations'[id].scope = s
      /\ operations'[id].outer = None
      /\ operations'[id].prior = runningOperationId[s]
  <2>1. TypeOK /\ NewOperation(s, r, FirstPhase(r), None, runningOperationId[s])
    BY DEF EnqueueAndStart, IInv
  <2>2. /\ operations' \in Seq(Operation)
        /\ Len(operations') <= MaxOperations
        /\ Ids' = Ids \cup {id}
        /\ id \notin Ids
        /\ \A i \in Ids : operations'[i] = operations[i] /\ i < id
        /\ operations'[id] =
             [scope |-> s, request |-> r, priority |-> EffectivePriority(r),
              phase |-> FirstPhase(r), outer |-> None,
              prior |-> runningOperationId[s]]
    BY <1>0, <1>1, <1>2, <2>1, NewOperationEffect
  <2> QED
    BY <2>2
<1>4. /\ items' = items /\ repoQueueErrors' = repoQueueErrors
      /\ s \notin processing /\ processing' = processing \cup {s}
      /\ awaiting' = [awaiting EXCEPT ![s] = id]
      /\ runningOperationId' = [runningOperationId EXCEPT ![s] = id]
      /\ EnterRun(id, r)
      /\ NotifyWaiters
  BY <1>0 DEF EnqueueAndStart
<1>5. callStack' \in Seq(Ids') /\ StackInv'
  <2>1. \A k \in DOMAIN callStack : callStack[k] # id
    BY <1>3, TypeFacts DEF IInv
  <2> QED
    BY <1>3, <1>4, <2>1, EnterRunEffect DEF IInv
<1>6. TypeOK'
  <2>1. items' \in [Scopes -> Seq(Ids')]
    BY <1>3, <1>4, ItemsTypeKept DEF IInv
  <2>2. waiters' \subseteq [scope : Scopes, types : WaitFilters]
    BY <1>4, WaitersKept DEF IInv
  <2> QED
    BY <1>3, <1>4, <1>5, <2>1, <2>2 DEF TypeOK, IInv
<1>7. InlineInv'
  BY <1>1, <1>3 DEF IInv, InlineInv, InFlight, IsInline, Scope
<1>8. LoopInv'
  <2>1. ASSUME NEW t \in Scopes
        PROVE  /\ t \in processing' => awaiting'[t] \in Ids'
               /\ t \notin processing' => items'[t] = <<>>
               /\ \A i \in Ids' :
                    operations'[i].phase \in {"checking", "executing"}
                      /\ operations'[i].outer = None
                      /\ operations'[i].scope = t =>
                      t \in processing' /\ awaiting'[t] = i
    <3>1. CASE t = s
      BY <1>3, <1>4, <3>1 DEF IInv, TypeOK, LoopInv, InFlight, IsInline, Scope
    <3>2. CASE t # s
      <4>1. awaiting'[t] = awaiting[t] /\ (t \in processing' <=> t \in processing)
        BY <1>4, <3>2 DEF IInv, TypeOK
      <4>2. /\ t \in processing => awaiting[t] \in Ids
            /\ t \notin processing => items[t] = <<>>
        BY DEF IInv, LoopInv
      <4>3. ASSUME NEW i \in Ids', operations'[i].outer = None,
                   operations'[i].phase \in {"checking", "executing"},
                   operations'[i].scope = t
            PROVE  t \in processing /\ awaiting[t] = i
        <5>1. i \in Ids /\ operations'[i] = operations[i]
          BY <1>3, <3>2, <4>3
        <5> QED
          BY <4>3, <5>1 DEF IInv, LoopInv, InFlight, IsInline, Scope
      <4> QED
        BY <1>3, <1>4, <4>1, <4>2, <4>3
    <3> QED
      BY <3>1, <3>2
  <2> QED
    BY <2>1 DEF LoopInv, InFlight, IsInline, Scope
<1>9. ItemsInv'
  BY <1>1, <1>3, <1>4, ItemsKept DEF IInv
<1>10. PriorInv'
  BY <1>2, <1>3 DEF IInv, PriorInv
<1> QED
  BY <1>5, <1>6, <1>7, <1>8, <1>9, <1>10 DEF IInv

(* An operation in flight changes phase: its permission is granted, or it  *)
(* is settled when no inline operation is in flight under it.              *)
LEMMA InFlightStep ==
  ASSUME IInv, NEW i \in Ids, InFlight(i),
         NEW ph \in {"executing", "succeeded", "failed"},
         operations' = [operations EXCEPT ![i].phase = ph],
         ph = "executing" \/ Inner(i) = {} \/ operations[i].phase = "checking",
         items' = items, processing' = processing, awaiting' = awaiting
  PROVE  /\ Ids' = Ids
         /\ \A j \in Ids : j # i => operations'[j] = operations[j]
         /\ operations'[i].phase = ph
         /\ operations' \in Seq(Operation)
         /\ Len(operations') <= MaxOperations
         /\ LoopInv' /\ InlineInv' /\ ItemsInv' /\ PriorInv'
<1>1. /\ operations' \in Seq(Operation)
      /\ Len(operations') <= MaxOperations
      /\ Ids' = Ids
      /\ \A j \in Ids : j # i => operations'[j] = operations[j]
      /\ operations'[i].phase = ph
      /\ operations'[i].scope = operations[i].scope
      /\ operations'[i].outer = operations[i].outer
      /\ operations'[i].request = operations[i].request
      /\ operations'[i].priority = operations[i].priority
  BY SettleEffect DEF IInv
<1>2. operations'[i].prior = operations[i].prior
  <2>1. operations \in Seq(Operation) /\ operations[i] \in Operation
    BY TypeFacts DEF IInv, TypeOK
  <2>2. operations'[i] = [operations[i] EXCEPT !.phase = ph]
    BY <2>1 DEF Ids
  <2> QED
    BY <2>1, <2>2 DEF Operation
<1>3. \A j \in Ids : /\ operations'[j].scope = operations[j].scope
                    /\ operations'[j].outer = operations[j].outer
                    /\ operations'[j].priority = operations[j].priority
                    /\ operations'[j].prior = operations[j].prior
  BY <1>1, <1>2
<1>4. \A j \in Ids :
        operations'[j].phase \in {"checking", "executing"} => InFlight(j)
  BY <1>1 DEF InFlight
<1>5. LoopInv'
  BY <1>1, <1>3, <1>4 DEF IInv, LoopInv, InFlight, IsInline, Scope
<1>6. InlineInv'
  <2>1. ASSUME NEW j \in Ids
        PROVE  /\ operations'[j].phase = "queued" => operations'[j].outer = None
               /\ operations'[j].phase \in {"checking", "executing"}
                    /\ operations'[j].outer # None =>
                    /\ operations'[j].outer \in Ids'
                    /\ operations'[operations'[j].outer].phase = "executing"
                    /\ operations'[operations'[j].outer].scope = operations'[j].scope
    <3>1. operations'[j].phase = "queued" => operations'[j].outer = None
      BY <1>1, <1>3 DEF IInv, InlineInv, IsInline
    <3>2. ASSUME InFlight(j), IsInline(j), operations'[j].phase \in {"checking", "executing"}
          PROVE  /\ operations[j].outer \in Ids
                 /\ operations'[operations[j].outer].phase = "executing"
                 /\ operations'[operations[j].outer].scope = operations[j].scope
      <4>1. /\ operations[j].outer \in Ids
            /\ operations[operations[j].outer].phase = "executing"
            /\ operations[operations[j].outer].scope = operations[j].scope
        BY <3>2 DEF IInv, InlineInv, Scope
      <4>2. CASE operations[j].outer = i
        <5>1. j \in Inner(i)
          BY <3>2, <4>2 DEF Inner, InFlight, IsSettled
        <5> QED
          BY <1>1, <4>1, <4>2, <5>1
      <4>3. CASE operations[j].outer # i
        BY <1>1, <4>1, <4>3
      <4> QED
        BY <4>2, <4>3
    <3> QED
      BY <1>1, <1>3, <1>4, <3>1, <3>2 DEF IsInline
  <2> QED
    BY <1>1, <2>1 DEF InlineInv, InFlight, IsInline, Scope
<1>7. ItemsInv'
  BY <1>1, <1>3, ItemsKept DEF IInv, InFlight
<1>8. PriorInv'
  BY <1>1, <1>3 DEF IInv, PriorInv
<1> QED
  BY <1>1, <1>5, <1>6, <1>7, <1>8

LEMMA PermissionGrantedInv ==
  ASSUME IInv, NEW i \in Ids, PermissionGranted(i)
  PROVE  IInv'
<1>1. /\ Ids' = Ids
      /\ operations'[i].phase = "executing"
      /\ operations' \in Seq(Operation)
      /\ Len(operations') <= MaxOperations
      /\ LoopInv' /\ InlineInv' /\ ItemsInv' /\ PriorInv'
  <2>1. /\ InFlight(i)
        /\ operations' = [operations EXCEPT ![i].phase = "executing"]
        /\ items' = items /\ processing' = processing /\ awaiting' = awaiting
    BY DEF PermissionGranted, InFlight
  <2> QED
    BY <2>1, InFlightStep
<1>2. callStack' \in Seq(Ids') /\ StackInv'
  <2>1. callStack' = <<i>> /\ i \in Ids'
    BY <1>1 DEF PermissionGranted
  <2> QED
    BY <1>1, <2>1 DEF StackInv
<1>3. TypeOK'
  BY <1>1, <1>2 DEF IInv, TypeOK, PermissionGranted
<1> QED
  BY <1>1, <1>2, <1>3 DEF IInv

(* Settling an operation that is not on the call stack any more.           *)
LEMMA SettleAsInv ==
  ASSUME IInv, NEW i \in Ids, InFlight(i),
         NEW outcome \in {"succeeded", "failed"}, SettleAs(i, outcome),
         Inner(i) = {} \/ operations[i].phase = "checking",
         items' = items, processing' = processing, awaiting' = awaiting,
         NotifyWaiters, callStack' \in Seq(Ids),
         \A k \in DOMAIN callStack' :
           callStack'[k] # i /\ operations[callStack'[k]].phase = "executing",
         \A j, k \in DOMAIN callStack' : callStack'[j] = callStack'[k] => j = k
  PROVE  IInv'
<1>1. /\ Ids' = Ids
      /\ \A j \in Ids : j # i => operations'[j] = operations[j]
      /\ operations' \in Seq(Operation)
      /\ Len(operations') <= MaxOperations
      /\ LoopInv' /\ InlineInv' /\ ItemsInv' /\ PriorInv'
  BY InFlightStep DEF SettleAs
<1>2. StackInv'
  <2>1. \A k \in DOMAIN callStack' : callStack'[k] \in Ids
    BY SeqFacts
  <2> QED
    BY <1>1, <2>1 DEF StackInv
<1>3. TypeOK'
  <2>1. waiters' \subseteq [scope : Scopes, types : WaitFilters]
    BY WaitersKept DEF IInv
  <2>2. repoQueueErrors' \subseteq Ids
    BY DEF SettleAs, IInv, TypeOK
  <2>3. runningOperationId' \in [Scopes -> {None} \cup Ids]
    BY DEF SettleAs, IInv, TypeOK, PriorInv, RestoredRunningId
  <2> QED
    BY <1>1, <2>1, <2>2, <2>3 DEF IInv, TypeOK
<1> QED
  BY <1>1, <1>2, <1>3 DEF IInv

LEMMA PermissionDeniedInv ==
  ASSUME IInv, NEW i \in Ids, PermissionDenied(i)
  PROVE  IInv'
<1>1. /\ InFlight(i) /\ SettleAs(i, "failed") /\ operations[i].phase = "checking"
      /\ items' = items /\ processing' = processing /\ awaiting' = awaiting
      /\ NotifyWaiters
      /\ callStack' = <<>> /\ callStack' \in Seq(Ids)
      /\ DOMAIN callStack' = {}
  BY DEF PermissionDenied, InFlight
<1> QED
  BY <1>1, SettleAsInv

LEMMA RunSettlesInv ==
  ASSUME IInv, NEW i \in Ids, NEW outcome \in {"succeeded", "failed"},
         RunSettles(i, outcome)
  PROVE  IInv'
<1>1. /\ InFlight(i) /\ SettleAs(i, outcome) /\ Inner(i) = {}
      /\ items' = items /\ processing' = processing /\ awaiting' = awaiting
      /\ NotifyWaiters
      /\ callStack' = <<>> /\ callStack' \in Seq(Ids)
      /\ DOMAIN callStack' = {}
  BY DEF RunSettles, InFlight
<1> QED
  BY <1>1, SettleAsInv

(* Taking the operation at the top off the call stack.                     *)
LEMMA PopCallStack ==
  ASSUME TypeOK, StackInv, callStack # <<>>, callStack' = Front(callStack)
  PROVE  /\ Last(callStack) \in Ids
         /\ operations[Last(callStack)].phase = "executing"
         /\ callStack' \in Seq(Ids)
         /\ \A k \in DOMAIN callStack' :
              callStack'[k] # Last(callStack)
              /\ operations[callStack'[k]].phase = "executing"
         /\ \A j, k \in DOMAIN callStack' :
              callStack'[j] = callStack'[k] => j = k
<1>1. /\ Len(callStack) \in Nat /\ Len(callStack) # 0
      /\ DOMAIN callStack = 1 .. Len(callStack)
      /\ \A k \in 1 .. Len(callStack) : callStack[k] \in Ids
      /\ callStack \in Seq(Ids)
  BY TypeFacts, EmptySeq DEF TypeOK
<1>2. /\ callStack' \in Seq(Ids)
      /\ Len(callStack') = Len(callStack) - 1
      /\ \A k \in 1 .. (Len(callStack) - 1) : callStack'[k] = callStack[k]
  <2>1. \A k \in 1 .. (Len(callStack) - 1) : callStack[k] \in Ids
    BY <1>1
  <2> QED
    BY <1>1, <2>1, SubSeqProperties DEF Front
<1>3. DOMAIN callStack' = 1 .. (Len(callStack) - 1)
  BY <1>2, SeqFacts
<1>4. Len(callStack) \in DOMAIN callStack /\ Last(callStack) = callStack[Len(callStack)]
  BY <1>1 DEF Last
<1> QED
  BY <1>1, <1>2, <1>3, <1>4 DEF StackInv

LEMMA RunReturnsInv ==
  ASSUME IInv, RunReturns
  PROVE  IInv'
<1>1. /\ callStack' \in Seq(Ids)
      /\ \A k \in DOMAIN callStack' : operations[callStack'[k]].phase = "executing"
      /\ \A j, k \in DOMAIN callStack' : callStack'[j] = callStack'[k] => j = k
  BY PopCallStack DEF IInv, RunReturns
<1>2. StackInv'
  BY <1>1 DEF RunReturns, StackInv
<1>3. UNCHANGED <<operations, items, runningOperationId, processing, awaiting,
                  repoQueueErrors, waiters>>
  BY DEF RunReturns
<1>4. TypeOK' /\ LoopInv' /\ InlineInv' /\ ItemsInv' /\ PriorInv'
  BY <1>1, <1>3 DEF IInv, TypeOK, LoopInv, InlineInv, ItemsInv, PriorInv, Ids,
     InFlight, IsInline, Scope, Queued, RunsFirst, RankOf
<1> QED
  BY <1>2, <1>4 DEF IInv

LEMMA RunThrowsInv ==
  ASSUME IInv, RunThrows
  PROVE  IInv'
<1>1. PICK i : i = Last(callStack)
  OBVIOUS
<1>2. /\ SettleAs(i, "failed") /\ Inner(i) = {}
      /\ items' = items /\ processing' = processing /\ awaiting' = awaiting
      /\ NotifyWaiters
  BY <1>1 DEF RunThrows
<1>3. /\ i \in Ids /\ InFlight(i)
      /\ callStack' \in Seq(Ids)
      /\ \A k \in DOMAIN callStack' :
           callStack'[k] # i /\ operations[callStack'[k]].phase = "executing"
      /\ \A j, k \in DOMAIN callStack' : callStack'[j] = callStack'[k] => j = k
  BY <1>1, PopCallStack DEF IInv, RunThrows, InFlight
<1> QED
  BY <1>2, <1>3, SettleAsInv

LEMMA StartNextInv ==
  ASSUME IInv, NEW s \in Scopes, StartNext(s)
  PROVE  IInv'
<1>1. PICK id, q, r, prior :
        /\ q = items[s]
        /\ id = Head(q)
        /\ r = operations[id].request
        /\ prior = runningOperationId[s]
  OBVIOUS
<1>2. /\ operations' = [operations EXCEPT ![id].phase = FirstPhase(r),
                                         ![id].prior = prior]
      /\ runningOperationId' = [runningOperationId EXCEPT ![s] = id]
      /\ awaiting' = [awaiting EXCEPT ![s] = id]
      /\ EnterRun(id, r)
      /\ items' = [items EXCEPT ![s] = Tail(q)]
      /\ processing' = processing /\ repoQueueErrors' = repoQueueErrors
      /\ NotifyWaiters
      /\ q # <<>> /\ s \in processing /\ IsSettled(awaiting[s])
  BY <1>1 DEF StartNext, LoopResumes
<1>3. /\ q \in Seq(Ids)
      /\ Len(q) \in Nat /\ Len(q) >= 1
      /\ DOMAIN q = 1 .. Len(q)
      /\ id = q[1]
      /\ Tail(q) \in Seq(Ids)
      /\ DOMAIN Tail(q) = 1 .. (Len(q) - 1)
      /\ \A k \in 1 .. (Len(q) - 1) : Tail(q)[k] = q[k + 1]
  <2>1. q \in Seq(Ids)
    BY <1>1 DEF IInv, TypeOK
  <2>2. Len(q) \in Nat /\ DOMAIN q = 1 .. Len(q) /\ Len(q) # 0
    BY <1>2, <2>1, SeqFacts, EmptySeq
  <2>3. /\ Tail(q) \in Seq(Ids)
        /\ Len(Tail(q)) = Len(q) - 1
        /\ \A k \in 1 .. Len(Tail(q)) : Tail(q)[k] = q[k + 1]
    BY <1>2, <2>1, HeadTailProperties
  <2>4. DOMAIN Tail(q) = 1 .. (Len(q) - 1)
    BY <2>3, SeqFacts
  <2>5. id = q[1]
    BY <1>1, <2>1, <2>2
  <2> QED
    BY <2>1, <2>2, <2>3, <2>4, <2>5
<1>4. /\ \A k \in 1 .. Len(q) : q[k] \in Queued(s)
      /\ \A i \in Queued(s) : \E k \in 1 .. Len(q) : q[k] = i
      /\ \A j, k \in 1 .. Len(q) : j < k => RunsFirst(q[j], q[k])
  BY <1>1, <1>3 DEF IInv, ItemsInv
<1>5. /\ id \in Ids /\ operations[id].phase = "queued" /\ Scope(id) = s
      /\ operations[id].outer = None
  <2>1. id \in Queued(s)
    BY <1>3, <1>4
  <2> QED
    BY <2>1 DEF Queued, IInv, InlineInv, IsInline
<1>6. /\ FirstPhase(r) \in {"checking", "executing"}
      /\ prior \in {None} \cup Ids
  BY <1>1 DEF FirstPhase, IInv, TypeOK
<1>7. /\ operations' \in Seq(Operation)
      /\ Len(operations') <= MaxOperations
      /\ Ids' = Ids
      /\ \A j \in Ids : j # id => operations'[j] = operations[j]
      /\ operations'[id].phase = FirstPhase(r)
      /\ operations'[id].scope = operations[id].scope
      /\ operations'[id].outer = operations[id].outer
      /\ operations'[id].priority = operations[id].priority
  <2>1. FirstPhase(r) \in {"queued", "checking", "executing", "succeeded", "failed"}
    BY <1>6
  <2>2. TypeOK
    BY DEF IInv
  <2> QED
    BY <1>2, <1>5, <1>6, <2>1, <2>2, PhaseEffect
<1>8. operations'[id].prior = prior
  <2>1. operations \in Seq(Operation) /\ operations[id] \in Operation
    BY <1>5, TypeFacts DEF IInv, TypeOK
  <2>2. operations'[id] =
          [operations[id] EXCEPT !.phase = FirstPhase(r), !.prior = prior]
    BY <1>2, <1>5, <2>1 DEF Ids
  <2> QED
    BY <2>1, <2>2 DEF Operation
<1>9. callStack' \in Seq(Ids') /\ StackInv'
  <2>1. \A k \in DOMAIN callStack : callStack[k] # id
    BY <1>5 DEF IInv, StackInv
  <2> QED
    BY <1>2, <1>5, <1>7, <2>1, EnterRunEffect DEF IInv
<1>10. TypeOK'
  <2>1. items' \in [Scopes -> Seq(Ids')]
    BY <1>2, <1>3, <1>7 DEF IInv, TypeOK
  <2>2. waiters' \subseteq [scope : Scopes, types : WaitFilters]
    BY <1>2, WaitersKept DEF IInv
  <2> QED
    BY <1>2, <1>5, <1>7, <1>9, <2>1, <2>2 DEF TypeOK, IInv
<1>11. InlineInv'
  <2>1. ASSUME NEW j \in Ids
        PROVE  /\ operations'[j].phase = "queued" => operations'[j].outer = None
               /\ operations'[j].phase \in {"checking", "executing"}
                    /\ operations'[j].outer # None =>
                    /\ operations'[j].outer \in Ids'
                    /\ operations'[operations'[j].outer].phase = "executing"
                    /\ operations'[operations'[j].outer].scope = operations'[j].scope
    <3>1. CASE j = id
      BY <1>5, <1>7, <3>1
    <3>2. CASE j # id
      <4>1. operations'[j] = operations[j]
        BY <1>7, <3>2
      <4>2. operations[j].outer = id =>
              ~ (operations[j].phase \in {"checking", "executing"})
        BY <1>5, TypeFacts DEF IInv, InlineInv, InFlight, IsInline
      <4> QED
        BY <1>7, <4>1, <4>2 DEF IInv, InlineInv, InFlight, IsInline, Scope
    <3> QED
      BY <3>1, <3>2
  <2> QED
    BY <1>7, <2>1 DEF InlineInv, InFlight, IsInline, Scope
<1>12. LoopInv'
  <2>1. ASSUME NEW t \in Scopes
        PROVE  /\ t \in processing' => awaiting'[t] \in Ids'
               /\ t \notin processing' => items'[t] = <<>>
               /\ \A i \in Ids' :
                    operations'[i].phase \in {"checking", "executing"}
                      /\ operations'[i].outer = None
                      /\ operations'[i].scope = t =>
                      t \in processing' /\ awaiting'[t] = i
    <3>1. CASE t = s
      <4>1. awaiting'[t] = id
        BY <1>2, <3>1 DEF IInv, TypeOK
      <4>2. ASSUME NEW i \in Ids', i # id, operations'[i].outer = None,
                   operations'[i].phase \in {"checking", "executing"},
                   operations'[i].scope = t
            PROVE  FALSE
        <5>1. i \in Ids /\ operations'[i] = operations[i]
          BY <1>7, <4>2
        <5>2. awaiting[s] = i
          BY <3>1, <4>2, <5>1 DEF IInv, LoopInv, InFlight, IsInline, Scope
        <5> QED
          BY <1>2, <4>2, <5>1, <5>2 DEF IsSettled
      <4>3. processing' = processing /\ s \in processing /\ id \in Ids' /\ Ids' = Ids
        BY <1>2, <1>5, <1>7
      <4>4. ASSUME NEW i \in Ids', operations'[i].outer = None,
                   operations'[i].phase \in {"checking", "executing"},
                   operations'[i].scope = t
            PROVE  awaiting'[t] = i
        BY <4>1, <4>2, <4>4
      <4> QED
        BY <3>1, <4>1, <4>3, <4>4
    <3>2. CASE t # s
      <4>1. awaiting'[t] = awaiting[t] /\ items'[t] = items[t]
        BY <1>2, <3>2 DEF IInv, TypeOK
      <4>2. /\ t \in processing => awaiting[t] \in Ids
            /\ t \notin processing => items[t] = <<>>
        BY DEF IInv, LoopInv
      <4>3. ASSUME NEW i \in Ids', operations'[i].outer = None,
                   operations'[i].phase \in {"checking", "executing"},
                   operations'[i].scope = t
            PROVE  t \in processing /\ awaiting[t] = i
        <5>1. i \in Ids /\ operations'[i] = operations[i]
          BY <1>5, <1>7, <3>2, <4>3 DEF Scope
        <5> QED
          BY <4>3, <5>1 DEF IInv, LoopInv, InFlight, IsInline, Scope
      <4>4. processing' = processing /\ Ids' = Ids
        BY <1>2, <1>7
      <4> QED
        BY <4>1, <4>2, <4>3, <4>4
    <3> QED
      BY <3>1, <3>2
  <2> QED
    BY <2>1 DEF LoopInv, InFlight, IsInline, Scope
<1>13. /\ \A t \in Scopes : t # s => Queued(t)' = Queued(t)
       /\ Queued(s)' = Queued(s) \ {id}
       /\ \A t \in Scopes : Queued(t) \subseteq Ids
  BY <1>5, <1>6, <1>7 DEF Queued, Scope
<1>14. \A a, b \in Ids : RunsFirst(a, b) => RunsFirst(a, b)'
  BY <1>7 DEF RunsFirst, RankOf
<1>15. ItemsInv'
  <2>1. ASSUME NEW t \in Scopes
        PROVE  (/\ \A k \in DOMAIN items[t] : items[t][k] \in Queued(t)
                /\ \A i \in Queued(t) : \E k \in DOMAIN items[t] : items[t][k] = i
                /\ \A j, k \in DOMAIN items[t] :
                     j < k => RunsFirst(items[t][j], items[t][k]))'
    <3>1. CASE t # s
      <4>1. items'[t] = items[t] /\ Queued(t)' = Queued(t) /\ Queued(t) \subseteq Ids
        BY <1>2, <1>13, <3>1 DEF IInv, TypeOK
      <4> QED
        BY <1>14, <4>1 DEF IInv, ItemsInv
    <3>2. CASE t = s
      <4>1. PICK tl : tl = Tail(q)
        OBVIOUS
      <4>2. items'[t] = tl
        BY <1>2, <3>2, <4>1 DEF IInv, TypeOK
      <4>3. /\ DOMAIN tl = 1 .. (Len(q) - 1)
            /\ \A k \in 1 .. (Len(q) - 1) :
                 tl[k] = q[k + 1] /\ k + 1 \in 1 .. Len(q)
        BY <1>3, <4>1
      <4>4. \A k \in DOMAIN tl : tl[k] \in Queued(s)'
        <5> SUFFICES ASSUME NEW k \in DOMAIN tl PROVE tl[k] \in Queued(s)'
          OBVIOUS
        <5>1. RunsFirst(q[1], q[k + 1])
          BY <1>3, <1>4, <4>3
        <5>2. q[k + 1] # id
          <6>1. RankOf(id) \in 0 .. 2 /\ id \in Nat
            BY <1>5, TypeFacts DEF IInv
          <6> QED
            BY <1>3, <5>1, <6>1 DEF RunsFirst
        <5> QED
          BY <1>4, <1>13, <4>3, <5>2
      <4>5. \A i \in Queued(s)' : \E k \in DOMAIN tl : tl[k] = i
        <5> SUFFICES ASSUME NEW i \in Queued(s)' PROVE \E k \in DOMAIN tl : tl[k] = i
          OBVIOUS
        <5>1. PICK k \in 1 .. Len(q) : q[k] = i
          BY <1>4, <1>13
        <5>2. k - 1 \in 1 .. (Len(q) - 1) /\ (k - 1) + 1 = k
          BY <1>3, <1>13, <5>1
        <5> QED
          BY <4>3, <5>1, <5>2
      <4>6. ASSUME NEW j \in DOMAIN tl, NEW k \in DOMAIN tl, j < k
            PROVE  RunsFirst(tl[j], tl[k])'
        <5>1. RunsFirst(q[j + 1], q[k + 1])
          BY <1>3, <1>4, <4>3, <4>6
        <5>2. q[j + 1] \in Ids /\ q[k + 1] \in Ids
          BY <1>4, <1>13, <4>3
        <5> QED
          BY <1>14, <4>3, <5>1, <5>2
      <4> QED
        BY <3>2, <4>2, <4>4, <4>5, <4>6
    <3> QED
      BY <3>1, <3>2
  <2> QED
    BY <2>1 DEF ItemsInv
<1>16. PriorInv'
  BY <1>6, <1>7, <1>8 DEF IInv, PriorInv
<1> QED
  BY <1>9, <1>10, <1>11, <1>12, <1>15, <1>16 DEF IInv

LEMMA StopProcessingInv ==
  ASSUME IInv, NEW s \in Scopes, StopProcessing(s)
  PROVE  IInv'
<1>1. /\ UNCHANGED <<operations, items, runningOperationId, callStack,
                     repoQueueErrors>>
      /\ processing' = processing \ {s}
      /\ awaiting' = [awaiting EXCEPT ![s] = None]
      /\ items[s] = <<>> /\ IsSettled(awaiting[s])
      /\ NotifyWaiters
  BY DEF StopProcessing, LoopResumes
<1>2. TypeOK'
  <2>1. waiters' \subseteq [scope : Scopes, types : WaitFilters]
    BY <1>1, WaitersKept DEF IInv
  <2> QED
    BY <1>1, <2>1 DEF IInv, TypeOK, Ids
<1>3. LoopInv'
  <2>1. \A i \in Ids : InFlight(i) /\ ~ IsInline(i) => Scope(i) # s
    BY <1>1 DEF IInv, LoopInv, InFlight, IsSettled
  <2>2. \A t \in Scopes : t # s => awaiting'[t] = awaiting[t]
    BY <1>1 DEF IInv, TypeOK
  <2> QED
    BY <1>1, <2>1, <2>2 DEF IInv, LoopInv, InFlight, IsInline, Scope, Ids
<1>4. StackInv' /\ InlineInv' /\ ItemsInv' /\ PriorInv'
  BY <1>1 DEF IInv, StackInv, InlineInv, ItemsInv, PriorInv, Ids, InFlight,
     IsInline, Scope, Queued, RunsFirst, RankOf
<1> QED
  BY <1>2, <1>3, <1>4 DEF IInv

(* Steps that leave everything but the waiters alone.                      *)
LEMMA WaitersOnlyInv ==
  ASSUME IInv, waiters' \subseteq [scope : Scopes, types : WaitFilters],
         UNCHANGED <<operations, items, runningOperationId, processing, awaiting,
                     callStack, repoQueueErrors>>
  PROVE  IInv'
BY DEF IInv, TypeOK, LoopInv, StackInv, InlineInv, ItemsInv, PriorInv, Ids,
   InFlight, IsInline, Scope, Queued, RunsFirst, RankOf
-----------------------------------------------------------------------------
(* The initial state satisfies the invariant: nothing is enqueued.         *)
LEMMA InitInv == Init => IInv
<1> SUFFICES ASSUME Init PROVE IInv
  OBVIOUS
<1>1. /\ operations = <<>> /\ Ids = {} /\ Len(operations) = 0
      /\ operations \in Seq(Operation)
      /\ DOMAIN callStack = {} /\ callStack \in Seq(Ids)
  BY DEF Init, Ids
<1>2. TypeOK
  <2>1. items \in [Scopes -> Seq(Ids)]
    BY DEF Init
  <2>2. MaxOperations >= 0
    BY QueueAssumption DEF QueueAssumption
  <2> QED
    BY <1>1, <2>1, <2>2 DEF Init, TypeOK
<1>3. LoopInv /\ StackInv /\ InlineInv /\ PriorInv
  BY <1>1 DEF Init, LoopInv, StackInv, InlineInv, PriorInv
<1>4. ItemsInv
  BY <1>1 DEF Init, ItemsInv, Queued
<1> QED
  BY <1>2, <1>3, <1>4 DEF IInv

(* Every step keeps it, one case per action.                               *)
LEMMA NextInv == IInv /\ [Next]_vars => IInv'
<1> SUFFICES ASSUME IInv, [Next]_vars PROVE IInv'
  OBVIOUS
<1>1. ASSUME NEW s \in Scopes, NEW r \in Requests, EnqueueRepoWrite(s, r)
      PROVE  IInv'
  BY <1>1, EnqueueInlineInv, EnqueueBehindInv, EnqueueAndStartInv
     DEF EnqueueRepoWrite
<1>2. ASSUME NEW i \in Ids, OperationStep(i)
      PROVE  IInv'
  BY <1>2, PermissionGrantedInv, PermissionDeniedInv, RunSettlesInv
     DEF OperationStep
<1>3. ASSUME NEW s \in Scopes, LoopStep(s)
      PROVE  IInv'
  BY <1>3, StartNextInv, StopProcessingInv DEF LoopStep
<1>4. ASSUME NEW s \in Scopes, NEW types \in WaitFilters, WaitForIdle(s, types)
      PROVE  IInv'
  BY <1>4, WaitersOnlyInv DEF WaitForIdle, IInv, TypeOK
<1>5. CASE AllDone \/ UNCHANGED vars
  BY <1>5, WaitersOnlyInv DEF AllDone, vars, IInv, TypeOK
<1> QED
  BY <1>1, <1>2, <1>3, <1>4, <1>5, RunReturnsInv, RunThrowsInv DEF Next

THEOREM InductiveInvariant == Spec => []IInv
<1> QED
  BY InitInv, NextInv, PTL DEF Spec

(* Type correctness of the queue, for every number of scopes and writes.   *)
THEOREM TypeCorrect == Spec => []TypeOK
<1>1. IInv => TypeOK
  BY DEF IInv
<1> QED
  BY <1>1, InductiveInvariant, PTL

(* No write is lost and none overtakes another: the items of a scope are    *)
(* its queued writes in scheduling order.                                  *)
THEOREM QueueIsComplete == Spec => []QueueIntegrity
<1>1. IInv => QueueIntegrity
  <2> SUFFICES ASSUME IInv, NEW s \in Scopes
               PROVE  /\ Range(items[s]) = Queued(s)
                      /\ \A j, k \in DOMAIN items[s] :
                           j < k => RunsFirst(items[s][j], items[s][k])
                      /\ s \notin processing => items[s] = <<>>
    BY DEF QueueIntegrity
  <2>1. Range(items[s]) = Queued(s)
    BY DEF IInv, ItemsInv, Range
  <2> QED
    BY <2>1 DEF IInv, ItemsInv, LoopInv
<1> QED
  BY <1>1, InductiveInvariant, PTL

(* Mutual exclusion: a scope has one writer at a time, its inline writes   *)
(* running under it.                                                       *)
THEOREM MutualExclusion == Spec => []OneWriterAtATime
<1>1. IInv => OneWriterAtATime
  <2> SUFFICES ASSUME IInv, NEW i \in Ids, NEW j \in Ids, InFlight(i)
               PROVE  /\ InFlight(j) /\ Scope(i) = Scope(j) /\ ~ IsInline(i)
                           /\ ~ IsInline(j) => i = j
                      /\ IsInline(i) =>
                           /\ operations[operations[i].outer].phase = "executing"
                           /\ Scope(operations[i].outer) = Scope(i)
    BY DEF OneWriterAtATime
  <2>1. Scope(i) \in Scopes
    BY TypeFacts DEF IInv
  <2> QED
    BY <2>1 DEF IInv, LoopInv, InlineInv
<1> QED
  BY <1>1, InductiveInvariant, PTL
-----------------------------------------------------------------------------
(* The queue implements ScopedWriter: each step, seen through the          *)
(* operations that are not inline, submits, begins or settles one write,   *)
(* or changes none.                                                        *)
Same(i) ==
  /\ operations'[i].scope = operations[i].scope
  /\ operations'[i].priority = operations[i].priority
  /\ operations'[i].outer = operations[i].outer

LEMMA Statuses ==
  ASSUME TypeOK, NEW i \in Ids
  PROVE  /\ operations[i].phase = "queued" => StatusOf(i) = "queued"
         /\ InFlight(i) => StatusOf(i) = "running"
         /\ IsSettled(i) => StatusOf(i) = "settled"
         /\ operations[i].phase = "queued" \/ InFlight(i) \/ IsSettled(i)
<1>1. operations[i] \in Operation
  BY TypeFacts
<1> QED
  BY <1>1 DEF StatusOf, InFlight, IsSettled, Operation

LEMMA SeenWrites ==
  /\ DOMAIN TopLevelWrites = TopLevel
  /\ \A i \in TopLevel :
       /\ TopLevelWrites[i] = [scope |-> Scope(i), rank |-> RankOf(i), status |-> StatusOf(i)]
       /\ TopLevelWrites[i].scope = Scope(i)
       /\ TopLevelWrites[i].rank = RankOf(i)
       /\ TopLevelWrites[i].status = StatusOf(i)
BY DEF TopLevelWrites

LEMMA StutterSeen ==
  ASSUME Ids' = Ids,
         \A i \in Ids : Same(i) /\ (~ IsInline(i) => StatusOf(i)' = StatusOf(i))
  PROVE  TopLevelWrites' = TopLevelWrites
<1>1. TopLevel' = TopLevel
  BY DEF TopLevel, IsInline, Same
<1>2. \A i \in TopLevel :
        Scope(i)' = Scope(i) /\ RankOf(i)' = RankOf(i) /\ StatusOf(i)' = StatusOf(i)
  BY DEF TopLevel, Same, Scope, RankOf
<1> QED
  BY <1>1, <1>2 DEF TopLevelWrites

(* One write changes its status.                                           *)
LEMMA StatusSeen ==
  ASSUME Ids' = Ids, NEW i \in Ids, ~ IsInline(i), NEW st,
         \A j \in Ids : Same(j),
         \A j \in Ids : j # i => StatusOf(j)' = StatusOf(j),
         StatusOf(i)' = st
  PROVE  TopLevelWrites' = [TopLevelWrites EXCEPT ![i].status = st]
<1>1. TopLevel' = TopLevel /\ i \in TopLevel
  BY DEF TopLevel, IsInline, Same
<1>2. \A j \in TopLevel : Scope(j)' = Scope(j) /\ RankOf(j)' = RankOf(j)
  BY DEF TopLevel, Same, Scope, RankOf
<1>3. \A j \in TopLevel : j # i => TopLevelWrites'[j] = TopLevelWrites[j]
  BY <1>1, <1>2 DEF TopLevelWrites, TopLevel
<1>4. TopLevelWrites'[i] = [TopLevelWrites[i] EXCEPT !.status = st]
  BY <1>1, <1>2 DEF TopLevelWrites
<1>5. /\ DOMAIN TopLevelWrites = TopLevel /\ DOMAIN TopLevelWrites' = TopLevel
      /\ TopLevelWrites' = [j \in TopLevel |-> TopLevelWrites'[j]]
  BY <1>1 DEF TopLevelWrites
<1>6. TopLevelWrites' = [j \in TopLevel |->
        IF j = i THEN [TopLevelWrites[i] EXCEPT !.status = st] ELSE TopLevelWrites[j]]
  BY <1>3, <1>4, <1>5
<1> QED
  BY <1>1, <1>5, <1>6

(* A new write.                                                            *)
JoinedBy(id, s, k, st) ==
  TopLevelWrites' = [v \in DOMAIN TopLevelWrites \cup {id} |->
                       IF v = id THEN [scope |-> s, rank |-> k, status |-> st]
                       ELSE TopLevelWrites[v]]

LEMMA SubmitSeen ==
  ASSUME NEW id, id \notin Ids, Ids' = Ids \cup {id},
         \A i \in Ids : operations'[i] = operations[i],
         ~ IsInline(id)', NEW s, Scope(id)' = s, NEW k, RankOf(id)' = k,
         NEW st, StatusOf(id)' = st
  PROVE  JoinedBy(id, s, k, st)
<1>1. TopLevel' = TopLevel \cup {id} /\ id \notin TopLevel
  BY DEF TopLevel, IsInline
<1>2. \A i \in TopLevel :
        Scope(i)' = Scope(i) /\ RankOf(i)' = RankOf(i) /\ StatusOf(i)' = StatusOf(i)
  BY DEF TopLevel, Scope, RankOf, StatusOf, InFlight
<1>3. \A i \in TopLevel : TopLevelWrites'[i] = TopLevelWrites[i]
  BY <1>1, <1>2 DEF TopLevelWrites
<1>4. TopLevelWrites'[id] = [scope |-> s, rank |-> k, status |-> st]
  BY <1>1 DEF TopLevelWrites
<1>5. /\ DOMAIN TopLevelWrites = TopLevel
      /\ TopLevelWrites' = [v \in TopLevel \cup {id} |-> TopLevelWrites'[v]]
  BY <1>1 DEF TopLevelWrites
<1> QED
  BY <1>1, <1>3, <1>4, <1>5 DEF JoinedBy


LEMMA InlineSeen ==
  ASSUME IInv, Len(operations) < MaxOperations,
         NEW s \in Scopes, NEW r \in Requests, EnqueueInline(s, r)
  PROVE  TopLevelWrites' = TopLevelWrites
<1>0. PICK id, outer : id = Len(operations) + 1 /\ outer = InnermostRun(s)
  OBVIOUS
<1>1. outer \in Ids /\ TypeOK
  BY <1>0, InnermostRunProperties DEF EnqueueInline, IInv
<1>2. NewOperation(s, r, FirstPhase(r), outer, runningOperationId[s])
  BY <1>0 DEF EnqueueInline
<1>3. /\ FirstPhase(r) \in {"queued", "checking", "executing"}
      /\ outer \in {None} \cup Ids
      /\ runningOperationId[s] \in {None} \cup Ids
  BY <1>1 DEF FirstPhase, TypeOK
<1>4. /\ Ids' = Ids \cup {id} /\ id \notin Ids
      /\ \A i \in Ids : operations'[i] = operations[i]
      /\ operations'[id] =
           [scope |-> s, request |-> r, priority |-> EffectivePriority(r),
            phase |-> FirstPhase(r), outer |-> outer, prior |-> runningOperationId[s]]
  BY <1>0, <1>1, <1>2, <1>3, NewOperationEffect
<1>5. IsInline(id)'
  BY <1>1, <1>4, TypeFacts DEF IsInline
<1>6. TopLevel' = TopLevel
  BY <1>4, <1>5 DEF TopLevel, IsInline
<1>7. \A i \in TopLevel :
        Scope(i)' = Scope(i) /\ RankOf(i)' = RankOf(i) /\ StatusOf(i)' = StatusOf(i)
  BY <1>4 DEF TopLevel, Scope, RankOf, StatusOf, InFlight
<1> QED
  BY <1>6, <1>7 DEF TopLevelWrites

(* A write that is not inline is submitted.                                *)
LEMMA NewSeen ==
  ASSUME IInv, Len(operations) < MaxOperations,
         NEW s \in Scopes, NEW r \in Requests,
         NEW phase \in {"queued", "checking", "executing"},
         NEW prior \in {None} \cup Ids,
         NewOperation(s, r, phase, None, prior),
         phase # "queued" =>
           \A v \in TopLevel : Scope(v) = s => IsSettled(v)
  PROVE  W!WriterNext
<1>0. PICK id : id = Len(operations) + 1
  OBVIOUS
<1>1. TypeOK
  BY DEF IInv
<1>2. /\ Ids' = Ids \cup {id} /\ id \notin Ids
      /\ \A i \in Ids : operations'[i] = operations[i] /\ i < id
      /\ operations'[id] =
           [scope |-> s, request |-> r, priority |-> EffectivePriority(r),
            phase |-> phase, outer |-> None, prior |-> prior]
  <2>1. PICK outer \in {None} \cup Ids : outer = None
    OBVIOUS
  <2>2. NewOperation(s, r, phase, outer, prior)
    BY <2>1
  <2>3. /\ Ids' = Ids \cup {id} /\ id \notin Ids
        /\ \A i \in Ids : operations'[i] = operations[i] /\ i < id
        /\ operations'[id] =
           [scope |-> s, request |-> r, priority |-> EffectivePriority(r),
            phase |-> phase, outer |-> outer, prior |-> prior]
    BY <1>0, <1>1, <2>2, NewOperationEffect
  <2> QED
    BY <2>1, <2>3
<1>a. PICK st : st = (IF phase = "queued" THEN "queued" ELSE "running")
  OBVIOUS
<1>3. id \in W!WriteIds
  BY <1>0, <1>1, TypeFacts, QueueAssumption DEF W!WriteIds, QueueAssumption
<1>b. PICK k : k = Rank(r)
  OBVIOUS
<1>4. /\ ~ IsInline(id)' /\ Scope(id)' = s /\ RankOf(id)' = k
      /\ StatusOf(id)' = st
  BY <1>a, <1>b, <1>2 DEF IsInline, Scope, RankOf, Rank, StatusOf, InFlight
<1>5. JoinedBy(id, s, k, st)
  <2>1. \A i \in Ids : operations'[i] = operations[i]
    BY <1>2
  <2>2. Ids' = Ids \cup {id} /\ id \notin Ids
    BY <1>2
  <2> QED
    BY <1>4, <2>1, <2>2, SubmitSeen
<1>6. k \in W!Ranks
  BY <1>b DEF Rank, PriorityRank, W!Ranks
<1>7. \A v \in DOMAIN TopLevelWrites : v < id
  BY <1>2, SeenWrites DEF TopLevel
<1>8. st = "running" => \A v \in DOMAIN TopLevelWrites :
        TopLevelWrites[v].scope = s => TopLevelWrites[v].status = "settled"
  <2> SUFFICES ASSUME st = "running", NEW v \in TopLevel, Scope(v) = s
               PROVE  StatusOf(v) = "settled"
    BY SeenWrites
  <2>1. v \in Ids /\ IsSettled(v)
    BY <1>a DEF TopLevel
  <2> QED
    BY <1>1, <2>1, Statuses
<1>9. st \in {"queued", "running"}
  BY <1>a
<1>10. W!SubmitWrite(id, s, k, st)
  BY <1>5, <1>7, <1>8, <1>9 DEF W!SubmitWrite, JoinedBy
<1> QED
  BY <1>3, <1>6, <1>9, <1>10 DEF W!WriterNext

LEMMA BehindSeen ==
  ASSUME IInv, Len(operations) < MaxOperations,
         NEW s \in Scopes, NEW r \in Requests, EnqueueBehind(s, r)
  PROVE  W!WriterNext
<1>1. NewOperation(s, r, "queued", None, None)
  BY DEF EnqueueBehind
<1> QED
  BY <1>1, NewSeen

LEMMA StartSeen ==
  ASSUME IInv, Len(operations) < MaxOperations,
         NEW s \in Scopes, NEW r \in Requests, EnqueueAndStart(s, r)
  PROVE  W!WriterNext
<1>1. /\ NewOperation(s, r, FirstPhase(r), None, runningOperationId[s])
      /\ s \notin processing
  BY DEF EnqueueAndStart
<1>2. /\ FirstPhase(r) \in {"queued", "checking", "executing"}
      /\ runningOperationId[s] \in {None} \cup Ids
  BY DEF FirstPhase, IInv, TypeOK
<1>3. ASSUME NEW v \in TopLevel, Scope(v) = s
      PROVE  IsSettled(v)
  <2>1. v \in Ids /\ ~ IsInline(v)
    BY DEF TopLevel
  <2>2. ~ InFlight(v)
    BY <1>1, <1>3, <2>1 DEF IInv, LoopInv
  <2>3. operations[v].phase # "queued"
    <3>1. items[s] = <<>>
      BY <1>1 DEF IInv, LoopInv
    <3>2. Queued(s) = {}
      BY <3>1 DEF IInv, ItemsInv
    <3> QED
      BY <1>3, <2>1, <3>2 DEF Queued
  <2> QED
    BY <2>1, <2>2, <2>3, Statuses DEF IInv
<1> QED
  BY <1>1, <1>2, <1>3, NewSeen

(* An operation in flight goes on or is settled.                           *)
LEMMA GoesOnSeen ==
  ASSUME IInv, NEW i \in Ids, InFlight(i),
         NEW ph \in {"executing", "succeeded", "failed"},
         operations' = [operations EXCEPT ![i].phase = ph]
  PROVE  W!WriterNext \/ TopLevelWrites' = TopLevelWrites
<1>1. TypeOK
  BY DEF IInv
<1>2. /\ Ids' = Ids
      /\ \A j \in Ids : j # i => operations'[j] = operations[j]
      /\ operations'[i].phase = ph
      /\ operations'[i].scope = operations[i].scope
      /\ operations'[i].outer = operations[i].outer
      /\ operations'[i].priority = operations[i].priority
  BY <1>1, SettleEffect
<1>3. \A j \in Ids : Same(j) /\ (j # i => StatusOf(j)' = StatusOf(j))
  BY <1>2 DEF Same, StatusOf, InFlight
<1>4. CASE IsInline(i) \/ ph = "executing"
  <2>1. ph = "executing" => StatusOf(i)' = StatusOf(i)
    BY <1>1, <1>2, Statuses DEF StatusOf, InFlight
  <2> QED
    BY <1>2, <1>3, <1>4, <2>1, StutterSeen
<1>5. CASE ~ IsInline(i) /\ ph # "executing"
  <2>1. StatusOf(i)' = "settled"
    BY <1>2, <1>5 DEF StatusOf, InFlight
  <2>2. TopLevelWrites' = [TopLevelWrites EXCEPT ![i].status = "settled"]
    BY <1>2, <1>3, <1>5, <2>1, StatusSeen
  <2>3. i \in W!WithStatus("running")
    BY <1>1, <1>5, SeenWrites, Statuses DEF W!WithStatus, TopLevel
  <2>4. i \in W!WriteIds
    BY <1>1, TypeFacts DEF W!WriteIds, OperationIds
  <2>5. W!SettleWrite(i)
    BY <2>2, <2>3 DEF W!SettleWrite
  <2> QED
    BY <2>4, <2>5 DEF W!WriterNext
<1> QED
  BY <1>4, <1>5

LEMMA UnchangedSeen ==
  ASSUME UNCHANGED operations
  PROVE  TopLevelWrites' = TopLevelWrites
<1>1. /\ Ids' = Ids /\ \A i \in Ids : Same(i)
      /\ \A i \in Ids : StatusOf(i)' = StatusOf(i)
  BY DEF Ids, Same, StatusOf, InFlight
<1> QED
  BY <1>1, StutterSeen

(* The head of the queue is begun: nothing of its scope is running, and    *)
(* what is queued there comes after it.                                    *)
LEMMA NextSeen ==
  ASSUME IInv, NEW s \in Scopes, StartNext(s)
  PROVE  W!WriterNext
<1>1. PICK id, q, r, prior :
        /\ q = items[s] /\ id = Head(q)
        /\ r = operations[id].request
        /\ prior = runningOperationId[s]
  OBVIOUS
<1>2. /\ operations' = [operations EXCEPT ![id].phase = FirstPhase(r),
                                         ![id].prior = prior]
      /\ q # <<>> /\ s \in processing /\ IsSettled(awaiting[s])
  BY <1>1 DEF StartNext, LoopResumes
<1>3. TypeOK /\ q \in Seq(Ids)
  BY <1>1 DEF IInv, TypeOK
<1>4. Len(q) \in Nat /\ DOMAIN q = 1 .. Len(q) /\ Len(q) >= 1 /\ id = q[1]
  <2>1. Len(q) \in Nat /\ DOMAIN q = 1 .. Len(q) /\ Len(q) # 0
    BY <1>2, <1>3, SeqFacts, EmptySeq
  <2> QED
    BY <1>1, <1>3, <2>1
<1>5. /\ id \in Queued(s)
      /\ \A i \in Queued(s) : i = id \/ RunsFirst(id, i)
  <2>1. /\ \A k \in 1 .. Len(q) : q[k] \in Queued(s)
        /\ \A i \in Queued(s) : \E k \in 1 .. Len(q) : q[k] = i
        /\ \A j, k \in 1 .. Len(q) : j < k => RunsFirst(q[j], q[k])
    BY <1>1, <1>4 DEF IInv, ItemsInv
  <2>2. 1 \in 1 .. Len(q) /\ \A k \in 1 .. Len(q) : k = 1 \/ 1 < k
    BY <1>4
  <2> QED
    BY <1>4, <2>1, <2>2
<1>6. /\ id \in Ids /\ operations[id].phase = "queued" /\ Scope(id) = s
      /\ ~ IsInline(id)
  BY <1>5 DEF Queued, IInv, InlineInv
<1>7. /\ Ids' = Ids
      /\ \A j \in Ids : j # id => operations'[j] = operations[j]
      /\ operations'[id].phase = FirstPhase(r)
      /\ Same(id)
  <2>1. /\ FirstPhase(r) \in {"queued", "checking", "executing", "succeeded", "failed"}
        /\ prior \in {None} \cup Ids
    BY <1>1, <1>3 DEF FirstPhase, TypeOK
  <2> QED
    BY <1>2, <1>3, <1>6, <2>1, PhaseEffect DEF Same
<1>8. TopLevelWrites' = [TopLevelWrites EXCEPT ![id].status = "running"]
  <2>1. \A j \in Ids : Same(j) /\ (j # id => StatusOf(j)' = StatusOf(j))
    BY <1>7 DEF Same, StatusOf, InFlight
  <2>2. StatusOf(id)' = "running"
    BY <1>7 DEF StatusOf, InFlight, FirstPhase
  <2> QED
    BY <1>6, <1>7, <2>1, <2>2, StatusSeen
<1>9. id \in W!WithStatus("queued")
  BY <1>3, <1>6, SeenWrites, Statuses DEF W!WithStatus, TopLevel
<1>10. ASSUME NEW v \in W!WithStatus("running")
       PROVE  TopLevelWrites[v].scope # TopLevelWrites[id].scope
  <2> SUFFICES ASSUME TopLevelWrites[v].scope = TopLevelWrites[id].scope PROVE FALSE
    OBVIOUS
  <2>1. v \in Ids /\ ~ IsInline(v) /\ Scope(v) = s /\ StatusOf(v) = "running"
    BY <1>6, SeenWrites DEF W!WithStatus, TopLevel
  <2>2. InFlight(v)
    BY <1>3, <2>1, Statuses
  <2>3. awaiting[s] = v
    BY <2>1, <2>2 DEF IInv, LoopInv
  <2> QED
    BY <1>2, <2>2, <2>3 DEF InFlight, IsSettled
<1>11. ASSUME NEW v \in W!WithStatus("queued"), W!Precedes(v, id)
       PROVE  FALSE
  <2>1. /\ v \in Ids /\ StatusOf(v) = "queued" /\ Scope(v) = s
        /\ RankOf(v) > RankOf(id) \/ (RankOf(v) = RankOf(id) /\ v < id)
    BY <1>6, <1>11, SeenWrites DEF W!WithStatus, W!Precedes, TopLevel
  <2>2. v \in Queued(s)
    BY <1>3, <2>1, Statuses DEF Queued
  <2>3. RankOf(v) \in Int /\ RankOf(id) \in Int /\ v \in Int /\ id \in Int
    BY <1>3, <1>6, <2>1, TypeFacts
  <2> QED
    BY <1>5, <2>1, <2>2, <2>3 DEF RunsFirst
<1>12. W!BeginWrite(id)
  BY <1>8, <1>9, <1>10, <1>11 DEF W!BeginWrite
<1>13. id \in W!WriteIds
  BY <1>3, <1>6, TypeFacts DEF W!WriteIds, OperationIds
<1> QED
  BY <1>12, <1>13 DEF W!WriterNext

LEMMA StepSeen ==
  ASSUME IInv, [Next]_vars
  PROVE  [W!WriterNext]_TopLevelWrites
<1>1. ASSUME NEW s \in Scopes, NEW r \in Requests, EnqueueRepoWrite(s, r)
      PROVE  W!WriterNext \/ TopLevelWrites' = TopLevelWrites
  BY <1>1, InlineSeen, BehindSeen, StartSeen DEF EnqueueRepoWrite
<1>2. ASSUME NEW i \in Ids, OperationStep(i)
      PROVE  W!WriterNext \/ TopLevelWrites' = TopLevelWrites
  <2>1. /\ InFlight(i)
        /\ \E ph \in {"executing", "succeeded", "failed"} :
             operations' = [operations EXCEPT ![i].phase = ph]
    BY <1>2 DEF OperationStep, PermissionGranted, PermissionDenied, RunSettles,
                SettleAs, InFlight
  <2> QED
    BY <2>1, GoesOnSeen
<1>3. CASE RunThrows
  <2>1. PICK i : i = Last(callStack)
    OBVIOUS
  <2>2. i \in Ids /\ InFlight(i)
    BY <1>3, <2>1, PopCallStack DEF RunThrows, IInv, InFlight
  <2>3. operations' = [operations EXCEPT ![i].phase = "failed"]
    BY <1>3, <2>1 DEF RunThrows, SettleAs
  <2> QED
    BY <2>2, <2>3, GoesOnSeen
<1>4. ASSUME NEW s \in Scopes, LoopStep(s)
      PROVE  W!WriterNext \/ TopLevelWrites' = TopLevelWrites
  BY <1>4, NextSeen, UnchangedSeen DEF LoopStep, StopProcessing
<1>5. ASSUME NEW s \in Scopes, NEW types \in WaitFilters, WaitForIdle(s, types)
      PROVE  TopLevelWrites' = TopLevelWrites
  BY <1>5, UnchangedSeen DEF WaitForIdle
<1>6. CASE RunReturns \/ AllDone \/ UNCHANGED vars
  BY <1>6, UnchangedSeen DEF RunReturns, AllDone, vars
<1> QED
  BY <1>1, <1>2, <1>3, <1>4, <1>5, <1>6 DEF Next

LEMMA InitSeen == Init => W!WriterInit
<1> SUFFICES ASSUME Init PROVE TopLevelWrites = <<>>
  BY DEF W!WriterInit
<1>1. TopLevel = {}
  BY DEF Init, TopLevel, Ids
<1> QED
  BY <1>1 DEF TopLevelWrites

(* The queue implements the writer its callers see, for every set of       *)
(* scopes and requests: the operations that are not inline are begun one   *)
(* at a time per repository, the most urgent first and in the order they   *)
(* were enqueued among equals, and settled once.                           *)
THEOREM QueueIsAWriter == Spec => ImplementsWriter
<1>1. IInv /\ [Next]_vars => [W!WriterNext]_TopLevelWrites
  BY StepSeen
<1> QED
  BY <1>1, InitSeen, InductiveInvariant, PTL DEF Spec, ImplementsWriter, W!WriterSafety
-----------------------------------------------------------------------------
(* What the queue shows as running is the innermost operation in flight,   *)
(* as long as no run() starts a second inline write before the first one   *)
(* is settled: an inline operation restores the one it runs under.         *)
ShownInv ==
  \A i \in Ids : InFlight(i) =>
    /\ runningOperationId[Scope(i)] \in Ids
    /\ InFlight(runningOperationId[Scope(i)])
    /\ Scope(runningOperationId[Scope(i)]) = Scope(i)
    /\ runningOperationId[Scope(i)] = i \/ Inner(i) # {}
    /\ IsInline(i) => /\ operations[i].outer < i
                      /\ operations[i].prior = operations[i].outer

(* In a scope whose operations in flight are all inline, but perhaps one   *)
(* that nothing runs under, there is no other.                             *)
LEMMA NothingBeside ==
  ASSUME IInv, ShownInv, NEW s \in Scopes, NEW i,
         \A j \in Ids : InFlight(j) /\ Scope(j) = s /\ j # i
                          => IsInline(j) /\ operations[j].outer # i
  PROVE  \A j \in Ids : InFlight(j) /\ Scope(j) = s => j = i
<1> DEFINE T == {j \in Ids : InFlight(j) /\ Scope(j) = s /\ j # i}
<1>1. T \subseteq Nat
  BY TypeFacts DEF IInv
<1>2. ASSUME T # {} PROVE FALSE
  <2>1. PICK m \in T : \A k \in T : m <= k
    <3> HIDE DEF T
    <3> QED
      BY <1>1, <1>2, LeastElement
  <2>2. m \in Ids /\ InFlight(m) /\ Scope(m) = s /\ IsInline(m) /\ operations[m].outer # i
    BY <2>1
  <2>3. /\ operations[m].outer \in Ids
        /\ operations[operations[m].outer].phase = "executing"
        /\ Scope(operations[m].outer) = s
    BY <2>2 DEF IInv, InlineInv
  <2>4. operations[m].outer \in T
    BY <2>2, <2>3 DEF InFlight
  <2>5. operations[m].outer < m
    BY <2>2 DEF ShownInv
  <2>6. m <= operations[m].outer /\ m \in Nat /\ operations[m].outer \in Nat
    BY <1>1, <2>1, <2>4
  <2> QED
    BY <2>5, <2>6
<1> QED
  BY <1>2

LEMMA ShownKept ==
  ASSUME ShownInv, Ids' = Ids, runningOperationId' = runningOperationId,
         \A i \in Ids :
           /\ operations'[i].scope = operations[i].scope
           /\ operations'[i].outer = operations[i].outer
           /\ operations'[i].prior = operations[i].prior
           /\ InFlight(i)' <=> InFlight(i)
           /\ IsSettled(i)' <=> IsSettled(i)
  PROVE  ShownInv'
<1> SUFFICES ASSUME NEW i \in Ids, InFlight(i)'
             PROVE  /\ runningOperationId[Scope(i)] \in Ids
                    /\ \A r : r = runningOperationId[Scope(i)] =>
                         InFlight(r)' /\ Scope(r)' = Scope(i)
                    /\ Scope(i)' = Scope(i)
                    /\ runningOperationId[Scope(i)] = i \/ Inner(i)' # {}
                    /\ IsInline(i)' => /\ operations'[i].outer < i
                                       /\ operations'[i].prior = operations'[i].outer
  BY DEF ShownInv, InFlight, Scope
<1>1. InFlight(i) /\ Scope(i)' = Scope(i) /\ (IsInline(i)' <=> IsInline(i))
  BY DEF Scope, IsInline
<1>2. Inner(i)' = Inner(i)
  BY DEF Inner
<1>3. \A r \in Ids : Scope(r)' = Scope(r)
  BY DEF Scope
<1> QED
  BY <1>1, <1>2, <1>3 DEF ShownInv

(* The invariant, with what is shown after the step and the operations     *)
(* after it named.                                                         *)
LEMMA ShownAfter ==
  ASSUME \A i \in Ids' : \A r, o :
           /\ operations'[i].phase \in {"checking", "executing"}
           /\ r = runningOperationId'[operations'[i].scope] /\ o = operations'[i].outer
           => /\ r \in Ids' /\ operations'[r].phase \in {"checking", "executing"}
              /\ operations'[r].scope = operations'[i].scope
              /\ r = i \/ \E j \in Ids' :
                   /\ operations'[j].outer = i
                   /\ operations'[j].phase \notin {"succeeded", "failed"}
              /\ o # None => o < i /\ operations'[i].prior = o
  PROVE  ShownInv'
<1> SUFFICES ASSUME NEW i \in Ids', InFlight(i)'
             PROVE  /\ runningOperationId'[operations'[i].scope] \in Ids'
                    /\ operations'[runningOperationId'[operations'[i].scope]].phase
                         \in {"checking", "executing"}
                    /\ operations'[runningOperationId'[operations'[i].scope]].scope
                         = operations'[i].scope
                    /\ \/ runningOperationId'[operations'[i].scope] = i
                       \/ Inner(i)' # {}
                    /\ operations'[i].outer # None
                         => /\ operations'[i].outer < i
                            /\ operations'[i].prior = operations'[i].outer
  BY DEF ShownInv, InFlight, Scope, IsInline
<1>1. Inner(i)' = {j \in Ids' : /\ operations'[j].outer = i
                               /\ operations'[j].phase \notin {"succeeded", "failed"}}
  BY DEF Inner, IsSettled
<1> QED
  BY <1>1 DEF InFlight

LEMMA InlineShown ==
  ASSUME IInv, ShownInv, ~ Siblings, Len(operations) < MaxOperations,
         NEW s \in Scopes, NEW r \in Requests, EnqueueInline(s, r)
  PROVE  ShownInv'
<1>0. PICK id, outer, prior :
        /\ id = Len(operations) + 1 /\ outer = InnermostRun(s)
        /\ prior = runningOperationId[s]
  OBVIOUS
<1>1. /\ outer \in Ids /\ Scope(outer) = s /\ InFlight(outer) /\ TypeOK
      /\ Inner(outer) = {}
  BY <1>0, InnermostRunProperties DEF EnqueueInline, IInv, InFlight
<1>2. /\ NewOperation(s, r, FirstPhase(r), outer, prior)
      /\ runningOperationId' = [runningOperationId EXCEPT ![s] = id]
  BY <1>0 DEF EnqueueInline
<1>3. prior = outer
  BY <1>0, <1>1 DEF ShownInv
<1>4. /\ FirstPhase(r) \in {"queued", "checking", "executing"}
      /\ FirstPhase(r) \in {"checking", "executing"}
      /\ outer \in {None} \cup Ids /\ prior \in {None} \cup Ids
  BY <1>1, <1>3 DEF FirstPhase
<1>5. /\ Ids' = Ids \cup {id} /\ id \notin Ids /\ id # None
      /\ \A i \in Ids : operations'[i] = operations[i] /\ i < id
      /\ operations'[id] =
           [scope |-> s, request |-> r, priority |-> EffectivePriority(r),
            phase |-> FirstPhase(r), outer |-> outer, prior |-> prior]
  BY <1>0, <1>1, <1>2, <1>4, NewOperationEffect
<1>6. /\ runningOperationId'[s] = id
      /\ \A t \in Scopes : t # s => runningOperationId'[t] = runningOperationId[t]
  BY <1>1, <1>2 DEF TypeOK
<1>7. ASSUME NEW i \in Ids, InFlight(i)
      PROVE  /\ Scope(i) = s \/ runningOperationId[Scope(i)] = i
                  \/ \E j \in Ids' : /\ operations'[j].outer = i
                                     /\ operations'[j].phase \notin {"succeeded", "failed"}
             /\ Scope(i) = s => \E j \in Ids' :
                  /\ operations'[j].outer = i
                  /\ operations'[j].phase \notin {"succeeded", "failed"}
  <2>1. Inner(i) # {} => \E j \in Ids' :
          /\ operations'[j].outer = i
          /\ operations'[j].phase \notin {"succeeded", "failed"}
    BY <1>5 DEF Inner, IsSettled
  <2>2. CASE Scope(i) = s /\ i # outer
    BY <1>0, <1>3, <1>7, <2>1, <2>2 DEF ShownInv
  <2>3. CASE i = outer
    BY <1>1, <1>4, <1>5, <2>3
  <2>4. CASE Scope(i) # s
    BY <1>7, <2>1, <2>4 DEF ShownInv
  <2> QED
    BY <2>1, <2>2, <2>3, <2>4
<1>8. ASSUME NEW i \in Ids', NEW v, NEW o,
             operations'[i].phase \in {"checking", "executing"},
             v = runningOperationId'[operations'[i].scope], o = operations'[i].outer
      PROVE  /\ v \in Ids' /\ operations'[v].phase \in {"checking", "executing"}
             /\ operations'[v].scope = operations'[i].scope
             /\ v = i \/ \E j \in Ids' :
                  /\ operations'[j].outer = i
                  /\ operations'[j].phase \notin {"succeeded", "failed"}
             /\ o # None => o < i /\ operations'[i].prior = o
  <2>1. CASE i = id
    BY <1>1, <1>3, <1>4, <1>5, <1>6, <1>8, <2>1
  <2>2. CASE i \in Ids
    <3>1. InFlight(i) /\ operations'[i] = operations[i] /\ Scope(i) \in Scopes
      BY <1>1, <1>5, <1>8, <2>2, TypeFacts DEF InFlight
    <3>2. CASE Scope(i) = s
      BY <1>4, <1>5, <1>6, <1>7, <1>8, <2>2, <3>1, <3>2 DEF ShownInv, Scope, IsInline
    <3>3. CASE Scope(i) # s
      BY <1>5, <1>6, <1>7, <1>8, <2>2, <3>1, <3>3
         DEF ShownInv, Scope, IsInline, InFlight
    <3> QED
      BY <3>2, <3>3
  <2> QED
    BY <1>5, <2>1, <2>2
<1> QED
  BY <1>8, ShownAfter

(* A write behind the running one waits, and shows nothing.                *)
LEMMA BehindShown ==
  ASSUME IInv, ShownInv, Len(operations) < MaxOperations,
         NEW s \in Scopes, NEW r \in Requests, EnqueueBehind(s, r)
  PROVE  ShownInv'
<1>0. PICK id, none : id = Len(operations) + 1 /\ none = None
  OBVIOUS
<1>1. NewOperation(s, r, "queued", none, none) /\ TypeOK /\ none \in {None} \cup Ids
  BY <1>0 DEF EnqueueBehind, IInv
<1>2. /\ Ids' = Ids \cup {id} /\ id \notin Ids /\ id # None
      /\ \A i \in Ids : operations'[i] = operations[i] /\ i < id
      /\ operations'[id] =
           [scope |-> s, request |-> r, priority |-> EffectivePriority(r),
            phase |-> "queued", outer |-> none, prior |-> none]
  BY <1>0, <1>1, NewOperationEffect
<1>3. runningOperationId' = runningOperationId
  BY DEF EnqueueBehind
<1>4. ASSUME NEW i \in Ids', NEW v, NEW o,
             operations'[i].phase \in {"checking", "executing"},
             v = runningOperationId'[operations'[i].scope], o = operations'[i].outer
      PROVE  /\ v \in Ids' /\ operations'[v].phase \in {"checking", "executing"}
             /\ operations'[v].scope = operations'[i].scope
             /\ v = i \/ \E j \in Ids' :
                  /\ operations'[j].outer = i
                  /\ operations'[j].phase \notin {"succeeded", "failed"}
             /\ o # None => o < i /\ operations'[i].prior = o
  <2>1. i \in Ids /\ operations'[i] = operations[i] /\ InFlight(i)
    BY <1>2, <1>4 DEF InFlight
  <2>2. /\ v \in Ids /\ InFlight(v) /\ Scope(v) = Scope(i)
        /\ v = i \/ Inner(i) # {}
        /\ o # None => o < i /\ operations[i].prior = o
    BY <1>3, <1>4, <2>1 DEF ShownInv, Scope, IsInline
  <2>3. Inner(i) # {} => \E j \in Ids' :
          /\ operations'[j].outer = i
          /\ operations'[j].phase \notin {"succeeded", "failed"}
    BY <1>2 DEF Inner, IsSettled
  <2> QED
    BY <1>2, <1>4, <2>1, <2>2, <2>3 DEF InFlight, Scope
<1> QED
  BY <1>4, ShownAfter

(* A scope whose loop is idle, or awaits a settled operation, has nothing  *)
(* in flight.                                                              *)
LEMMA NothingInFlight ==
  ASSUME IInv, ShownInv, NEW s \in Scopes,
         s \notin processing \/ IsSettled(awaiting[s]), NEW j \in Ids
  PROVE  ~ (InFlight(j) /\ Scope(j) = s)
<1>1. ASSUME NEW k \in Ids, InFlight(k), Scope(k) = s
      PROVE  IsInline(k) /\ operations[k].outer # None
  <2>1. IsSettled(k) => FALSE
    BY <1>1 DEF InFlight, IsSettled
  <2> QED
    BY <1>1, <2>1 DEF IInv, LoopInv, IsInline
<1>2. PICK none : none = None
  OBVIOUS
<1>3. \A k \in Ids : InFlight(k) /\ Scope(k) = s /\ k # none
                       => IsInline(k) /\ operations[k].outer # none
  BY <1>1, <1>2
<1>4. \A k \in Ids : InFlight(k) /\ Scope(k) = s => k = none
  BY <1>3, NothingBeside
<1> QED
  BY <1>2, <1>4, TypeFacts DEF IInv

(* The loop begins an operation when nothing of its scope is in flight.    *)
LEMMA BegunShown ==
  ASSUME TypeOK, ShownInv, NEW s \in Scopes, NEW id, Ids' = Ids \cup {id},
         \A j \in Ids : ~ (InFlight(j) /\ Scope(j) = s),
         id \in Ids => Scope(id) = s /\ operations[id].outer = None,
         \A i \in Ids : i # id => operations'[i] = operations[i],
         operations'[id].scope = s, operations'[id].outer = None,
         operations'[id].phase \in {"checking", "executing"},
         runningOperationId' = [runningOperationId EXCEPT ![s] = id]
  PROVE  ShownInv'
<1>1. /\ runningOperationId'[s] = id
      /\ \A t \in Scopes : t # s => runningOperationId'[t] = runningOperationId[t]
  BY DEF TypeOK
<1>2. ASSUME NEW i \in Ids', NEW v, NEW o,
             operations'[i].phase \in {"checking", "executing"},
             v = runningOperationId'[operations'[i].scope], o = operations'[i].outer
      PROVE  /\ v \in Ids' /\ operations'[v].phase \in {"checking", "executing"}
             /\ operations'[v].scope = operations'[i].scope
             /\ v = i \/ \E j \in Ids' :
                  /\ operations'[j].outer = i
                  /\ operations'[j].phase \notin {"succeeded", "failed"}
             /\ o # None => o < i /\ operations'[i].prior = o
  <2>1. CASE i = id
    BY <1>1, <1>2, <2>1
  <2>2. CASE i # id
    <3>1. /\ i \in Ids /\ operations'[i] = operations[i] /\ InFlight(i)
          /\ Scope(i) # s /\ Scope(i) \in Scopes
      BY <1>2, <2>2, TypeFacts DEF InFlight
    <3>2. /\ v \in Ids /\ InFlight(v) /\ Scope(v) = Scope(i)
          /\ v = i \/ Inner(i) # {}
          /\ o # None => o < i /\ operations[i].prior = o
      BY <1>1, <1>2, <3>1 DEF ShownInv, Scope, IsInline
    <3>3. Inner(i) # {} => \E j \in Ids' :
            /\ operations'[j].outer = i
            /\ operations'[j].phase \notin {"succeeded", "failed"}
      <4> SUFFICES ASSUME NEW j \in Inner(i)
                   PROVE  \E k \in Ids' :
                            /\ operations'[k].outer = i
                            /\ operations'[k].phase \notin {"succeeded", "failed"}
        OBVIOUS
      <4>1. j \in Ids /\ operations[j].outer = i /\ ~ IsSettled(j) /\ i # None
        BY <3>1, TypeFacts DEF Inner
      <4>2. j # id
        BY <4>1
      <4> QED
        BY <4>1, <4>2 DEF IsSettled
    <3>4. v # id
      BY <3>1, <3>2
    <3> QED
      BY <1>2, <3>1, <3>2, <3>3, <3>4 DEF InFlight, Scope
  <2> QED
    BY <2>1, <2>2
<1> QED
  BY <1>2, ShownAfter

LEMMA StartShown ==
  ASSUME IInv, ShownInv, Len(operations) < MaxOperations,
         NEW s \in Scopes, NEW r \in Requests, EnqueueAndStart(s, r)
  PROVE  ShownInv'
<1>0. PICK id, none, prior :
        id = Len(operations) + 1 /\ none = None /\ prior = runningOperationId[s]
  OBVIOUS
<1>1. PICK ph : ph = FirstPhase(r)
  OBVIOUS
<1>2. /\ NewOperation(s, r, ph, none, prior) /\ TypeOK /\ s \notin processing
      /\ runningOperationId' = [runningOperationId EXCEPT ![s] = id]
      /\ none \in {None} \cup Ids /\ prior \in {None} \cup Ids
      /\ ph \in {"queued", "checking", "executing"}
      /\ ph \in {"checking", "executing"}
  BY <1>0, <1>1 DEF EnqueueAndStart, IInv, TypeOK, FirstPhase
<1>3. /\ Ids' = Ids \cup {id} /\ id \notin Ids
      /\ \A i \in Ids : operations'[i] = operations[i] /\ i < id
      /\ operations'[id] =
           [scope |-> s, request |-> r, priority |-> EffectivePriority(r),
            phase |-> ph, outer |-> none, prior |-> prior]
  BY <1>0, <1>2, NewOperationEffect
<1>4. \A j \in Ids : ~ (InFlight(j) /\ Scope(j) = s)
  BY <1>2, NothingInFlight
<1>5. /\ operations'[id].scope = s /\ operations'[id].outer = None
      /\ operations'[id].phase \in {"checking", "executing"}
  BY <1>0, <1>2, <1>3
<1>6. \A i \in Ids : i # id => operations'[i] = operations[i]
  BY <1>3
<1> QED
  BY <1>2, <1>3, <1>4, <1>5, <1>6, BegunShown

(* An operation nothing runs under is settled: it is the one shown, and    *)
(* the operation it ran under, if any, is shown again.                     *)
LEMMA SettledShown ==
  ASSUME IInv, ShownInv, NEW i \in Ids, InFlight(i), Inner(i) = {},
         NEW outcome \in {"succeeded", "failed"}, SettleAs(i, outcome)
  PROVE  ShownInv'
<1>0. PICK s, o : s = Scope(i) /\ o = operations[i].outer
  OBVIOUS
<1>1. TypeOK /\ s \in Scopes /\ runningOperationId[s] = i
  BY <1>0, TypeFacts DEF IInv, ShownInv
<1>2. /\ Ids' = Ids
      /\ \A j \in Ids : j # i => operations'[j] = operations[j]
      /\ operations'[i].phase = outcome
  BY <1>1, SettleEffect DEF SettleAs
<1>3. /\ runningOperationId'[s] = operations[i].prior
      /\ \A t \in Scopes : t # s => runningOperationId'[t] = runningOperationId[t]
  BY <1>0, <1>1 DEF SettleAs, RestoredRunningId, TypeOK
<1>4. CASE IsInline(i)
  <2>1. /\ o # None /\ operations[i].prior = o /\ o < i /\ i \in Nat
        /\ o \in Ids /\ InFlight(o) /\ Scope(o) = s
    BY <1>0, <1>1, <1>4, TypeFacts DEF ShownInv, IsInline, IInv, InlineInv, InFlight
  <2>2. o # i
    BY <2>1
  <2>3. ASSUME NEW j \in Ids', NEW v, NEW u,
               operations'[j].phase \in {"checking", "executing"},
               v = runningOperationId'[operations'[j].scope], u = operations'[j].outer
        PROVE  /\ v \in Ids' /\ operations'[v].phase \in {"checking", "executing"}
               /\ operations'[v].scope = operations'[j].scope
               /\ v = j \/ \E k \in Ids' :
                    /\ operations'[k].outer = j
                    /\ operations'[k].phase \notin {"succeeded", "failed"}
               /\ u # None => u < j /\ operations'[j].prior = u
    <3>1. /\ j \in Ids /\ j # i /\ operations'[j] = operations[j] /\ InFlight(j)
          /\ Scope(j) \in Scopes
      BY <1>1, <1>2, <2>3, TypeFacts DEF InFlight
    <3>2. ASSUME j # o, Inner(j) # {}
          PROVE  \E k \in Ids' :
                    /\ operations'[k].outer = j
                    /\ operations'[k].phase \notin {"succeeded", "failed"}
      <4>1. PICK k \in Inner(j) : TRUE
        BY <3>2
      <4>2. k \in Ids /\ operations[k].outer = j /\ ~ IsSettled(k) /\ k # i
        BY <1>0, <3>2, <4>1 DEF Inner
      <4> QED
        BY <1>2, <4>2 DEF IsSettled
    <3>3. u # None => u < j /\ operations'[j].prior = u
      BY <2>3, <3>1 DEF ShownInv, IsInline
    <3>4. CASE Scope(j) = s
      <4>1. v = o /\ operations'[o] = operations[o]
        BY <1>2, <1>3, <2>1, <2>2, <2>3, <3>1, <3>4 DEF Scope
      <4>2. j = o \/ Inner(j) # {}
        BY <1>1, <3>1, <3>4 DEF ShownInv
      <4> QED
        BY <1>2, <2>1, <3>1, <3>2, <3>3, <3>4, <4>1, <4>2 DEF InFlight, Scope
    <3>5. CASE Scope(j) # s
      <4>1. /\ v \in Ids /\ InFlight(v) /\ Scope(v) = Scope(j)
            /\ v = j \/ Inner(j) # {}
        BY <1>3, <2>3, <3>1, <3>5 DEF ShownInv, Scope
      <4>2. v # i /\ j # o
        BY <1>0, <2>1, <3>5, <4>1
      <4> QED
        BY <1>2, <3>1, <3>2, <3>3, <4>1, <4>2 DEF InFlight, Scope
    <3> QED
      BY <3>4, <3>5
  <2> QED
    BY <2>3, ShownAfter
<1>5. CASE ~ IsInline(i)
  <2>1. \A j \in Ids : InFlight(j) /\ Scope(j) = s /\ j # i
          => IsInline(j) /\ operations[j].outer # i
    <3> SUFFICES ASSUME NEW j \in Ids, InFlight(j), Scope(j) = s, j # i
                 PROVE  IsInline(j) /\ operations[j].outer # i
      OBVIOUS
    <3>1. operations[j].outer # i
      BY DEF Inner, InFlight, IsSettled
    <3>2. IsInline(j)
      BY <1>0, <1>1, <1>5 DEF IInv, LoopInv
    <3> QED
      BY <3>1, <3>2
  <2>2. \A j \in Ids : InFlight(j) /\ Scope(j) = s => j = i
    BY <1>1, <2>1, NothingBeside
  <2>3. ASSUME NEW j \in Ids', NEW v, NEW u,
               operations'[j].phase \in {"checking", "executing"},
               v = runningOperationId'[operations'[j].scope], u = operations'[j].outer
        PROVE  /\ v \in Ids' /\ operations'[v].phase \in {"checking", "executing"}
               /\ operations'[v].scope = operations'[j].scope
               /\ v = j \/ \E k \in Ids' :
                    /\ operations'[k].outer = j
                    /\ operations'[k].phase \notin {"succeeded", "failed"}
               /\ u # None => u < j /\ operations'[j].prior = u
    <3>1. /\ j \in Ids /\ j # i /\ operations'[j] = operations[j] /\ InFlight(j)
          /\ Scope(j) \in Scopes /\ j # None
      BY <1>1, <1>2, <2>3, TypeFacts DEF InFlight
    <3>2. Scope(j) # s
      BY <2>2, <3>1
    <3>3. /\ v \in Ids /\ InFlight(v) /\ Scope(v) = Scope(j)
          /\ v = j \/ Inner(j) # {}
          /\ u # None => u < j /\ operations'[j].prior = u
      BY <1>3, <2>3, <3>1, <3>2 DEF ShownInv, Scope, IsInline
    <3>4. v # i
      BY <1>0, <3>2, <3>3
    <3>5. ASSUME Inner(j) # {}
          PROVE  \E k \in Ids' :
                    /\ operations'[k].outer = j
                    /\ operations'[k].phase \notin {"succeeded", "failed"}
      <4>1. PICK k \in Inner(j) : TRUE
        BY <3>5
      <4>2. k \in Ids /\ operations[k].outer = j /\ ~ IsSettled(k) /\ k # i
        BY <1>5, <3>1, <4>1 DEF Inner, IsInline
      <4> QED
        BY <1>2, <4>2 DEF IsSettled
    <3> QED
      BY <1>2, <3>1, <3>3, <3>4, <3>5 DEF InFlight, Scope
  <2> QED
    BY <2>3, ShownAfter
<1> QED
  BY <1>4, <1>5

LEMMA NextShown ==
  ASSUME IInv, ShownInv, NEW s \in Scopes, StartNext(s)
  PROVE  ShownInv'
<1>1. PICK id, q, r, prior :
        /\ q = items[s] /\ id = Head(q)
        /\ r = operations[id].request
        /\ prior = runningOperationId[s]
  OBVIOUS
<1>2. /\ operations' = [operations EXCEPT ![id].phase = FirstPhase(r),
                                         ![id].prior = prior]
      /\ runningOperationId' = [runningOperationId EXCEPT ![s] = id]
      /\ q # <<>> /\ IsSettled(awaiting[s])
  BY <1>1 DEF StartNext, LoopResumes
<1>3. TypeOK /\ q \in Seq(Ids)
  BY <1>1 DEF IInv, TypeOK
<1>4. id \in Ids /\ Scope(id) = s /\ operations[id].outer = None
  <2>1. DOMAIN q = 1 .. Len(q) /\ Len(q) \in Nat /\ Len(q) # 0
    BY <1>2, <1>3, SeqFacts, EmptySeq
  <2>2. id = q[1] /\ 1 \in DOMAIN q
    BY <1>1, <1>3, <2>1
  <2>3. id \in Queued(s)
    BY <1>1, <2>2 DEF IInv, ItemsInv
  <2> QED
    BY <2>3 DEF Queued, IInv, InlineInv, IsInline
<1>5. FirstPhase(r) \in {"checking", "executing"} /\ prior \in {None} \cup Ids
  BY <1>1, <1>3 DEF FirstPhase, TypeOK
<1>6. /\ Ids' = Ids \cup {id}
      /\ \A i \in Ids : i # id => operations'[i] = operations[i]
      /\ operations'[id].phase = FirstPhase(r)
      /\ operations'[id].scope = s /\ operations'[id].outer = None
  <2>1. FirstPhase(r) \in {"queued", "checking", "executing", "succeeded", "failed"}
    BY <1>5
  <2>2. /\ Ids' = Ids
        /\ \A i \in Ids : i # id => operations'[i] = operations[i]
        /\ operations'[id].phase = FirstPhase(r)
        /\ operations'[id].scope = operations[id].scope
        /\ operations'[id].outer = operations[id].outer
    BY <1>2, <1>3, <1>4, <1>5, <2>1, PhaseEffect
  <2> QED
    BY <1>4, <2>2 DEF Scope
<1>7. \A j \in Ids : ~ (InFlight(j) /\ Scope(j) = s)
  BY <1>2, NothingInFlight
<1>8. operations'[id].phase \in {"checking", "executing"}
  BY <1>5, <1>6
<1> QED
  BY <1>2, <1>3, <1>4, <1>6, <1>7, <1>8, BegunShown

LEMMA GrantedShown ==
  ASSUME IInv, ShownInv, NEW i \in Ids, PermissionGranted(i)
  PROVE  ShownInv'
<1>1. /\ operations[i].phase = "checking"
      /\ operations' = [operations EXCEPT ![i].phase = "executing"]
      /\ runningOperationId' = runningOperationId
      /\ TypeOK
  BY DEF PermissionGranted, IInv
<1>2. /\ Ids' = Ids
      /\ \A j \in Ids : j # i => operations'[j] = operations[j]
      /\ operations'[i].phase = "executing"
      /\ operations'[i].scope = operations[i].scope
      /\ operations'[i].outer = operations[i].outer
  BY <1>1, SettleEffect
<1>3. operations'[i].prior = operations[i].prior
  <2>1. operations \in Seq(Operation) /\ operations[i] \in Operation
    BY <1>1, TypeFacts DEF TypeOK
  <2>2. operations'[i] = [operations[i] EXCEPT !.phase = "executing"]
    BY <1>1, <2>1 DEF Ids
  <2> QED
    BY <2>1, <2>2 DEF Operation
<1>4. \A j \in Ids :
        /\ operations'[j].scope = operations[j].scope
        /\ operations'[j].outer = operations[j].outer
        /\ operations'[j].prior = operations[j].prior
        /\ InFlight(j)' <=> InFlight(j)
        /\ IsSettled(j)' <=> IsSettled(j)
  BY <1>1, <1>2, <1>3 DEF InFlight, IsSettled
<1> QED
  BY <1>1, <1>2, <1>4, ShownKept

(* An operation that waits for its permission check has nothing under it.  *)
LEMMA DeniedShown ==
  ASSUME IInv, ShownInv, NEW i \in Ids, PermissionDenied(i)
  PROVE  ShownInv'
<1>1. operations[i].phase = "checking" /\ SettleAs(i, "failed") /\ InFlight(i)
  BY DEF PermissionDenied, InFlight
<1>2. ASSUME NEW j \in Inner(i) PROVE FALSE
  <2>1. j \in Ids /\ operations[j].outer = i /\ ~ IsSettled(j) /\ IsInline(j)
    BY TypeFacts DEF Inner, IInv, IsInline
  <2>2. InFlight(j)
    BY <2>1, Statuses DEF IInv, InlineInv
  <2> QED
    BY <1>1, <2>1, <2>2 DEF IInv, InlineInv
<1> QED
  BY <1>1, <1>2, SettledShown

LEMMA SameShown ==
  ASSUME ShownInv, UNCHANGED <<operations, runningOperationId>>
  PROVE  ShownInv'
<1>1. Ids' = Ids
  BY DEF Ids
<1>2. \A j \in Ids :
        /\ operations'[j].scope = operations[j].scope
        /\ operations'[j].outer = operations[j].outer
        /\ operations'[j].prior = operations[j].prior
        /\ InFlight(j)' <=> InFlight(j)
        /\ IsSettled(j)' <=> IsSettled(j)
  BY DEF InFlight, IsSettled
<1> QED
  BY <1>1, <1>2, ShownKept

LEMMA StepShown ==
  ASSUME ~ Siblings, IInv, ShownInv, [Next]_vars
  PROVE  ShownInv'
<1>1. ASSUME NEW s \in Scopes, NEW r \in Requests, EnqueueRepoWrite(s, r)
      PROVE  ShownInv'
  BY <1>1, InlineShown, BehindShown, StartShown DEF EnqueueRepoWrite
<1>2. ASSUME NEW i \in Ids, OperationStep(i)
      PROVE  ShownInv'
  <2>1. ASSUME NEW outcome \in {"succeeded", "failed"}, RunSettles(i, outcome)
        PROVE  ShownInv'
    BY <2>1, SettledShown DEF RunSettles, InFlight
  <2> QED
    BY <1>2, <2>1, GrantedShown, DeniedShown DEF OperationStep
<1>3. CASE RunThrows
  <2>1. PICK i : i = Last(callStack)
    OBVIOUS
  <2>2. i \in Ids /\ InFlight(i)
    BY <1>3, <2>1, PopCallStack DEF RunThrows, IInv, InFlight
  <2>3. Inner(i) = {} /\ SettleAs(i, "failed")
    BY <1>3, <2>1 DEF RunThrows
  <2> QED
    BY <2>2, <2>3, SettledShown
<1>4. ASSUME NEW s \in Scopes, LoopStep(s)
      PROVE  ShownInv'
  BY <1>4, NextShown, SameShown DEF LoopStep, StopProcessing
<1>5. ASSUME NEW s \in Scopes, NEW types \in WaitFilters, WaitForIdle(s, types)
      PROVE  ShownInv'
  BY <1>5, SameShown DEF WaitForIdle
<1>6. CASE RunReturns \/ AllDone \/ UNCHANGED vars
  BY <1>6, SameShown DEF RunReturns, AllDone, vars
<1> QED
  BY <1>1, <1>2, <1>3, <1>4, <1>5, <1>6 DEF Next

LEMMA InitShown == Init => ShownInv
  BY DEF Init, ShownInv, Ids

(* A waiter is resolved by a change after which nothing it waits for is    *)
(* shown as pending.                                                       *)
LEMMA ResolvedWaiter ==
  ASSUME [Next]_vars, NEW w \in waiters, w \notin waiters'
  PROVE  ~ HasPending(w.scope, w.types)'
<1>1. NotifyWaiters
  BY DEF Next, vars, EnqueueRepoWrite, EnqueueInline, EnqueueBehind, EnqueueAndStart,
         OperationStep, PermissionGranted, PermissionDenied, RunSettles, RunReturns,
         RunThrows, LoopStep, StartNext, StopProcessing, WaitForIdle, AllDone
<1> QED
  BY <1>1 DEF NotifyWaiters

(* What is not shown as pending is settled, or hidden by what runs under   *)
(* it, which a wait for all types sees.                                    *)
LEMMA NotPending ==
  ASSUME IInv, ShownInv, NEW s \in Scopes, NEW types, ~ HasPending(s, types),
         NEW i \in Ids, Scope(i) = s, Type(i) \in types
  PROVE  IsSettled(i) \/ (types # OperationTypes /\ Inner(i) # {})
<1>1. ASSUME NEW j \in Ids, ~ IsSettled(j),
             j \in Range(items[s]) \/ (j = runningOperationId[s] /\ j # None)
      PROVE  Type(j) \notin types
  BY <1>1 DEF HasPending, Snapshot
<1>2. CASE operations[i].phase = "queued"
  <2>1. i \in Range(items[s])
    BY <1>2 DEF IInv, ItemsInv, Queued, Range
  <2>2. ~ IsSettled(i)
    BY <1>2 DEF IsSettled
  <2> QED
    BY <1>1, <2>1, <2>2
<1>3. CASE InFlight(i)
  <2>1. PICK r : r = runningOperationId[s]
    OBVIOUS
  <2>2. /\ r \in Ids /\ InFlight(r) /\ r # None
        /\ r = i \/ Inner(i) # {}
    BY <1>3, <2>1, TypeFacts DEF ShownInv, IInv
  <2>3. Type(r) \notin types
    BY <1>1, <2>1, <2>2 DEF InFlight, IsSettled
  <2>4. Type(r) \in OperationTypes
    <3>1. operations[r] \in Operation
      BY <2>2, TypeFacts DEF IInv
    <3> QED
      BY <3>1, QueueAssumption DEF Operation, Request, Type, QueueAssumption
  <2> QED
    BY <2>2, <2>3, <2>4
<1> QED
  BY <1>2, <1>3, Statuses DEF IInv

(* What is not shown as pending is over.                                   *)
ShowsWhatIsPending ==
  \A s \in Scopes, types \in WaitFilters :
    HasPending(s, types) \/ Drained([scope |-> s, types |-> types])

(* waitForRepoWriteQueueIdle resolves only when every operation it waits   *)
(* for is settled, but for one that an inline operation hides from a       *)
(* caller that waits for some types only: for every set of scopes and      *)
(* requests, as long as no run() starts a second inline write before the   *)
(* first one is settled.                                                   *)
THEOREM WaitersAreRight ==
  ASSUME ~ Siblings
  PROVE  Spec => WaitersSeeDrainedScope
<1>1. Init => IInv /\ ShownInv
  BY InitInv, InitShown
<1>2. IInv /\ ShownInv /\ [Next]_vars => IInv' /\ ShownInv'
  BY NextInv, StepShown
<1>3. IInv /\ ShownInv => ShowsWhatIsPending
  BY NotPending DEF ShowsWhatIsPending, Drained
<1>4. IInv /\ ShowsWhatIsPending' /\ [Next]_vars
        => [\A w \in waiters \ waiters' : Drained(w)']_vars
  <2> SUFFICES ASSUME IInv, ShowsWhatIsPending', [Next]_vars,
                      NEW w \in waiters \ waiters'
               PROVE  Drained(w)'
    OBVIOUS
  <2>1. /\ w.scope \in Scopes /\ w.types \in WaitFilters
        /\ w = [scope |-> w.scope, types |-> w.types]
    BY DEF IInv, TypeOK
  <2>2. ~ HasPending(w.scope, w.types)'
    BY ResolvedWaiter
  <2> QED
    BY <2>1, <2>2 DEF ShowsWhatIsPending
<1> QED
  BY <1>1, <1>2, <1>3, <1>4, PTL DEF Spec, WaitersSeeDrainedScope
=============================================================================
