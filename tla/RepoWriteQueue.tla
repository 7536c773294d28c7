--------------------------- MODULE RepoWriteQueue ---------------------------
(***************************************************************************)
(* src-ui/app/repo-write-queue.js: the queue every Git-mutating operation  *)
(* of the app goes through, one queue per repository scope.                *)
(*                                                                         *)
(* JavaScript runs one callback to completion before the next one starts.  *)
(* callStack holds the operations whose run() is executing synchronously   *)
(* right now; while it is not empty only the operation at its top can act. *)
(* Every other action is one turn of the event loop.                       *)
(***************************************************************************)
EXTENDS Naturals, Sequences, SequencesExt

CONSTANTS
  Scopes,          \* the repository scopes
  Requests,        \* the shapes of write the callers submit
  WaitFilters,     \* sets of operation types a caller may wait for
  MaxOperations,   \* bound on the number of operations ever enqueued
  Siblings         \* may a run() start a second inline write before the
                   \* first one it started is settled?

OperationTypes ==
  {"localEditorWrite", "localMetadataWrite", "remoteSync", "repoMaintenance"}
Priorities == {"normal", "durableLocal", "blockingLocal"}

(* What a caller asks for: most leave the priority out ("unset").          *)
(* checkPermission: the operation has a permission check to await first.   *)
(* recordFailure: a failure is kept for the UI.                            *)
Request == [operationType : OperationTypes,
            priority : Priorities \cup {"unset"},
            checkPermission : BOOLEAN, recordFailure : BOOLEAN]

ASSUME QueueAssumption ==
  /\ Requests \subseteq Request
  /\ WaitFilters \subseteq SUBSET OperationTypes
  /\ MaxOperations \in Nat
  /\ Siblings \in BOOLEAN

OperationIds == 1 .. MaxOperations
None == 0                     \* null where an operation id is expected

VARIABLES
  operations,           \* every operation enqueued so far, by id
  items,                \* ids waiting in each scope's queue
  runningOperationId,   \* what each scope's queue shows as running
  processing,           \* the scopes whose processing loop is active
  awaiting,             \* the operation that loop last started
  callStack,            \* operations inside the synchronous part of run()
  repoQueueErrors,      \* operations whose failure was recorded
  waiters               \* pending waitForRepoWriteQueueIdle calls

vars == <<operations, items, runningOperationId, processing, awaiting,
          callStack, repoQueueErrors, waiters>>

(* phase refines the source's status: "checking" (the permission check is  *)
(* pending) and "executing" are both status "running". outer is the        *)
(* operation an inline (re-entrant) operation runs under, prior the        *)
(* running id it found and will restore.                                   *)
Operation ==
  [scope : Scopes, request : Request, priority : Priorities,
   phase : {"queued", "checking", "executing", "succeeded", "failed"},
   outer : {None} \cup OperationIds, prior : {None} \cup OperationIds]

Ids == DOMAIN operations
Scope(i) == operations[i].scope
Type(i) == operations[i].request.operationType
InFlight(i) == operations[i].phase \in {"checking", "executing"}
IsSettled(i) == operations[i].phase \in {"succeeded", "failed"}
IsInline(i) == operations[i].outer # None
Inner(i) == {j \in Ids : operations[j].outer = i /\ ~ IsSettled(j)}
-----------------------------------------------------------------------------
(* Scheduling order.                                                       *)

PriorityRank(p) ==
  CASE p = "blockingLocal" -> 2 [] p = "durableLocal" -> 1 [] OTHER -> 0

(* Mutant of EffectivePriority: an unset priority is taken as it is.       *)
EffectivePriority_Raw(r) ==
  IF r.operationType = "localEditorWrite" THEN "durableLocal" ELSE r.priority

(* An editor write is durableLocal whatever its caller asked for, anything *)
(* else that is not one of the two local priorities is normal.             *)
EffectivePriority(r) ==
  IF r.operationType = "localEditorWrite" THEN "durableLocal"
  ELSE IF r.priority \in {"blockingLocal", "durableLocal"} THEN r.priority
  ELSE "normal"

Rank(r) == PriorityRank(EffectivePriority(r))
RankOf(i) == PriorityRank(operations[i].priority)

(* Mutant of InsertIndex: the newest of its rank goes first.               *)
InsertIndex_Newest(s, r) ==
  LET lower == {k \in DOMAIN items[s] : RankOf(items[s][k]) <= Rank(r)}
  IN  IF lower = {} THEN Len(items[s]) + 1
      ELSE CHOOSE k \in lower : \A j \in lower : k <= j

(* Mutant of InsertIndex: plain first in, first out.                       *)
InsertIndex_Append(s, r) == Len(items[s]) + 1

(* Where a new request goes: before the first queued one of lower rank.    *)
InsertIndex(s, r) ==
  LET lower == {k \in DOMAIN items[s] : RankOf(items[s][k]) < Rank(r)}
  IN  IF lower = {} THEN Len(items[s]) + 1
      ELSE CHOOSE k \in lower : \A j \in lower : k <= j
-----------------------------------------------------------------------------
(* What the queue shows of itself.                                         *)

(* The operations of getRepoWriteQueueSnapshot(s) that are active.         *)
Snapshot(s) ==
  {i \in Range(items[s]) \cup ({runningOperationId[s]} \ {None}) :
     ~ IsSettled(i)}

(* Mutant of HasPending: the running operation is forgotten.               *)
HasPending_Queued(s, types) == \E i \in Range(items[s]) : Type(i) \in types

HasPending(s, types) == \E i \in Snapshot(s) : Type(i) \in types

(* Mutant of NotifyWaiters: a change that emits nothing.                   *)
NotifyWaiters_Silent == waiters' = waiters

(* Each change of a queue runs the listeners: the waiters whose scope has  *)
(* nothing pending any more are resolved.                                  *)
NotifyWaiters ==
  waiters' = {w \in waiters : HasPending(w.scope, w.types)'}
-----------------------------------------------------------------------------
Init ==
  /\ operations = <<>>
  /\ items = [s \in Scopes |-> <<>>]
  /\ runningOperationId = [s \in Scopes |-> None]
  /\ processing = {}
  /\ awaiting = [s \in Scopes |-> None]
  /\ callStack = <<>>
  /\ repoQueueErrors = {}
  /\ waiters = {}

(* Is run() of some operation of scope s on the call stack?                *)
RunDepth(s) == \E k \in DOMAIN callStack : Scope(callStack[k]) = s

(* The innermost of them.                                                  *)
InnermostRun(s) ==
  LET ks == {k \in DOMAIN callStack : Scope(callStack[k]) = s}
  IN  callStack[CHOOSE k \in ks : \A j \in ks : j <= k]

(* runSingleOperation up to its first await: with a permission check it    *)
(* waits for the answer, without one run() is entered at once.             *)
FirstPhase(r) == IF r.checkPermission THEN "checking" ELSE "executing"
EnterRun(i, r) ==
  callStack' = IF r.checkPermission THEN callStack ELSE Append(callStack, i)

NewOperation(s, r, phase, outer, prior) ==
  operations' = Append(operations,
    [scope |-> s, request |-> r, priority |-> EffectivePriority(r),
     phase |-> phase, outer |-> outer, prior |-> prior])

(* enqueueRepoWrite from inside a run() of the same scope: run it inline.  *)
(* The id is inserted in items and taken out again in the same turn.       *)
EnqueueInline(s, r) ==
  /\ RunDepth(s)
  /\ Siblings \/ Inner(InnermostRun(s)) = {}
  /\ LET id == Len(operations) + 1
     IN  /\ NewOperation(s, r, FirstPhase(r), InnermostRun(s),
                         runningOperationId[s])
         /\ runningOperationId' = [runningOperationId EXCEPT ![s] = id]
         /\ EnterRun(id, r)
  /\ UNCHANGED <<items, processing, awaiting, repoQueueErrors>>
  /\ NotifyWaiters

(* enqueueRepoWrite while the scope's loop is active: the id waits.        *)
EnqueueBehind(s, r) ==
  /\ ~ RunDepth(s)
  /\ s \in processing
  /\ NewOperation(s, r, "queued", None, None)
  /\ items' = [items EXCEPT
                 ![s] = InsertAt(@, InsertIndex(s, r), Len(operations) + 1)]
  /\ UNCHANGED <<runningOperationId, processing, awaiting, callStack,
                 repoQueueErrors>>
  /\ NotifyWaiters

(* enqueueRepoWrite on an idle scope: processScopeQueue takes the only     *)
(* item at once.                                                           *)
EnqueueAndStart(s, r) ==
  /\ ~ RunDepth(s)
  /\ s \notin processing
  /\ LET id == Len(operations) + 1
     IN  /\ NewOperation(s, r, FirstPhase(r), None, runningOperationId[s])
         /\ processing' = processing \cup {s}
         /\ awaiting' = [awaiting EXCEPT ![s] = id]
         /\ runningOperationId' = [runningOperationId EXCEPT ![s] = id]
         /\ EnterRun(id, r)
  /\ UNCHANGED <<items, repoQueueErrors>>
  /\ NotifyWaiters

EnqueueRepoWrite(s, r) ==
  /\ Len(operations) < MaxOperations
  /\ EnqueueInline(s, r) \/ EnqueueBehind(s, r) \/ EnqueueAndStart(s, r)

(* The permission check of i answers yes: run() is entered.                *)
PermissionGranted(i) ==
  /\ callStack = <<>>
  /\ operations[i].phase = "checking"
  /\ operations' = [operations EXCEPT ![i].phase = "executing"]
  /\ callStack' = <<i>>
  /\ UNCHANGED <<items, runningOperationId, processing, awaiting,
                 repoQueueErrors, waiters>>

(* The running id left behind when i is settled.                           *)
RestoredRunningId(i) == operations[i].prior

(* The catch and finally blocks of runSingleOperation. cleanup drops the   *)
(* operation from operationsById, its id is in no queue any more.          *)
SettleAs(i, outcome) ==
  /\ operations' = [operations EXCEPT ![i].phase = outcome]
  /\ runningOperationId' =
       [runningOperationId EXCEPT ![Scope(i)] = RestoredRunningId(i)]
  /\ repoQueueErrors' =
       IF outcome = "failed" /\ operations[i].request.recordFailure
       THEN repoQueueErrors \cup {i} ELSE repoQueueErrors

PermissionDenied(i) ==
  /\ callStack = <<>>
  /\ operations[i].phase = "checking"
  /\ SettleAs(i, "failed")
  /\ UNCHANGED <<items, processing, awaiting, callStack>>
  /\ NotifyWaiters

(* run() returns its promise to the code that called it.                   *)
RunReturns ==
  /\ callStack # <<>>
  /\ callStack' = Front(callStack)
  /\ UNCHANGED <<operations, items, runningOperationId, processing, awaiting,
                 repoQueueErrors, waiters>>

(* run() throws before it returns a promise and before it has started any  *)
(* inline write.                                                           *)
RunThrows ==
  /\ callStack # <<>>
  /\ Inner(Last(callStack)) = {}
  /\ callStack' = Front(callStack)
  /\ SettleAs(Last(callStack), "failed")
  /\ UNCHANGED <<items, processing, awaiting>>
  /\ NotifyWaiters

(* The promise run() returned is settled. A run awaits the inline writes   *)
(* it started ("the in-flight op is waiting on this one").                 *)
RunSettles(i, outcome) ==
  /\ callStack = <<>>
  /\ operations[i].phase = "executing"
  /\ Inner(i) = {}
  /\ SettleAs(i, outcome)
  /\ UNCHANGED <<items, processing, awaiting, callStack>>
  /\ NotifyWaiters

(* Mutant of LoopResumes: the loop does not await the operation.           *)
LoopResumes_NoAwait(s) == callStack = <<>> /\ s \in processing

(* The loop's await of its last operation is over.                         *)
LoopResumes(s) ==
  /\ callStack = <<>>
  /\ s \in processing
  /\ IsSettled(awaiting[s])

(* processScopeQueue goes round: the head of the queue is started. (Every  *)
(* id in items is a queued operation, see QueueIntegrity: the source's     *)
(* test for it never skips one.)                                           *)
StartNext(s) ==
  /\ LoopResumes(s)
  /\ items[s] # <<>>
  /\ LET id == Head(items[s]) IN
       /\ operations' = [operations EXCEPT
            ![id].phase = FirstPhase(operations[id].request),
            ![id].prior = runningOperationId[s]]
       /\ runningOperationId' = [runningOperationId EXCEPT ![s] = id]
       /\ awaiting' = [awaiting EXCEPT ![s] = id]
       /\ EnterRun(id, operations[id].request)
  /\ items' = [items EXCEPT ![s] = Tail(@)]
  /\ UNCHANGED <<processing, repoQueueErrors>>
  /\ NotifyWaiters

(* ... or ends, and the empty queue is deleted from queuesByScope.         *)
StopProcessing(s) ==
  /\ LoopResumes(s)
  /\ items[s] = <<>>
  /\ processing' = processing \ {s}
  /\ awaiting' = [awaiting EXCEPT ![s] = None]
  /\ UNCHANGED <<operations, items, runningOperationId, callStack,
                 repoQueueErrors>>
  /\ NotifyWaiters

(* waitForRepoWriteQueueIdle: only a caller that finds something pending   *)
(* has to wait.                                                            *)
WaitForIdle(s, types) ==
  /\ callStack = <<>>
  /\ HasPending(s, types)
  /\ waiters' = waiters \cup {[scope |-> s, types |-> types]}
  /\ UNCHANGED <<operations, items, runningOperationId, processing, awaiting,
                 callStack, repoQueueErrors>>

(* All the writes of the bounded run are done.                             *)
AllDone ==
  /\ Len(operations) = MaxOperations
  /\ \A i \in Ids : IsSettled(i)
  /\ UNCHANGED vars

OperationStep(i) ==
  \/ PermissionGranted(i)
  \/ PermissionDenied(i)
  \/ \E outcome \in {"succeeded", "failed"} : RunSettles(i, outcome)

LoopStep(s) == StartNext(s) \/ StopProcessing(s)

Next ==
  \/ \E s \in Scopes, r \in Requests : EnqueueRepoWrite(s, r)
  \/ \E i \in Ids : OperationStep(i)
  \/ RunReturns
  \/ RunThrows
  \/ \E s \in Scopes : LoopStep(s)
  \/ \E s \in Scopes, types \in WaitFilters : WaitForIdle(s, types)
  \/ AllDone

Spec == Init /\ [][Next]_vars

(* The event loop gets to every callback that is due, and what an          *)
(* operation awaits (its permission check, the backend call inside run())  *)
(* answers in the end.                                                     *)
Fairness ==
  /\ WF_vars(RunReturns)
  /\ \A s \in Scopes : WF_vars(LoopStep(s))
  /\ \A i \in OperationIds : WF_vars(i \in Ids /\ OperationStep(i))

FairSpec == Spec /\ Fairness
-----------------------------------------------------------------------------
(* Properties.                                                             *)

TypeOK ==
  /\ operations \in Seq(Operation) /\ Len(operations) <= MaxOperations
  /\ items \in [Scopes -> Seq(Ids)]
  /\ runningOperationId \in [Scopes -> {None} \cup Ids]
  /\ processing \subseteq Scopes
  /\ awaiting \in [Scopes -> {None} \cup Ids]
  /\ callStack \in Seq(Ids)
  /\ repoQueueErrors \subseteq Ids
  /\ waiters \subseteq [scope : Scopes, types : WaitFilters]

Queued(s) == {i \in Ids : operations[i].phase = "queued" /\ Scope(i) = s}
RunsFirst(i, j) == RankOf(i) > RankOf(j) \/ (RankOf(i) = RankOf(j) /\ i < j)

(* No operation is lost between operationsById and the queues: the items of *)
(* a scope are its queued operations, each once, the most urgent first and  *)
(* first come first served among equals; a scope without a processing loop  *)
(* has none.                                                                *)
QueueIntegrity ==
  \A s \in Scopes :
    /\ Range(items[s]) = Queued(s)
    /\ \A j, k \in DOMAIN items[s] :
         j < k => RunsFirst(items[s][j], items[s][k])
    /\ s \notin processing => items[s] = <<>>

(* "One in-process repo coordinator serializes Git-mutating operations per  *)
(* project repo": of the operations in flight on a scope one at most is not *)
(* inline, and an inline one runs under an operation that is in flight on   *)
(* the same scope and waits for it.                                         *)
OneWriterAtATime ==
  \A i, j \in Ids :
    InFlight(i) =>
      /\ InFlight(j) /\ Scope(i) = Scope(j) /\ ~ IsInline(i) /\ ~ IsInline(j)
           => i = j
      /\ IsInline(i) => /\ operations[operations[i].outer].phase = "executing"
                        /\ Scope(operations[i].outer) = Scope(i)

(* waitForRepoWriteQueueIdle resolves only when every operation it waits    *)
(* for is settled; an operation hidden by an inline one running under it is *)
(* missed, unless the caller waits for all types.                           *)
Drained(w) ==
  \A i \in Ids :
    Scope(i) = w.scope /\ Type(i) \in w.types =>
      IsSettled(i) \/ (w.types # OperationTypes /\ Inner(i) # {})
WaitersSeeDrainedScope == [][\A w \in waiters \ waiters' : Drained(w)']_vars

(* Every wait for an idle queue ends.                                       *)
WaitersResolve == []<>(waiters = {})

(* What its callers rely on: the operations that are not inline, as writes  *)
(* of ScopedWriter.                                                         *)
TopLevel == {i \in Ids : ~ IsInline(i)}
StatusOf(i) ==
  CASE operations[i].phase = "queued" -> "queued"
    [] InFlight(i) -> "running"
    [] OTHER -> "settled"

TopLevelWrites ==
  [i \in TopLevel |->
     [scope |-> Scope(i), rank |-> RankOf(i), status |-> StatusOf(i)]]

W == INSTANCE ScopedWriter WITH
       WriteScopes <- Scopes,
       MaxWrites <- MaxOperations,
       writes <- TopLevelWrites

(* The queue implements the writer its callers see.                         *)
ImplementsWriter == W!WriterSafety

(* ... including that every write submitted is begun and settled.           *)
ImplementsFairWriter == W!WriterSpec
=============================================================================
