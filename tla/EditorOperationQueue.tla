------------------------ MODULE EditorOperationQueue ------------------------
(***************************************************************************)
(* src-ui/app/editor-operation-queue.js: every change made in the editor   *)
(* becomes an operation, whose run() is a local write of the repo write    *)
(* queue. Operations with the same coalesce key stand for one wish of the  *)
(* user; only the newest counts.                                           *)
(*                                                                         *)
(* The repo write queue is what ScopedWriter promises. An operation has    *)
(* the number of its write; the other writes are those of the rest of the  *)
(* app (remote syncs, project and glossary writes).                        *)
(*                                                                         *)
(* An operation is finished a few promise reactions before its write is    *)
(* settled in the repo queue, so the two are separate steps.               *)
(***************************************************************************)
EXTENDS ScopedWriter, FiniteSets, Functions

CONSTANTS
  CoalesceKeys,   \* e.g. the reviewed marker of one row and language
  NoKey,          \* the key of operations that are never coalesced
  ScopeOf,        \* a key names a chapter, and so its repository
  OtherRanks      \* the ranks of the writes that are not operations

ASSUME KeyAssumption ==
  /\ OtherRanks \subseteq 0 .. 2
  /\ NoKey \notin CoalesceKeys
  /\ ScopeOf \in [CoalesceKeys -> WriteScopes]

LocalWrite == 1     \* "durableLocal", ahead of rank 0, remoteSync
NoOperation == 0

Operation == [key : CoalesceKeys \cup {NoKey},
              status : {"queued", "running", "succeeded", "failed", "cancelled"},
              supersededBy : WriteIds \cup {NoOperation}]

VARIABLES
  operations,   \* operationsById
  latest,       \* latestByCoalesceKey
  waiting       \* the repositories somebody awaits waitForIdle for

queueVars == <<writes, operations, latest, waiting>>

(* f, which has no x, with x mapped to v.                                  *)
Added(f, x, v) == [y \in DOMAIN f \cup {x} |-> IF y = x THEN v ELSE f[y]]

(* anyActive, for the operations of one repository.                        *)
ActiveIn(ops, s) ==
  {w \in DOMAIN ops : /\ ops[w].status \in {"queued", "running"}
                      /\ writes'[w].scope = s}

(* emitChanged: the waiters whose predicate no active operation matches    *)
(* are resolved.                                                           *)
EmitChanged(ops) == waiting' = {s \in waiting : ActiveIn(ops, s) # {}}

(* Mutant of IsLatestCoalesced: an operation without a key is not found.   *)
IsLatestCoalesced_Keyless(w) ==
  operations[w].key # NoKey /\ latest[operations[w].key] = w

(* isLatestCoalescedOperation                                              *)
IsLatestCoalesced(w) ==
  operations[w].key = NoKey \/ latest[operations[w].key] = w
-----------------------------------------------------------------------------
Init ==
  /\ WriterInit
  /\ operations = <<>>
  /\ latest = [k \in CoalesceKeys |-> NoOperation]
  /\ waiting = {}

(* Mutant of Superseded: a queued operation is marked but not cancelled.   *)
Superseded_Kept(key, w) ==
  [v \in DOMAIN operations |->
     IF key # NoKey /\ v = latest[key] /\ operations[v].status \in {"queued", "running"}
     THEN [operations[v] EXCEPT !.supersededBy = w]
     ELSE operations[v]]

(* What becomes of the key's previous operation when w is requested: if it *)
(* is queued it will never run, if it is running its outcome is stale.     *)
Superseded(key, w) ==
  [v \in DOMAIN operations |->
     IF key # NoKey /\ v = latest[key] /\ operations[v].status \in {"queued", "running"}
     THEN [operations[v] EXCEPT !.supersededBy = w,
             !.status = IF @ = "queued" THEN "cancelled" ELSE @]
     ELSE operations[v]]

(* Mutant of RequestOperation: only coalesced operations are durable local *)
(* writes.                                                                 *)
RequestOperation_Rank(w, s, key, st) ==
  /\ SubmitWrite(w, s, IF key = NoKey THEN 0 ELSE LocalWrite, st)
  /\ operations' = Added(Superseded(key, w), w,
                       [key |-> key, status |-> st, supersededBy |-> NoOperation])
  /\ latest' = IF key = NoKey THEN latest ELSE [latest EXCEPT ![key] = w]
  /\ EmitChanged(operations')

(* requestOperation: when the repository is idle the write, and with it    *)
(* the operation, is running before the call returns.                      *)
RequestOperation(w, s, key, st) ==
  /\ SubmitWrite(w, s, LocalWrite, st)
  /\ operations' = Added(Superseded(key, w), w,
                       [key |-> key, status |-> st, supersededBy |-> NoOperation])
  /\ latest' = IF key = NoKey THEN latest ELSE [latest EXCEPT ![key] = w]
  /\ EmitChanged(operations')

SetStatus(w, status) ==
  /\ operations' = [operations EXCEPT ![w].status = status]
  /\ EmitChanged(operations')
  /\ UNCHANGED latest

(* Mutant of BeginOperation: cancelled operations are run too.             *)
BeginOperation_Cancelled(w) ==
  /\ w \in DOMAIN operations
  /\ BeginWrite(w)
  /\ SetStatus(w, "running")

(* The repo queue calls the run of an operation that is still wanted ...   *)
BeginOperation(w) ==
  /\ w \in DOMAIN operations
  /\ operations[w].status # "cancelled"
  /\ BeginWrite(w)
  /\ SetStatus(w, "running")

(* ... and of one that was cancelled meanwhile.                            *)
SkipCancelled(w) ==
  /\ w \in DOMAIN operations
  /\ operations[w].status = "cancelled"
  /\ BeginWrite(w)
  /\ UNCHANGED <<operations, latest, waiting>>

(* run() was fulfilled; onSuccess or onStaleSuccess is called.             *)
OperationSucceeds(w) ==
  /\ w \in DOMAIN operations
  /\ operations[w].status = "running"
  /\ UNCHANGED writes
  /\ SetStatus(w, "succeeded")

(* Mutant of OperationFails: the callbacks of a stale failure are not      *)
(* followed by emitChanged.                                                *)
OperationFails_Quiet(w) ==
  /\ w \in DOMAIN operations
  /\ operations[w].status = "running"
  /\ operations' = [operations EXCEPT ![w].status =
                      IF IsLatestCoalesced(w) THEN "failed" ELSE "cancelled"]
  /\ UNCHANGED <<writes, latest, waiting>>

(* Mutant of OperationFails: a failed operation is queued again.           *)
OperationFails_Retry(w) ==
  /\ w \in DOMAIN operations
  /\ operations[w].status = "running"
  /\ writes' = [writes EXCEPT ![w].status = "queued"]
  /\ SetStatus(w, "queued")

(* The permission check, run() or a success callback failed; onError is    *)
(* called unless a newer operation took the key over.                      *)
OperationFails(w) ==
  /\ w \in DOMAIN operations
  /\ operations[w].status = "running"
  /\ UNCHANGED writes
  /\ SetStatus(w, IF IsLatestCoalesced(w) THEN "failed" ELSE "cancelled")

(* Mutant of SettleOperation: run() is called but not awaited.             *)
SettleOperation_Early(w) ==
  /\ w \in DOMAIN operations
  /\ SettleWrite(w)
  /\ UNCHANGED <<operations, latest, waiting>>

(* The promise runEditorOperation returned settles the write.              *)
SettleOperation(w) ==
  /\ w \in DOMAIN operations
  /\ operations[w].status # "running"
  /\ SettleWrite(w)
  /\ UNCHANGED <<operations, latest, waiting>>

(* Somebody awaits waitForIdle; when nothing is active it is resolved at   *)
(* once.                                                                   *)
WaitForIdle(s) ==
  /\ UNCHANGED <<writes, operations, latest>>
  /\ ActiveIn(operations, s) # {}
  /\ waiting' = waiting \cup {s}

(* The rest of the app uses the repo queue too.                            *)
OtherWrite(w) ==
  /\ \/ \E s \in WriteScopes, k \in OtherRanks, st \in {"queued", "running"} :
          SubmitWrite(w, s, k, st)
     \/ w \in DOMAIN writes \ DOMAIN operations /\ (BeginWrite(w) \/ SettleWrite(w))
  /\ UNCHANGED <<operations, latest, waiting>>

NextWrite == Cardinality(DOMAIN writes) + 1

(* What goes on without the user once an operation was requested.          *)
OperationStep(w) ==
  \/ BeginOperation(w)
  \/ SkipCancelled(w)
  \/ OperationSucceeds(w)
  \/ OperationFails(w)
  \/ SettleOperation(w)

WritesGoOn(w) ==
  w \in DOMAIN writes /\ (OperationStep(w) \/ OtherWrite(w))

AllDone ==
  /\ DOMAIN writes = WriteIds
  /\ \A w \in WriteIds : writes[w].status = "settled"
  /\ UNCHANGED queueVars

Next ==
  \/ /\ NextWrite \in WriteIds
     /\ \/ \E s \in WriteScopes, k \in CoalesceKeys \cup {NoKey},
              st \in {"queued", "running"} :
             /\ k # NoKey => s = ScopeOf[k]
             /\ RequestOperation(NextWrite, s, k, st)
        \/ OtherWrite(NextWrite)
  \/ \E w \in DOMAIN writes : WritesGoOn(w)
  \/ \E s \in WriteScopes : WaitForIdle(s)
  \/ AllDone

Spec == Init /\ [][Next]_queueVars

(* The repo queue takes the next write, and what a write awaits answers.   *)
FairSpec == Spec /\ \A w \in WriteIds : WF_queueVars(WritesGoOn(w))
-----------------------------------------------------------------------------
(* Properties.                                                             *)

TypeOK ==
  /\ WriterTypeOK
  /\ DOMAIN operations \subseteq DOMAIN writes
  /\ operations \in [DOMAIN operations -> Operation]
  /\ latest \in [CoalesceKeys -> {NoOperation} \cup DOMAIN operations]
  /\ waiting \subseteq WriteScopes

Starts(w) ==
  /\ w \in DOMAIN operations'
  /\ operations'[w].status = "running"
  /\ w \in DOMAIN operations => operations[w].status # "running"

(* "queued editor operations with the same coalesce key run only the        *)
(* latest": when run() is called no newer operation of the key exists.      *)
OnlyNewestStarts ==
  [][\A w \in WriteIds : Starts(w) =>
       \A v \in DOMAIN operations' :
         operations'[v].key = operations'[w].key /\ v > w
           => operations'[v].key = NoKey]_queueVars

(* The repo's operations are carried out in the order they were requested,  *)
(* whatever other writes the app submits: when one starts, each earlier one *)
(* has finished. The batch actions of the editor (unreview all, clear       *)
(* translations) rely on it.                                                *)
RequestOrder ==
  [][\A w \in WriteIds : Starts(w) =>
       \A v \in DOMAIN operations' :
         v < w /\ writes'[v].scope = writes'[w].scope
           => operations'[v].status \notin {"queued", "running"}]_queueVars

(* A wish of the user is given up only for a newer one of the same key, and *)
(* the newest is never given up.                                            *)
NewestIsNeverDropped ==
  \A w \in DOMAIN operations :
    LET op == operations[w]
    IN  /\ op.supersededBy # NoOperation =>
             /\ op.supersededBy > w /\ operations[op.supersededBy].key = op.key
        /\ op.status = "cancelled" => op.supersededBy # NoOperation

(* run() is never called while the repo queue is writing something else to  *)
(* the repository, and the queue keeps the repository for it until it ends. *)
RunsHoldTheRepo ==
  \A w \in DOMAIN operations :
    operations[w].status = "running" =>
      /\ writes[w].status = "running"
      /\ \A v \in DOMAIN writes :
           writes[v].scope = writes[w].scope /\ writes[v].status = "running" => v = w

(* Navigation, export and opening a chapter await waitForIdle: each of them *)
(* goes on in the end, failed or superseded operations notwithstanding.     *)
EverybodyWakes == \A s \in WriteScopes : s \in waiting ~> s \notin waiting

(* Every operation is finished in the end.                                  *)
EveryOperationFinishes ==
  \A w \in WriteIds :
    w \in DOMAIN operations
      ~> /\ w \in DOMAIN operations
         /\ operations[w].status \in {"succeeded", "failed", "cancelled"}
=============================================================================
