----------------------- MODULE WriteIntentCoordinator -----------------------
(***************************************************************************)
(* src-ui/app/write-intent-coordinator.js: the newest wish of the user for *)
(* each key (a chapter's title, a member's role, ...) and the queue that   *)
(* carries the wishes of one scope out one after the other.                *)
(*                                                                         *)
(* A wish is one call of request(). The coordinator keeps the newest of a  *)
(* key only: its intent. Everything the code does between two awaits is    *)
(* one step here; st stands for the state in the middle of such a turn.    *)
(* run() and onSuccess may throw. onError, onStatusChange and the listeners*)
(* are taken not to: they are called outside the try (or in its catch), so *)
(* a throw of theirs would end the loop with keys queued until the next    *)
(* request of the scope starts it again.                                   *)
(***************************************************************************)
EXTENDS Naturals, Sequences, SequencesExt, FiniteSetsExt

CONSTANTS
  Keys,          \* what can be wished for
  Scopes,        \* the queues
  Targets,       \* the (key, scope) pairs the callers request
  OneShot,       \* keys whose operations have clearOnSuccess
  Forgettable,   \* keys whose intent a caller clears whatever its status
  MaxRequests    \* bound on the number of requests

ASSUME IntentAssumption ==
  /\ Targets \subseteq Keys \X Scopes
  /\ OneShot \subseteq Keys /\ Forgettable \subseteq Keys
  /\ MaxRequests \in Nat

RequestIds == 1 .. MaxRequests
NoIntent == [status |-> "idle"]       \* getState of a key that has none
NoRun == [key |-> "none"]             \* the scope's loop is not active
NoFollowUp == <<>>

(* The operations of a key are stored and deleted with its intent, so the  *)
(* request id of an intent stands for them too.                            *)
Intent == [status : {"pending", "running", "pendingConfirmation", "failed"},
           scope : Scopes, version : RequestIds, request : RequestIds]

(* The run a scope's loop awaits: the version it read when it started.     *)
Run == [key : Keys, version : RequestIds, request : RequestIds]

VARIABLES
  intents,     \* intentsByKey (and operationsByKey)
  items,       \* the keys waiting in each scope's queue
  running,     \* the run each scope's loop awaits
  requests,    \* every request made, and what became of its run()
  stored       \* the request of each key that was carried out last

vars == <<intents, items, running, requests, stored>>

Turn == [intents |-> intents, items |-> items, running |-> running,
         requests |-> requests]

(* Binding the value with \E makes TLC evaluate it once.                    *)
EndTurn(st) ==
  \E end \in {st} :
    /\ intents' = end.intents /\ items' = end.items
    /\ running' = end.running /\ requests' = end.requests
-----------------------------------------------------------------------------
Init ==
  /\ intents = [k \in Keys |-> NoIntent]
  /\ items = [s \in Scopes |-> <<>>]
  /\ running = [s \in Scopes |-> NoRun]
  /\ requests = <<>>
  /\ stored = [k \in Keys |-> 0]

Runnable(st, s, k) == st.intents[k] # NoIntent /\ st.intents[k].scope = s

(* The loop goes round: keys whose intent is gone are skipped, the first   *)
(* other one is run; without one the loop ends.                            *)
TakeNext(st, s) ==
  LET q == st.items[s]
      live == {i \in DOMAIN q : Runnable(st, s, q[i])}
  IN  IF live = {}
      THEN [st EXCEPT !.items[s] = <<>>, !.running[s] = NoRun]
      ELSE LET i == CHOOSE i \in live : \A j \in live : i <= j
               intent == st.intents[q[i]]
           IN  [st EXCEPT
                  !.items[s] = SubSeq(q, i + 1, Len(q)),
                  !.intents[q[i]].status = "running",
                  !.requests[intent.request].fate = "running",
                  !.running[s] = [key |-> q[i], version |-> intent.version,
                                  request |-> intent.request]]

(* Mutant of EnqueueIntentKey: a key can be queued twice.                  *)
EnqueueIntentKey_Twice(st, s, k) ==
  LET queued == [st EXCEPT !.items[s] = Append(@, k)]
  IN  IF st.running[s] = NoRun THEN TakeNext(queued, s) ELSE queued

EnqueueIntentKey(st, s, k) ==
  LET queued == IF k \in Range(st.items[s]) THEN st
                ELSE [st EXCEPT !.items[s] = Append(@, k)]
  IN  IF st.running[s] = NoRun THEN TakeNext(queued, s) ELSE queued

(* Versions count the requests of a key since it last had no intent.       *)
NextVersion(st, k) ==
  IF st.intents[k] = NoIntent THEN 1 ELSE st.intents[k].version + 1

RequestIntent(st, k, s) ==
  LET n == Len(st.requests) + 1
  IN  EnqueueIntentKey(
        [st EXCEPT
           !.requests = Append(@, [key |-> k, fate |-> "waiting"]),
           !.intents[k] = [status |-> "pending", scope |-> s, request |-> n,
                           version |-> NextVersion(st, k)]],
        s, k)

(* request() called from the event loop.                                   *)
RequestWrite(k, s) ==
  /\ Len(requests) < MaxRequests
  /\ EndTurn(RequestIntent(Turn, k, s))
  /\ UNCHANGED stored

(* Mutant of Confirm: the intent of a one-shot operation is deleted after  *)
(* its success callbacks.                                                  *)
Confirm_ClearLast(st, k, followUp) ==
  LET confirmed == [st EXCEPT !.intents[k].status = "pendingConfirmation"]
      called == IF followUp = NoFollowUp THEN confirmed
                ELSE RequestIntent(confirmed, followUp[1], followUp[2])
  IN  IF k \in OneShot THEN [called EXCEPT !.intents[k] = NoIntent] ELSE called

(* The run of the newest version succeeded; onSuccess may request a write  *)
(* of this or of another key itself.                                       *)
Confirm(st, k, followUp) ==
  LET confirmed == [st EXCEPT !.intents[k] =
                      IF k \in OneShot THEN NoIntent
                      ELSE [@ EXCEPT !.status = "pendingConfirmation"]]
  IN  IF followUp = NoFollowUp THEN confirmed
      ELSE RequestIntent(confirmed, followUp[1], followUp[2])

(* The catch block, for an error of run() or of a success callback.        *)
Fail(st, k, version) ==
  IF st.intents[k] = NoIntent THEN st
  ELSE IF st.intents[k].version # version
  THEN EnqueueIntentKey(st, st.intents[k].scope, k)
  ELSE [st EXCEPT !.intents[k].status = "failed"]

(* Mutant of Succeed: whatever version is there now counts as carried out. *)
Succeed_AnyVersion(st, k, version, followUp) ==
  IF st.intents[k] = NoIntent THEN st ELSE Confirm(st, k, followUp)

(* run() was fulfilled.                                                    *)
Succeed(st, k, version, followUp) ==
  IF st.intents[k] = NoIntent THEN st
  ELSE IF st.intents[k].version # version
  THEN EnqueueIntentKey(st, st.intents[k].scope, k)
  ELSE Confirm(st, k, followUp)

(* Mutant of GoOn: the loop ends when a run failed.                        *)
GoOn_OnSuccess(st, s, failed) ==
  IF failed THEN [st EXCEPT !.running[s] = NoRun] ELSE TakeNext(st, s)

(* The finally block, and round again: no await separates the end of a run *)
(* from the start of the next one.                                         *)
GoOn(st, s, failed) == TakeNext(st, s)

Settled(s, fate) ==
  [Turn EXCEPT !.requests[running[s].request].fate = fate]

(* The promise of run() is fulfilled.                                      *)
RunSucceeds(s, followUp) ==
  /\ running[s] # NoRun
  /\ followUp # NoFollowUp =>
       /\ Len(requests) < MaxRequests
       /\ intents[running[s].key] # NoIntent
       /\ intents[running[s].key].version = running[s].version
  /\ \E ended \in {Succeed(Settled(s, "saved"), running[s].key,
                           running[s].version, followUp)} :
       EndTurn(GoOn(ended, s, FALSE))
  /\ stored' = [stored EXCEPT ![running[s].key] = running[s].request]

(* ... but a success callback throws.                                      *)
SuccessCallbackThrows(s) ==
  /\ running[s] # NoRun
  /\ intents[running[s].key] # NoIntent
  /\ intents[running[s].key].version = running[s].version
  /\ LET succeeded == Succeed(Settled(s, "saved"), running[s].key,
                              running[s].version, NoFollowUp)
     IN  EndTurn(GoOn(Fail(succeeded, running[s].key, running[s].version),
                      s, TRUE))
  /\ stored' = [stored EXCEPT ![running[s].key] = running[s].request]

(* The promise of run() is rejected.                                       *)
RunFails(s) ==
  /\ running[s] # NoRun
  /\ \E ended \in {Fail(Settled(s, "failed"), running[s].key,
                        running[s].version)} :
       EndTurn(GoOn(ended, s, TRUE))
  /\ UNCHANGED stored

(* clearIntentsWhere for settled intents: a refreshed snapshot shows the   *)
(* values wished for, or failed ones are given up.                         *)
ClearSettled(ks) ==
  /\ \A k \in ks : intents[k].status \in {"pendingConfirmation", "failed"}
  /\ intents' = [k \in Keys |-> IF k \in ks THEN NoIntent ELSE intents[k]]
  /\ UNCHANGED <<items, running, requests, stored>>

(* clearIntentsWhere whatever the status: a member's role while the member *)
(* is being removed or promoted, a team's name while it is deleted.        *)
Forget(k) ==
  /\ k \in Forgettable
  /\ intents[k] # NoIntent
  /\ intents' = [intents EXCEPT ![k] = NoIntent]
  /\ UNCHANGED <<items, running, requests, stored>>

AllDone ==
  /\ Len(requests) = MaxRequests
  /\ \A s \in Scopes : running[s] = NoRun
  /\ UNCHANGED vars

RunStep(s) ==
  \/ \E followUp \in Targets \cup {NoFollowUp} : RunSucceeds(s, followUp)
  \/ SuccessCallbackThrows(s)
  \/ RunFails(s)

Next ==
  \/ \E t \in Targets : RequestWrite(t[1], t[2])
  \/ \E s \in Scopes : RunStep(s)
  \/ \E ks \in (SUBSET Keys) \ {{}} : ClearSettled(ks)
  \/ \E k \in Keys : Forget(k)
  \/ AllDone

Spec == Init /\ [][Next]_vars

(* What a run awaits answers in the end.                                   *)
FairSpec == Spec /\ \A s \in Scopes : WF_vars(RunStep(s))
-----------------------------------------------------------------------------
(* Properties.                                                             *)

TypeOK ==
  /\ intents \in [Keys -> Intent \cup {NoIntent}]
  /\ items \in [Scopes -> Seq(Keys)]
  /\ running \in [Scopes -> Run \cup {NoRun}]
  /\ requests \in Seq([key : Keys, fate : {"waiting", "running", "saved", "failed"}])
  /\ Len(requests) <= MaxRequests
  /\ stored \in [Keys -> 0 .. MaxRequests]

RequestsOf(k) == {n \in DOMAIN requests : requests[n].key = k}
Newest(k) == {n \in RequestsOf(k) : \A m \in RequestsOf(k) : m <= n}

(* The keys no caller clears while their intent is active and that stay in *)
(* one scope.                                                              *)
Steady == {k \in Keys \ Forgettable :
             \A s, t \in Scopes :
               <<k, s>> \in Targets /\ <<k, t>> \in Targets => s = t}

(* The newest request of k, as long as its run() has not been called, has  *)
(* the intent of k, and k is in the queue of its scope.                    *)
StillWaits(k, n) ==
  requests[n].fate = "waiting" =>
    /\ intents[k] # NoIntent
    /\ intents[k].request = n
    /\ running[intents[k].scope] # NoRun
    /\ k \in Range(items[intents[k].scope])

(* "sequences write intents and must not reorder or drop them": a request   *)
(* that no newer one of its key replaced waits in the queue of an active    *)
(* loop until its run() is called.                                          *)
NoRequestLost == \A k \in Steady : \A n \in Newest(k) : StillWaits(k, n)

(* An intent that awaits confirmation was carried out, and nothing of its   *)
(* key was carried out since: a refresh that shows its value may clear it.  *)
ConfirmedWasStored ==
  \A k \in Steady :
    intents[k].status = "pendingConfirmation" => stored[k] = intents[k].request

(* Only the newest wish is carried out, never one that was carried out      *)
(* already, and never two of one key at a time: an old value cannot land on *)
(* a newer one.                                                             *)
OnlyNewestRuns ==
  [][\A k \in Steady, n \in DOMAIN requests' :
       LET starts == /\ requests'[n].key = k /\ requests'[n].fate = "running"
                     /\ n \in DOMAIN requests => requests[n].fate # "running"
       IN  starts => /\ n > stored'[k]
                     /\ \A m \in RequestsOf(k)' :
                          m <= n /\ (m < n => requests'[m].fate # "running")]_vars

(* Every wish is carried out, fails, or is cleared by its caller; a failure *)
(* or a flood of newer requests stalls no key.                              *)
EveryIntentSettles ==
  \A k \in Keys :
    intents[k].status \in {"pending", "running"}
      ~> intents[k].status \notin {"pending", "running"}
=============================================================================
