---------------------------- MODULE AiBatchPool ----------------------------
(***************************************************************************)
(* src-ui/app/editor-ai-batch-pool.js: the batches of one "Translate all"  *)
(* or "Review all" run. Their AI calls share a number of slots, and what   *)
(* comes back is applied in a lane, one batch at a time, because applying  *)
(* commits to the repository.                                              *)
(*                                                                         *)
(* What a batch does is left open but for the rule of the pool: a slot is  *)
(* never held by one that waits for the lane. The two flows call and apply *)
(* in turn (editor-ai-review-all-flow.js, reviewBatch) or call for one row *)
(* after another inside the lane (editor-ai-translate-all-flow.js,         *)
(* runSingleRowFallback). A batch may do so on several strands at once.    *)
(***************************************************************************)
EXTENDS Naturals, Sequences, FiniteSets

CONSTANTS
  BatchCount,    \* batches of the run
  Concurrency,   \* slots, and batches open at once
  Retries,       \* pauses after transient errors (TRANSIENT_RETRY_DELAYS_MS)
  Fanout,        \* strands of one batch: the flows of today use one
  MaxAwaits      \* bound on the calls and applies of one batch

ASSUME PoolAssumption ==
  /\ BatchCount \in Nat /\ Concurrency \in Nat \ {0}
  /\ Retries \in Nat /\ MaxAwaits \in Nat /\ Fanout \in Nat \ {0}

Batches == 1 .. BatchCount
Strands == Batches \X (1 .. Fanout)
NoOutcome == "none"

(* "abort" stands for every outcome a task returns that is not ok.         *)
Stops == {"abort", "run-error"}

VARIABLES
  cursor,        \* the batches 1 .. cursor were taken by a worker
  phase,         \* what each strand of a batch is doing
  available,     \* free slots
  slotQueue,     \* the strands in waiters, in acquire()
  attempt,       \* of the call of each strand
  ticket,        \* the place of each strand's task in the lane, or 0
  laneTail,      \* the place of the task that tail stands for
  laneSettled,   \* the places of the tasks that are over
  awaits,        \* the calls and applies each batch began
  outcome,       \* how each batch ended
  runActive,     \* isRunActive()
  stopOutcome,   \* the first outcome that stops the run
  threw,         \* there is a firstError
  result         \* of run()

slotVars == <<available, slotQueue>>
laneVars == <<ticket, laneTail, laneSettled>>
runVars  == <<cursor, outcome, runActive, stopOutcome, threw, result>>
vars == <<phase, slotVars, attempt, laneVars, awaits, runVars>>

In(phases) == {s \in Strands : phase[s] \in phases}
Calling    == In({"calling", "callingInLane"})
Applying   == In({"applying", "slotInLane", "callingInLane"})

Init ==
  /\ cursor = 0
  /\ phase = [s \in Strands |-> "unclaimed"]
  /\ available = Concurrency
  /\ slotQueue = <<>>
  /\ attempt = [s \in Strands |-> 0]
  /\ ticket = [s \in Strands |-> 0]
  /\ laneTail = 0
  /\ laneSettled = {}
  /\ awaits = [b \in Batches |-> 0]
  /\ outcome = [b \in Batches |-> NoOutcome]
  /\ runActive = TRUE
  /\ stopOutcome = NoOutcome
  /\ threw = FALSE
  /\ result = NoOutcome
-----------------------------------------------------------------------------
(* Slots. A released slot goes to the first that waits.                    *)

(* acquire() by s, which then has a slot (held) or waits for one.          *)
AcquireSlot(s, held, waits) ==
  IF available > 0
  THEN /\ available' = available - 1
       /\ phase' = [phase EXCEPT ![s] = held]
       /\ UNCHANGED slotQueue
  ELSE /\ slotQueue' = Append(slotQueue, s)
       /\ phase' = [phase EXCEPT ![s] = waits]
       /\ UNCHANGED available

HeldPhase(waits) == IF waits = "slotInLane" THEN "callingInLane" ELSE "calling"

(* Mutant of ReleaseSlot: the slot is counted as free although it was      *)
(* handed over.                                                            *)
ReleaseSlot_Twice(s, then) ==
  /\ available' = available + 1
  /\ IF slotQueue = <<>>
     THEN /\ phase' = [phase EXCEPT ![s] = then]
          /\ UNCHANGED slotQueue
     ELSE /\ slotQueue' = Tail(slotQueue)
          /\ phase' = [phase EXCEPT ![s] = then,
                         ![Head(slotQueue)] = HeldPhase(@)]

(* release() by s, which goes on with phase then.                          *)
ReleaseSlot(s, then) ==
  IF slotQueue = <<>>
  THEN /\ available' = available + 1
       /\ phase' = [phase EXCEPT ![s] = then]
       /\ UNCHANGED slotQueue
  ELSE /\ slotQueue' = Tail(slotQueue)
       /\ phase' = [phase EXCEPT ![s] = then,
                      ![Head(slotQueue)] = HeldPhase(@)]
       /\ UNCHANGED available

(* The strand begins another call or apply.                                *)
Begins(s) ==
  /\ awaits[s[1]] < MaxAwaits
  /\ awaits' = [awaits EXCEPT ![s[1]] = @ + 1]

(* A call outside the lane.                                                *)
StartCall(s) ==
  /\ phase[s] = "open"
  /\ Begins(s)
  /\ AcquireSlot(s, "calling", "slot")
  /\ attempt' = [attempt EXCEPT ![s] = 0]
  /\ UNCHANGED <<laneVars, runVars>>

(* The call answers or fails; the task goes on with either.                *)
CallEnds(s) ==
  /\ \/ phase[s] = "calling" /\ ReleaseSlot(s, "open")
     \/ phase[s] = "callingInLane" /\ ReleaseSlot(s, "applying")
  /\ UNCHANGED <<attempt, laneVars, awaits, runVars>>

(* Mutant of CallMustPause: attempts are not counted.                      *)
CallMustPause_Forever(s) ==
  /\ phase[s] = "calling"
  /\ runActive
  /\ ReleaseSlot(s, "pausing")
  /\ UNCHANGED <<attempt, laneVars, awaits, runVars>>

(* A transient error: the call is worth another attempt, after a pause     *)
(* that holds no slot.                                                     *)
CallMustPause(s) ==
  /\ phase[s] = "calling"
  /\ attempt[s] < Retries /\ runActive
  /\ attempt' = [attempt EXCEPT ![s] = @ + 1]
  /\ ReleaseSlot(s, "pausing")
  /\ UNCHANGED <<laneVars, awaits, runVars>>

(* ... unless the run was given up meanwhile.                              *)
PauseEnds(s) ==
  /\ phase[s] = "pausing"
  /\ \/ runActive /\ AcquireSlot(s, "calling", "slot")
     \/ /\ ~ runActive
        /\ phase' = [phase EXCEPT ![s] = "open"]
        /\ UNCHANGED slotVars
  /\ UNCHANGED <<attempt, laneVars, awaits, runVars>>
-----------------------------------------------------------------------------
(* The lane. Each task is chained to the one that was the tail before it.  *)

(* Mutant of Chain: tail stays what it was.                                *)
Chain_Detached(s) ==
  /\ ticket' = [ticket EXCEPT ![s] = laneTail + 1]
  /\ laneTail' = IF laneTail = 0 THEN 1 ELSE laneTail

(* tail = tail.then(task)                                                  *)
Chain(s) ==
  /\ ticket' = [ticket EXCEPT ![s] = laneTail + 1]
  /\ laneTail' = laneTail + 1

EnterLane(s) ==
  /\ phase[s] = "open"
  /\ Begins(s)
  /\ phase' = [phase EXCEPT ![s] = "lane"]
  /\ Chain(s)
  /\ UNCHANGED <<slotVars, attempt, laneSettled, runVars>>

StartApply(s) ==
  /\ phase[s] = "lane"
  /\ ticket[s] = 1 \/ ticket[s] - 1 \in laneSettled
  /\ phase' = [phase EXCEPT ![s] = "applying"]
  /\ UNCHANGED <<slotVars, attempt, laneVars, awaits, runVars>>

(* A row of its own: call and apply are one task of the lane, and the slot *)
(* is taken inside.                                                        *)
CallInLane(s) ==
  /\ phase[s] = "applying"
  /\ Begins(s)
  /\ AcquireSlot(s, "callingInLane", "slotInLane")
  /\ UNCHANGED <<attempt, laneVars, runVars>>

(* The task is over, or threw: the lane goes on either way.                *)
LeaveLane(s) ==
  /\ phase[s] = "applying"
  /\ phase' = [phase EXCEPT ![s] = "open"]
  /\ laneSettled' = laneSettled \cup {ticket[s]}
  /\ ticket' = [ticket EXCEPT ![s] = 0]
  /\ UNCHANGED <<slotVars, attempt, laneTail, awaits, runVars>>

-----------------------------------------------------------------------------
(* The run.                                                                *)

(* The strands of a batch begin and end together.                          *)
SetPhase(b, p) == [s \in Strands |-> IF s[1] = b THEN p ELSE phase[s]]

Workers == IF Concurrency < BatchCount THEN Concurrency ELSE BatchCount
Open == {s[1] : s \in Strands \ In({"unclaimed", "done"})}

(* Mutant of ClaimBatch: an inactive run skips batches without a trace.    *)
ClaimBatch_Silent(b) ==
  /\ b = cursor + 1 /\ Cardinality(Open) < Workers
  /\ cursor' = b
  /\ phase' = SetPhase(b, IF stopOutcome = NoOutcome /\ runActive
                          THEN "open" ELSE "done")
  /\ UNCHANGED <<slotVars, attempt, laneVars, awaits,
                 outcome, runActive, stopOutcome, threw, result>>

(* A worker takes the next batch, and drops it when the run has stopped.   *)
ClaimBatch(b) ==
  /\ b = cursor + 1 /\ Cardinality(Open) < Workers
  /\ cursor' = b
  /\ phase' = SetPhase(b, IF stopOutcome = NoOutcome /\ runActive
                          THEN "open" ELSE "done")
  /\ stopOutcome' = IF stopOutcome = NoOutcome /\ ~ runActive THEN "abort"
                    ELSE stopOutcome
  /\ UNCHANGED <<slotVars, attempt, laneVars, awaits,
                 outcome, runActive, threw, result>>

(* Mutant of StopWith: an error is remembered but stops nothing.           *)
StopWith_NoError(o) ==
  IF stopOutcome = NoOutcome /\ o = "abort" THEN o ELSE stopOutcome

StopWith(o) ==
  IF stopOutcome # NoOutcome \/ o = "ok" THEN stopOutcome
  ELSE IF o = "thrown" THEN "run-error" ELSE o

(* The batch's task returns an outcome, or throws.                         *)
EndBatch(b) ==
  /\ \A s \in Strands : s[1] = b => phase[s] = "open"
  /\ phase' = SetPhase(b, "done")
  /\ \E o \in {"ok", "abort", "thrown"} :
       /\ outcome' = [outcome EXCEPT ![b] = o]
       /\ stopOutcome' = StopWith(o)
       /\ threw' = (threw \/ o = "thrown")
  /\ UNCHANGED <<slotVars, attempt, laneVars, awaits, cursor, runActive, result>>

(* All workers are through.                                                *)
EndRun ==
  /\ result = NoOutcome
  /\ Strands = In({"done"})
  /\ result' = IF threw THEN "thrown"
               ELSE IF stopOutcome = NoOutcome THEN "ok" ELSE stopOutcome
  /\ UNCHANGED <<phase, slotVars, attempt, laneVars, awaits,
                 cursor, outcome, runActive, stopOutcome, threw>>

(* The user cancels, or opens another chapter.                             *)
Cancel ==
  /\ runActive /\ result = NoOutcome
  /\ runActive' = FALSE
  /\ UNCHANGED <<phase, slotVars, attempt, laneVars, awaits,
                 cursor, outcome, stopOutcome, threw, result>>

StrandStep(s) ==
  \/ StartCall(s) \/ CallEnds(s) \/ CallMustPause(s) \/ PauseEnds(s)
  \/ EnterLane(s) \/ StartApply(s) \/ CallInLane(s) \/ LeaveLane(s)

BatchStep(b) == ClaimBatch(b) \/ EndBatch(b)

Next ==
  \/ \E s \in Strands : StrandStep(s)
  \/ \E b \in Batches : BatchStep(b)
  \/ EndRun
  \/ Cancel
  \/ result # NoOutcome /\ UNCHANGED vars

Spec == Init /\ [][Next]_vars

(* A call answers, a pause and an apply end, and a turn that is ready runs. *)
FairSpec ==
  /\ Spec /\ WF_vars(EndRun)
  /\ \A s \in Strands : WF_vars(StrandStep(s))
  /\ \A b \in Batches : WF_vars(BatchStep(b))
-----------------------------------------------------------------------------
(* Properties.                                                             *)

TypeOK ==
  /\ cursor \in 0 .. BatchCount
  /\ phase \in [Strands -> {"unclaimed", "open", "slot", "calling", "pausing",
                            "lane", "applying", "slotInLane", "callingInLane",
                            "done"}]
  /\ available \in 0 .. Concurrency
  /\ slotQueue \in Seq(Strands)
  /\ attempt \in [Strands -> 0 .. Retries]
  /\ ticket \in [Strands -> Nat]
  /\ laneTail \in Nat
  /\ laneSettled \subseteq Nat
  /\ awaits \in [Batches -> 0 .. MaxAwaits]
  /\ outcome \in [Batches -> {NoOutcome, "ok", "abort", "thrown"}]
  /\ runActive \in BOOLEAN
  /\ stopOutcome \in Stops \cup {NoOutcome}
  /\ threw \in BOOLEAN
  /\ result \in Stops \cup {NoOutcome, "ok", "thrown"}

(* "a slot semaphore capping ALL in-flight AI calls for the run": every     *)
(* slot is free or used by one call, and none is free while a call waits;   *)
(* a pause before a retry holds none.                                       *)
SlotsAreCounted ==
  /\ available + Cardinality(Calling) = Concurrency
  /\ slotQueue # <<>> => available = 0

(* "a single serialized apply lane ... what prevents two concurrent git     *)
(* commits": no two tasks of the lane are under way.              *)
OneApplyAtATime == \A s, t \in Applying : s = t

(* Once a batch has ended with anything but "ok", or the run is no longer   *)
(* active, no further batch is begun.                                       *)
NoBatchAfterStop ==
  [][\A s \in In({"unclaimed"}) :
       phase'[s] \notin {"unclaimed", "done"}
         => /\ runActive
            /\ \A c \in Batches : outcome[c] \in {NoOutcome, "ok"}]_vars

(* What the run reports is what happened: "ok" only when every batch was    *)
(* carried out, and an error exactly when a batch threw one, after all the  *)
(* others have settled.                                                     *)
RunReportsWhatHappened ==
  result # NoOutcome =>
    /\ Strands = In({"done"})
    /\ result = "ok" => \A b \in Batches : outcome[b] = "ok"
    /\ result = "thrown" <=> \E b \in Batches : outcome[b] = "thrown"

(* The run ends, however calls fail, rows fall back into the lane, and      *)
(* whenever it is cancelled: slots and lane never wait for each other.      *)
RunEnds == <>(result # NoOutcome)
=============================================================================
