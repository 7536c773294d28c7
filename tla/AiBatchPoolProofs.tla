------------------------- MODULE AiBatchPoolProofs -------------------------
(***************************************************************************)
(* The safety of the AI batch pool for every number of batches, strands,   *)
(* slots, retries and calls: slots are conserved, applies do not overlap,  *)
(* and the run reports what happened.                                      *)
(***************************************************************************)
EXTENDS AiBatchPool, FiniteSetTheorems, SequenceTheorems, TLAPS

CallPhases  == {"calling", "callingInLane"}
WaitPhases  == {"slot", "slotInLane"}
ApplyPhases == {"applying", "slotInLane", "callingInLane"}
LanePhases  == {"lane"} \cup ApplyPhases
Phases == {"unclaimed", "open", "slot", "calling", "pausing",
           "lane", "applying", "slotInLane", "callingInLane", "done"}

(* The batches beyond the cursor have not begun.                           *)
ClaimInv ==
  \A s \in Strands : phase[s] = "unclaimed" <=> s[1] > cursor

(* The strands in the queue wait for a slot, each once.                    *)
QueueInv ==
  /\ \A k \in DOMAIN slotQueue : phase[slotQueue[k]] \in WaitPhases
  /\ \A j, k \in DOMAIN slotQueue : slotQueue[j] = slotQueue[k] => j = k

SlotInv == SlotsAreCounted /\ QueueInv

(* The tasks of the lane are settled in order, and the one under way comes *)
(* right after those that are.                                             *)
LaneInv ==
  /\ laneSettled \subseteq 1 .. laneTail
  /\ \A n \in laneSettled : \A m \in 1 .. n : m \in laneSettled
  /\ \A s \in Strands : phase[s] \in LanePhases =>
       ticket[s] \in 1 .. laneTail /\ ticket[s] \notin laneSettled
  /\ \A s, t \in Strands :
       /\ phase[s] \in LanePhases /\ phase[t] \in LanePhases
       /\ ticket[s] = ticket[t]
       => s = t
  /\ \A s \in Strands : phase[s] \in ApplyPhases =>
       ticket[s] = 1 \/ ticket[s] - 1 \in laneSettled

(* A batch that ended, or was dropped, left its mark on the run.           *)
ReportInv ==
  /\ threw <=> \E b \in Batches : outcome[b] = "thrown"
  /\ stopOutcome = NoOutcome =>
       \A b \in Batches : outcome[b] \in {NoOutcome, "ok"}
  /\ \A s \in Strands :
       /\ outcome[s[1]] # NoOutcome => phase[s] = "done"
       /\ phase[s] = "done" /\ outcome[s[1]] = NoOutcome
            => stopOutcome # NoOutcome
  /\ result # NoOutcome =>
       /\ \A s \in Strands : phase[s] = "done"
       /\ result = "thrown" <=> threw
       /\ result = "ok" => stopOutcome = NoOutcome

IInv == TypeOK /\ ClaimInv /\ SlotInv /\ LaneInv /\ ReportInv
-----------------------------------------------------------------------------
(* The strands are finitely many, and so are those in any of the phases.   *)
LEMMA FiniteStrands == IsFiniteSet(Strands)
<1>1. IsFiniteSet(1 .. BatchCount) /\ IsFiniteSet(1 .. Fanout)
  BY PoolAssumption, FS_Interval
<1> QED
  BY <1>1, FS_Product DEF Strands, Batches

LEMMA FiniteCalling == IsFiniteSet(Calling) /\ IsFiniteSet(Calling')
<1>1. Calling \subseteq Strands /\ Calling' \subseteq Strands
  BY DEF Calling, In
<1> QED
  BY <1>1, FiniteStrands, FS_Subset

(* Every batch has a first strand.                                         *)
LEMMA FirstStrand == \A b \in Batches : <<b, 1>> \in Strands
  BY PoolAssumption DEF Strands

(* How acquire() and release() change the phases: a strand that waits may  *)
(* get the slot that s releases.                                           *)
LEMMA AcquireMoves ==
  ASSUME TypeOK, NEW s \in Strands, NEW held \in Phases, NEW waits \in Phases,
         AcquireSlot(s, held, waits)
  PROVE  /\ phase' \in [Strands -> Phases]
         /\ phase'[s] \in {held, waits}
         /\ \A t \in Strands : t # s => phase'[t] = phase[t]
         /\ available' \in 0 .. Concurrency
         /\ slotQueue' \in Seq(Strands)
<1> USE DEF TypeOK
<1>1. CASE available > 0
  <2>1. available' = available - 1 /\ phase' = [phase EXCEPT ![s] = held]
        /\ slotQueue' = slotQueue
    BY <1>1 DEF AcquireSlot
  <2>2. available' \in 0 .. Concurrency
    BY <1>1, <2>1, PoolAssumption
  <2> QED
    BY <2>1, <2>2 DEF Phases
<1>2. CASE ~ (available > 0)
  <2>1. available' = available /\ phase' = [phase EXCEPT ![s] = waits]
        /\ slotQueue' = Append(slotQueue, s)
    BY <1>2 DEF AcquireSlot
  <2>2. slotQueue' \in Seq(Strands)
    BY <2>1, AppendProperties
  <2> QED
    BY <2>1, <2>2 DEF Phases
<1> QED
  BY <1>1, <1>2

LEMMA ReleaseMoves ==
  ASSUME TypeOK, SlotInv, NEW s \in Strands, phase[s] \in CallPhases,
         NEW then \in Phases \ CallPhases, ReleaseSlot(s, then)
  PROVE  /\ phase' \in [Strands -> Phases]
         /\ phase'[s] = then
         /\ \A t \in Strands : t # s =>
              \/ phase'[t] = phase[t]
              \/ phase[t] = "slot" /\ phase'[t] = "calling"
              \/ phase[t] = "slotInLane" /\ phase'[t] = "callingInLane"
         /\ slotQueue' \in Seq(Strands)
<1>1. CASE slotQueue = <<>>
  BY <1>1 DEF ReleaseSlot, TypeOK, Phases
<1>2. CASE slotQueue # <<>>
  <2>1. /\ Head(slotQueue) \in Strands
        /\ Tail(slotQueue) \in Seq(Strands)
    BY <1>2, HeadTailProperties DEF TypeOK
  <2>2. phase[Head(slotQueue)] \in WaitPhases
    <3>1. Head(slotQueue) = slotQueue[1] /\ 1 \in DOMAIN slotQueue
      BY <1>2, EmptySeq, LenProperties DEF TypeOK
    <3> QED
      BY <3>1 DEF SlotInv, QueueInv
  <2>3. Head(slotQueue) # s
    BY <2>2 DEF WaitPhases, CallPhases
  <2> QED
    BY <1>2, <2>1, <2>2, <2>3
       DEF ReleaseSlot, HeldPhase, TypeOK, Phases, WaitPhases, CallPhases
<1> QED
  BY <1>1, <1>2

(* acquire() by one that has no slot and does not wait for one.            *)
LEMMA AcquireKeeps ==
  ASSUME TypeOK, SlotInv, NEW s \in Strands,
         phase[s] \notin CallPhases \cup WaitPhases,
         NEW held \in CallPhases, NEW waits \in WaitPhases,
         AcquireSlot(s, held, waits)
  PROVE  SlotInv'
<1> USE DEF TypeOK
<1>1. CASE available > 0
  <2>1. available' = available - 1 /\ phase' = [phase EXCEPT ![s] = held]
        /\ slotQueue' = slotQueue
    BY <1>1 DEF AcquireSlot
  <2>2. slotQueue = <<>>
    BY <1>1 DEF SlotInv, SlotsAreCounted
  <2>3. Calling' = Calling \cup {s} /\ s \notin Calling
    BY <2>1 DEF Calling, In, CallPhases
  <2>4. Cardinality(Calling') = Cardinality(Calling) + 1
    BY <2>3, FiniteCalling, FS_AddElement
  <2>5. SlotsAreCounted'
    BY <2>1, <2>2, <2>4, FiniteCalling, FS_CardinalityType, PoolAssumption
       DEF SlotInv, SlotsAreCounted
  <2>6. DOMAIN slotQueue' = {}
    BY <2>1, <2>2
  <2> QED
    BY <2>5, <2>6 DEF SlotInv, QueueInv
<1>2. CASE ~ (available > 0)
  <2>1. available' = available /\ phase' = [phase EXCEPT ![s] = waits]
        /\ slotQueue' = Append(slotQueue, s)
    BY <1>2 DEF AcquireSlot
  <2>2. Calling' = Calling
    BY <2>1 DEF Calling, In, CallPhases, WaitPhases
  <2>3. available = 0
    BY <1>2, PoolAssumption
  <2>4. SlotsAreCounted'
    BY <2>1, <2>2, <2>3 DEF SlotInv, SlotsAreCounted
  <2>5. /\ Len(slotQueue) \in Nat
        /\ DOMAIN slotQueue = 1 .. Len(slotQueue)
        /\ DOMAIN slotQueue' = 1 .. (Len(slotQueue) + 1)
        /\ \A k \in 1 .. Len(slotQueue) :
             slotQueue'[k] = slotQueue[k] /\ slotQueue[k] \in Strands
        /\ slotQueue'[Len(slotQueue) + 1] = s
    BY <2>1, AppendProperties, LenProperties, ElementOfSeq
  <2>6. \A k \in DOMAIN slotQueue : slotQueue[k] # s
    BY DEF SlotInv, QueueInv
  <2>7. \A k \in DOMAIN slotQueue' : phase'[slotQueue'[k]] \in WaitPhases
    <3> TAKE k \in DOMAIN slotQueue'
    <3>1. CASE k \in 1 .. Len(slotQueue)
      BY <2>1, <2>5, <2>6, <3>1 DEF SlotInv, QueueInv
    <3>2. CASE k = Len(slotQueue) + 1
      BY <2>1, <2>5, <3>2
    <3> QED
      BY <2>5, <3>1, <3>2
  <2>8. \A j, k \in DOMAIN slotQueue' : slotQueue'[j] = slotQueue'[k] => j = k
    <3> SUFFICES ASSUME NEW j \in DOMAIN slotQueue', NEW k \in DOMAIN slotQueue',
                        slotQueue'[j] = slotQueue'[k]
                 PROVE  j = k
      OBVIOUS
    <3>1. CASE j \in DOMAIN slotQueue /\ k \in DOMAIN slotQueue
      BY <2>5, <3>1 DEF SlotInv, QueueInv
    <3>2. j \in DOMAIN slotQueue \/ j = Len(slotQueue) + 1
      BY <2>5
    <3>3. k \in DOMAIN slotQueue \/ k = Len(slotQueue) + 1
      BY <2>5
    <3>4. \A i \in DOMAIN slotQueue : slotQueue'[i] # slotQueue'[Len(slotQueue) + 1]
      BY <2>5, <2>6
    <3> QED
      BY <3>1, <3>2, <3>3, <3>4
  <2> QED
    BY <2>4, <2>7, <2>8 DEF SlotInv, QueueInv
<1> QED
  BY <1>1, <1>2

(* release() by one that calls, and goes on without calling or waiting.    *)
LEMMA ReleaseKeeps ==
  ASSUME TypeOK, SlotInv, NEW s \in Strands, phase[s] \in CallPhases,
         NEW then \in Phases \ (CallPhases \cup WaitPhases),
         ReleaseSlot(s, then)
  PROVE  SlotInv' /\ available' \in 0 .. Concurrency
<1> USE DEF TypeOK
<1>1. s \in Calling
  BY DEF Calling, In, CallPhases
<1>2. /\ Cardinality(Calling \ {s}) = Cardinality(Calling) - 1
      /\ IsFiniteSet(Calling \ {s})
      /\ Cardinality(Calling) \in Nat /\ Cardinality(Calling \ {s}) \in Nat
  BY <1>1, FiniteCalling, FS_RemoveElement, FS_CardinalityType
<1>3. CASE slotQueue = <<>>
  <2>1. available' = available + 1 /\ phase' = [phase EXCEPT ![s] = then]
        /\ slotQueue' = <<>>
    BY <1>3 DEF ReleaseSlot
  <2>2. Calling' = Calling \ {s}
    BY <2>1 DEF Calling, In, CallPhases
  <2>3. SlotsAreCounted' /\ available' \in 0 .. Concurrency
    BY <1>2, <2>1, <2>2, PoolAssumption DEF SlotInv, SlotsAreCounted
  <2>4. DOMAIN slotQueue' = {}
    BY <2>1
  <2> QED
    BY <2>3, <2>4 DEF SlotInv, QueueInv
<1>4. CASE slotQueue # <<>>
  <2> DEFINE h == Head(slotQueue)
  <2>1. /\ slotQueue' = Tail(slotQueue) /\ available' = available
        /\ phase' = [phase EXCEPT ![s] = then, ![h] = HeldPhase(@)]
    BY <1>4 DEF ReleaseSlot
  <2>2. /\ Len(slotQueue) \in Nat /\ Len(slotQueue) > 0
        /\ DOMAIN slotQueue = 1 .. Len(slotQueue)
        /\ DOMAIN slotQueue' = 1 .. (Len(slotQueue) - 1)
        /\ \A k \in 1 .. (Len(slotQueue) - 1) : slotQueue'[k] = slotQueue[k + 1]
        /\ h = slotQueue[1] /\ h \in Strands
        /\ \A k \in 1 .. Len(slotQueue) : slotQueue[k] \in Strands
    BY <1>4, <2>1, HeadTailProperties, EmptySeq, LenProperties, ElementOfSeq
  <2>3. phase[h] \in WaitPhases /\ h # s /\ h \notin Calling
    <3>1. phase[slotQueue[1]] \in WaitPhases
      BY <2>2 DEF SlotInv, QueueInv
    <3> QED
      BY <2>2, <3>1 DEF WaitPhases, CallPhases, Calling, In
  <2>4. /\ phase'[s] = then /\ phase'[h] \in CallPhases
        /\ \A t \in Strands : t # s /\ t # h => phase'[t] = phase[t]
    BY <2>1, <2>2, <2>3 DEF HeldPhase, CallPhases
  <2>5. Calling' = (Calling \ {s}) \cup {h}
    BY <2>2, <2>4 DEF Calling, In, CallPhases
  <2>6. Cardinality(Calling') = Cardinality(Calling)
    <3>1. h \notin Calling \ {s}
      BY <2>3
    <3>2. Cardinality(Calling') = Cardinality(Calling \ {s}) + 1
      BY <1>2, <2>5, <3>1, FS_AddElement
    <3> QED
      BY <1>2, <3>2
  <2>7. SlotsAreCounted'
    BY <1>4, <2>1, <2>6 DEF SlotInv, SlotsAreCounted
  <2>8. \A k \in DOMAIN slotQueue' :
          /\ k + 1 \in DOMAIN slotQueue /\ slotQueue'[k] = slotQueue[k + 1]
          /\ slotQueue'[k] \in Strands \ {s, h}
    <3> TAKE k \in DOMAIN slotQueue'
    <3>1. k + 1 \in DOMAIN slotQueue /\ 1 \in DOMAIN slotQueue /\ k + 1 # 1
      <4>1. k \in Nat /\ 1 <= k /\ k <= Len(slotQueue) - 1
        BY <2>2
      <4>2. k + 1 \in 1 .. Len(slotQueue) /\ 1 \in 1 .. Len(slotQueue)
        <5>1. ASSUME NEW n \in Nat, NEW j \in Nat, 1 <= j, j <= n - 1
              PROVE  j + 1 \in 1 .. n /\ 1 \in 1 .. n
          BY <5>1
        <5>2. Len(slotQueue) \in Nat
          BY LenProperties
        <5> QED
          BY <4>1, <5>1, <5>2
      <4>3. k + 1 # 1
        BY <4>1
      <4> QED
        BY <2>2, <4>2, <4>3
    <3>2. phase[slotQueue[k + 1]] \in WaitPhases /\ slotQueue[k + 1] # slotQueue[1]
      BY <3>1 DEF SlotInv, QueueInv
    <3> QED
      BY <2>2, <3>1, <3>2 DEF WaitPhases, CallPhases
  <2>9. QueueInv'
    <3>1. \A k \in DOMAIN slotQueue' : phase'[slotQueue'[k]] \in WaitPhases
      BY <2>4, <2>8 DEF SlotInv, QueueInv
    <3>2. \A j, k \in DOMAIN slotQueue' :
            slotQueue'[j] = slotQueue'[k] => j = k
      <4> SUFFICES ASSUME NEW j \in DOMAIN slotQueue', NEW k \in DOMAIN slotQueue',
                          slotQueue'[j] = slotQueue'[k]
                   PROVE  j = k
        OBVIOUS
      <4>1. j + 1 = k + 1
        BY <2>8 DEF SlotInv, QueueInv
      <4> QED
        BY <2>2, <4>1
    <3> QED
      BY <3>1, <3>2 DEF QueueInv
  <2> QED
    BY <2>1, <2>7, <2>9 DEF SlotInv
<1> QED
  BY <1>3, <1>4

(* A step that neither takes nor gives a slot.                             *)
LEMMA SlotsUntouched ==
  ASSUME TypeOK, SlotInv, UNCHANGED slotVars,
         \A t \in Strands :
           /\ phase'[t] \in CallPhases <=> phase[t] \in CallPhases
           /\ phase[t] \in WaitPhases => phase'[t] \in WaitPhases
  PROVE  SlotInv'
<1>1. Calling' = Calling
  BY DEF Calling, In, CallPhases
<1>2. SlotsAreCounted'
  BY <1>1 DEF SlotInv, SlotsAreCounted, slotVars
<1>3. \A k \in DOMAIN slotQueue : slotQueue[k] \in Strands
  BY ElementOfSeq, LenProperties DEF TypeOK
<1>4. QueueInv'
  BY <1>3 DEF SlotInv, QueueInv, slotVars
<1> QED
  BY <1>2, <1>4 DEF SlotInv

(* A step of tasks that are in the lane already.                           *)
LEMMA LaneUntouched ==
  ASSUME TypeOK, LaneInv, UNCHANGED laneVars,
         \A t \in Strands :
           /\ phase'[t] \in LanePhases => phase[t] \in LanePhases
           /\ phase'[t] \in ApplyPhases => phase[t] \in ApplyPhases
  PROVE  LaneInv'
BY DEF LaneInv, laneVars

(* A step of a strand leaves alone what the run knows of its batches.      *)
LEMMA RunUntouched ==
  ASSUME ClaimInv, ReportInv, UNCHANGED runVars,
         \A t \in Strands :
           /\ phase'[t] = "unclaimed" <=> phase[t] = "unclaimed"
           /\ phase'[t] = "done" <=> phase[t] = "done"
  PROVE  ClaimInv' /\ ReportInv'
BY DEF ClaimInv, ReportInv, runVars


LEMMA BeginsTyped ==
  ASSUME TypeOK, NEW s \in Strands, Begins(s)
  PROVE  awaits' \in [Batches -> 0 .. MaxAwaits]
<1>1. s[1] \in Batches
  BY DEF Strands
<1>2. awaits[s[1]] + 1 \in 0 .. MaxAwaits
  BY <1>1, PoolAssumption DEF Begins, TypeOK
<1> QED
  BY <1>1, <1>2 DEF Begins, TypeOK

(* Every step of a strand keeps the invariant.                             *)
LEMMA StrandKeeps ==
  ASSUME IInv, NEW s \in Strands, StrandStep(s)
  PROVE  IInv'
<1> USE DEF IInv
<1>1. CASE StartCall(s)
  <2>1. phase[s] = "open" /\ AcquireSlot(s, "calling", "slot") /\ Begins(s)
        /\ UNCHANGED <<laneVars, runVars>>
        /\ attempt' = [attempt EXCEPT ![s] = 0]
    BY <1>1 DEF StartCall
  <2>2. /\ phase' \in [Strands -> Phases]
        /\ phase'[s] \in {"calling", "slot"}
        /\ \A t \in Strands : t # s => phase'[t] = phase[t]
        /\ available' \in 0 .. Concurrency /\ slotQueue' \in Seq(Strands)
    BY <2>1, AcquireMoves DEF Phases
  <2>3. TypeOK'
    <3>1. attempt' \in [Strands -> 0 .. Retries]
      BY <2>1, PoolAssumption DEF TypeOK
    <3> QED
      BY <2>1, <2>2, <3>1, BeginsTyped DEF TypeOK, Phases, laneVars, runVars
  <2>4. SlotInv'
    BY <2>1, AcquireKeeps DEF CallPhases, WaitPhases
  <2>5. LaneInv'
    BY <2>1, <2>2, LaneUntouched DEF LanePhases, ApplyPhases
  <2>6. ClaimInv' /\ ReportInv'
    BY <2>1, <2>2, RunUntouched
  <2> QED
    BY <2>3, <2>4, <2>5, <2>6
<1>2. CASE CallEnds(s)
  <2>1. PICK then \in {"open", "applying"} :
          /\ phase[s] = IF then = "open" THEN "calling" ELSE "callingInLane"
          /\ ReleaseSlot(s, then)
          /\ UNCHANGED <<attempt, laneVars, awaits, runVars>>
    BY <1>2 DEF CallEnds
  <2>2. phase[s] \in CallPhases /\ then \in Phases \ (CallPhases \cup WaitPhases)
    BY <2>1 DEF CallPhases, WaitPhases, Phases
  <2>3. /\ phase' \in [Strands -> Phases]
        /\ phase'[s] = then
        /\ \A t \in Strands : t # s =>
              \/ phase'[t] = phase[t]
              \/ phase[t] = "slot" /\ phase'[t] = "calling"
              \/ phase[t] = "slotInLane" /\ phase'[t] = "callingInLane"
        /\ slotQueue' \in Seq(Strands)
    BY <2>1, <2>2, ReleaseMoves
  <2>4. SlotInv' /\ available' \in 0 .. Concurrency
    BY <2>1, <2>2, ReleaseKeeps
  <2>5. TypeOK'
    BY <2>1, <2>3, <2>4 DEF TypeOK, Phases, laneVars, runVars
  <2>6. LaneInv'
    BY <2>1, <2>3, LaneUntouched DEF LanePhases, ApplyPhases
  <2>7. ClaimInv' /\ ReportInv'
    BY <2>1, <2>3, RunUntouched
  <2> QED
    BY <2>4, <2>5, <2>6, <2>7
<1>3. CASE CallMustPause(s)
  <2>1. /\ phase[s] = "calling" /\ attempt[s] < Retries
        /\ ReleaseSlot(s, "pausing")
        /\ attempt' = [attempt EXCEPT ![s] = @ + 1]
        /\ UNCHANGED <<laneVars, awaits, runVars>>
    BY <1>3 DEF CallMustPause
  <2>2. phase[s] \in CallPhases
        /\ "pausing" \in Phases \ (CallPhases \cup WaitPhases)
    BY <2>1 DEF CallPhases, WaitPhases, Phases
  <2>3. /\ phase' \in [Strands -> Phases]
        /\ phase'[s] = "pausing"
        /\ \A t \in Strands : t # s =>
              \/ phase'[t] = phase[t]
              \/ phase[t] = "slot" /\ phase'[t] = "calling"
              \/ phase[t] = "slotInLane" /\ phase'[t] = "callingInLane"
        /\ slotQueue' \in Seq(Strands)
    BY <2>1, <2>2, ReleaseMoves
  <2>4. SlotInv' /\ available' \in 0 .. Concurrency
    BY <2>1, <2>2, ReleaseKeeps
  <2>5. attempt' \in [Strands -> 0 .. Retries]
    BY <2>1, PoolAssumption DEF TypeOK
  <2>6. TypeOK'
    BY <2>1, <2>3, <2>4, <2>5 DEF TypeOK, Phases, laneVars, runVars
  <2>7. LaneInv'
    BY <2>1, <2>3, LaneUntouched DEF LanePhases, ApplyPhases
  <2>8. ClaimInv' /\ ReportInv'
    BY <2>1, <2>3, RunUntouched
  <2> QED
    BY <2>4, <2>6, <2>7, <2>8
<1>4. CASE PauseEnds(s)
  <2>1. phase[s] = "pausing" /\ UNCHANGED <<attempt, laneVars, awaits, runVars>>
    BY <1>4 DEF PauseEnds
  <2>2. /\ phase' \in [Strands -> Phases]
        /\ phase'[s] \in {"calling", "slot", "open"}
        /\ \A t \in Strands : t # s => phase'[t] = phase[t]
        /\ available' \in 0 .. Concurrency /\ slotQueue' \in Seq(Strands)
        /\ SlotInv'
    <3>1. CASE AcquireSlot(s, "calling", "slot")
      BY <2>1, <3>1, AcquireMoves, AcquireKeeps
         DEF Phases, CallPhases, WaitPhases
    <3>2. CASE phase' = [phase EXCEPT ![s] = "open"] /\ UNCHANGED slotVars
      <4>1. phase' \in [Strands -> Phases]
        BY <3>2 DEF TypeOK, Phases
      <4>2. SlotInv'
        BY <2>1, <3>2, SlotsUntouched DEF TypeOK, CallPhases, WaitPhases
      <4> QED
        BY <3>2, <4>1, <4>2 DEF TypeOK, slotVars
    <3> QED
      BY <1>4, <3>1, <3>2 DEF PauseEnds
  <2>3. TypeOK'
    BY <2>1, <2>2 DEF TypeOK, Phases, laneVars, runVars
  <2>4. LaneInv'
    BY <2>1, <2>2, LaneUntouched DEF LanePhases, ApplyPhases
  <2>5. ClaimInv' /\ ReportInv'
    BY <2>1, <2>2, RunUntouched
  <2> QED
    BY <2>2, <2>3, <2>4, <2>5
<1>5. CASE EnterLane(s)
  <2>1. /\ phase[s] = "open" /\ Begins(s)
        /\ phase' = [phase EXCEPT ![s] = "lane"]
        /\ ticket' = [ticket EXCEPT ![s] = laneTail + 1]
        /\ laneTail' = laneTail + 1
        /\ UNCHANGED <<slotVars, attempt, laneSettled, runVars>>
    BY <1>5 DEF EnterLane, Chain
  <2>2. TypeOK'
    BY <2>1, BeginsTyped DEF TypeOK, slotVars, runVars
  <2>3. SlotInv'
    BY <2>1, SlotsUntouched DEF TypeOK, slotVars, CallPhases, WaitPhases
  <2>4. LaneInv'
    <3>1. laneSettled' \subseteq 1 .. laneTail'
      BY <2>1 DEF LaneInv, TypeOK
    <3>2. \A t \in Strands : phase'[t] \in LanePhases =>
            IF t = s THEN ticket'[t] = laneTail + 1
            ELSE phase[t] \in LanePhases /\ ticket'[t] = ticket[t]
                 /\ ticket[t] \in 1 .. laneTail /\ ticket[t] \notin laneSettled
      BY <2>1 DEF LaneInv, TypeOK
    <3>3. \A t \in Strands : phase'[t] \in LanePhases =>
            ticket'[t] \in 1 .. laneTail' /\ ticket'[t] \notin laneSettled'
      BY <2>1, <3>2 DEF LaneInv, TypeOK
    <3>4. \A t, u \in Strands :
            /\ phase'[t] \in LanePhases /\ phase'[u] \in LanePhases
            /\ ticket'[t] = ticket'[u]
            => t = u
      <4>1. \A n \in 1 .. laneTail : n # laneTail + 1
        BY DEF TypeOK
      <4> QED
        BY <3>2, <4>1 DEF LaneInv
    <3>5. \A t \in Strands : phase'[t] \in ApplyPhases =>
            ticket'[t] = 1 \/ ticket'[t] - 1 \in laneSettled'
      BY <2>1 DEF LaneInv, TypeOK, ApplyPhases
    <3> QED
      BY <2>1, <3>1, <3>3, <3>4, <3>5 DEF LaneInv
  <2>5. ClaimInv' /\ ReportInv'
    BY <2>1, RunUntouched DEF TypeOK
  <2> QED
    BY <2>2, <2>3, <2>4, <2>5
<1>6. CASE StartApply(s)
  <2>1. /\ phase[s] = "lane" /\ (ticket[s] = 1 \/ ticket[s] - 1 \in laneSettled)
        /\ phase' = [phase EXCEPT ![s] = "applying"]
        /\ UNCHANGED <<slotVars, attempt, laneVars, awaits, runVars>>
    BY <1>6 DEF StartApply
  <2>2. TypeOK'
    BY <2>1 DEF TypeOK, slotVars, laneVars, runVars
  <2>3. SlotInv'
    BY <2>1, SlotsUntouched DEF TypeOK, CallPhases, WaitPhases
  <2>4. LaneInv'
    BY <2>1 DEF LaneInv, TypeOK, laneVars, LanePhases, ApplyPhases
  <2>5. ClaimInv' /\ ReportInv'
    BY <2>1, RunUntouched DEF TypeOK
  <2> QED
    BY <2>2, <2>3, <2>4, <2>5
<1>7. CASE CallInLane(s)
  <2>1. phase[s] = "applying" /\ AcquireSlot(s, "callingInLane", "slotInLane")
        /\ Begins(s) /\ UNCHANGED <<attempt, laneVars, runVars>>
    BY <1>7 DEF CallInLane
  <2>2. /\ phase' \in [Strands -> Phases]
        /\ phase'[s] \in {"callingInLane", "slotInLane"}
        /\ \A t \in Strands : t # s => phase'[t] = phase[t]
        /\ available' \in 0 .. Concurrency /\ slotQueue' \in Seq(Strands)
    BY <2>1, AcquireMoves DEF Phases
  <2>3. TypeOK'
    BY <2>1, <2>2, BeginsTyped DEF TypeOK, Phases, laneVars, runVars
  <2>4. SlotInv'
    BY <2>1, AcquireKeeps DEF CallPhases, WaitPhases
  <2>5. LaneInv'
    BY <2>1, <2>2, LaneUntouched DEF LanePhases, ApplyPhases
  <2>6. ClaimInv' /\ ReportInv'
    BY <2>1, <2>2, RunUntouched
  <2> QED
    BY <2>3, <2>4, <2>5, <2>6
<1>8. CASE LeaveLane(s)
  <2>1. /\ phase[s] = "applying"
        /\ phase' = [phase EXCEPT ![s] = "open"]
        /\ laneSettled' = laneSettled \cup {ticket[s]}
        /\ ticket' = [ticket EXCEPT ![s] = 0]
        /\ UNCHANGED <<slotVars, attempt, laneTail, awaits, runVars>>
    BY <1>8 DEF LeaveLane
  <2>2. TypeOK'
    BY <2>1 DEF TypeOK, slotVars, runVars
  <2>3. SlotInv'
    BY <2>1, SlotsUntouched DEF TypeOK, CallPhases, WaitPhases
  <2>4. LaneInv'
    <3>1. /\ ticket[s] \in 1 .. laneTail
          /\ ticket[s] = 1 \/ ticket[s] - 1 \in laneSettled
      BY <2>1 DEF LaneInv, LanePhases, ApplyPhases
    <3>2. laneSettled' \subseteq 1 .. laneTail'
      BY <2>1, <3>1 DEF LaneInv
    <3>3. \A n \in laneSettled' : \A m \in 1 .. n : m \in laneSettled'
      <4>1. \A m \in 1 .. ticket[s] : m = ticket[s] \/ m \in 1 .. (ticket[s] - 1)
        BY <3>1 DEF TypeOK
      <4>2. \A m \in 1 .. (ticket[s] - 1) : m \in laneSettled
        BY <3>1, <4>1 DEF LaneInv
      <4> QED
        BY <2>1, <4>1, <4>2 DEF LaneInv
    <3>4. \A t \in Strands : phase'[t] \in LanePhases =>
            t # s /\ phase[t] = phase'[t] /\ ticket'[t] = ticket[t]
      BY <2>1 DEF TypeOK, LanePhases, ApplyPhases
    <3>5. \A t \in Strands : phase'[t] \in LanePhases =>
            ticket'[t] \in 1 .. laneTail' /\ ticket'[t] \notin laneSettled'
      BY <2>1, <3>4 DEF LaneInv, LanePhases, ApplyPhases
    <3>6. \A t, u \in Strands :
            /\ phase'[t] \in LanePhases /\ phase'[u] \in LanePhases
            /\ ticket'[t] = ticket'[u]
            => t = u
      BY <3>4 DEF LaneInv
    <3>7. \A t \in Strands : phase'[t] \in ApplyPhases =>
            ticket'[t] = 1 \/ ticket'[t] - 1 \in laneSettled'
      BY <2>1, <3>4 DEF LaneInv, LanePhases
    <3> QED
      BY <3>2, <3>3, <3>5, <3>6, <3>7 DEF LaneInv
  <2>5. ClaimInv' /\ ReportInv'
    BY <2>1, RunUntouched DEF TypeOK
  <2> QED
    BY <2>2, <2>3, <2>4, <2>5
<1> QED
  BY <1>1, <1>2, <1>3, <1>4, <1>5, <1>6, <1>7, <1>8 DEF StrandStep


LEMMA BatchKeeps ==
  ASSUME IInv, NEW b \in Batches, BatchStep(b)
  PROVE  IInv'
<1> USE DEF IInv
<1>1. <<b, 1>> \in Strands /\ <<b, 1>>[1] = b /\ \A s \in Strands : s[1] \in Batches
  BY FirstStrand DEF Strands
<1>2. CASE ClaimBatch(b)
  <2> DEFINE p == IF stopOutcome = NoOutcome /\ runActive THEN "open" ELSE "done"
  <2>1. /\ b = cursor + 1 /\ cursor' = b
        /\ phase' = [s \in Strands |-> IF s[1] = b THEN p ELSE phase[s]]
        /\ stopOutcome' = IF stopOutcome = NoOutcome /\ ~ runActive THEN "abort"
                          ELSE stopOutcome
        /\ UNCHANGED <<slotVars, attempt, laneVars, awaits,
                       outcome, runActive, threw, result>>
    BY <1>2 DEF ClaimBatch, SetPhase
  <2>2. \A s \in Strands : s[1] = b => phase[s] = "unclaimed"
    BY <2>1 DEF ClaimInv, TypeOK
  <2>3. \A s \in Strands :
          phase'[s] = IF s[1] = b THEN p ELSE phase[s]
    BY <2>1
  <2>4. TypeOK'
    <3>1. cursor' \in 0 .. BatchCount
      BY <2>1 DEF Batches
    <3>2. stopOutcome' \in Stops \cup {NoOutcome}
      BY <2>1 DEF TypeOK, Stops
    <3>3. phase' \in [Strands -> Phases]
      BY <2>1 DEF TypeOK, Phases
    <3> QED
      BY <2>1, <3>1, <3>2, <3>3 DEF TypeOK, Phases, slotVars, laneVars
  <2>5. SlotInv'
    BY <2>1, <2>2, <2>3, SlotsUntouched DEF CallPhases, WaitPhases
  <2>6. LaneInv'
    BY <2>1, <2>2, <2>3, LaneUntouched DEF LanePhases, ApplyPhases
  <2>7. ClaimInv'
    <3> SUFFICES ASSUME NEW s \in Strands
                 PROVE  phase'[s] = "unclaimed" <=> s[1] > cursor'
      BY DEF ClaimInv
    <3>1. s[1] > cursor' <=> s[1] > cursor /\ s[1] # b
      BY <1>1, <2>1 DEF TypeOK, Batches
    <3> QED
      BY <2>3, <3>1 DEF ClaimInv
  <2>8. ReportInv'
    <3>1. result = NoOutcome /\ outcome[b] = NoOutcome
      BY <1>1, <2>2 DEF ReportInv
    <3>2. p = "done" => stopOutcome' # NoOutcome
      BY <2>1 DEF NoOutcome
    <3>3. stopOutcome' = NoOutcome => stopOutcome = NoOutcome
      BY <2>1 DEF NoOutcome
    <3>4. \A s \in Strands :
            /\ outcome'[s[1]] # NoOutcome => phase'[s] = "done"
            /\ phase'[s] = "done" /\ outcome'[s[1]] = NoOutcome
                 => stopOutcome' # NoOutcome
      BY <2>1, <2>3, <3>1, <3>2, <3>3 DEF ReportInv
    <3> QED
      BY <2>1, <3>1, <3>3, <3>4 DEF ReportInv
  <2> QED
    BY <2>4, <2>5, <2>6, <2>7, <2>8
<1>3. CASE EndBatch(b)
  <2>1. PICK o \in {"ok", "abort", "thrown"} :
          /\ \A s \in Strands : s[1] = b => phase[s] = "open"
          /\ phase' = [s \in Strands |-> IF s[1] = b THEN "done" ELSE phase[s]]
          /\ outcome' = [outcome EXCEPT ![b] = o]
          /\ stopOutcome' = StopWith(o)
          /\ threw' = (threw \/ o = "thrown")
          /\ UNCHANGED <<slotVars, attempt, laneVars, awaits,
                         cursor, runActive, result>>
    BY <1>3 DEF EndBatch, SetPhase
  <2>2. \A s \in Strands :
          phase'[s] = IF s[1] = b THEN "done" ELSE phase[s]
    BY <2>1
  <2>3. TypeOK'
    <3>1. stopOutcome' \in Stops \cup {NoOutcome}
      BY <2>1 DEF TypeOK, Stops, StopWith
    <3>2. phase' \in [Strands -> Phases]
      BY <2>1 DEF TypeOK, Phases
    <3>3. threw' \in BOOLEAN
      BY <2>1 DEF TypeOK
    <3> QED
      BY <2>1, <3>1, <3>2, <3>3 DEF TypeOK, Phases, slotVars, laneVars
  <2>4. SlotInv'
    BY <2>1, <2>2, SlotsUntouched DEF CallPhases, WaitPhases
  <2>5. LaneInv'
    BY <2>1, <2>2, LaneUntouched DEF LanePhases, ApplyPhases
  <2>6. ClaimInv'
    BY <2>1, <2>2 DEF ClaimInv
  <2>7. ReportInv'
    <3>1. result = NoOutcome /\ outcome[b] = NoOutcome
      BY <1>1, <2>1 DEF ReportInv
    <3>2. /\ outcome'[b] = o /\ o # NoOutcome
          /\ \A c \in Batches : c # b => outcome'[c] = outcome[c]
      BY <2>1 DEF TypeOK, NoOutcome
    <3>3. threw' <=> \E c \in Batches : outcome'[c] = "thrown"
      <4>1. threw <=> \E c \in Batches \ {b} : outcome'[c] = "thrown"
        BY <3>1, <3>2 DEF ReportInv, NoOutcome
      <4> QED
        BY <2>1, <3>2, <4>1
    <3>4. stopOutcome' = NoOutcome => stopOutcome = NoOutcome /\ o = "ok"
      BY <2>1 DEF StopWith, NoOutcome
    <3>5. \A s \in Strands :
            /\ outcome'[s[1]] # NoOutcome => phase'[s] = "done"
            /\ phase'[s] = "done" /\ outcome'[s[1]] = NoOutcome
                 => stopOutcome' # NoOutcome
      BY <1>1, <2>2, <3>2, <3>4 DEF ReportInv
    <3> QED
      BY <2>1, <3>1, <3>2, <3>3, <3>4, <3>5 DEF ReportInv
  <2> QED
    BY <2>3, <2>4, <2>5, <2>6, <2>7
<1> QED
  BY <1>2, <1>3 DEF BatchStep

LEMMA EndRunKeeps ==
  ASSUME IInv, EndRun
  PROVE  IInv'
<1> USE DEF IInv, EndRun
<1>1. TypeOK'
  BY DEF TypeOK, Stops, slotVars, laneVars
<1>2. SlotInv' /\ LaneInv' /\ ClaimInv'
  BY SlotsUntouched, LaneUntouched DEF ClaimInv
<1>3. ReportInv'
  BY DEF ReportInv, In, TypeOK, Stops, NoOutcome
<1> QED
  BY <1>1, <1>2, <1>3

LEMMA InitInv == Init => IInv
<1> SUFFICES ASSUME Init PROVE IInv
  OBVIOUS
<1> USE DEF Init
<1>1. TypeOK
  <2>1. /\ 0 \in 0 .. BatchCount /\ Concurrency \in 0 .. Concurrency
        /\ 0 \in 0 .. Retries /\ 0 \in 0 .. MaxAwaits
    BY PoolAssumption
  <2>2. slotQueue \in Seq(Strands)
    BY EmptySeq
  <2> QED
    BY <2>1, <2>2 DEF TypeOK, NoOutcome
<1>2. ClaimInv
  BY DEF ClaimInv, Strands, Batches
<1>3. SlotInv
  <2>1. Calling = {}
    BY DEF Calling, In
  <2>2. DOMAIN slotQueue = {}
    OBVIOUS
  <2> QED
    BY <2>1, <2>2, FS_EmptySet, PoolAssumption
       DEF SlotInv, SlotsAreCounted, QueueInv
<1>4. LaneInv
  BY DEF LaneInv, LanePhases, ApplyPhases
<1>5. ReportInv
  BY DEF ReportInv, NoOutcome, Strands
<1> QED
  BY <1>1, <1>2, <1>3, <1>4, <1>5 DEF IInv

LEMMA NextInv == IInv /\ [Next]_vars => IInv'
<1> SUFFICES ASSUME IInv, [Next]_vars PROVE IInv'
  OBVIOUS
<1>1. ASSUME NEW s \in Strands, StrandStep(s) PROVE IInv'
  BY <1>1, StrandKeeps
<1>2. ASSUME NEW b \in Batches, BatchStep(b) PROVE IInv'
  BY <1>2, BatchKeeps
<1>3. CASE EndRun
  BY <1>3, EndRunKeeps
<1>4. CASE Cancel
  <2>1. TypeOK'
    BY <1>4 DEF Cancel, IInv, TypeOK, slotVars, laneVars
  <2>2. SlotInv' /\ LaneInv'
    BY <1>4, SlotsUntouched, LaneUntouched DEF Cancel, IInv
  <2>3. ClaimInv' /\ ReportInv'
    BY <1>4 DEF Cancel, IInv, ClaimInv, ReportInv
  <2> QED
    BY <2>1, <2>2, <2>3 DEF IInv
<1>5. CASE UNCHANGED vars
  <2>1. TypeOK'
    BY <1>5 DEF vars, IInv, TypeOK, slotVars, laneVars, runVars
  <2>2. SlotInv' /\ LaneInv'
    BY <1>5, SlotsUntouched, LaneUntouched DEF vars, IInv
  <2>3. ClaimInv' /\ ReportInv'
    BY <1>5, RunUntouched DEF vars, IInv
  <2> QED
    BY <2>1, <2>2, <2>3 DEF IInv
<1> QED
  BY <1>1, <1>2, <1>3, <1>4, <1>5 DEF Next
-----------------------------------------------------------------------------
(* In every reachable state of a run, slots, lane and report agree with    *)
(* what the strands are doing: createAiBatchPool.                          *)
THEOREM PoolInvariant == Spec => []IInv
BY InitInv, NextInv, PTL DEF Spec

(* Every reachable state of the pool is type correct.                      *)
THEOREM PoolTypeCorrect == Spec => []TypeOK
BY PoolInvariant, PTL DEF IInv

(* However many calls wait, fail or pause, createSlotSemaphore never lets  *)
(* more run than it has slots, loses none, and keeps no call waiting while *)
(* one is free.                                                            *)
THEOREM SlotsAreConserved == Spec => []SlotsAreCounted
BY PoolInvariant, PTL DEF IInv, SlotInv

(* createSerialLane never lets two applies overlap, rows that call inside  *)
(* the lane included.                                                      *)
THEOREM AppliesAreSerial == Spec => []OneApplyAtATime
<1>1. IInv => OneApplyAtATime
  <2> HAVE IInv
  <2>1. ASSUME NEW s \in Applying, NEW t \in Applying, ticket[s] <= ticket[t]
        PROVE  s = t
    <3>1. /\ s \in Strands /\ phase[s] \in ApplyPhases /\ phase[s] \in LanePhases
          /\ t \in Strands /\ phase[t] \in ApplyPhases /\ phase[t] \in LanePhases
      BY DEF Applying, In, ApplyPhases, LanePhases
    <3>2. /\ ticket[s] \in 1 .. laneTail /\ ticket[s] \notin laneSettled
          /\ ticket[t] = 1 \/ ticket[t] - 1 \in laneSettled
      BY <3>1 DEF IInv, LaneInv
    <3>3. ticket[t] \in Nat
      BY <3>1 DEF IInv, TypeOK
    <3>4. ticket[s] = ticket[t]
      <4>1. ticket[s] # ticket[t] => ticket[s] \in 1 .. (ticket[t] - 1)
        BY <2>1, <3>2, <3>3
      <4>2. ticket[s] # ticket[t] => ticket[t] - 1 \in laneSettled
        BY <2>1, <3>2, <3>3
      <4> QED
        BY <3>2, <4>1, <4>2 DEF IInv, LaneInv
    <3> QED
      BY <2>1, <3>1, <3>4 DEF IInv, LaneInv
  <2>2. \A s, t \in Applying : ticket[s] <= ticket[t] \/ ticket[t] <= ticket[s]
    BY DEF Applying, In, IInv, TypeOK
  <2> QED
    BY <2>1, <2>2 DEF OneApplyAtATime
<1> QED
  BY <1>1, PoolInvariant, PTL

(* run() reports "ok" only when every batch was carried out, and rejects   *)
(* exactly when one threw, after all have settled.                         *)
THEOREM ReportIsTrue == Spec => []RunReportsWhatHappened
<1>1. IInv => RunReportsWhatHappened
  <2> SUFFICES ASSUME IInv, result # NoOutcome
               PROVE  /\ Strands = In({"done"})
                      /\ result = "ok" => \A b \in Batches : outcome[b] = "ok"
                      /\ result = "thrown" <=>
                           \E b \in Batches : outcome[b] = "thrown"
    BY DEF RunReportsWhatHappened
  <2>1. /\ \A s \in Strands : phase[s] = "done"
        /\ result = "thrown" <=> threw
        /\ result = "ok" => stopOutcome = NoOutcome
    BY DEF IInv, ReportInv
  <2>2. ASSUME NEW b \in Batches, stopOutcome = NoOutcome
        PROVE  outcome[b] = "ok"
    <3>1. <<b, 1>> \in Strands /\ <<b, 1>>[1] = b
      BY FirstStrand
    <3>2. outcome[b] # NoOutcome
      BY <2>1, <2>2, <3>1 DEF IInv, ReportInv
    <3> QED
      BY <2>2, <3>2 DEF IInv, ReportInv
  <2> QED
    BY <2>1, <2>2 DEF In, IInv, ReportInv
<1> QED
  BY <1>1, PoolInvariant, PTL

(* A worker begins no batch once one has ended with anything but "ok" or   *)
(* the run is no longer active: only a claim moves an unclaimed strand.    *)
THEOREM NoFurtherBatch == Spec => NoBatchAfterStop
<1> DEFINE
      A == \A s \in In({"unclaimed"}) :
             phase'[s] \notin {"unclaimed", "done"}
               => /\ runActive
                  /\ \A c \in Batches : outcome[c] \in {NoOutcome, "ok"}
<1>1. IInv /\ IInv' /\ [Next]_vars => [A]_vars
  <2> SUFFICES ASSUME IInv, IInv', [Next]_vars PROVE A
    OBVIOUS
  <2>1. ASSUME NEW b \in Batches, ClaimBatch(b) PROVE A
    <3> SUFFICES ASSUME NEW s \in Strands, phase[s] = "unclaimed",
                        phase'[s] \notin {"unclaimed", "done"}
                 PROVE  /\ runActive
                        /\ \A c \in Batches : outcome[c] \in {NoOutcome, "ok"}
      BY DEF In
    <3>1. stopOutcome = NoOutcome /\ runActive
      BY <2>1 DEF ClaimBatch, SetPhase
    <3> QED
      BY <3>1 DEF IInv, ReportInv
  <2>2. CASE cursor' = cursor
    BY <2>2 DEF IInv, ClaimInv, In
  <2>3. \/ \E b \in Batches : ClaimBatch(b)
        \/ cursor' = cursor
    BY DEF Next, StrandStep, BatchStep, StartCall, CallEnds, CallMustPause,
           PauseEnds, EnterLane, StartApply, CallInLane, LeaveLane, EndBatch,
           EndRun, Cancel, vars, runVars
  <2> QED
    BY <2>1, <2>2, <2>3
<1> QED
  BY <1>1, PoolInvariant, PTL DEF Spec, NoBatchAfterStop

=============================================================================
