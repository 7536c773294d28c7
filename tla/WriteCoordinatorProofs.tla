----------------------- MODULE WriteCoordinatorProofs -----------------------
(***************************************************************************)
(* Proofs about the write intent coordinator and the projects that use it. *)
(*                                                                         *)
(* First WriteIntentCoordinator by itself, for any keys, scopes and number *)
(* of requests (of the assumptions only IntentAssumption is used): type    *)
(* correctness, NoRequestLost, ConfirmedWasStored and OnlyNewestRuns. The  *)
(* steps of the module are compositions of operators on the state st in    *)
(* the middle of a turn, so the invariant is one on such states too, and   *)
(* there is a lemma for each operator. ended is the set of scopes whose    *)
(* run has ended in this turn while the loop has not gone round: running   *)
(* still names the run there.                                              *)
(*                                                                         *)
(* Then ProjectWriteCoordinator, for any fields and values and any number  *)
(* of wishes and pulls: it implements the coordinator's specification, and *)
(* keeps WishIsShown, ConfirmedWasWritten and SyncIsOnItsWay.              *)
(***************************************************************************)
EXTENDS ProjectWriteCoordinator, SequenceTheorems, WellFoundedInduction, TLAPS

Fates == {"waiting", "running", "saved", "failed"}
MidTurn == [intents : [Keys -> Intent \cup {NoIntent}],
            items : [Scopes -> Seq(Keys)],
            running : [Scopes -> Run \cup {NoRun}],
            requests : Seq([key : Keys, fate : Fates])]

RunOf(st, ended, s) == IF s \in ended THEN NoRun ELSE st.running[s]

(* What requests, intents and runs say of each other, for every key.       *)
Refs(st, carried) ==
  /\ st \in MidTurn /\ Len(st.requests) <= MaxRequests
  /\ carried \in [Keys -> 0 .. Len(st.requests)]
  /\ \A k \in Keys : st.intents[k] # NoIntent =>
       /\ st.intents[k].request \in DOMAIN st.requests
       /\ st.requests[st.intents[k].request].key = k
       /\ st.intents[k].version <= st.intents[k].request
  /\ \A s \in Scopes : st.running[s] # NoRun =>
       /\ st.running[s].request \in DOMAIN st.requests
       /\ st.requests[st.running[s].request].key = st.running[s].key

(* A loop that has stopped left nothing in its queue.                      *)
Idle(st, ended) ==
  \A s \in Scopes \ ended : st.running[s] = NoRun => st.items[s] = <<>>

(* A key is in the queue once, of its own scope, and waits for a run.      *)
QueueInv(st, k) ==
  \A s \in Scopes : \A i \in DOMAIN st.items[s] :
    st.items[s][i] = k =>
      /\ <<k, s>> \in Targets
      /\ st.intents[k].status = "pending"
      /\ \A j \in DOMAIN st.items[s] : st.items[s][j] = k => j = i

(* An intent is of the newest request, and its status is true.             *)
IntentInv(st, carried, ended, k) ==
  LET intent == st.intents[k]
  IN  intent # NoIntent =>
        /\ <<k, intent.scope>> \in Targets
        /\ \A n \in DOMAIN st.requests : st.requests[n].key = k => n <= intent.request
        /\ intent.status = "pending" =>
             /\ \E i \in DOMAIN st.items[intent.scope] : st.items[intent.scope][i] = k
             /\ st.requests[intent.request].fate = "waiting"
             /\ carried[k] < intent.request
        /\ intent.status = "running" =>
             RunOf(st, ended, intent.scope) =
               [key |-> k, version |-> intent.version, request |-> intent.request]
        /\ intent.status = "pendingConfirmation" => carried[k] = intent.request

(* A run is of the intent, or of an older request that a newer one waits   *)
(* behind, and nothing as new was carried out.                             *)
RunInv(st, carried, ended, k) ==
  \A s \in Scopes :
    LET run == RunOf(st, ended, s)
        intent == st.intents[k]
    IN  run # NoRun /\ run.key = k =>
          /\ <<k, s>> \in Targets
          /\ st.requests[run.request].fate = "running"
          /\ carried[k] < run.request
          /\ intent.status \in {"pending", "running"}
          /\ \/ run.version = intent.version /\ run.request = intent.request
                  /\ intent.status = "running"
             \/ run.version < intent.version /\ run.request < intent.request

(* A request is under way in some loop, or waits only as the intent does.  *)
RequestInv(st, ended, k) ==
  \A n \in DOMAIN st.requests :
    st.requests[n].key = k =>
      /\ st.requests[n].fate = "running" =>
           \E s \in Scopes :
             LET run == RunOf(st, ended, s)
             IN  run # NoRun /\ run.key = k /\ run.request = n
      /\ /\ st.requests[n].fate = "waiting"
         /\ \A m \in DOMAIN st.requests : st.requests[m].key = k => m <= n
         => st.intents[k] # NoIntent /\ st.intents[k].request = n
              /\ st.intents[k].status = "pending"

KeyInv(st, carried, ended, k) ==
  /\ QueueInv(st, k)
  /\ IntentInv(st, carried, ended, k)
  /\ RunInv(st, carried, ended, k)
  /\ RequestInv(st, ended, k)

TurnInv(st, carried, ended) ==
  /\ Refs(st, carried)
  /\ Idle(st, ended)
  /\ \A k \in Steady : KeyInv(st, carried, ended, k)

(* The inductive invariant.                                                *)
IInv == TurnInv(Turn, stored, {})

(* The requests that have begun since the state before are the intents'.   *)
Began(before, st) ==
  {n \in DOMAIN st.requests :
     /\ st.requests[n].key \in Steady /\ st.requests[n].fate = "running"
     /\ ~ (n \in DOMAIN before.requests /\ before.requests[n].fate = "running")}

BeganNewest(before, st) ==
  \A n \in Began(before, st) :
    st.intents[st.requests[n].key].status = "running"
-----------------------------------------------------------------------------
(* What is known of constants and single values.                           *)

LEMMA IntentValues ==
  ASSUME NEW x \in Intent
  PROVE  /\ x # NoIntent /\ x.status # "idle"
         /\ x.status \in {"pending", "running", "pendingConfirmation", "failed"}
         /\ x.scope \in Scopes /\ x.version \in 1 .. MaxRequests
         /\ x.request \in 1 .. MaxRequests
BY DEF Intent, NoIntent, RequestIds

LEMMA RunValues ==
  ASSUME NEW x \in Run
  PROVE  /\ x # NoRun /\ x.key \in Keys
         /\ x.version \in 1 .. MaxRequests /\ x.request \in 1 .. MaxRequests
<1>1. x # NoRun
  <2>1. SUFFICES ASSUME x = NoRun PROVE FALSE
    OBVIOUS
  <2>2. DOMAIN x = {"key"}
    BY <2>1 DEF NoRun
  <2>3. DOMAIN x = {"key", "version", "request"}
    BY DEF Run
  <2> QED
    BY <2>2, <2>3
<1> QED
  BY <1>1 DEF Run, RequestIds

LEMMA SteadyKeys ==
  /\ Steady \subseteq Keys
  /\ \A k \in Steady : k \notin Forgettable
  /\ \A k \in Steady, s \in Scopes, t \in Scopes :
       <<k, s>> \in Targets /\ <<k, t>> \in Targets => s = t
BY DEF Steady

(* A non-empty set of numbers has a least element.                         *)
LEMMA LeastNumber ==
  ASSUME NEW T, T \subseteq Nat, T # {}
  PROVE  \E m \in T : \A n \in T : m <= n
<1> DEFINE R == {ss \in Nat \X Nat : ss[1] < ss[2]}
<1>1. IsWellFoundedOn(R, Nat)
  BY NatLessThanWellFounded DEF OpToRel
<1> HIDE DEF R
<1>2. PICK m \in T : \A n \in T : ~ (<<n, m>> \in R)
  BY <1>1, WFMin
<1>3. ASSUME NEW n \in T PROVE m <= n
  <2>1. n \in Nat /\ m \in Nat /\ ~ (n < m)
    BY <1>2 DEF R
  <2> QED
    BY <2>1
<1> QED
  BY <1>2, <1>3

(* The rest of a sequence after its i-th element.                          *)
LEMMA RestOfSeq ==
  ASSUME NEW S, NEW q \in Seq(S), NEW i \in DOMAIN q,
         NEW r, r = SubSeq(q, i + 1, Len(q))
  PROVE  /\ r \in Seq(S)
         /\ \A j \in DOMAIN r : j \in Nat /\ i + j \in DOMAIN q /\ r[j] = q[i + j]
         /\ \A j \in DOMAIN q : j > i => j - i \in DOMAIN r /\ r[j - i] = q[j]
<1>1. /\ Len(q) \in Nat /\ DOMAIN q = 1 .. Len(q) /\ i \in 1 .. Len(q)
      /\ \A j \in 1 .. Len(q) : q[j] \in S
  BY LenProperties, ElementOfSeq
<1>2. \A j \in (i + 1) .. Len(q) : q[j] \in S
  BY <1>1
<1>3. /\ r \in Seq(S) /\ Len(r) = IF i + 1 <= Len(q) THEN Len(q) - (i + 1) + 1 ELSE 0
      /\ \A j \in 1 .. Len(q) - (i + 1) + 1 : r[j] = q[(i + 1) + j - 1]
  BY <1>1, <1>2, SubSeqProperties
<1>4. DOMAIN r = 1 .. (Len(q) - i)
  BY <1>1, <1>3, LenProperties
<1>5. ASSUME NEW j \in DOMAIN r
      PROVE  j \in Nat /\ i + j \in DOMAIN q /\ r[j] = q[i + j]
  <2>1. j \in 1 .. (Len(q) - i) /\ r[j] = q[(i + 1) + j - 1]
    BY <1>1, <1>3, <1>4
  <2>2. (i + 1) + j - 1 = i + j
    BY <1>1, <2>1
  <2> QED
    BY <1>1, <2>1, <2>2
<1>6. ASSUME NEW j \in DOMAIN q, j > i
      PROVE  j - i \in DOMAIN r /\ r[j - i] = q[j]
  <2>1. j - i \in 1 .. (Len(q) - i)
    BY <1>1, <1>6
  <2>2. r[j - i] = q[i + (j - i)] /\ i + (j - i) = j
    BY <1>1, <1>4, <1>5, <2>1
  <2> QED
    BY <1>4, <2>1, <2>2
<1> QED
  BY <1>3, <1>5, <1>6

LEMMA MidTurnTypes ==
  ASSUME NEW st \in MidTurn
  PROVE  /\ st.intents \in [Keys -> Intent \cup {NoIntent}]
         /\ st.items \in [Scopes -> Seq(Keys)]
         /\ st.running \in [Scopes -> Run \cup {NoRun}]
         /\ st.requests \in Seq([key : Keys, fate : Fates])
         /\ Len(st.requests) \in Nat
         /\ DOMAIN st.requests = 1 .. Len(st.requests)
         /\ \A n \in DOMAIN st.requests :
              st.requests[n] \in [key : Keys, fate : Fates]
<1>1. st.requests \in Seq([key : Keys, fate : Fates])
  BY DEF MidTurn
<1>2. /\ Len(st.requests) \in Nat /\ DOMAIN st.requests = 1 .. Len(st.requests)
      /\ \A n \in 1 .. Len(st.requests) : st.requests[n] \in [key : Keys, fate : Fates]
  BY <1>1, LenProperties, ElementOfSeq
<1> QED
  BY <1>1, <1>2 DEF MidTurn
-----------------------------------------------------------------------------
(* TakeNext: the loop of s ends, or runs the first key of its queue that   *)
(* has an intent of this scope.                                            *)

LoopEnds(st, s, end) ==
  /\ \A j \in DOMAIN st.items[s] : ~ Runnable(st, s, st.items[s][j])
  /\ end = [st EXCEPT !.items[s] = <<>>, !.running[s] = NoRun]

LoopRuns(st, s, end, i, k) ==
  /\ i \in DOMAIN st.items[s] /\ st.items[s][i] = k /\ Runnable(st, s, k)
  /\ \A j \in DOMAIN st.items[s] : Runnable(st, s, st.items[s][j]) => i <= j
  /\ end = [st EXCEPT
       !.items[s] = SubSeq(st.items[s], i + 1, Len(st.items[s])),
       !.intents[k].status = "running",
       !.requests[st.intents[k].request].fate = "running",
       !.running[s] = [key |-> k, version |-> st.intents[k].version,
                       request |-> st.intents[k].request]]

LEMMA TakeNextShape ==
  ASSUME NEW st \in MidTurn, NEW s \in Scopes
  PROVE  \/ LoopEnds(st, s, TakeNext(st, s))
         \/ \E i \in DOMAIN st.items[s] :
              LoopRuns(st, s, TakeNext(st, s), i, st.items[s][i])
<1> DEFINE q == st.items[s]
           live == {i \in DOMAIN q : Runnable(st, s, q[i])}
<1>1. CASE live = {}
  BY <1>1 DEF TakeNext, LoopEnds
<1>2. CASE live # {}
  <2>1. live \subseteq Nat
    <3>1. q \in Seq(Keys)
      BY MidTurnTypes
    <3> QED
      BY <3>1, LenProperties
  <2>2. \E i \in live : \A j \in live : i <= j
    BY <1>2, <2>1, LeastNumber
  <2> DEFINE i == CHOOSE i \in live : \A j \in live : i <= j
  <2>3. i \in live /\ \A j \in live : i <= j
    BY <2>2
  <2>4. TakeNext(st, s) =
          [st EXCEPT
             !.items[s] = SubSeq(q, i + 1, Len(q)),
             !.intents[q[i]].status = "running",
             !.requests[st.intents[q[i]].request].fate = "running",
             !.running[s] = [key |-> q[i], version |-> st.intents[q[i]].version,
                             request |-> st.intents[q[i]].request]]
    BY <1>2 DEF TakeNext
  <2> HIDE DEF i
  <2> QED
    BY <2>3, <2>4 DEF LoopRuns
<1> QED
  BY <1>1, <1>2

(* What a loop that ends does to the state.                                *)
EndsEffect(st, s, end) ==
  /\ end.intents = st.intents /\ end.requests = st.requests
  /\ end.items = [st.items EXCEPT ![s] = <<>>]
  /\ end.running = [st.running EXCEPT ![s] = NoRun]
  /\ end = [intents |-> end.intents, items |-> end.items,
            running |-> end.running, requests |-> end.requests]
  /\ \A t \in Scopes : t # s => end.running[t] = st.running[t]

LEMMA LoopEndsEffect ==
  ASSUME NEW st \in MidTurn, NEW s \in Scopes, NEW end, LoopEnds(st, s, end)
  PROVE  EndsEffect(st, s, end)
<1>1. /\ end.intents = st.intents /\ end.requests = st.requests
      /\ end.items = [st.items EXCEPT ![s] = <<>>]
      /\ end.running = [st.running EXCEPT ![s] = NoRun]
      /\ end = [intents |-> end.intents, items |-> end.items,
                running |-> end.running, requests |-> end.requests]
  BY DEF LoopEnds, MidTurn
<1> QED
  BY <1>1, MidTurnTypes DEF EndsEffect

LEMMA LoopEndsKeeps ==
  ASSUME NEW st, NEW carried, NEW ended, NEW s \in Scopes, s \in ended,
         TurnInv(st, carried, ended), NEW end, LoopEnds(st, s, end)
  PROVE  TurnInv(end, carried, ended \ {s})
<1>1. st \in MidTurn /\ Refs(st, carried)
  BY DEF TurnInv, Refs
<1>2. /\ end \in MidTurn
      /\ end.intents = st.intents /\ end.requests = st.requests
      /\ end.items = [st.items EXCEPT ![s] = <<>>]
      /\ end.running = [st.running EXCEPT ![s] = NoRun]
  <2>1. /\ end.intents = st.intents /\ end.requests = st.requests
        /\ end.items = [st.items EXCEPT ![s] = <<>>]
        /\ end.running = [st.running EXCEPT ![s] = NoRun]
        /\ end = [intents |-> end.intents, items |-> end.items,
                  running |-> end.running, requests |-> end.requests]
    BY <1>1, LoopEndsEffect DEF EndsEffect
  <2>2. <<>> \in Seq(Keys)
    BY EmptySeq
  <2>3. /\ end.items \in [Scopes -> Seq(Keys)]
        /\ end.running \in [Scopes -> Run \cup {NoRun}]
    BY <1>1, <2>1, <2>2, MidTurnTypes
  <2>4. end \in MidTurn
    BY <1>1, <2>1, <2>3, MidTurnTypes DEF MidTurn
  <2> QED
    BY <2>1, <2>4
<1>3. /\ end.items[s] = <<>> /\ end.running[s] = NoRun
      /\ \A t \in Scopes : t # s => /\ end.items[t] = st.items[t]
                                    /\ end.running[t] = st.running[t]
  BY <1>1, <1>2, MidTurnTypes
<1>4. \A t \in Scopes : RunOf(end, ended \ {s}, t) = RunOf(st, ended, t)
  BY <1>3 DEF RunOf
<1>5. Refs(end, carried)
  BY <1>1, <1>2, <1>3 DEF Refs
<1>6. Idle(end, ended \ {s})
  BY <1>3 DEF TurnInv, Idle
<1>7. ASSUME NEW k \in Steady PROVE KeyInv(end, carried, ended \ {s}, k)
  <2>1. KeyInv(st, carried, ended, k) /\ k \in Keys
    BY SteadyKeys DEF TurnInv
  <2>2. QueueInv(end, k)
    BY <1>2, <1>3, <2>1 DEF KeyInv, QueueInv
  <2>3. \A i \in DOMAIN st.items[s] : st.items[s][i] # k
    <3>1. SUFFICES ASSUME NEW i \in DOMAIN st.items[s], st.items[s][i] = k
                   PROVE  Runnable(st, s, k)
      BY DEF LoopEnds
    <3>2. <<k, s>> \in Targets /\ st.intents[k].status = "pending"
      BY <2>1, <3>1 DEF KeyInv, QueueInv
    <3>3. st.intents[k] # NoIntent
      BY <3>2 DEF NoIntent
    <3>4. <<k, st.intents[k].scope>> \in Targets
      BY <2>1, <3>3 DEF KeyInv, IntentInv
    <3>5. st.intents[k].scope \in Scopes
      BY <1>1, <2>1, <3>3, MidTurnTypes, IntentValues
    <3> QED
      BY <3>2, <3>3, <3>4, <3>5, SteadyKeys DEF Runnable
  <2>4. IntentInv(end, carried, ended \ {s}, k)
    <3> DEFINE intent == st.intents[k]
    <3>1. SUFFICES ASSUME intent # NoIntent
                   PROVE  IntentInv(end, carried, ended \ {s}, k)
      BY <1>2 DEF IntentInv
    <3>2. intent.scope \in Scopes /\ IntentInv(st, carried, ended, k)
      BY <1>1, <2>1, <3>1, MidTurnTypes, IntentValues DEF KeyInv
    <3>3. RunOf(end, ended \ {s}, intent.scope) = RunOf(st, ended, intent.scope)
      BY <1>4, <3>2
    <3>4. ASSUME intent.status = "pending"
          PROVE  \E i \in DOMAIN end.items[intent.scope] : end.items[intent.scope][i] = k
      <4>1. PICK i \in DOMAIN st.items[intent.scope] : st.items[intent.scope][i] = k
        BY <3>1, <3>2, <3>4 DEF IntentInv
      <4>2. intent.scope # s
        BY <2>3, <4>1
      <4> QED
        BY <1>3, <3>2, <4>1, <4>2
    <3> QED
      BY <1>2, <3>1, <3>2, <3>3, <3>4 DEF IntentInv
  <2>5. RunInv(end, carried, ended \ {s}, k)
    BY <1>2, <1>4, <2>1 DEF KeyInv, RunInv
  <2>6. RequestInv(end, ended \ {s}, k)
    <3>1. RequestInv(st, ended, k)
      BY <2>1 DEF KeyInv
    <3>2. ASSUME NEW n \in DOMAIN st.requests, st.requests[n].key = k,
                 st.requests[n].fate = "running"
          PROVE  \E t \in Scopes : /\ RunOf(end, ended \ {s}, t) # NoRun
                                   /\ RunOf(end, ended \ {s}, t).key = k
                                   /\ RunOf(end, ended \ {s}, t).request = n
      <4>1. PICK t \in Scopes : /\ RunOf(st, ended, t) # NoRun
                                /\ RunOf(st, ended, t).key = k
                                /\ RunOf(st, ended, t).request = n
        BY <3>1, <3>2 DEF RequestInv
      <4>2. RunOf(end, ended \ {s}, t) = RunOf(st, ended, t)
        BY <1>4
      <4> QED
        BY <4>1, <4>2
    <3> QED
      BY <1>2, <3>1, <3>2 DEF RequestInv
  <2> QED
    BY <2>2, <2>4, <2>5, <2>6 DEF KeyInv
<1> QED
  BY <1>2, <1>3, <1>5, <1>6, <1>7 DEF TurnInv

(* What a loop that runs a key does to the state.                          *)
RunsEffect(st, s, end, i, k) ==
  LET intent == st.intents[k]
      run == [key |-> k, version |-> intent.version, request |-> intent.request]
  IN  /\ k \in Keys /\ intent \in Intent /\ intent # NoIntent
      /\ intent.scope = s /\ run \in Run /\ run # NoRun
      /\ intent.request \in DOMAIN st.requests
      /\ st.requests[intent.request].key = k
      /\ end \in MidTurn
      /\ end.intents[k] \in Intent /\ end.intents[k] # NoIntent
      /\ end.intents[k].status = "running" /\ end.intents[k].scope = s
      /\ end.intents[k].version = intent.version
      /\ end.intents[k].request = intent.request
      /\ \A h \in Keys : h # k => end.intents[h] = st.intents[h]
      /\ end.items[s] = SubSeq(st.items[s], i + 1, Len(st.items[s]))
      /\ \A t \in Scopes : t # s => /\ end.items[t] = st.items[t]
                                    /\ end.running[t] = st.running[t]
      /\ end.running[s] = run
      /\ DOMAIN end.requests = DOMAIN st.requests
      /\ Len(end.requests) = Len(st.requests)
      /\ \A n \in DOMAIN st.requests : end.requests[n].key = st.requests[n].key
      /\ end.requests[intent.request].fate = "running"
      /\ \A n \in DOMAIN st.requests :
           n # intent.request => end.requests[n].fate = st.requests[n].fate

LEMMA LoopRunsEffect ==
  ASSUME NEW st, NEW carried, Refs(st, carried), NEW s \in Scopes,
         NEW end, NEW i, NEW k, LoopRuns(st, s, end, i, k)
  PROVE  RunsEffect(st, s, end, i, k)
<1> DEFINE intent == st.intents[k]
           n == intent.request
           run == [key |-> k, version |-> intent.version, request |-> intent.request]
<1>1. st \in MidTurn
  BY DEF Refs
<1>2. st.items[s] \in Seq(Keys) /\ i \in DOMAIN st.items[s] /\ k = st.items[s][i]
  BY <1>1, MidTurnTypes DEF LoopRuns
<1>3. k \in Keys
  BY <1>2, LenProperties, ElementOfSeq
<1>4. intent \in Intent /\ intent # NoIntent /\ intent.scope = s
  BY <1>1, <1>3, MidTurnTypes DEF LoopRuns, Runnable
<1>5. /\ n \in DOMAIN st.requests /\ st.requests[n].key = k
      /\ intent.version \in RequestIds /\ n \in RequestIds
  BY <1>3, <1>4, IntentValues DEF Refs, RequestIds
<1>6. run \in Run /\ run # NoRun
  <2>1. run \in Run
    BY <1>3, <1>5 DEF Run
  <2> QED
    BY <2>1, RunValues
<1>7. /\ end.items = [st.items EXCEPT ![s] = SubSeq(st.items[s], i + 1, Len(st.items[s]))]
      /\ end.intents = [st.intents EXCEPT ![k] = [intent EXCEPT !.status = "running"]]
      /\ end.requests = [st.requests EXCEPT ![n] = [st.requests[n] EXCEPT !.fate = "running"]]
      /\ end.running = [st.running EXCEPT ![s] = run]
      /\ end = [intents |-> end.intents, items |-> end.items,
                running |-> end.running, requests |-> end.requests]
  BY <1>1 DEF LoopRuns, MidTurn
<1> DEFINE now == [intent EXCEPT !.status = "running"]
           fate == [st.requests[n] EXCEPT !.fate = "running"]
<1>8. /\ now \in Intent /\ now.status = "running" /\ now.scope = intent.scope
      /\ now.version = intent.version /\ now.request = intent.request
  BY <1>4 DEF Intent
<1>9. /\ st.requests[n] \in [key : Keys, fate : Fates]
      /\ fate \in [key : Keys, fate : Fates]
      /\ fate.fate = "running" /\ fate.key = st.requests[n].key
  <2>1. st.requests[n] \in [key : Keys, fate : Fates]
    BY <1>1, <1>5, MidTurnTypes
  <2> QED
    BY <2>1 DEF Fates
<1>10. SubSeq(st.items[s], i + 1, Len(st.items[s])) \in Seq(Keys)
  BY <1>2, RestOfSeq
<1> HIDE DEF now, fate, run, n, intent
<1>11. /\ end.requests \in Seq([key : Keys, fate : Fates])
       /\ DOMAIN end.requests = DOMAIN st.requests
       /\ Len(end.requests) = Len(st.requests)
       /\ \A m \in DOMAIN st.requests :
            end.requests[m] = IF m = n THEN fate ELSE st.requests[m]
  <2>1. n \in 1 .. Len(st.requests) /\ DOMAIN st.requests = 1 .. Len(st.requests)
    BY <1>1, <1>5, MidTurnTypes
  <2>2. st.requests \in Seq([key : Keys, fate : Fates])
    BY <1>1, MidTurnTypes
  <2>3. end.requests = [st.requests EXCEPT ![n] = fate]
    BY <1>7 DEF fate
  <2>4. end.requests \in Seq([key : Keys, fate : Fates]) /\ Len(end.requests) = Len(st.requests)
    BY <1>9, <2>1, <2>2, <2>3, ExceptSeq
  <2> QED
    BY <2>1, <2>3, <2>4, LenProperties
<1>12. /\ end.intents \in [Keys -> Intent \cup {NoIntent}] /\ end.intents[k] = now
       /\ \A h \in Keys : h # k => end.intents[h] = st.intents[h]
  BY <1>1, <1>3, <1>7, <1>8, MidTurnTypes DEF now
<1>13. /\ end.items \in [Scopes -> Seq(Keys)]
       /\ end.items[s] = SubSeq(st.items[s], i + 1, Len(st.items[s]))
       /\ \A t \in Scopes : t # s => end.items[t] = st.items[t]
  BY <1>1, <1>7, <1>10, MidTurnTypes
<1>14. /\ end.running \in [Scopes -> Run \cup {NoRun}] /\ end.running[s] = run
       /\ \A t \in Scopes : t # s => end.running[t] = st.running[t]
  BY <1>1, <1>6, <1>7, MidTurnTypes
<1>15. end \in MidTurn
  BY <1>7, <1>11, <1>12, <1>13, <1>14 DEF MidTurn
<1>16. now # NoIntent
  BY <1>8, IntentValues
<1>17. \A m \in DOMAIN st.requests : end.requests[m].key = st.requests[m].key
  BY <1>9, <1>11
<1>18. /\ end.requests[n].fate = "running"
       /\ \A m \in DOMAIN st.requests : m # n => end.requests[m].fate = st.requests[m].fate
  BY <1>5, <1>9, <1>11
<1> QED
  BY <1>3, <1>4, <1>5, <1>6, <1>8, <1>11, <1>12, <1>13, <1>14, <1>15, <1>16,
     <1>17, <1>18 DEF RunsEffect, run, n, intent

LEMMA LoopRunsKeeps ==
  ASSUME NEW st, NEW carried, NEW ended, NEW s \in Scopes, s \in ended,
         TurnInv(st, carried, ended), NEW end, NEW i, NEW k,
         LoopRuns(st, s, end, i, k)
  PROVE  TurnInv(end, carried, ended \ {s})
<1> DEFINE intent == st.intents[k]
           n == intent.request
           run == [key |-> k, version |-> intent.version, request |-> n]
           rest == end.items[s]
           left == ended \ {s}
<1>1. st \in MidTurn /\ Refs(st, carried) /\ Idle(st, ended)
  BY DEF TurnInv, Refs
<1>0. RunsEffect(st, s, end, i, k)
  BY <1>1, LoopRunsEffect
<1>2. /\ k \in Keys /\ intent \in Intent /\ intent # NoIntent
      /\ intent.scope = s /\ run \in Run /\ run # NoRun
      /\ n \in DOMAIN st.requests /\ st.requests[n].key = k
      /\ end \in MidTurn
  BY <1>0 DEF RunsEffect
<1>3. /\ end.intents[k] \in Intent /\ end.intents[k] # NoIntent
      /\ end.intents[k].status = "running" /\ end.intents[k].scope = s
      /\ end.intents[k].version = intent.version /\ end.intents[k].request = n
      /\ \A h \in Keys : h # k => end.intents[h] = st.intents[h]
  BY <1>0 DEF RunsEffect
<1>4. /\ rest = SubSeq(st.items[s], i + 1, Len(st.items[s]))
      /\ end.running[s] = run
      /\ \A t \in Scopes : t # s => /\ end.items[t] = st.items[t]
                                    /\ end.running[t] = st.running[t]
  BY <1>0 DEF RunsEffect
<1>5. /\ DOMAIN end.requests = DOMAIN st.requests
      /\ Len(end.requests) = Len(st.requests)
      /\ \A m \in DOMAIN st.requests : end.requests[m].key = st.requests[m].key
      /\ end.requests[n].fate = "running"
      /\ \A m \in DOMAIN st.requests :
           m # n => end.requests[m].fate = st.requests[m].fate
  BY <1>0 DEF RunsEffect
<1>6. /\ i \in DOMAIN st.items[s] /\ st.items[s][i] = k /\ i \in Nat
      /\ \A j \in DOMAIN rest : j \in Nat /\ i + j \in DOMAIN st.items[s]
                                /\ rest[j] = st.items[s][i + j]
      /\ \A j \in DOMAIN st.items[s] :
           j > i => j - i \in DOMAIN rest /\ rest[j - i] = st.items[s][j]
  <2>1. i \in DOMAIN st.items[s] /\ st.items[s][i] = k /\ st.items[s] \in Seq(Keys)
    BY <1>1, MidTurnTypes DEF LoopRuns
  <2>2. i \in Nat
    BY <2>1, LenProperties
  <2> DEFINE q == st.items[s]
  <2>3. /\ q \in Seq(Keys) /\ i \in DOMAIN q /\ rest = SubSeq(q, i + 1, Len(q))
    BY <1>4, <2>1
  <2> HIDE DEF q, rest
  <2>4. /\ \A j \in DOMAIN rest : j \in Nat /\ i + j \in DOMAIN q /\ rest[j] = q[i + j]
        /\ \A j \in DOMAIN q : j > i => j - i \in DOMAIN rest /\ rest[j - i] = q[j]
    BY <2>3, RestOfSeq
  <2> QED
    BY <2>1, <2>2, <2>4 DEF q
<1>7. /\ RunOf(end, left, s) = run /\ RunOf(st, ended, s) = NoRun
      /\ \A t \in Scopes : t # s => RunOf(end, left, t) = RunOf(st, ended, t)
  BY <1>4 DEF RunOf
<1>8. \A h \in Keys : st.intents[h] # NoIntent =>
        st.intents[h].request \in DOMAIN st.requests
        /\ st.requests[st.intents[h].request].key = h
        /\ st.intents[h].scope \in Scopes
  BY <1>1, MidTurnTypes, IntentValues DEF Refs
<1> HIDE DEF intent, n, run, rest, left
<1>9. Refs(end, carried)
  <2>1. \A h \in Keys : end.intents[h] # NoIntent =>
          /\ end.intents[h].request \in DOMAIN end.requests
          /\ end.requests[end.intents[h].request].key = h
          /\ end.intents[h].version <= end.intents[h].request
    <3>1. \A h \in Keys : st.intents[h] # NoIntent =>
            st.intents[h].version <= st.intents[h].request
      BY <1>1 DEF Refs
    <3>2. intent.version <= n
      BY <1>2, <3>1 DEF intent, n
    <3>3. ASSUME NEW h \in Keys, h # k, end.intents[h] # NoIntent
          PROVE  /\ end.intents[h].request \in DOMAIN end.requests
                 /\ end.requests[end.intents[h].request].key = h
                 /\ end.intents[h].version <= end.intents[h].request
      <4>1. end.intents[h] = st.intents[h]
        BY <1>3, <3>3
      <4> QED
        BY <1>5, <1>8, <3>1, <3>3, <4>1
    <3>4. /\ end.intents[k].request \in DOMAIN end.requests
          /\ end.requests[end.intents[k].request].key = k
          /\ end.intents[k].version <= end.intents[k].request
      BY <1>2, <1>3, <1>5, <3>2
    <3> QED
      BY <3>3, <3>4
  <2>2. \A t \in Scopes : end.running[t] # NoRun =>
          /\ end.running[t].request \in DOMAIN end.requests
          /\ end.requests[end.running[t].request].key = end.running[t].key
    <3>1. run.request = n /\ run.key = k
      BY DEF run
    <3>2. ASSUME NEW t \in Scopes, t # s, end.running[t] # NoRun
          PROVE  /\ end.running[t].request \in DOMAIN end.requests
                 /\ end.requests[end.running[t].request].key = end.running[t].key
      <4>1. end.running[t] = st.running[t]
        BY <1>4, <3>2
      <4> QED
        BY <1>1, <1>5, <3>2, <4>1 DEF Refs
    <3> QED
      BY <1>2, <1>4, <1>5, <3>1, <3>2
  <2> QED
    BY <1>1, <1>2, <1>5, <2>1, <2>2 DEF Refs
<1>10. Idle(end, left)
  BY <1>1, <1>2, <1>4 DEF Idle, left
<1>11. ASSUME NEW h \in Steady, h # k PROVE KeyInv(end, carried, left, h)
  <2>1. /\ h \in Keys /\ QueueInv(st, h) /\ IntentInv(st, carried, ended, h)
        /\ RunInv(st, carried, ended, h) /\ RequestInv(st, ended, h)
        /\ end.intents[h] = st.intents[h]
    BY <1>3, <1>11, SteadyKeys DEF TurnInv, KeyInv
  <2>2. QueueInv(end, h)
    <3>1. SUFFICES ASSUME NEW t \in Scopes, NEW j \in DOMAIN end.items[t],
                          end.items[t][j] = h
                   PROVE  /\ <<h, t>> \in Targets
                          /\ end.intents[h].status = "pending"
                          /\ \A l \in DOMAIN end.items[t] : end.items[t][l] = h => l = j
      BY DEF QueueInv
    <3>2. CASE t # s
      BY <1>4, <2>1, <3>1, <3>2 DEF QueueInv
    <3>3. CASE t = s
      <4>1. /\ i + j \in DOMAIN st.items[s] /\ st.items[s][i + j] = h /\ j \in Nat
        BY <1>6, <3>1, <3>3 DEF rest
      <4>2. ASSUME NEW l \in DOMAIN end.items[t], end.items[t][l] = h PROVE l = j
        <5>1. i + l \in DOMAIN st.items[s] /\ st.items[s][i + l] = h /\ l \in Nat
          BY <1>6, <3>3, <4>2 DEF rest
        <5>2. i + l = i + j
          BY <2>1, <4>1, <5>1 DEF QueueInv
        <5> QED
          BY <1>6, <4>1, <5>1, <5>2
      <4> QED
        BY <2>1, <3>3, <4>1, <4>2 DEF QueueInv
    <3> QED
      BY <3>2, <3>3
  <2>3. IntentInv(end, carried, left, h)
    <3> DEFINE other == st.intents[h]
    <3>1. SUFFICES ASSUME other # NoIntent PROVE IntentInv(end, carried, left, h)
      BY <2>1 DEF IntentInv
    <3>2. /\ other.scope \in Scopes /\ other.request \in DOMAIN st.requests
          /\ other.request # n
      BY <1>2, <1>8, <1>11, <2>1, <3>1
    <3>3. ASSUME other.status = "pending"
          PROVE  \E j \in DOMAIN end.items[other.scope] : end.items[other.scope][j] = h
      <4>1. PICK j \in DOMAIN st.items[other.scope] : st.items[other.scope][j] = h
        BY <2>1, <3>1, <3>3 DEF IntentInv
      <4>2. CASE other.scope # s
        BY <1>4, <3>2, <4>1, <4>2
      <4>3. CASE other.scope = s
        <5>1. i <= j
          BY <3>1, <4>1, <4>3 DEF LoopRuns, Runnable
        <5>2. j \in Nat /\ j > i
          <6>1. j # i
            BY <1>6, <1>11, <4>1, <4>3
          <6>2. st.items[s] \in Seq(Keys)
            BY <1>1, MidTurnTypes
          <6>3. j \in Nat
            BY <4>1, <4>3, <6>2, LenProperties
          <6> QED
            BY <1>6, <5>1, <6>1, <6>3
        <5>3. j - i \in DOMAIN rest /\ rest[j - i] = h
          BY <1>6, <4>1, <4>3, <5>2
        <5> QED
          BY <4>3, <5>3 DEF rest
      <4> QED
        BY <4>2, <4>3
    <3>4. ASSUME other.status = "running"
          PROVE  RunOf(end, left, other.scope) =
                   [key |-> h, version |-> other.version, request |-> other.request]
      <4> DEFINE its == [key |-> h, version |-> other.version, request |-> other.request]
      <4>1. RunOf(st, ended, other.scope) = its
        BY <2>1, <3>1, <3>4 DEF IntentInv
      <4>2. its \in Run
        BY <1>1, <2>1, <3>1, MidTurnTypes, IntentValues DEF Run, RequestIds
      <4>3. its # NoRun
        BY <4>2, RunValues
      <4> HIDE DEF its
      <4>4. other.scope # s
        BY <1>7, <4>1, <4>3
      <4> QED
        BY <1>7, <3>2, <4>1, <4>4 DEF its
    <3> QED
      BY <1>5, <2>1, <3>1, <3>2, <3>3, <3>4 DEF IntentInv
  <2>4. RunInv(end, carried, left, h)
    <3>1. SUFFICES ASSUME NEW t \in Scopes, RunOf(end, left, t) # NoRun,
                          RunOf(end, left, t).key = h
                   PROVE  LET r == RunOf(end, left, t)
                          IN  /\ r = RunOf(st, ended, t)
                              /\ end.requests[r.request].fate = st.requests[r.request].fate
      BY <2>1 DEF RunInv
    <3>2. t # s
      BY <1>7, <1>11, <3>1 DEF run
    <3>3. RunOf(end, left, t) = RunOf(st, ended, t)
      BY <1>7, <3>2
    <3>4. RunOf(st, ended, t) = st.running[t]
      BY <3>1, <3>3 DEF RunOf
    <3>5. st.running[t].request \in DOMAIN st.requests /\ st.running[t].request # n
      BY <1>1, <1>2, <1>11, <3>1, <3>3, <3>4 DEF Refs
    <3> QED
      BY <1>5, <3>3, <3>4, <3>5
  <2>5. RequestInv(end, left, h)
    <3>1. \A m \in DOMAIN st.requests : st.requests[m].key = h =>
            m # n /\ end.requests[m].fate = st.requests[m].fate
      BY <1>2, <1>5, <1>11
    <3>2. ASSUME NEW m \in DOMAIN st.requests, st.requests[m].key = h,
                 st.requests[m].fate = "running"
          PROVE  \E t \in Scopes : /\ RunOf(end, left, t) # NoRun
                                   /\ RunOf(end, left, t).key = h
                                   /\ RunOf(end, left, t).request = m
      <4>1. PICK t \in Scopes : /\ RunOf(st, ended, t) # NoRun
                                /\ RunOf(st, ended, t).key = h
                                /\ RunOf(st, ended, t).request = m
        BY <2>1, <3>2 DEF RequestInv
      <4>2. RunOf(end, left, t) = RunOf(st, ended, t)
        BY <1>7, <4>1
      <4> QED
        BY <4>1, <4>2
    <3> QED
      BY <1>5, <2>1, <3>1, <3>2 DEF RequestInv
  <2> QED
    BY <2>2, <2>3, <2>4, <2>5 DEF KeyInv
<1>12. ASSUME k \in Steady PROVE KeyInv(end, carried, left, k)
  <2>1. /\ QueueInv(st, k) /\ IntentInv(st, carried, ended, k)
        /\ RunInv(st, carried, ended, k) /\ RequestInv(st, ended, k)
    BY <1>12 DEF TurnInv, KeyInv
  <2>2. /\ <<k, s>> \in Targets /\ intent.status = "pending"
        /\ \A j \in DOMAIN st.items[s] : st.items[s][j] = k => j = i
    BY <1>6, <2>1 DEF QueueInv, intent
  <2>3. /\ \A m \in DOMAIN st.requests : st.requests[m].key = k => m <= n
        /\ st.requests[n].fate = "waiting" /\ carried[k] < n
    BY <1>2, <2>1, <2>2 DEF IntentInv, intent, n
  <2>4. \A t \in Scopes : <<k, t>> \in Targets => t = s
    BY <1>12, <2>2, SteadyKeys
  <2>5. QueueInv(end, k)
    <3>1. SUFFICES ASSUME NEW t \in Scopes, NEW j \in DOMAIN end.items[t],
                          end.items[t][j] = k
                   PROVE  FALSE
      BY DEF QueueInv
    <3>2. CASE t # s
      BY <1>4, <2>1, <2>4, <3>1, <3>2 DEF QueueInv
    <3>3. CASE t = s
      <4>1. j \in Nat /\ i + j \in DOMAIN st.items[s] /\ st.items[s][i + j] = k
        BY <1>6, <3>1, <3>3 DEF rest
      <4>2. i + j = i
        BY <2>2, <4>1
      <4>3. j \in 1 .. Len(rest)
        <5>1. rest \in Seq(Keys)
          BY <1>2, MidTurnTypes DEF rest
        <5> QED
          BY <3>1, <3>3, <5>1, LenProperties DEF rest
      <4> QED
        BY <1>6, <4>1, <4>2, <4>3
    <3> QED
      BY <3>2, <3>3
  <2>6. IntentInv(end, carried, left, k)
    BY <1>3, <1>5, <1>7, <2>2, <2>3 DEF IntentInv, run
  <2>7. RunInv(end, carried, left, k)
    <3>1. SUFFICES ASSUME NEW t \in Scopes, RunOf(end, left, t) # NoRun,
                          RunOf(end, left, t).key = k
                   PROVE  t = s
      BY <1>3, <1>5, <1>7, <2>2, <2>3 DEF RunInv, run
    <3>2. CASE t # s
      BY <1>7, <2>1, <2>4, <3>1, <3>2 DEF RunInv
    <3> QED
      BY <3>2
  <2>8. RequestInv(end, left, k)
    <3>1. SUFFICES ASSUME NEW m \in DOMAIN st.requests, st.requests[m].key = k
                   PROVE  /\ end.requests[m].fate = "running" => m = n
                          /\ /\ end.requests[m].fate = "waiting"
                             /\ \A l \in DOMAIN st.requests : st.requests[l].key = k => l <= m
                             => FALSE
      <4>1. RunOf(end, left, s) # NoRun /\ RunOf(end, left, s).key = k
            /\ RunOf(end, left, s).request = n
        BY <1>2, <1>7 DEF run
      <4> QED
        BY <1>5, <3>1, <4>1 DEF RequestInv
    <3>2. ASSUME m # n, st.requests[m].fate = "running" PROVE FALSE
      <4>1. PICK t \in Scopes : /\ RunOf(st, ended, t) # NoRun
                                /\ RunOf(st, ended, t).key = k
        BY <2>1, <3>1, <3>2 DEF RequestInv
      <4>2. t = s
        BY <2>1, <2>4, <4>1 DEF RunInv
      <4> QED
        BY <1>7, <4>1, <4>2
    <3>3. ASSUME st.requests[m].fate = "waiting",
                 \A l \in DOMAIN st.requests : st.requests[l].key = k => l <= m
          PROVE  m = n
      BY <2>1, <3>1, <3>3 DEF RequestInv, intent, n
    <3> QED
      BY <1>5, <3>1, <3>2, <3>3
  <2> QED
    BY <2>5, <2>6, <2>7, <2>8 DEF KeyInv
<1> QED
  BY <1>9, <1>10, <1>11, <1>12 DEF TurnInv, left

(* What the rest of a turn keeps: what has begun is the newest.            *)
Keeps(before, st, end) ==
  BeganNewest(before, st) => BeganNewest(before, end)

LEMMA TakeNextKeeps ==
  ASSUME NEW st, NEW carried, NEW ended, NEW s \in Scopes, s \in ended,
         TurnInv(st, carried, ended), NEW before
  PROVE  /\ TurnInv(TakeNext(st, s), carried, ended \ {s})
         /\ Keeps(before, st, TakeNext(st, s))
<1> DEFINE end == TakeNext(st, s)
<1>1. Refs(st, carried) /\ st \in MidTurn
  BY DEF TurnInv, Refs
<1>2. CASE LoopEnds(st, s, end)
  <2>1. /\ TurnInv(end, carried, ended \ {s})
        /\ end.requests = st.requests /\ end.intents = st.intents
    <3>1. ASSUME NEW e, LoopEnds(st, s, e)
          PROVE  TurnInv(e, carried, ended \ {s})
      BY <3>1, LoopEndsKeeps
    <3>2. ASSUME NEW e, LoopEnds(st, s, e)
          PROVE  EndsEffect(st, s, e)
      BY <1>1, <3>2, LoopEndsEffect
    <3>3. EndsEffect(st, s, end)
      BY <1>2, <3>2
    <3> QED
      BY <1>2, <3>1, <3>3 DEF EndsEffect
  <2> QED
    BY <2>1 DEF Keeps, BeganNewest, Began
<1>3. CASE \E i \in DOMAIN st.items[s] : LoopRuns(st, s, end, i, st.items[s][i])
  <2>1. PICK i : LoopRuns(st, s, end, i, st.items[s][i])
    BY <1>3
  <2> DEFINE k == st.items[s][i]
             intent == st.intents[k]
  <2> HIDE DEF end, k
  <2>2. LoopRuns(st, s, end, i, k)
    BY <2>1 DEF k
  <2>3. TurnInv(end, carried, ended \ {s}) /\ RunsEffect(st, s, end, i, k)
    BY <1>1, <2>2, LoopRunsKeeps, LoopRunsEffect
  <2>4. ASSUME BeganNewest(before, st), NEW m \in Began(before, end)
        PROVE  end.intents[end.requests[m].key].status = "running"
    <3>1. /\ m \in DOMAIN st.requests /\ st.requests[m].key \in Keys
          /\ end.requests[m].key = st.requests[m].key
      BY <1>1, <2>3, <2>4, MidTurnTypes DEF Began, RunsEffect
    <3>2. CASE st.requests[m].key = k
      BY <2>3, <3>1, <3>2 DEF RunsEffect
    <3>3. CASE st.requests[m].key # k
      <4>1. m # intent.request
        BY <2>3, <3>3 DEF RunsEffect
      <4>2. end.requests[m].fate = st.requests[m].fate
        BY <2>3, <3>1, <4>1 DEF RunsEffect
      <4>3. m \in Began(before, st)
        BY <2>4, <3>1, <4>2 DEF Began
      <4>4. end.intents[st.requests[m].key] = st.intents[st.requests[m].key]
        BY <2>3, <3>1, <3>3 DEF RunsEffect
      <4> QED
        BY <2>4, <3>1, <4>3, <4>4 DEF BeganNewest
    <3> QED
      BY <3>2, <3>3
  <2> QED
    BY <2>3, <2>4 DEF Keeps, BeganNewest, end
<1> QED
  BY <1>1, <1>2, <1>3, TakeNextShape
-----------------------------------------------------------------------------
(* EnqueueIntentKey: the key is put behind the others unless it is there,  *)
(* and the loop starts unless it is under way.                             *)

Queued(st, s, k) ==
  IF k \in Range(st.items[s]) THEN st ELSE [st EXCEPT !.items[s] = Append(@, k)]

Woken(st, s) == IF st.running[s] = NoRun THEN TakeNext(st, s) ELSE st

QueueEffect(st, s, k, queued) ==
  /\ queued \in MidTurn
  /\ queued.intents = st.intents /\ queued.running = st.running
  /\ queued.requests = st.requests
  /\ \A t \in Scopes : t # s => queued.items[t] = st.items[t]
  /\ \A i \in DOMAIN st.items[s] :
       i \in DOMAIN queued.items[s] /\ queued.items[s][i] = st.items[s][i]
  /\ \E i \in DOMAIN queued.items[s] : queued.items[s][i] = k
  /\ \A i \in DOMAIN queued.items[s] :
       \/ i \in DOMAIN st.items[s]
       \/ queued.items[s][i] = k
            /\ \A j \in DOMAIN queued.items[s] : queued.items[s][j] = k => j = i

LEMMA QueuedEffect ==
  ASSUME NEW st \in MidTurn, NEW s \in Scopes, NEW k \in Keys
  PROVE  QueueEffect(st, s, k, Queued(st, s, k))
<1> DEFINE q == st.items[s]
           queued == Queued(st, s, k)
<1>1. q \in Seq(Keys)
  BY MidTurnTypes
<1>2. CASE k \in Range(q)
  <2>1. queued = st
    BY <1>2 DEF Queued
  <2>2. \E i \in DOMAIN q : q[i] = k
    BY <1>2 DEF Range
  <2> QED
    BY <2>1, <2>2 DEF QueueEffect
<1>3. CASE k \notin Range(q)
  <2>1. /\ queued = [st EXCEPT !.items[s] = Append(q, k)]
        /\ \A i \in DOMAIN q : q[i] # k
    BY <1>3 DEF Queued, Range
  <2>2. /\ queued.intents = st.intents /\ queued.running = st.running
        /\ queued.requests = st.requests
        /\ queued.items = [st.items EXCEPT ![s] = Append(q, k)]
        /\ queued = [intents |-> queued.intents, items |-> queued.items,
                     running |-> queued.running, requests |-> queued.requests]
    BY <2>1 DEF MidTurn
  <2>3. /\ Append(q, k) \in Seq(Keys) /\ Len(Append(q, k)) = Len(q) + 1
        /\ \A i \in 1 .. Len(q) : Append(q, k)[i] = q[i]
        /\ Append(q, k)[Len(q) + 1] = k
        /\ Len(q) \in Nat /\ DOMAIN q = 1 .. Len(q)
        /\ DOMAIN Append(q, k) = 1 .. (Len(q) + 1)
    BY <1>1, AppendProperties, LenProperties
  <2>4. /\ queued.items \in [Scopes -> Seq(Keys)] /\ queued.items[s] = Append(q, k)
        /\ \A t \in Scopes : t # s => queued.items[t] = st.items[t]
    <3> HIDE DEF queued, q
    <3> QED
      BY <2>2, <2>3, MidTurnTypes
  <2>5. queued \in MidTurn
    <3> HIDE DEF queued
    <3> QED
      BY <2>2, <2>4, MidTurnTypes DEF MidTurn
  <2>6. /\ \A i \in DOMAIN q : i \in DOMAIN Append(q, k) /\ Append(q, k)[i] = q[i]
        /\ Len(q) + 1 \in DOMAIN Append(q, k)
        /\ \A i \in DOMAIN Append(q, k) : i \in DOMAIN q \/ i = Len(q) + 1
    BY <2>3
  <2>7. \A j \in DOMAIN Append(q, k) : Append(q, k)[j] = k => j = Len(q) + 1
    BY <2>1, <2>6
  <2> HIDE DEF queued, q
  <2> QED
    BY <2>2, <2>3, <2>4, <2>5, <2>6, <2>7 DEF q, queued, QueueEffect
<1> QED
  BY <1>2, <1>3

(* The loop of s wakes up, or goes on with what it does.                   *)
WokenScopes(st, ended, s) ==
  IF st.running[s] = NoRun THEN ended \cup {s} ELSE ended

LEMMA WokenKeeps ==
  ASSUME NEW st, NEW carried, NEW ended, NEW s \in Scopes,
         st.running[s] = NoRun => s \notin ended,
         TurnInv(st, carried, WokenScopes(st, ended, s)), NEW before
  PROVE  /\ TurnInv(Woken(st, s), carried, ended)
         /\ Keeps(before, st, Woken(st, s))
<1>1. CASE st.running[s] = NoRun
  <2>1. Woken(st, s) = TakeNext(st, s) /\ TurnInv(st, carried, ended \cup {s})
    BY <1>1 DEF Woken, WokenScopes
  <2>2. (ended \cup {s}) \ {s} = ended /\ s \in ended \cup {s}
    BY <1>1
  <2>3. /\ TurnInv(TakeNext(st, s), carried, (ended \cup {s}) \ {s})
        /\ Keeps(before, st, TakeNext(st, s))
    BY <2>1, <2>2, TakeNextKeeps
  <2> QED
    BY <2>1, <2>2, <2>3
<1>2. CASE st.running[s] # NoRun
  BY <1>2 DEF Woken, WokenScopes, Keeps
<1> QED
  BY <1>1, <1>2

LEMMA EnqueueIsWoken ==
  ASSUME NEW st, NEW s, NEW k, Queued(st, s, k).running = st.running
  PROVE  EnqueueIntentKey(st, s, k) = Woken(Queued(st, s, k), s)
BY DEF EnqueueIntentKey, Queued, Woken

(* A loop that is to be woken does not run anything.                       *)
LEMMA WokenRuns ==
  ASSUME NEW st, NEW end, NEW ended, NEW s \in Scopes, end.running = st.running,
         st.running[s] = NoRun => s \notin ended
  PROVE  \A t \in Scopes : RunOf(end, WokenScopes(end, ended, s), t) = RunOf(st, ended, t)
BY DEF RunOf, WokenScopes

(* A key is put back after a run of an older version of it.                *)
LEMMA PutBackKeeps ==
  ASSUME NEW st, NEW carried, NEW ended, NEW s \in Scopes, NEW k \in Keys,
         TurnInv(st, carried, ended),
         st.running[s] = NoRun => s \notin ended,
         st.intents[k] # NoIntent, st.intents[k].scope = s,
         k \in Steady => st.intents[k].status = "pending",
         NEW before
  PROVE  /\ TurnInv(EnqueueIntentKey(st, s, k), carried, ended)
         /\ Keeps(before, st, EnqueueIntentKey(st, s, k))
<1> DEFINE queued == Queued(st, s, k)
           left == WokenScopes(queued, ended, s)
<1>1. Refs(st, carried) /\ Idle(st, ended) /\ st \in MidTurn
  BY DEF TurnInv, Refs
<1>2. QueueEffect(st, s, k, queued)
  BY <1>1, QueuedEffect
<1>3. EnqueueIntentKey(st, s, k) = Woken(queued, s)
  <2>1. Queued(st, s, k).running = st.running
    BY <1>2 DEF QueueEffect
  <2> QED
    BY <2>1, EnqueueIsWoken
<1> HIDE DEF queued
<1>4. /\ queued \in MidTurn /\ queued.intents = st.intents
      /\ queued.running = st.running /\ queued.requests = st.requests
      /\ \A t \in Scopes : t # s => queued.items[t] = st.items[t]
  BY <1>2 DEF QueueEffect
<1>5. \A t \in Scopes : RunOf(queued, left, t) = RunOf(st, ended, t)
  BY <1>4, WokenRuns
<1>6. Refs(queued, carried)
  BY <1>1, <1>4 DEF Refs
<1>7. Idle(queued, left)
  BY <1>1, <1>4 DEF Idle, WokenScopes
<1> HIDE DEF left
<1>8. ASSUME NEW h \in Steady PROVE KeyInv(queued, carried, left, h)
  <2>1. /\ h \in Keys /\ QueueInv(st, h) /\ IntentInv(st, carried, ended, h)
        /\ RunInv(st, carried, ended, h) /\ RequestInv(st, ended, h)
    BY SteadyKeys DEF TurnInv, KeyInv
  <2>2. QueueInv(queued, h)
    <3>1. SUFFICES ASSUME NEW t \in Scopes, NEW i \in DOMAIN queued.items[t],
                          queued.items[t][i] = h
                   PROVE  /\ <<h, t>> \in Targets
                          /\ queued.intents[h].status = "pending"
                          /\ \A j \in DOMAIN queued.items[t] : queued.items[t][j] = h => j = i
      BY DEF QueueInv
    <3>2. CASE t # s
      BY <1>4, <2>1, <3>1, <3>2 DEF QueueInv
    <3>3. CASE t = s /\ i \in DOMAIN st.items[s]
      <4>1. st.items[s][i] = h
        BY <1>2, <3>1, <3>3 DEF QueueEffect
      <4>2. /\ <<h, s>> \in Targets /\ st.intents[h].status = "pending"
            /\ \A j \in DOMAIN st.items[s] : st.items[s][j] = h => j = i
        BY <2>1, <3>3, <4>1 DEF QueueInv
      <4>3. ASSUME NEW j \in DOMAIN queued.items[s], queued.items[s][j] = h PROVE j = i
        BY <1>2, <3>1, <3>3, <4>2, <4>3 DEF QueueEffect
      <4> QED
        BY <1>4, <3>3, <4>2, <4>3
    <3>4. CASE t = s /\ i \notin DOMAIN st.items[s]
      <4>1. h = k
        BY <1>2, <3>1, <3>4 DEF QueueEffect
      <4>2. PICK j \in DOMAIN st.items[s] : st.items[s][j] = k
        BY <2>1, <4>1 DEF IntentInv
      <4>3. j \in DOMAIN queued.items[s] /\ queued.items[s][j] = k
        BY <1>2, <4>2 DEF QueueEffect
      <4>4. j = i
        BY <1>2, <3>1, <3>4, <4>3 DEF QueueEffect
      <4> QED
        BY <3>4, <4>2, <4>4
    <3> QED
      BY <3>2, <3>3, <3>4
  <2>3. IntentInv(queued, carried, left, h)
    <3> DEFINE intent == st.intents[h]
    <3>1. SUFFICES ASSUME intent # NoIntent PROVE IntentInv(queued, carried, left, h)
      BY <1>4 DEF IntentInv
    <3>2. intent.scope \in Scopes
      BY <1>1, <2>1, <3>1, MidTurnTypes, IntentValues
    <3>3. RunOf(queued, left, intent.scope) = RunOf(st, ended, intent.scope)
      BY <1>5, <3>2
    <3>4. ASSUME intent.status = "pending"
          PROVE  \E i \in DOMAIN queued.items[intent.scope] : queued.items[intent.scope][i] = h
      <4>1. PICK i \in DOMAIN st.items[intent.scope] : st.items[intent.scope][i] = h
        BY <2>1, <3>1, <3>4 DEF IntentInv
      <4>2. CASE intent.scope # s
        BY <1>4, <3>2, <4>1, <4>2
      <4>3. CASE intent.scope = s
        BY <1>2, <4>1, <4>3 DEF QueueEffect
      <4> QED
        BY <4>2, <4>3
    <3> QED
      BY <1>4, <2>1, <3>1, <3>3, <3>4 DEF IntentInv
  <2>4. RunInv(queued, carried, left, h)
    BY <1>4, <1>5, <2>1 DEF RunInv
  <2>5. RequestInv(queued, left, h)
    <3>1. ASSUME NEW n \in DOMAIN st.requests, st.requests[n].key = h,
                 st.requests[n].fate = "running"
          PROVE  \E t \in Scopes : /\ RunOf(queued, left, t) # NoRun
                                   /\ RunOf(queued, left, t).key = h
                                   /\ RunOf(queued, left, t).request = n
      <4>1. PICK t \in Scopes : /\ RunOf(st, ended, t) # NoRun
                                /\ RunOf(st, ended, t).key = h
                                /\ RunOf(st, ended, t).request = n
        BY <2>1, <3>1 DEF RequestInv
      <4>2. RunOf(queued, left, t) = RunOf(st, ended, t)
        BY <1>5
      <4> QED
        BY <4>1, <4>2
    <3> QED
      BY <1>4, <2>1, <3>1 DEF RequestInv
  <2> QED
    BY <2>2, <2>3, <2>4, <2>5 DEF KeyInv
<1>9. TurnInv(queued, carried, left)
  BY <1>6, <1>7, <1>8 DEF TurnInv
<1>10. queued.running[s] = NoRun => s \notin ended
  BY <1>4
<1>11. /\ TurnInv(Woken(queued, s), carried, ended)
       /\ Keeps(before, queued, Woken(queued, s))
  BY <1>9, <1>10, WokenKeeps DEF left
<1>12. BeganNewest(before, st) => BeganNewest(before, queued)
  BY <1>4 DEF BeganNewest, Began
<1> QED
  BY <1>3, <1>11, <1>12 DEF Keeps
-----------------------------------------------------------------------------
(* RequestIntent: a new intent of the key, pending, behind every request.  *)

Asked(st, k, s) ==
  [st EXCEPT
     !.requests = Append(@, [key |-> k, fate |-> "waiting"]),
     !.intents[k] = [status |-> "pending", scope |-> s,
                     request |-> Len(st.requests) + 1, version |-> NextVersion(st, k)]]

AskEffect(st, k, s, asked) ==
  LET n == Len(st.requests) + 1
  IN  /\ asked \in MidTurn
      /\ asked.items = st.items /\ asked.running = st.running
      /\ \A h \in Keys : h # k => asked.intents[h] = st.intents[h]
      /\ asked.intents[k] # NoIntent /\ asked.intents[k].status = "pending"
      /\ asked.intents[k].scope = s /\ asked.intents[k].request = n
      /\ asked.intents[k].version <= n
      /\ st.intents[k] # NoIntent => st.intents[k].version < asked.intents[k].version
      /\ n <= MaxRequests /\ Len(asked.requests) = n
      /\ n \in DOMAIN asked.requests
      /\ asked.requests[n].key = k /\ asked.requests[n].fate = "waiting"
      /\ \A m \in DOMAIN st.requests :
           m \in DOMAIN asked.requests /\ m < n /\ asked.requests[m] = st.requests[m]
      /\ \A m \in DOMAIN asked.requests : m = n \/ m \in DOMAIN st.requests

LEMMA AskedEffect ==
  ASSUME NEW st, NEW carried, Refs(st, carried), NEW k \in Keys, NEW s \in Scopes,
         Len(st.requests) < MaxRequests
  PROVE  AskEffect(st, k, s, Asked(st, k, s))
<1> DEFINE n == Len(st.requests) + 1
           asked == Asked(st, k, s)
           request == [key |-> k, fate |-> "waiting"]
           v == NextVersion(st, k)
           intent == [status |-> "pending", scope |-> s, request |-> n, version |-> v]
<1>1. st \in MidTurn
  BY DEF Refs
<1>2. /\ st.requests \in Seq([key : Keys, fate : Fates]) /\ Len(st.requests) \in Nat
      /\ DOMAIN st.requests = 1 .. Len(st.requests)
      /\ st.intents \in [Keys -> Intent \cup {NoIntent}]
  BY <1>1, MidTurnTypes
<1>3. n \in Nat /\ 1 <= n /\ n <= MaxRequests /\ MaxRequests \in Nat
  BY <1>2, IntentAssumption
<1>4. v \in RequestIds /\ v <= n /\ (st.intents[k] # NoIntent => st.intents[k].version < v)
  <2>1. CASE st.intents[k] = NoIntent
    BY <1>3, <2>1 DEF NextVersion, RequestIds
  <2>2. CASE st.intents[k] # NoIntent
    <3>1. /\ st.intents[k].version \in 1 .. MaxRequests
          /\ st.intents[k].request \in 1 .. Len(st.requests)
          /\ st.intents[k].version <= st.intents[k].request
      BY <1>2, <2>2, IntentValues DEF Refs
    <3>2. v = st.intents[k].version + 1
      BY <2>2 DEF NextVersion
    <3> QED
      BY <1>2, <1>3, <3>1, <3>2 DEF RequestIds
  <2> QED
    BY <2>1, <2>2
<1> HIDE DEF v
<1>5. intent \in Intent /\ intent # NoIntent
  <2>1. intent \in Intent
    BY <1>3, <1>4 DEF Intent, RequestIds
  <2> QED
    BY <2>1, IntentValues
<1>6. request \in [key : Keys, fate : Fates]
  BY DEF Fates
<1>7. /\ asked.items = st.items /\ asked.running = st.running
      /\ asked.requests = Append(st.requests, request)
      /\ asked.intents = [st.intents EXCEPT ![k] = intent]
      /\ asked = [intents |-> asked.intents, items |-> asked.items,
                  running |-> asked.running, requests |-> asked.requests]
  <2>1. asked = [st EXCEPT !.requests = Append(@, request), !.intents[k] = intent]
    BY DEF Asked, v
  <2> HIDE DEF asked, request, intent, n
  <2>2. st \in [intents : [Keys -> Intent \cup {NoIntent}], items : [Scopes -> Seq(Keys)],
                running : [Scopes -> Run \cup {NoRun}],
                requests : Seq([key : Keys, fate : Fates])]
    BY <1>1 DEF MidTurn
  <2> QED
    BY <2>1, <2>2
<1> HIDE DEF asked
<1>8. /\ asked.intents \in [Keys -> Intent \cup {NoIntent}]
      /\ asked.intents[k] = intent
      /\ \A h \in Keys : h # k => asked.intents[h] = st.intents[h]
  <2> HIDE DEF intent
  <2> QED
    BY <1>2, <1>5, <1>7
<1>9. /\ asked.requests \in Seq([key : Keys, fate : Fates])
      /\ Len(asked.requests) = n /\ asked.requests[n] = request
      /\ \A m \in 1 .. Len(st.requests) : asked.requests[m] = st.requests[m]
      /\ DOMAIN asked.requests = 1 .. n
  <2>1. /\ asked.requests \in Seq([key : Keys, fate : Fates])
        /\ Len(asked.requests) = n /\ asked.requests[n] = request
        /\ \A m \in 1 .. Len(st.requests) : asked.requests[m] = st.requests[m]
    <3> HIDE DEF request
    <3> QED
      BY <1>2, <1>6, <1>7, AppendProperties
  <2> QED
    BY <2>1, LenProperties
<1>10. asked \in MidTurn
  BY <1>1, <1>7, <1>8, <1>9, MidTurnTypes DEF MidTurn
<1>11. /\ n \in DOMAIN asked.requests
       /\ \A m \in DOMAIN st.requests :
            m \in DOMAIN asked.requests /\ m < n /\ asked.requests[m] = st.requests[m]
       /\ \A m \in DOMAIN asked.requests : m = n \/ m \in DOMAIN st.requests
  BY <1>2, <1>3, <1>9
<1> QED
  BY <1>3, <1>4, <1>5, <1>7, <1>8, <1>9, <1>10, <1>11 DEF AskEffect, asked

LEMMA AskedRefs ==
  ASSUME NEW st, NEW carried, Refs(st, carried), NEW k \in Keys, NEW s \in Scopes,
         Len(st.requests) < MaxRequests
  PROVE  Refs(Asked(st, k, s), carried)
<1> DEFINE asked == Asked(st, k, s)
           n == Len(st.requests) + 1
<1>1. AskEffect(st, k, s, asked)
  BY AskedEffect
<1>2. st \in MidTurn /\ Len(st.requests) \in Nat
  BY MidTurnTypes DEF Refs
<1> HIDE DEF asked
<1>3. carried \in [Keys -> 0 .. Len(asked.requests)]
  BY <1>1, <1>2 DEF AskEffect, Refs
<1>4. ASSUME NEW h \in Keys, asked.intents[h] # NoIntent
      PROVE  /\ asked.intents[h].request \in DOMAIN asked.requests
             /\ asked.requests[asked.intents[h].request].key = h
             /\ asked.intents[h].version <= asked.intents[h].request
  <2>1. CASE h = k
    BY <1>1, <2>1 DEF AskEffect
  <2>2. CASE h # k
    <3>1. asked.intents[h] = st.intents[h]
      BY <1>1, <2>2 DEF AskEffect
    <3> QED
      BY <1>1, <1>4, <3>1 DEF AskEffect, Refs
  <2> QED
    BY <2>1, <2>2
<1>5. ASSUME NEW t \in Scopes, asked.running[t] # NoRun
      PROVE  /\ asked.running[t].request \in DOMAIN asked.requests
             /\ asked.requests[asked.running[t].request].key = asked.running[t].key
  BY <1>1, <1>5 DEF AskEffect, Refs
<1> QED
  BY <1>1, <1>3, <1>4, <1>5 DEF AskEffect, Refs, asked

LEMMA RequestKeeps ==
  ASSUME NEW st, NEW carried, NEW ended, NEW s \in Scopes, NEW k \in Keys,
         TurnInv(st, carried, ended), <<k, s>> \in Targets,
         Len(st.requests) < MaxRequests,
         st.running[s] = NoRun => s \notin ended,
         NEW before, Began(before, st) = {}
  PROVE  /\ TurnInv(RequestIntent(st, k, s), carried, ended)
         /\ BeganNewest(before, RequestIntent(st, k, s))
<1> DEFINE n == Len(st.requests) + 1
           asked == Asked(st, k, s)
           queued == Queued(asked, s, k)
           left == WokenScopes(queued, ended, s)
<1>1. Refs(st, carried) /\ Idle(st, ended) /\ st \in MidTurn /\ Len(st.requests) \in Nat
  BY MidTurnTypes DEF TurnInv, Refs
<1>2. AskEffect(st, k, s, asked)
  BY <1>1, AskedEffect
<1>3. QueueEffect(asked, s, k, queued)
  <2>1. asked \in MidTurn
    BY <1>2 DEF AskEffect
  <2> HIDE DEF asked
  <2> QED
    BY <2>1, QueuedEffect
<1>4. RequestIntent(st, k, s) = Woken(queued, s)
  <2>1. RequestIntent(st, k, s) = EnqueueIntentKey(asked, s, k)
    BY DEF RequestIntent, Asked
  <2>2. Queued(asked, s, k).running = asked.running
    BY <1>3 DEF QueueEffect
  <2> QED
    BY <2>1, <2>2, EnqueueIsWoken
<1> HIDE DEF asked
<1>5. asked.items = st.items /\ asked.running = st.running
  BY <1>2 DEF AskEffect
<1> HIDE DEF queued
<1>6. /\ queued \in MidTurn /\ queued.running = st.running
      /\ queued.intents = asked.intents /\ queued.requests = asked.requests
      /\ \A t \in Scopes : t # s => queued.items[t] = st.items[t]
      /\ \A i \in DOMAIN st.items[s] :
           i \in DOMAIN queued.items[s] /\ queued.items[s][i] = st.items[s][i]
      /\ \E i \in DOMAIN queued.items[s] : queued.items[s][i] = k
      /\ \A i \in DOMAIN queued.items[s] :
           \/ i \in DOMAIN st.items[s]
           \/ queued.items[s][i] = k
                /\ \A j \in DOMAIN queued.items[s] : queued.items[s][j] = k => j = i
  BY <1>3, <1>5 DEF QueueEffect
<1>7. /\ \A h \in Keys : h # k => queued.intents[h] = st.intents[h]
      /\ queued.intents[k] # NoIntent /\ queued.intents[k].status = "pending"
      /\ queued.intents[k].scope = s /\ queued.intents[k].request = n
      /\ queued.intents[k].version <= n
      /\ st.intents[k] # NoIntent => st.intents[k].version < queued.intents[k].version
  BY <1>2, <1>6 DEF AskEffect
<1>8. /\ n <= MaxRequests /\ Len(queued.requests) = n /\ n \in DOMAIN queued.requests
      /\ queued.requests[n].key = k /\ queued.requests[n].fate = "waiting"
      /\ \A m \in DOMAIN st.requests :
           m \in DOMAIN queued.requests /\ m < n /\ queued.requests[m] = st.requests[m]
      /\ \A m \in DOMAIN queued.requests : m = n \/ m \in DOMAIN st.requests
  BY <1>2, <1>6 DEF AskEffect
<1>9. \A t \in Scopes : RunOf(queued, left, t) = RunOf(st, ended, t)
  BY <1>6, WokenRuns
<1>10. Refs(queued, carried)
  <2>1. Refs(asked, carried)
    BY <1>1, AskedRefs DEF asked
  <2> QED
    BY <1>3, <2>1 DEF QueueEffect, Refs
<1>11. Idle(queued, left)
  BY <1>1, <1>6 DEF Idle, WokenScopes
<1> HIDE DEF left
<1>12. ASSUME NEW h \in Steady, h # k PROVE KeyInv(queued, carried, left, h)
  <2>1. /\ h \in Keys /\ QueueInv(st, h) /\ IntentInv(st, carried, ended, h)
        /\ RunInv(st, carried, ended, h) /\ RequestInv(st, ended, h)
        /\ queued.intents[h] = st.intents[h]
    BY <1>7, <1>12, SteadyKeys DEF TurnInv, KeyInv
  <2>2. QueueInv(queued, h)
    <3>1. SUFFICES ASSUME NEW t \in Scopes, NEW i \in DOMAIN queued.items[t],
                          queued.items[t][i] = h
                   PROVE  /\ <<h, t>> \in Targets
                          /\ queued.intents[h].status = "pending"
                          /\ \A j \in DOMAIN queued.items[t] : queued.items[t][j] = h => j = i
      BY DEF QueueInv
    <3>2. CASE t # s
      BY <1>6, <2>1, <3>1, <3>2 DEF QueueInv
    <3>3. CASE t = s
      <4>1. \A j \in DOMAIN queued.items[s] : queued.items[s][j] = h =>
              j \in DOMAIN st.items[s] /\ st.items[s][j] = h
        BY <1>6, <1>12
      <4> QED
        BY <2>1, <3>1, <3>3, <4>1 DEF QueueInv
    <3> QED
      BY <3>2, <3>3
  <2>3. IntentInv(queued, carried, left, h)
    <3> DEFINE intent == st.intents[h]
    <3>1. SUFFICES ASSUME intent # NoIntent PROVE IntentInv(queued, carried, left, h)
      BY <2>1 DEF IntentInv
    <3>2. intent.scope \in Scopes /\ intent.request \in DOMAIN st.requests
      BY <1>1, <2>1, <3>1, MidTurnTypes, IntentValues DEF Refs
    <3>3. RunOf(queued, left, intent.scope) = RunOf(st, ended, intent.scope)
      BY <1>9, <3>2
    <3>4. ASSUME intent.status = "pending"
          PROVE  \E i \in DOMAIN queued.items[intent.scope] : queued.items[intent.scope][i] = h
      <4>1. PICK i \in DOMAIN st.items[intent.scope] : st.items[intent.scope][i] = h
        BY <2>1, <3>1, <3>4 DEF IntentInv
      <4>2. CASE intent.scope # s
        BY <1>6, <3>2, <4>1, <4>2
      <4>3. CASE intent.scope = s
        BY <1>6, <4>1, <4>3
      <4> QED
        BY <4>2, <4>3
    <3>5. \A m \in DOMAIN queued.requests : queued.requests[m].key = h => m <= intent.request
      BY <1>8, <1>12, <2>1, <3>1 DEF IntentInv
    <3>6. queued.requests[intent.request] = st.requests[intent.request]
      BY <1>8, <3>2
    <3> QED
      BY <2>1, <3>1, <3>3, <3>4, <3>5, <3>6 DEF IntentInv
  <2>4. RunInv(queued, carried, left, h)
    <3>1. SUFFICES ASSUME NEW t \in Scopes, RunOf(st, ended, t) # NoRun
                   PROVE  queued.requests[RunOf(st, ended, t).request] =
                            st.requests[RunOf(st, ended, t).request]
      BY <1>9, <2>1 DEF RunInv
    <3>2. RunOf(st, ended, t) = st.running[t]
      BY <3>1 DEF RunOf
    <3> QED
      BY <1>1, <1>8, <3>1, <3>2 DEF Refs
  <2>5. RequestInv(queued, left, h)
    <3>1. ASSUME NEW m \in DOMAIN st.requests, st.requests[m].key = h,
                 st.requests[m].fate = "running"
          PROVE  \E t \in Scopes : /\ RunOf(queued, left, t) # NoRun
                                   /\ RunOf(queued, left, t).key = h
                                   /\ RunOf(queued, left, t).request = m
      <4>1. PICK t \in Scopes : /\ RunOf(st, ended, t) # NoRun
                                /\ RunOf(st, ended, t).key = h
                                /\ RunOf(st, ended, t).request = m
        BY <2>1, <3>1 DEF RequestInv
      <4>2. RunOf(queued, left, t) = RunOf(st, ended, t)
        BY <1>9
      <4> QED
        BY <4>1, <4>2
    <3>2. \A m \in DOMAIN queued.requests : queued.requests[m].key = h =>
            m \in DOMAIN st.requests /\ queued.requests[m] = st.requests[m]
      BY <1>8, <1>12
    <3> QED
      BY <1>8, <2>1, <3>1, <3>2 DEF RequestInv
  <2> QED
    BY <2>2, <2>3, <2>4, <2>5 DEF KeyInv
<1>13. ASSUME k \in Steady PROVE KeyInv(queued, carried, left, k)
  <2>1. /\ QueueInv(st, k) /\ IntentInv(st, carried, ended, k)
        /\ RunInv(st, carried, ended, k) /\ RequestInv(st, ended, k)
    BY <1>13 DEF TurnInv, KeyInv
  <2>2. QueueInv(queued, k)
    <3>1. SUFFICES ASSUME NEW t \in Scopes, NEW i \in DOMAIN queued.items[t],
                          queued.items[t][i] = k
                   PROVE  /\ <<k, t>> \in Targets
                          /\ \A j \in DOMAIN queued.items[t] : queued.items[t][j] = k => j = i
      BY <1>7 DEF QueueInv
    <3>2. CASE t # s
      BY <1>6, <2>1, <3>1, <3>2 DEF QueueInv
    <3>3. CASE t = s
      <4>1. ASSUME NEW j \in DOMAIN queued.items[s], queued.items[s][j] = k PROVE j = i
        <5>1. CASE i \in DOMAIN st.items[s] /\ j \in DOMAIN st.items[s]
          BY <1>6, <2>1, <3>1, <3>3, <4>1, <5>1 DEF QueueInv
        <5>2. CASE i \notin DOMAIN st.items[s]
          BY <1>6, <3>1, <3>3, <4>1, <5>2
        <5>3. CASE j \notin DOMAIN st.items[s]
          BY <1>6, <3>1, <3>3, <4>1, <5>3
        <5> QED
          BY <5>1, <5>2, <5>3
      <4> QED
        BY <3>3, <4>1
    <3> QED
      BY <3>2, <3>3
  <2>3. IntentInv(queued, carried, left, k)
    <3>1. carried[k] < n
      BY <1>1 DEF Refs
    <3>2. \A m \in DOMAIN queued.requests : m <= n
      <4>1. n \in Nat
        BY <1>1
      <4> QED
        BY <1>8, <4>1
    <3> QED
      BY <1>6, <1>7, <1>8, <3>1, <3>2 DEF IntentInv
  <2>4. RunInv(queued, carried, left, k)
    <3>1. SUFFICES ASSUME NEW t \in Scopes, RunOf(st, ended, t) # NoRun,
                          RunOf(st, ended, t).key = k
                   PROVE  LET run == RunOf(st, ended, t)
                          IN  /\ queued.requests[run.request].fate = "running"
                              /\ <<k, t>> \in Targets /\ carried[k] < run.request
                              /\ run.version < queued.intents[k].version
                              /\ run.request < n
      BY <1>7, <1>9 DEF RunInv
    <3> DEFINE run == RunOf(st, ended, t)
               intent == st.intents[k]
    <3>2. run = st.running[t]
      BY <3>1 DEF RunOf
    <3>3. /\ run.request \in DOMAIN st.requests
          /\ queued.requests[run.request] = st.requests[run.request]
          /\ run.request < n
      BY <1>1, <1>8, <3>1, <3>2 DEF Refs
    <3>4. /\ <<k, t>> \in Targets /\ st.requests[run.request].fate = "running"
          /\ carried[k] < run.request
          /\ intent.status \in {"pending", "running"}
          /\ run.version = intent.version \/ run.version < intent.version
      BY <2>1, <3>1 DEF RunInv
    <3>5. intent # NoIntent
      BY <3>4 DEF NoIntent
    <3>6. intent.version < queued.intents[k].version
      BY <1>7, <3>5
    <3>7. /\ intent.version \in Nat /\ run.version \in Nat
          /\ queued.intents[k].version \in Nat
      <4>1. intent \in Intent /\ queued.intents[k] \in Intent /\ run \in Run
        BY <1>1, <1>6, <1>7, <3>1, <3>2, <3>5, MidTurnTypes
      <4> QED
        BY <4>1, IntentValues, RunValues
    <3> QED
      BY <3>3, <3>4, <3>6, <3>7
  <2>5. RequestInv(queued, left, k)
    <3>1. ASSUME NEW m \in DOMAIN st.requests, st.requests[m].key = k,
                 st.requests[m].fate = "running"
          PROVE  \E t \in Scopes : /\ RunOf(queued, left, t) # NoRun
                                   /\ RunOf(queued, left, t).key = k
                                   /\ RunOf(queued, left, t).request = m
      <4>1. PICK t \in Scopes : /\ RunOf(st, ended, t) # NoRun
                                /\ RunOf(st, ended, t).key = k
                                /\ RunOf(st, ended, t).request = m
        BY <2>1, <3>1 DEF RequestInv
      <4>2. RunOf(queued, left, t) = RunOf(st, ended, t)
        BY <1>9
      <4> QED
        BY <4>1, <4>2
    <3>2. ASSUME NEW m \in DOMAIN queued.requests,
                 \A l \in DOMAIN queued.requests : queued.requests[l].key = k => l <= m
          PROVE  m = n
      <4>1. n <= m
        BY <1>8, <3>2
      <4>2. m = n \/ m < n
        BY <1>8
      <4>3. m \in Nat /\ n \in Nat
        BY <1>1, <1>6, <3>2, MidTurnTypes
      <4> QED
        BY <4>1, <4>2, <4>3
    <3> QED
      BY <1>7, <1>8, <3>1, <3>2 DEF RequestInv
  <2> QED
    BY <2>2, <2>3, <2>4, <2>5 DEF KeyInv
<1>14. TurnInv(queued, carried, left)
  BY <1>10, <1>11, <1>12, <1>13 DEF TurnInv
<1>15. queued.running[s] = NoRun => s \notin ended
  BY <1>6
<1>16. /\ TurnInv(Woken(queued, s), carried, ended)
       /\ Keeps(before, queued, Woken(queued, s))
  BY <1>14, <1>15, WokenKeeps DEF left
<1>17. Began(before, queued) = {}
  <2>1. SUFFICES ASSUME NEW m \in Began(before, queued) PROVE FALSE
    OBVIOUS
  <2>2. m # n /\ m \in DOMAIN st.requests
    BY <1>8, <2>1 DEF Began
  <2>3. m \in Began(before, st)
    BY <1>8, <2>1, <2>2 DEF Began
  <2> QED
    BY <2>3
<1> QED
  BY <1>4, <1>16, <1>17 DEF Keeps, BeganNewest
-----------------------------------------------------------------------------
(* The end of a run: its request is settled and the intent of its key is   *)
(* now x.                                                                  *)

SettlesTo(st, s, fate, x, end) ==
  LET run == st.running[s]
  IN  /\ end.items = st.items /\ end.running = st.running
      /\ end.intents = [st.intents EXCEPT ![run.key] = x]
      /\ end.requests = [st.requests EXCEPT
                           ![run.request] = [st.requests[run.request] EXCEPT !.fate = fate]]
      /\ end = [intents |-> end.intents, items |-> end.items,
                running |-> end.running, requests |-> end.requests]

(* An intent of another version stays, the run's own is gone, failed or    *)
(* carried out.                                                            *)
Outcome(st, s, x, later) ==
  LET run == st.running[s]
      intent == st.intents[run.key]
  IN  \/ x = intent /\ (intent = NoIntent \/ intent.version # run.version)
      \/ /\ intent # NoIntent /\ intent.version = run.version
         /\ \/ x = NoIntent
            \/ /\ x # NoIntent /\ x.scope = intent.scope
               /\ x.version = intent.version /\ x.request = intent.request
               /\ \/ x.status = "failed"
                  \/ x.status = "pendingConfirmation" /\ later[run.key] = run.request

Carries(st, s, carried, later) ==
  LET run == st.running[s]
  IN  later = carried \/ later = [carried EXCEPT ![run.key] = run.request]

SettleEffect(st, s, fate, x, end) ==
  LET run == st.running[s]
      k == run.key
      n == run.request
  IN  /\ k \in Keys /\ n \in DOMAIN st.requests /\ st.requests[n].key = k
      /\ end \in MidTurn /\ end.items = st.items /\ end.running = st.running
      /\ end.intents[k] = x
      /\ \A h \in Keys : h # k => end.intents[h] = st.intents[h]
      /\ DOMAIN end.requests = DOMAIN st.requests
      /\ Len(end.requests) = Len(st.requests)
      /\ \A m \in DOMAIN st.requests : end.requests[m].key = st.requests[m].key
      /\ end.requests[n].fate = fate
      /\ \A m \in DOMAIN st.requests : m # n => end.requests[m].fate = st.requests[m].fate

LEMMA SettledEffect ==
  ASSUME NEW st, NEW carried, Refs(st, carried), NEW s \in Scopes,
         st.running[s] # NoRun, NEW fate \in Fates, NEW x \in Intent \cup {NoIntent},
         NEW end, SettlesTo(st, s, fate, x, end)
  PROVE  SettleEffect(st, s, fate, x, end)
<1> DEFINE run == st.running[s]
           k == run.key
           n == run.request
           now == [st.requests[n] EXCEPT !.fate = fate]
<1>1. st \in MidTurn
  BY DEF Refs
<1>2. run \in Run /\ k \in Keys
  BY <1>1, MidTurnTypes, RunValues
<1>3. n \in DOMAIN st.requests /\ st.requests[n].key = k
  BY DEF Refs
<1>4. /\ end.items = st.items /\ end.running = st.running
      /\ end.intents = [st.intents EXCEPT ![k] = x]
      /\ end.requests = [st.requests EXCEPT ![n] = now]
      /\ end = [intents |-> end.intents, items |-> end.items,
                running |-> end.running, requests |-> end.requests]
  BY DEF SettlesTo
<1>5. /\ st.requests \in Seq([key : Keys, fate : Fates])
      /\ Len(st.requests) \in Nat /\ DOMAIN st.requests = 1 .. Len(st.requests)
      /\ st.requests[n] \in [key : Keys, fate : Fates]
  BY <1>1, <1>3, MidTurnTypes
<1>6. /\ now \in [key : Keys, fate : Fates] /\ now.fate = fate /\ now.key = k
  BY <1>3, <1>5
<1> HIDE DEF now, n, k, run
<1>7. /\ end.requests \in Seq([key : Keys, fate : Fates])
      /\ Len(end.requests) = Len(st.requests)
  BY <1>3, <1>4, <1>5, <1>6, ExceptSeq
<1>8. /\ DOMAIN end.requests = DOMAIN st.requests
      /\ end.requests[n] = now
      /\ \A m \in DOMAIN st.requests : m # n => end.requests[m] = st.requests[m]
  BY <1>3, <1>4, <1>5, <1>7, LenProperties
<1>9. /\ end.intents \in [Keys -> Intent \cup {NoIntent}] /\ end.intents[k] = x
      /\ \A h \in Keys : h # k => end.intents[h] = st.intents[h]
  BY <1>1, <1>2, <1>4, MidTurnTypes
<1>10. end \in MidTurn
  BY <1>1, <1>4, <1>7, <1>9, MidTurnTypes DEF MidTurn
<1>11. \A m \in DOMAIN st.requests : end.requests[m].key = st.requests[m].key
  BY <1>3, <1>6, <1>8
<1> QED
  BY <1>2, <1>3, <1>4, <1>6, <1>7, <1>8, <1>9, <1>10, <1>11 DEF SettleEffect, n, k, run

(* A newer version than the run's waits in the queue.                      *)
StaleIsPending(st, s, x) ==
  st.running[s].key \in Steady /\ x # NoIntent /\ x.version # st.running[s].version
    => x.status = "pending"

LEMMA RunEndsKeeps ==
  ASSUME NEW st, NEW carried, TurnInv(st, carried, {}), NEW s \in Scopes,
         st.running[s] # NoRun, NEW fate \in {"saved", "failed"},
         NEW x \in Intent \cup {NoIntent}, NEW end, SettlesTo(st, s, fate, x, end),
         NEW later, Carries(st, s, carried, later), Outcome(st, s, x, later)
  PROVE  /\ TurnInv(end, later, {s})
         /\ Began(st, end) = {}
         /\ StaleIsPending(st, s, x)
<1> DEFINE run == st.running[s]
           k == run.key
           n == run.request
           intent == st.intents[k]
<1>1. Refs(st, carried) /\ Idle(st, {}) /\ st \in MidTurn
  BY DEF TurnInv, Refs
<1>2. fate \in Fates /\ fate # "running" /\ fate # "waiting"
  BY DEF Fates
<1>3. SettleEffect(st, s, fate, x, end)
  BY <1>1, <1>2, SettledEffect
<1>4. /\ k \in Keys /\ n \in DOMAIN st.requests /\ st.requests[n].key = k
      /\ end \in MidTurn /\ end.items = st.items /\ end.running = st.running
      /\ end.intents[k] = x
      /\ \A h \in Keys : h # k => end.intents[h] = st.intents[h]
  BY <1>3 DEF SettleEffect
<1>5. /\ DOMAIN end.requests = DOMAIN st.requests
      /\ Len(end.requests) = Len(st.requests)
      /\ \A m \in DOMAIN st.requests : end.requests[m].key = st.requests[m].key
      /\ end.requests[n].fate = fate
      /\ \A m \in DOMAIN st.requests : m # n => end.requests[m].fate = st.requests[m].fate
  BY <1>3 DEF SettleEffect
<1>6. run \in Run /\ run # NoRun
  BY <1>1, MidTurnTypes
<1>7. /\ later \in [Keys -> 0 .. Len(st.requests)]
      /\ later[k] = carried[k] \/ later[k] = n
      /\ \A h \in Keys : h # k => later[h] = carried[h]
  <2>1. carried \in [Keys -> 0 .. Len(st.requests)] /\ n \in 0 .. Len(st.requests)
    BY <1>1, <1>4, MidTurnTypes DEF Refs
  <2>2. later = carried \/ later = [carried EXCEPT ![k] = n]
    BY DEF Carries
  <2> HIDE DEF k, n, run
  <2> QED
    BY <1>4, <2>1, <2>2
<1>8. /\ RunOf(st, {}, s) = run /\ RunOf(end, {s}, s) = NoRun
      /\ \A t \in Scopes : t # s => RunOf(end, {s}, t) = RunOf(st, {}, t)
  BY <1>4 DEF RunOf
<1>9. \/ x = intent /\ (intent = NoIntent \/ intent.version # run.version)
      \/ /\ intent # NoIntent /\ intent.version = run.version
         /\ \/ x = NoIntent
            \/ /\ x # NoIntent /\ x.scope = intent.scope
               /\ x.version = intent.version /\ x.request = intent.request
               /\ \/ x.status = "failed"
                  \/ x.status = "pendingConfirmation" /\ later[k] = n
  BY DEF Outcome
<1> HIDE DEF run, k, n, intent
<1>10. Refs(end, later)
  <2>1. \A h \in Keys : st.intents[h] # NoIntent =>
          /\ st.intents[h].request \in DOMAIN st.requests
          /\ st.requests[st.intents[h].request].key = h
          /\ st.intents[h].version <= st.intents[h].request
    BY <1>1 DEF Refs
  <2>2. ASSUME NEW h \in Keys, end.intents[h] # NoIntent
        PROVE  /\ end.intents[h].request \in DOMAIN end.requests
               /\ end.requests[end.intents[h].request].key = h
               /\ end.intents[h].version <= end.intents[h].request
    <3>1. CASE h = k
      <4>1. /\ x # NoIntent /\ intent # NoIntent /\ x.request = intent.request
            /\ x.version = intent.version
        BY <1>4, <1>9, <2>2, <3>1
      <4> QED
        BY <1>4, <1>5, <2>1, <3>1, <4>1 DEF intent
    <3>2. CASE h # k
      <4>1. end.intents[h] = st.intents[h]
        BY <1>4, <3>2
      <4> QED
        BY <1>5, <2>1, <2>2, <4>1
    <3> QED
      BY <3>1, <3>2
  <2>3. \A t \in Scopes : end.running[t] # NoRun =>
          /\ end.running[t].request \in DOMAIN end.requests
          /\ end.requests[end.running[t].request].key = end.running[t].key
    BY <1>1, <1>4, <1>5 DEF Refs
  <2>4. Len(end.requests) <= MaxRequests
    BY <1>1, <1>5 DEF Refs
  <2> QED
    BY <1>4, <1>5, <1>7, <2>2, <2>3, <2>4 DEF Refs
<1>11. Idle(end, {s})
  BY <1>1, <1>4 DEF Idle
<1>12. ASSUME NEW h \in Steady, h # k PROVE KeyInv(end, later, {s}, h)
  <2>1. /\ h \in Keys /\ QueueInv(st, h) /\ IntentInv(st, carried, {}, h)
        /\ RunInv(st, carried, {}, h) /\ RequestInv(st, {}, h)
        /\ end.intents[h] = st.intents[h] /\ later[h] = carried[h]
    BY <1>4, <1>7, <1>12, SteadyKeys DEF TurnInv, KeyInv
  <2>2. \A m \in DOMAIN st.requests : st.requests[m].key = h =>
          end.requests[m].fate = st.requests[m].fate
    BY <1>4, <1>5, <1>12
  <2>3. QueueInv(end, h)
    BY <1>4, <2>1 DEF QueueInv
  <2>4. IntentInv(end, later, {s}, h)
    <3> DEFINE other == st.intents[h]
    <3>1. SUFFICES ASSUME other # NoIntent PROVE IntentInv(end, later, {s}, h)
      BY <2>1 DEF IntentInv
    <3>2. /\ other.scope \in Scopes /\ other.request \in DOMAIN st.requests
          /\ st.requests[other.request].key = h
      BY <1>1, <2>1, <3>1, MidTurnTypes, IntentValues DEF Refs
    <3>3. ASSUME other.status = "running"
          PROVE  RunOf(end, {s}, other.scope) =
                   [key |-> h, version |-> other.version, request |-> other.request]
      <4> DEFINE its == [key |-> h, version |-> other.version, request |-> other.request]
      <4>1. RunOf(st, {}, other.scope) = its
        BY <2>1, <3>1, <3>3 DEF IntentInv
      <4>2. other.scope # s
        BY <1>8, <1>12, <4>1 DEF k
      <4> HIDE DEF its
      <4> QED
        BY <1>8, <3>2, <4>1, <4>2 DEF its
    <3> QED
      BY <1>4, <1>5, <2>1, <2>2, <3>1, <3>2, <3>3 DEF IntentInv
  <2>5. RunInv(end, later, {s}, h)
    <3>1. SUFFICES ASSUME NEW t \in Scopes, RunOf(end, {s}, t) # NoRun,
                          RunOf(end, {s}, t).key = h
                   PROVE  LET r == RunOf(end, {s}, t)
                          IN  /\ r = RunOf(st, {}, t)
                              /\ end.requests[r.request].fate = st.requests[r.request].fate
      BY <2>1 DEF RunInv
    <3>2. RunOf(end, {s}, t) = RunOf(st, {}, t) /\ RunOf(st, {}, t) = st.running[t]
      BY <1>8, <3>1 DEF RunOf
    <3>3. /\ st.running[t].request \in DOMAIN st.requests
          /\ st.requests[st.running[t].request].key = h
      BY <1>1, <3>1, <3>2 DEF Refs
    <3> QED
      BY <2>2, <3>2, <3>3
  <2>6. RequestInv(end, {s}, h)
    <3>1. ASSUME NEW m \in DOMAIN st.requests, st.requests[m].key = h,
                 st.requests[m].fate = "running"
          PROVE  \E t \in Scopes : /\ RunOf(end, {s}, t) # NoRun
                                   /\ RunOf(end, {s}, t).key = h
                                   /\ RunOf(end, {s}, t).request = m
      <4>1. PICK t \in Scopes : /\ RunOf(st, {}, t) # NoRun
                                /\ RunOf(st, {}, t).key = h
                                /\ RunOf(st, {}, t).request = m
        BY <2>1, <3>1 DEF RequestInv
      <4>2. RunOf(end, {s}, t) = RunOf(st, {}, t)
        BY <1>8, <1>12, <4>1 DEF k
      <4> QED
        BY <4>1, <4>2
    <3> QED
      BY <1>5, <2>1, <2>2, <3>1 DEF RequestInv
  <2> QED
    BY <2>3, <2>4, <2>5, <2>6 DEF KeyInv
<1>13. ASSUME k \in Steady
       PROVE  /\ KeyInv(end, later, {s}, k)
              /\ x # NoIntent /\ x.version # run.version => x.status = "pending"
  <2>1. /\ QueueInv(st, k) /\ IntentInv(st, carried, {}, k)
        /\ RunInv(st, carried, {}, k) /\ RequestInv(st, {}, k)
    BY <1>13 DEF TurnInv, KeyInv
  <2>2. /\ <<k, s>> \in Targets /\ carried[k] < n
        /\ intent.status \in {"pending", "running"}
        /\ \/ run.version = intent.version /\ n = intent.request
                /\ intent.status = "running"
           \/ run.version < intent.version /\ n < intent.request
    BY <1>6, <1>8, <2>1 DEF RunInv, k, n, intent
  <2>3. /\ intent # NoIntent /\ intent \in Intent
    BY <1>1, <1>4, <2>2, MidTurnTypes DEF NoIntent, intent
  <2>4. /\ intent.scope \in Scopes /\ intent.request \in DOMAIN st.requests
        /\ st.requests[intent.request].key = k
    BY <1>1, <1>4, <2>3, IntentValues DEF Refs, intent
  <2>5. /\ <<k, intent.scope>> \in Targets
        /\ \A m \in DOMAIN st.requests : st.requests[m].key = k => m <= intent.request
        /\ intent.status = "pending" =>
             /\ \E i \in DOMAIN st.items[intent.scope] : st.items[intent.scope][i] = k
             /\ st.requests[intent.request].fate = "waiting"
        /\ intent.status = "running" =>
             RunOf(st, {}, intent.scope) =
               [key |-> k, version |-> intent.version, request |-> intent.request]
    BY <2>1, <2>3 DEF IntentInv, intent
  <2>6. \A t \in Scopes : <<k, t>> \in Targets => t = s
    BY <1>13, <2>2, SteadyKeys
  <2>7. intent.scope = s
    BY <2>4, <2>5, <2>6
  <2>8. intent.status = "running" => run.version = intent.version /\ n = intent.request
    BY <1>8, <2>5, <2>7 DEF n
  <2>9. /\ run.version \in Nat /\ intent.version \in Nat /\ n \in Nat
        /\ intent.request \in Nat
    BY <1>6, <2>3, RunValues, IntentValues DEF n
  <2>10. \A t \in Scopes : RunOf(end, {s}, t) # NoRun => RunOf(end, {s}, t).key # k
    <3>1. SUFFICES ASSUME NEW t \in Scopes, t # s, RunOf(st, {}, t) # NoRun,
                          RunOf(st, {}, t).key = k
                   PROVE  FALSE
      BY <1>8
    <3> QED
      BY <2>1, <2>6, <3>1 DEF RunInv
  <2>11. RunInv(end, later, {s}, k)
    BY <2>10 DEF RunInv
  <2>12. \A m \in DOMAIN st.requests : st.requests[m].key = k =>
           end.requests[m].fate # "running"
    <3>1. SUFFICES ASSUME NEW m \in DOMAIN st.requests, st.requests[m].key = k,
                          m # n, st.requests[m].fate = "running"
                   PROVE  FALSE
      BY <1>2, <1>5
    <3>2. PICK t \in Scopes : /\ RunOf(st, {}, t) # NoRun /\ RunOf(st, {}, t).key = k
                              /\ RunOf(st, {}, t).request = m
      BY <2>1, <3>1 DEF RequestInv
    <3>3. t = s
      BY <2>1, <2>6, <3>2 DEF RunInv
    <3> QED
      BY <1>8, <3>1, <3>2, <3>3 DEF n
  <2>13. CASE x = intent /\ intent.version # run.version
    <3>1. intent.status = "pending" /\ n < intent.request
      BY <2>2, <2>8, <2>9, <2>13
    <3>2. later[k] < intent.request
      <4>1. carried[k] \in Nat
        BY <1>1, <1>4 DEF Refs
      <4> QED
        BY <1>7, <2>2, <2>9, <3>1, <4>1
    <3>3. end.requests[intent.request].fate = "waiting"
      BY <1>5, <2>4, <2>5, <2>9, <3>1
    <3>4. QueueInv(end, k)
      BY <1>4, <2>1, <2>13 DEF QueueInv, intent
    <3>5. IntentInv(end, later, {s}, k)
      BY <1>4, <1>5, <2>5, <2>13, <3>1, <3>2, <3>3 DEF IntentInv
    <3>6. RequestInv(end, {s}, k)
      <4>1. \A m \in DOMAIN st.requests : st.requests[m].key = k =>
              (end.requests[m].fate = "waiting" => st.requests[m].fate = "waiting")
        BY <1>2, <1>5
      <4>2. ASSUME NEW m \in DOMAIN st.requests, st.requests[m].key = k,
                   st.requests[m].fate = "waiting",
                   \A l \in DOMAIN st.requests : st.requests[l].key = k => l <= m
            PROVE  intent.request = m
        BY <2>1, <4>2 DEF RequestInv, intent
      <4> QED
        BY <1>4, <1>5, <2>3, <2>12, <2>13, <3>1, <4>1, <4>2 DEF RequestInv
    <3> QED
      BY <2>11, <2>13, <3>1, <3>4, <3>5, <3>6 DEF KeyInv
  <2>14. CASE /\ intent.version = run.version
              /\ \/ x = NoIntent
                 \/ /\ x # NoIntent /\ x.scope = intent.scope
                    /\ x.version = intent.version /\ x.request = intent.request
                    /\ \/ x.status = "failed"
                       \/ x.status = "pendingConfirmation" /\ later[k] = n
    <3>1. intent.status = "running" /\ n = intent.request
      BY <2>2, <2>9, <2>14
    <3>2. QueueInv(end, k)
      <4>1. \A t \in Scopes : \A i \in DOMAIN st.items[t] : st.items[t][i] # k
        BY <2>1, <3>1 DEF QueueInv, intent
      <4> QED
        BY <1>4, <4>1 DEF QueueInv
    <3>3. IntentInv(end, later, {s}, k)
      BY <1>4, <1>5, <2>5, <2>14, <3>1 DEF IntentInv
    <3>4. RequestInv(end, {s}, k)
      <4>1. ASSUME NEW m \in DOMAIN st.requests, st.requests[m].key = k,
                   \A l \in DOMAIN st.requests : st.requests[l].key = k => l <= m
            PROVE  m = n
        <5>1. m <= n /\ n <= m
          BY <1>4, <2>5, <3>1, <4>1
        <5>2. m \in Nat
          BY <1>1, <4>1, MidTurnTypes
        <5> QED
          BY <2>9, <5>1, <5>2
      <4> QED
        BY <1>2, <1>4, <1>5, <2>12, <4>1 DEF RequestInv
    <3> QED
      BY <2>11, <2>14, <3>2, <3>3, <3>4 DEF KeyInv
  <2> QED
    BY <1>9, <2>3, <2>13, <2>14
<1>14. Began(st, end) = {}
  <2>1. SUFFICES ASSUME NEW m \in Began(st, end) PROVE FALSE
    OBVIOUS
  <2> QED
    BY <1>2, <1>5, <2>1 DEF Began
<1> QED
  BY <1>10, <1>11, <1>12, <1>13, <1>14 DEF TurnInv, StaleIsPending, run, k
-----------------------------------------------------------------------------
(* What a turn of the coordinator does to the intents of steady keys: the  *)
(* loop may have taken a pending one up, and nothing else.                 *)

TakenUp(x, y) ==
  /\ x # NoIntent /\ y # NoIntent
  /\ x.status = "pending" /\ y.status = "running"
  /\ y.version = x.version /\ y.request = x.request

Advances(its, its2, ks) == \A k \in ks : its2[k] = its[k] \/ TakenUp(its[k], its2[k])

(* What waits in the queue of s is pending.                                *)
PendingQueue(st, s) ==
  \A i \in DOMAIN st.items[s] :
    st.items[s][i] \in Steady => st.intents[st.items[s][i]].status = "pending"

LEMMA QueuesArePending ==
  ASSUME NEW st, NEW carried, NEW ended, TurnInv(st, carried, ended), NEW s \in Scopes
  PROVE  PendingQueue(st, s)
BY DEF TurnInv, KeyInv, QueueInv, PendingQueue

LEMMA TakeNextAdvances ==
  ASSUME NEW st, NEW carried, Refs(st, carried), NEW s \in Scopes, PendingQueue(st, s)
  PROVE  /\ Advances(st.intents, TakeNext(st, s).intents, Steady)
         /\ Len(TakeNext(st, s).requests) = Len(st.requests)
<1> DEFINE end == TakeNext(st, s)
<1>1. st \in MidTurn
  BY DEF Refs
<1>2. CASE LoopEnds(st, s, end)
  <2>1. ASSUME NEW e, LoopEnds(st, s, e) PROVE EndsEffect(st, s, e)
    BY <1>1, <2>1, LoopEndsEffect
  <2>2. EndsEffect(st, s, end)
    BY <1>2, <2>1
  <2> QED
    BY <2>2 DEF EndsEffect, Advances
<1>3. CASE \E i \in DOMAIN st.items[s] : LoopRuns(st, s, end, i, st.items[s][i])
  <2>1. PICK i \in DOMAIN st.items[s] : LoopRuns(st, s, end, i, st.items[s][i])
    BY <1>3
  <2> DEFINE k == st.items[s][i]
  <2> HIDE DEF end, k
  <2>2. LoopRuns(st, s, end, i, k)
    BY <2>1 DEF k
  <2>3. RunsEffect(st, s, end, i, k)
    BY <2>2, LoopRunsEffect
  <2>4. k \in Steady => st.intents[k].status = "pending"
    BY DEF PendingQueue, k
  <2>5. st.intents[k] # NoIntent
    BY <2>2 DEF LoopRuns, Runnable
  <2>6. k \in Steady => TakenUp(st.intents[k], end.intents[k])
    BY <2>3, <2>4, <2>5 DEF RunsEffect, TakenUp
  <2>7. \A j \in Steady : j # k => end.intents[j] = st.intents[j]
    BY <2>3, SteadyKeys DEF RunsEffect
  <2> QED
    BY <2>3, <2>6, <2>7 DEF RunsEffect, Advances, end
<1> QED
  BY <1>1, <1>2, <1>3, TakeNextShape

LEMMA QueuedRefs ==
  ASSUME NEW st, NEW carried, Refs(st, carried), NEW s \in Scopes, NEW k \in Keys,
         PendingQueue(st, s), k \in Steady => st.intents[k].status = "pending"
  PROVE  Refs(Queued(st, s, k), carried) /\ PendingQueue(Queued(st, s, k), s)
<1> DEFINE queued == Queued(st, s, k)
<1>1. st \in MidTurn
  BY DEF Refs
<1>2. QueueEffect(st, s, k, queued)
  BY <1>1, QueuedEffect
<1> HIDE DEF queued
<1>3. Refs(queued, carried)
  BY <1>2 DEF QueueEffect, Refs
<1>4. PendingQueue(queued, s)
  BY <1>2 DEF QueueEffect, PendingQueue
<1> QED
  BY <1>3, <1>4 DEF queued

LEMMA EnqueueAdvances ==
  ASSUME NEW st, NEW carried, Refs(st, carried), NEW s \in Scopes, NEW k \in Keys,
         PendingQueue(st, s), k \in Steady => st.intents[k].status = "pending"
  PROVE  LET end == EnqueueIntentKey(st, s, k)
         IN  /\ Advances(st.intents, end.intents, Steady)
             /\ Len(end.requests) = Len(st.requests)
             /\ st.running[s] # NoRun => end.running = st.running
<1> DEFINE queued == Queued(st, s, k)
           end == EnqueueIntentKey(st, s, k)
<1>1. st \in MidTurn
  BY DEF Refs
<1>2. /\ queued.intents = st.intents /\ queued.running = st.running
      /\ queued.requests = st.requests
  BY <1>1, QueuedEffect DEF QueueEffect
<1>3. Refs(queued, carried) /\ PendingQueue(queued, s)
  BY QueuedRefs
<1>4. end = Woken(queued, s)
  BY <1>2, EnqueueIsWoken
<1> HIDE DEF queued, end
<1>5. /\ Advances(queued.intents, TakeNext(queued, s).intents, Steady)
      /\ Len(TakeNext(queued, s).requests) = Len(queued.requests)
  BY <1>3, TakeNextAdvances
<1>6. CASE st.running[s] = NoRun
  <2>1. end = TakeNext(queued, s)
    BY <1>2, <1>4, <1>6 DEF Woken
  <2> QED
    BY <1>2, <1>5, <1>6, <2>1 DEF end
<1>7. CASE st.running[s] # NoRun
  <2>1. end = queued
    BY <1>2, <1>4, <1>7 DEF Woken
  <2>2. Advances(st.intents, end.intents, Steady)
    BY <1>2, <2>1 DEF Advances
  <2> QED
    BY <1>2, <2>1, <2>2 DEF end
<1> QED
  BY <1>6, <1>7

(* A request becomes the newest of its key.                                *)
AskedFor(its, its2, k, n) ==
  /\ its2[k] # NoIntent /\ its2[k].request = n
  /\ its2[k].status \in {"pending", "running"}
  /\ Advances(its, its2, Steady \ {k})

LEMMA RequestAsks ==
  ASSUME NEW st, NEW carried, Refs(st, carried), NEW s \in Scopes, NEW k \in Steady,
         PendingQueue(st, s), Len(st.requests) < MaxRequests
  PROVE  LET end == RequestIntent(st, k, s)
         IN  /\ AskedFor(st.intents, end.intents, k, Len(st.requests) + 1)
             /\ Len(end.requests) = Len(st.requests) + 1
             /\ st.running[s] # NoRun => end.running = st.running
<1> DEFINE asked == Asked(st, k, s)
           end == RequestIntent(st, k, s)
           n == Len(st.requests) + 1
<1>1. st \in MidTurn /\ k \in Keys
  BY SteadyKeys DEF Refs
<1>2. end = EnqueueIntentKey(asked, s, k)
  BY DEF RequestIntent, Asked
<1>3. AskEffect(st, k, s, asked)
  BY <1>1, AskedEffect
<1> HIDE DEF asked, end
<1>4. Refs(asked, carried)
  BY <1>1, AskedRefs DEF asked
<1>5. asked.items = st.items /\ asked.running = st.running
      /\ Len(asked.requests) = n /\ Len(st.requests) \in Nat
      /\ asked.intents[k] # NoIntent /\ asked.intents[k].status = "pending"
      /\ asked.intents[k].request = n
      /\ \A h \in Keys : h # k => asked.intents[h] = st.intents[h]
  BY <1>1, <1>3, MidTurnTypes DEF AskEffect
<1>6. PendingQueue(asked, s)
  BY <1>5, SteadyKeys DEF PendingQueue
<1>7. /\ Advances(asked.intents, end.intents, Steady)
      /\ Len(end.requests) = Len(asked.requests)
      /\ asked.running[s] # NoRun => end.running = asked.running
  BY <1>1, <1>2, <1>4, <1>5, <1>6, EnqueueAdvances
<1>8. Advances(st.intents, end.intents, Steady \ {k})
  BY <1>5, <1>7, SteadyKeys DEF Advances
<1>9. /\ end.intents[k] # NoIntent /\ end.intents[k].request = n
      /\ end.intents[k].status \in {"pending", "running"}
  <2>1. end.intents[k] = asked.intents[k] \/ TakenUp(asked.intents[k], end.intents[k])
    BY <1>7 DEF Advances
  <2> QED
    BY <1>5, <2>1 DEF TakenUp
<1> QED
  BY <1>5, <1>7, <1>8, <1>9 DEF AskedFor, end

LEMMA AdvancesTwice ==
  ASSUME NEW a, NEW b, NEW c, NEW ks, Advances(a, b, ks), Advances(b, c, ks)
  PROVE  Advances(a, c, ks)
BY DEF Advances, TakenUp

-----------------------------------------------------------------------------
(* The actions.                                                            *)

LEMMA NothingBegan ==
  ASSUME NEW st
  PROVE  Began(st, st) = {}
BY DEF Began

LEMMA EndsTurn ==
  ASSUME NEW end, TurnInv(end, stored', {}), BeganNewest(Turn, end), EndTurn(end)
  PROVE  IInv' /\ BeganNewest(Turn, Turn')
<1>1. end \in MidTurn
  BY DEF TurnInv, Refs
<1>2. end = [intents |-> end.intents, items |-> end.items,
             running |-> end.running, requests |-> end.requests]
  BY <1>1 DEF MidTurn
<1>3. /\ intents' = end.intents /\ items' = end.items
      /\ running' = end.running /\ requests' = end.requests
  BY DEF EndTurn
<1>4. Turn' = end
  BY <1>2, <1>3 DEF Turn
<1> QED
  BY <1>4 DEF IInv

LEMMA LoopGoesOn ==
  ASSUME NEW st, NEW s \in Scopes, TurnInv(st, stored', {s}), BeganNewest(Turn, st),
         EndTurn(TakeNext(st, s))
  PROVE  IInv' /\ BeganNewest(Turn, Turn')
<1>1. /\ TurnInv(TakeNext(st, s), stored', {s} \ {s})
      /\ Keeps(Turn, st, TakeNext(st, s))
  BY TakeNextKeeps
<1>2. {s} \ {s} = {}
  OBVIOUS
<1>3. TurnInv(TakeNext(st, s), stored', {}) /\ BeganNewest(Turn, TakeNext(st, s))
  BY <1>1, <1>2 DEF Keeps
<1> QED
  BY <1>3, EndsTurn

LEMMA TurnParts ==
  /\ Turn.intents = intents /\ Turn.items = items
  /\ Turn.running = running /\ Turn.requests = requests
BY DEF Turn

LEMMA RequestWriteKeeps ==
  ASSUME IInv, NEW t \in Targets, RequestWrite(t[1], t[2])
  PROVE  IInv' /\ BeganNewest(Turn, Turn')
<1>1. /\ t[1] \in Keys /\ t[2] \in Scopes /\ <<t[1], t[2]>> \in Targets
  BY IntentAssumption
<1>2. /\ Len(Turn.requests) < MaxRequests /\ stored' = stored
      /\ EndTurn(RequestIntent(Turn, t[1], t[2]))
  BY TurnParts DEF RequestWrite
<1>3. TurnInv(Turn, stored, {}) /\ Began(Turn, Turn) = {}
  BY NothingBegan DEF IInv
<1>4. /\ TurnInv(RequestIntent(Turn, t[1], t[2]), stored, {})
      /\ BeganNewest(Turn, RequestIntent(Turn, t[1], t[2]))
  <2> HIDE DEF Turn
  <2> QED
    BY <1>1, <1>2, <1>3, RequestKeeps
<1> QED
  BY <1>2, <1>4, EndsTurn

LEMMA RunFacts ==
  ASSUME IInv, NEW s \in Scopes, running[s] # NoRun
  PROVE  /\ Turn \in MidTurn /\ running[s] \in Run /\ running[s].key \in Keys
         /\ running[s].request \in DOMAIN requests
         /\ intents \in [Keys -> Intent \cup {NoIntent}]
         /\ stored \in [Keys -> 0 .. Len(requests)]
<1>1. Refs(Turn, stored) /\ Turn \in MidTurn
  BY DEF IInv, TurnInv, Refs
<1>2. running \in [Scopes -> Run \cup {NoRun}] /\ intents \in [Keys -> Intent \cup {NoIntent}]
  BY <1>1, MidTurnTypes, TurnParts
<1>3. running[s] \in Run /\ running[s].key \in Keys
  BY <1>2, RunValues
<1> QED
  BY <1>1, <1>2, <1>3, TurnParts DEF Refs

(* The run is settled and the intent of its key replaced by x.             *)
LEMMA SettledWith ==
  ASSUME IInv, NEW s \in Scopes, running[s] # NoRun, NEW fate, NEW x
  PROVE  LET end == [Settled(s, fate) EXCEPT !.intents[running[s].key] = x]
         IN  SettlesTo(Turn, s, fate, x, end) /\ end.intents[running[s].key] = x
<1> DEFINE k == running[s].key
           n == running[s].request
           end == [Settled(s, fate) EXCEPT !.intents[k] = x]
<1>1. k \in Keys /\ intents \in [Keys -> Intent \cup {NoIntent}]
  BY RunFacts
<1>2. end = [intents |-> [intents EXCEPT ![k] = x], items |-> items, running |-> running,
             requests |-> [requests EXCEPT ![n] = [requests[n] EXCEPT !.fate = fate]]]
  <2>1. Settled(s, fate) =
          [intents |-> intents, items |-> items, running |-> running,
           requests |-> [requests EXCEPT ![n] = [requests[n] EXCEPT !.fate = fate]]]
    BY DEF Settled, Turn
  <2> HIDE DEF k, n
  <2> QED
    BY <2>1
<1> HIDE DEF end
<1>3. /\ end.items = items /\ end.running = running
      /\ end.intents = [intents EXCEPT ![k] = x]
      /\ end.requests = [requests EXCEPT ![n] = [requests[n] EXCEPT !.fate = fate]]
      /\ end = [intents |-> end.intents, items |-> end.items,
                running |-> end.running, requests |-> end.requests]
  BY <1>2
<1>4. end.intents[k] = x
  BY <1>1, <1>3
<1> QED
  BY <1>3, <1>4, TurnParts DEF SettlesTo, end

LEMMA SettledAlone ==
  ASSUME IInv, NEW s \in Scopes, running[s] # NoRun, NEW fate
  PROVE  /\ SettlesTo(Turn, s, fate, intents[running[s].key], Settled(s, fate))
         /\ Settled(s, fate).intents = intents /\ Settled(s, fate).running = running
<1> DEFINE k == running[s].key
           n == running[s].request
           end == Settled(s, fate)
<1>1. k \in Keys /\ intents \in [Keys -> Intent \cup {NoIntent}]
  BY RunFacts
<1>2. end = [intents |-> intents, items |-> items, running |-> running,
             requests |-> [requests EXCEPT ![n] = [requests[n] EXCEPT !.fate = fate]]]
  BY DEF Settled, Turn
<1>3. intents = [intents EXCEPT ![k] = intents[k]]
  BY <1>1
<1> HIDE DEF end
<1>4. /\ end.items = items /\ end.running = running /\ end.intents = intents
      /\ end.requests = [requests EXCEPT ![n] = [requests[n] EXCEPT !.fate = fate]]
      /\ end = [intents |-> end.intents, items |-> end.items,
                running |-> end.running, requests |-> end.requests]
  BY <1>2
<1> QED
  BY <1>3, <1>4, TurnParts DEF SettlesTo, end

(* The same of whole steps.                                                *)
LEMMA RequestWriteAsks ==
  ASSUME IInv, NEW k \in Steady, NEW s \in Scopes, RequestWrite(k, s)
  PROVE  /\ AskedFor(intents, intents', k, Len(requests) + 1)
         /\ Len(requests') = Len(requests) + 1
         /\ running[s] # NoRun => running' = running
<1> DEFINE end == RequestIntent(Turn, k, s)
<1>1. /\ Len(Turn.requests) < MaxRequests /\ EndTurn(end)
  BY TurnParts DEF RequestWrite
<1>2. TurnInv(Turn, stored, {}) /\ Refs(Turn, stored)
  BY DEF IInv, TurnInv
<1>3. PendingQueue(Turn, s)
  BY <1>2, QueuesArePending
<1>4. /\ AskedFor(Turn.intents, end.intents, k, Len(Turn.requests) + 1)
      /\ Len(end.requests) = Len(Turn.requests) + 1
      /\ Turn.running[s] # NoRun => end.running = Turn.running
  <2> HIDE DEF Turn
  <2> QED
    BY <1>1, <1>2, <1>3, RequestAsks
<1> HIDE DEF end
<1>5. intents' = end.intents /\ requests' = end.requests /\ running' = end.running
  BY <1>1 DEF EndTurn
<1> QED
  BY <1>4, <1>5, TurnParts

LEMMA GoingOnAdvances ==
  ASSUME NEW st, NEW carried, NEW ended, NEW s \in Scopes, TurnInv(st, carried, ended),
         EndTurn(TakeNext(st, s))
  PROVE  Advances(st.intents, intents', Steady) /\ Len(requests') = Len(st.requests)
<1> DEFINE end == TakeNext(st, s)
<1>1. /\ Advances(st.intents, end.intents, Steady)
      /\ Len(end.requests) = Len(st.requests)
  <2>1. Refs(st, carried) /\ PendingQueue(st, s)
    BY QueuesArePending DEF TurnInv
  <2> QED
    BY <2>1, TakeNextAdvances
<1> HIDE DEF end
<1>2. intents' = end.intents /\ requests' = end.requests
  BY DEF EndTurn, end
<1> QED
  BY <1>1, <1>2

(* The loop's test after a run.                                            *)
RunIsNewest(s) ==
  intents[running[s].key] # NoIntent
    /\ intents[running[s].key].version = running[s].version

(* A run that no intent of its version waits for: its key is put back for  *)
(* the newer version, unless the intent is gone.                           *)
StaleEnd(s, fate) ==
  LET k == running[s].key
      settled == Settled(s, fate)
  IN  IF settled.intents[k] = NoIntent THEN settled
      ELSE EnqueueIntentKey(settled, settled.intents[k].scope, k)

LEMMA StaleEndKeeps ==
  ASSUME IInv, NEW s \in Scopes, running[s] # NoRun, NEW fate \in {"saved", "failed"},
         ~ RunIsNewest(s), Carries(Turn, s, stored, stored')
  PROVE  /\ TurnInv(StaleEnd(s, fate), stored', {s})
         /\ BeganNewest(Turn, StaleEnd(s, fate))
         /\ Advances(intents, StaleEnd(s, fate).intents, Steady)
         /\ Len(StaleEnd(s, fate).requests) = Len(requests)
<1> DEFINE k == running[s].key
           settled == Settled(s, fate)
           intent == intents[k]
           end == StaleEnd(s, fate)
<1>1. TurnInv(Turn, stored, {}) /\ Turn.running[s] # NoRun /\ Turn.running[s] = running[s]
  BY TurnParts DEF IInv
<1>2. SettlesTo(Turn, s, fate, intent, settled) /\ settled.intents = intents
      /\ settled.running = running
  BY SettledAlone
<1>3. k \in Keys /\ intent \in Intent \cup {NoIntent}
  BY RunFacts
<1>4. Outcome(Turn, s, intent, stored')
  BY TurnParts DEF Outcome, RunIsNewest
<1>5. /\ TurnInv(settled, stored', {s}) /\ Began(Turn, settled) = {}
      /\ StaleIsPending(Turn, s, intent)
  <2> HIDE DEF settled, intent
  <2> QED
    BY <1>1, <1>2, <1>3, <1>4, RunEndsKeeps
<1>6. BeganNewest(Turn, settled)
  BY <1>5 DEF BeganNewest
<1>7. Len(settled.requests) = Len(requests)
  <2>1. Refs(Turn, stored) /\ fate \in Fates
    BY <1>1 DEF TurnInv, Fates
  <2> HIDE DEF settled, intent
  <2>2. SettleEffect(Turn, s, fate, intent, settled)
    BY <1>1, <1>2, <1>3, <2>1, SettledEffect
  <2> QED
    BY <2>2, TurnParts DEF SettleEffect
<1>8. CASE intent = NoIntent
  <2>1. end = settled
    BY <1>2, <1>8 DEF StaleEnd
  <2>2. Advances(intents, settled.intents, Steady)
    BY <1>2 DEF Advances
  <2> HIDE DEF end, settled
  <2> QED
    BY <1>5, <1>6, <1>7, <2>1, <2>2 DEF end
<1>9. CASE intent # NoIntent
  <2>1. end = EnqueueIntentKey(settled, intent.scope, k)
    BY <1>2, <1>9 DEF StaleEnd
  <2>2. intent.scope \in Scopes
    BY <1>3, <1>9, IntentValues
  <2>3. k \in Steady => intent.status = "pending"
    BY <1>1, <1>5, <1>9 DEF StaleIsPending, RunIsNewest
  <2>4. settled.running[intent.scope] = NoRun => intent.scope \notin {s}
    BY <1>2
  <2>5. settled.intents[k] # NoIntent /\ settled.intents[k].scope = intent.scope
        /\ (k \in Steady => settled.intents[k].status = "pending")
    BY <1>2, <1>9, <2>3
  <2> HIDE DEF settled, intent, end, k
  <2>6. /\ TurnInv(EnqueueIntentKey(settled, intent.scope, k), stored', {s})
        /\ Keeps(Turn, settled, EnqueueIntentKey(settled, intent.scope, k))
    BY <1>3, <1>5, <2>2, <2>4, <2>5, PutBackKeeps DEF k
  <2>7. TurnInv(end, stored', {s}) /\ BeganNewest(Turn, end)
    BY <1>6, <2>1, <2>6 DEF Keeps
  <2>8. Refs(settled, stored') /\ PendingQueue(settled, intent.scope)
    BY <1>5, <2>2, QueuesArePending DEF TurnInv
  <2>9. /\ Advances(settled.intents, end.intents, Steady)
        /\ Len(end.requests) = Len(settled.requests)
    BY <1>3, <2>1, <2>2, <2>5, <2>8, EnqueueAdvances
  <2> QED
    BY <1>2, <1>7, <2>7, <2>9 DEF end
<1> QED
  BY <1>8, <1>9

LEMMA StaleKeeps ==
  ASSUME IInv, NEW s \in Scopes, running[s] # NoRun, NEW fate \in {"saved", "failed"},
         ~ RunIsNewest(s),
         Carries(Turn, s, stored, stored'), EndTurn(TakeNext(StaleEnd(s, fate), s))
  PROVE  /\ IInv' /\ BeganNewest(Turn, Turn')
         /\ Advances(intents, intents', Steady) /\ Len(requests') = Len(requests)
<1> DEFINE end == StaleEnd(s, fate)
<1>1. /\ TurnInv(end, stored', {s}) /\ BeganNewest(Turn, end)
      /\ Advances(intents, end.intents, Steady)
      /\ Len(end.requests) = Len(requests)
  BY StaleEndKeeps
<1> HIDE DEF end
<1>2. IInv' /\ BeganNewest(Turn, Turn')
  BY <1>1, LoopGoesOn DEF end
<1>3. Advances(end.intents, intents', Steady) /\ Len(requests') = Len(end.requests)
  BY <1>1, GoingOnAdvances DEF end
<1> QED
  BY <1>1, <1>2, <1>3, AdvancesTwice

(* A run of the version its key has: the intent becomes x.                 *)
MatchEnd(s, fate, x) == [Settled(s, fate) EXCEPT !.intents[running[s].key] = x]

Replaces(s, x) ==
  LET run == running[s]
      intent == intents[run.key]
  IN  /\ intent # NoIntent /\ intent.version = run.version
      /\ \/ x = NoIntent
         \/ x = [intent EXCEPT !.status = "failed"]
         \/ /\ x = [intent EXCEPT !.status = "pendingConfirmation"]
            /\ stored' = [stored EXCEPT ![run.key] = run.request]

Replaced(s, x, end) ==
  /\ end.intents[running[s].key] = x
  /\ \A h \in Keys : h # running[s].key => end.intents[h] = intents[h]

LEMMA MatchKeeps ==
  ASSUME IInv, NEW s \in Scopes, running[s] # NoRun, NEW fate \in {"saved", "failed"},
         Carries(Turn, s, stored, stored'), NEW x, Replaces(s, x)
  PROVE  /\ TurnInv(MatchEnd(s, fate, x), stored', {s})
         /\ Began(Turn, MatchEnd(s, fate, x)) = {}
         /\ MatchEnd(s, fate, x).running = running
         /\ Len(MatchEnd(s, fate, x).requests) = Len(requests)
         /\ Replaced(s, x, MatchEnd(s, fate, x))
<1> DEFINE k == running[s].key
           intent == intents[k]
           end == MatchEnd(s, fate, x)
<1>0. /\ intent # NoIntent /\ intent.version = running[s].version
      /\ \/ x = NoIntent
         \/ x = [intent EXCEPT !.status = "failed"]
         \/ /\ x = [intent EXCEPT !.status = "pendingConfirmation"]
            /\ stored' = [stored EXCEPT ![k] = running[s].request]
  BY DEF Replaces
<1>1. TurnInv(Turn, stored, {}) /\ Turn.running[s] # NoRun /\ Turn.running[s] = running[s]
  BY TurnParts DEF IInv
<1>2. SettlesTo(Turn, s, fate, x, end)
  BY SettledWith DEF MatchEnd
<1> HIDE DEF end
<1>3. /\ k \in Keys /\ intent \in Intent
      /\ stored \in [Keys -> 0 .. Len(requests)]
  BY <1>0, RunFacts
<1>4. x # NoIntent =>
        /\ x \in Intent /\ x.scope = intent.scope /\ x.version = intent.version
        /\ x.request = intent.request
        /\ \/ x.status = "failed"
           \/ x.status = "pendingConfirmation" /\ stored'[k] = running[s].request
  BY <1>0, <1>3 DEF Intent
<1>5. Outcome(Turn, s, x, stored')
  <2>1. Turn.intents = intents
    BY TurnParts
  <2> HIDE DEF intent, k
  <2>2. intent = Turn.intents[Turn.running[s].key] /\ k = Turn.running[s].key
    BY <1>1, <2>1 DEF intent, k
  <2>3. intent # NoIntent /\ intent.version = Turn.running[s].version
    BY <1>0, <1>1 DEF intent, k
  <2>4. CASE x = NoIntent
    BY <2>2, <2>3, <2>4 DEF Outcome
  <2>5. CASE x # NoIntent
    BY <1>1, <1>4, <2>2, <2>3, <2>5 DEF Outcome
  <2> QED
    BY <2>4, <2>5
<1>6. x \in Intent \cup {NoIntent}
  BY <1>4
<1>7. TurnInv(end, stored', {s}) /\ Began(Turn, end) = {}
  BY <1>1, <1>2, <1>5, <1>6, RunEndsKeeps
<1>8. SettleEffect(Turn, s, fate, x, end)
  <2>1. Refs(Turn, stored) /\ fate \in Fates
    BY <1>1 DEF TurnInv, Fates
  <2> QED
    BY <1>1, <1>2, <1>6, <2>1, SettledEffect
<1> QED
  BY <1>7, <1>8, TurnParts DEF SettleEffect, Replaced, end

(* What becomes of the intent whose newest version was carried out.        *)
ConfirmedIntent(s) ==
  IF running[s].key \in OneShot THEN NoIntent
  ELSE [intents[running[s].key] EXCEPT !.status = "pendingConfirmation"]

ConfirmedEnd(s) == MatchEnd(s, "saved", ConfirmedIntent(s))

LEMMA ConfirmedIsStill ==
  ASSUME IInv, NEW s \in Scopes, running[s] # NoRun, RunIsNewest(s), NEW y
  PROVE  ~ TakenUp(ConfirmedIntent(s), y)
<1>1. intents[running[s].key] \in Intent
  BY RunFacts DEF RunIsNewest
<1> QED
  BY <1>1 DEF TakenUp, ConfirmedIntent, Intent

LEMMA ConfirmedTurn ==
  ASSUME IInv, NEW s \in Scopes, NEW followUp \in Targets \cup {NoFollowUp},
         RunSucceeds(s, followUp), RunIsNewest(s)
  PROVE  /\ TurnInv(ConfirmedEnd(s), stored', {s}) /\ Began(Turn, ConfirmedEnd(s)) = {}
         /\ ConfirmedEnd(s).running = running
         /\ Len(ConfirmedEnd(s).requests) = Len(requests)
         /\ ConfirmedEnd(s).intents[running[s].key] = ConfirmedIntent(s)
         /\ \A h \in Keys : h # running[s].key => ConfirmedEnd(s).intents[h] = intents[h]
         /\ followUp = NoFollowUp => EndTurn(TakeNext(ConfirmedEnd(s), s))
         /\ followUp # NoFollowUp =>
              EndTurn(TakeNext(RequestIntent(ConfirmedEnd(s), followUp[1], followUp[2]), s))
<1> DEFINE k == running[s].key
           settled == Settled(s, "saved")
           succeeded == Succeed(settled, k, running[s].version, followUp)
           x == ConfirmedIntent(s)
           confirmed == [settled EXCEPT !.intents[k] = x]
<1>1. /\ running[s] # NoRun /\ EndTurn(TakeNext(succeeded, s))
      /\ stored' = [stored EXCEPT ![k] = running[s].request]
  BY DEF RunSucceeds, GoOn
<1>2. settled.intents = intents
  BY <1>1, SettledAlone
<1>3. succeeded = IF followUp = NoFollowUp THEN confirmed
                  ELSE RequestIntent(confirmed, followUp[1], followUp[2])
  <2>1. k \in Keys /\ intents \in [Keys -> Intent \cup {NoIntent}]
    BY <1>1, RunFacts
  <2>2. succeeded = Confirm(settled, k, followUp)
    BY <1>2 DEF Succeed, RunIsNewest
  <2>3. confirmed = [settled EXCEPT !.intents[k] =
                       IF k \in OneShot THEN NoIntent
                       ELSE [@ EXCEPT !.status = "pendingConfirmation"]]
    BY <1>2 DEF ConfirmedIntent
  <2> HIDE DEF succeeded, settled, x, confirmed
  <2> QED
    BY <2>2, <2>3 DEF Confirm
<1> HIDE DEF succeeded, x
<1>4. Replaces(s, x) /\ Carries(Turn, s, stored, stored')
  BY <1>1, TurnParts DEF Replaces, Carries, RunIsNewest, x, ConfirmedIntent
<1>5. confirmed = ConfirmedEnd(s) /\ ConfirmedEnd(s) = MatchEnd(s, "saved", x)
  BY DEF MatchEnd, ConfirmedEnd, x
<1> HIDE DEF confirmed
<1>6. /\ TurnInv(MatchEnd(s, "saved", x), stored', {s})
      /\ Began(Turn, MatchEnd(s, "saved", x)) = {}
      /\ MatchEnd(s, "saved", x).running = running
      /\ Len(MatchEnd(s, "saved", x).requests) = Len(requests)
      /\ Replaced(s, x, MatchEnd(s, "saved", x))
  BY <1>1, <1>4, MatchKeeps
<1>7. /\ followUp = NoFollowUp => EndTurn(TakeNext(ConfirmedEnd(s), s))
      /\ followUp # NoFollowUp =>
           EndTurn(TakeNext(RequestIntent(ConfirmedEnd(s), followUp[1], followUp[2]), s))
  BY <1>1, <1>3, <1>5
<1> QED
  BY <1>5, <1>6, <1>7 DEF Replaced, x

LEMMA RunSucceedsKeeps ==
  ASSUME IInv, NEW s \in Scopes, NEW followUp \in Targets \cup {NoFollowUp},
         RunSucceeds(s, followUp)
  PROVE  IInv' /\ BeganNewest(Turn, Turn')
<1> DEFINE k == running[s].key
           version == running[s].version
           settled == Settled(s, "saved")
           succeeded == Succeed(settled, k, version, followUp)
<1>1. /\ running[s] # NoRun
      /\ followUp # NoFollowUp => Len(requests) < MaxRequests
      /\ EndTurn(TakeNext(succeeded, s))
      /\ stored' = [stored EXCEPT ![k] = running[s].request]
  BY DEF RunSucceeds, GoOn
<1>2. CASE ~ RunIsNewest(s)
  <2>1. settled.intents = intents
    BY <1>1, SettledAlone
  <2>2. Carries(Turn, s, stored, stored')
    BY <1>1, TurnParts DEF Carries
  <2>3. succeeded = StaleEnd(s, "saved")
    BY <1>2, <2>1 DEF Succeed, StaleEnd, RunIsNewest
  <2>4. EndTurn(TakeNext(StaleEnd(s, "saved"), s))
    BY <1>1, <2>3
  <2> QED
    BY <1>1, <1>2, <2>2, <2>4, StaleKeeps
<1>3. CASE RunIsNewest(s)
  <2> DEFINE confirmed == ConfirmedEnd(s)
  <2>1. /\ TurnInv(confirmed, stored', {s}) /\ Began(Turn, confirmed) = {}
        /\ confirmed.running = running /\ Len(confirmed.requests) = Len(requests)
        /\ followUp = NoFollowUp => EndTurn(TakeNext(confirmed, s))
        /\ followUp # NoFollowUp =>
             EndTurn(TakeNext(RequestIntent(confirmed, followUp[1], followUp[2]), s))
    BY <1>3, ConfirmedTurn
  <2> HIDE DEF confirmed
  <2>2. CASE followUp = NoFollowUp
    <3>1. BeganNewest(Turn, confirmed)
      BY <2>1 DEF BeganNewest
    <3> QED
      BY <2>1, <2>2, <3>1, LoopGoesOn
  <2>3. CASE followUp # NoFollowUp
    <3>1. /\ followUp[1] \in Keys /\ followUp[2] \in Scopes
          /\ <<followUp[1], followUp[2]>> \in Targets
      BY <2>3, IntentAssumption
    <3>2. Len(confirmed.requests) < MaxRequests
      BY <1>1, <2>1, <2>3
    <3>3. confirmed.running[followUp[2]] = NoRun => followUp[2] \notin {s}
      BY <1>1, <2>1
    <3> DEFINE asked == RequestIntent(confirmed, followUp[1], followUp[2])
    <3>4. TurnInv(asked, stored', {s}) /\ BeganNewest(Turn, asked)
      BY <2>1, <3>1, <3>2, <3>3, RequestKeeps
    <3> HIDE DEF asked
    <3>5. EndTurn(TakeNext(asked, s))
      BY <2>1, <2>3 DEF asked
    <3> QED
      BY <3>4, <3>5, LoopGoesOn
  <2> QED
    BY <2>2, <2>3
<1> QED
  BY <1>2, <1>3

(* A run that is not of the newest version changes no intent; the newest   *)
(* one's is confirmed, and what onSuccess requests becomes the newest.     *)
LEMMA RunSucceedsEffect ==
  ASSUME IInv, NEW s \in Scopes, RunSucceeds(s, NoFollowUp),
         running[s].key \in Steady
  PROVE  /\ Len(requests') = Len(requests)
         /\ ~ RunIsNewest(s) => Advances(intents, intents', Steady)
         /\ RunIsNewest(s) =>
              /\ Advances(intents, intents', Steady \ {running[s].key})
              /\ intents'[running[s].key] = ConfirmedIntent(s)
<1> DEFINE k == running[s].key
           settled == Settled(s, "saved")
           succeeded == Succeed(settled, k, running[s].version, NoFollowUp)
<1>1. /\ running[s] # NoRun /\ EndTurn(TakeNext(succeeded, s))
      /\ stored' = [stored EXCEPT ![k] = running[s].request]
  BY DEF RunSucceeds, GoOn
<1>2. CASE ~ RunIsNewest(s)
  <2>1. settled.intents = intents
    BY <1>1, SettledAlone
  <2>2. Carries(Turn, s, stored, stored')
    BY <1>1, TurnParts DEF Carries
  <2>3. succeeded = StaleEnd(s, "saved")
    BY <1>2, <2>1 DEF Succeed, StaleEnd, RunIsNewest
  <2>4. EndTurn(TakeNext(StaleEnd(s, "saved"), s))
    BY <1>1, <2>3
  <2> QED
    BY <1>1, <1>2, <2>2, <2>4, StaleKeeps
<1>3. CASE RunIsNewest(s)
  <2> DEFINE confirmed == ConfirmedEnd(s)
  <2>1. /\ TurnInv(confirmed, stored', {s})
        /\ Len(confirmed.requests) = Len(requests)
        /\ confirmed.intents[k] = ConfirmedIntent(s)
        /\ \A h \in Keys : h # k => confirmed.intents[h] = intents[h]
        /\ EndTurn(TakeNext(confirmed, s))
    BY <1>3, ConfirmedTurn
  <2> HIDE DEF confirmed
  <2>2. Advances(confirmed.intents, intents', Steady)
        /\ Len(requests') = Len(confirmed.requests)
    BY <2>1, GoingOnAdvances
  <2>3. Advances(intents, intents', Steady \ {k})
    BY <2>1, <2>2, SteadyKeys DEF Advances
  <2>4. intents'[k] = ConfirmedIntent(s)
    BY <1>1, <1>3, <2>1, <2>2, ConfirmedIsStill DEF Advances
  <2> QED
    BY <1>3, <2>1, <2>2, <2>3, <2>4
<1> QED
  BY <1>2, <1>3

LEMMA RunAsksEffect ==
  ASSUME IInv, NEW s \in Scopes, NEW h \in Steady, NEW t \in Scopes, <<h, t>> \in Targets,
         RunSucceeds(s, <<h, t>>), running[s].key \in Steady, h # running[s].key
  PROVE  /\ Len(requests') = Len(requests) + 1 /\ RunIsNewest(s)
         /\ Advances(intents, intents', Steady \ {running[s].key, h})
         /\ intents'[running[s].key] = ConfirmedIntent(s)
         /\ intents'[h] # NoIntent /\ intents'[h].request = Len(requests) + 1
         /\ intents'[h].status \in {"pending", "running"}
<1> DEFINE k == running[s].key
           confirmed == ConfirmedEnd(s)
           asked == RequestIntent(confirmed, h, t)
           n == Len(requests) + 1
<1>1. <<h, t>> # NoFollowUp /\ <<h, t>>[1] = h /\ <<h, t>>[2] = t
  BY DEF NoFollowUp
<1>2. running[s] # NoRun /\ Len(requests) < MaxRequests /\ RunIsNewest(s)
  BY <1>1 DEF RunSucceeds, RunIsNewest
<1>3. /\ TurnInv(confirmed, stored', {s}) /\ Began(Turn, confirmed) = {}
      /\ confirmed.running = running /\ Len(confirmed.requests) = Len(requests)
      /\ confirmed.intents[k] = ConfirmedIntent(s)
      /\ \A j \in Keys : j # k => confirmed.intents[j] = intents[j]
      /\ EndTurn(TakeNext(asked, s))
  <2> DEFINE followUp == <<h, t>>
  <2>1. /\ followUp \in Targets \cup {NoFollowUp} /\ followUp # NoFollowUp
        /\ followUp[1] = h /\ followUp[2] = t /\ RunSucceeds(s, followUp)
    BY <1>1
  <2> HIDE DEF followUp
  <2> QED
    BY <1>2, <2>1, ConfirmedTurn
<1> HIDE DEF confirmed
<1>4. /\ AskedFor(confirmed.intents, asked.intents, h, n)
      /\ Len(asked.requests) = n
  <2>1. Refs(confirmed, stored') /\ PendingQueue(confirmed, t)
    BY <1>3, QueuesArePending DEF TurnInv
  <2> QED
    BY <1>2, <1>3, <2>1, RequestAsks
<1>5. TurnInv(asked, stored', {s})
  <2>1. confirmed.running[t] = NoRun => t \notin {s}
    BY <1>2, <1>3
  <2>2. h \in Keys /\ Len(confirmed.requests) < MaxRequests
    BY <1>2, <1>3, SteadyKeys
  <2> QED
    BY <1>3, <2>1, <2>2, RequestKeeps
<1> HIDE DEF asked
<1>6. Advances(asked.intents, intents', Steady) /\ Len(requests') = Len(asked.requests)
  BY <1>3, <1>5, GoingOnAdvances
<1>7. Advances(intents, intents', Steady \ {k, h})
  BY <1>3, <1>4, <1>6, SteadyKeys DEF Advances, AskedFor, TakenUp
<1>8. intents'[k] = ConfirmedIntent(s)
  <2>1. asked.intents[k] = ConfirmedIntent(s)
    BY <1>2, <1>3, <1>4, ConfirmedIsStill DEF Advances, AskedFor
  <2> QED
    BY <1>2, <1>6, <2>1, ConfirmedIsStill DEF Advances
<1>9. /\ intents'[h] # NoIntent /\ intents'[h].request = n
      /\ intents'[h].status \in {"pending", "running"}
  BY <1>4, <1>6 DEF Advances, AskedFor, TakenUp
<1> QED
  BY <1>2, <1>4, <1>6, <1>7, <1>8, <1>9

LEMMA SuccessCallbackThrowsKeeps ==
  ASSUME IInv, NEW s \in Scopes, SuccessCallbackThrows(s)
  PROVE  IInv' /\ BeganNewest(Turn, Turn')
<1> DEFINE k == running[s].key
           version == running[s].version
           settled == Settled(s, "saved")
           succeeded == Succeed(settled, k, version, NoFollowUp)
           failed == Fail(succeeded, k, version)
           x == IF k \in OneShot THEN NoIntent
                ELSE [intents[k] EXCEPT !.status = "failed"]
           end == [settled EXCEPT !.intents[k] = x]
<1>1. /\ running[s] # NoRun /\ intents[k] # NoIntent /\ intents[k].version = version
      /\ EndTurn(TakeNext(failed, s))
      /\ stored' = [stored EXCEPT ![k] = running[s].request]
  BY DEF SuccessCallbackThrows, GoOn
<1>2. /\ settled.intents = intents /\ k \in Keys
      /\ intents \in [Keys -> Intent \cup {NoIntent}]
  BY <1>1, SettledAlone, RunFacts
<1>3. Carries(Turn, s, stored, stored')
  BY <1>1, TurnParts DEF Carries
<1>4. failed = end
  <2> DEFINE y == IF k \in OneShot THEN NoIntent
                  ELSE [intents[k] EXCEPT !.status = "pendingConfirmation"]
  <2>1. succeeded = Confirm(settled, k, NoFollowUp)
    BY <1>1, <1>2 DEF Succeed
  <2>2. succeeded = [settled EXCEPT !.intents[k] = y]
    BY <1>2, <2>1 DEF Confirm
  <2>3. settled = [intents |-> intents, items |-> items, running |-> running,
                   requests |-> settled.requests]
    BY DEF Settled, Turn
  <2> HIDE DEF succeeded, settled, k
  <2>4. succeeded = [intents |-> [intents EXCEPT ![k] = y], items |-> items,
                     running |-> running, requests |-> settled.requests]
    BY <2>2, <2>3
  <2>5. end = [intents |-> [intents EXCEPT ![k] = x], items |-> items,
               running |-> running, requests |-> settled.requests]
    BY <2>3
  <2>6. succeeded.intents[k] = y
    BY <1>2, <2>4
  <2>7. CASE k \in OneShot
    BY <2>4, <2>5, <2>6, <2>7 DEF Fail
  <2>8. CASE k \notin OneShot
    <3>1. y \in Intent /\ y # NoIntent /\ y.version = version
          /\ [y EXCEPT !.status = "failed"] = [intents[k] EXCEPT !.status = "failed"]
      <4>1. intents[k] \in Intent
        BY <1>1, <1>2
      <4>2. y \in Intent /\ y.version = intents[k].version
        BY <2>8, <4>1 DEF Intent
      <4>3. [y EXCEPT !.status = "failed"] = [intents[k] EXCEPT !.status = "failed"]
        BY <2>8, <4>1 DEF Intent
      <4> QED
        BY <1>1, <4>2, <4>3, IntentValues DEF k
    <3> HIDE DEF y
    <3>2. failed = [succeeded EXCEPT !.intents[k].status = "failed"]
      BY <2>6, <3>1 DEF Fail
    <3>3. failed = [intents |-> [[intents EXCEPT ![k] = y] EXCEPT
                                   ![k] = [y EXCEPT !.status = "failed"]],
                    items |-> items, running |-> running,
                    requests |-> settled.requests]
      BY <2>4, <2>6, <3>2
    <3>4. [[intents EXCEPT ![k] = y] EXCEPT ![k] = [y EXCEPT !.status = "failed"]]
            = [intents EXCEPT ![k] = x]
      BY <1>2, <2>8, <3>1
    <3> QED
      BY <2>5, <3>3, <3>4
  <2> QED
    BY <2>7, <2>8
<1>5. Replaces(s, x)
  BY <1>1 DEF Replaces
<1> HIDE DEF x, failed
<1>6. TurnInv(end, stored', {s}) /\ Began(Turn, end) = {}
  <2>1. end = MatchEnd(s, "saved", x)
    BY DEF MatchEnd
  <2> HIDE DEF end
  <2> QED
    BY <1>1, <1>3, <1>5, <2>1, MatchKeeps
<1>7. BeganNewest(Turn, end)
  BY <1>6 DEF BeganNewest
<1> HIDE DEF end
<1> QED
  BY <1>1, <1>4, <1>6, <1>7, LoopGoesOn

LEMMA RunFailsKeeps ==
  ASSUME IInv, NEW s \in Scopes, RunFails(s)
  PROVE  /\ IInv' /\ BeganNewest(Turn, Turn')
         /\ Len(requests') = Len(requests)
         /\ ~ RunIsNewest(s) => Advances(intents, intents', Steady)
         /\ RunIsNewest(s) =>
              /\ Advances(intents, intents', Steady \ {running[s].key})
              /\ running[s].key \in Steady =>
                   intents'[running[s].key] = [intents[running[s].key] EXCEPT !.status = "failed"]
<1> DEFINE k == running[s].key
           version == running[s].version
           settled == Settled(s, "failed")
           failed == Fail(settled, k, version)
<1>1. /\ running[s] # NoRun /\ stored' = stored /\ EndTurn(TakeNext(failed, s))
  BY DEF RunFails, GoOn
<1>2. settled.intents = intents
  BY <1>1, SettledAlone
<1>3. Carries(Turn, s, stored, stored')
  BY <1>1 DEF Carries
<1>4. CASE ~ RunIsNewest(s)
  <2>1. failed = StaleEnd(s, "failed")
    BY <1>2, <1>4 DEF Fail, StaleEnd, RunIsNewest
  <2>2. EndTurn(TakeNext(StaleEnd(s, "failed"), s))
    BY <1>1, <2>1
  <2> QED
    BY <1>1, <1>3, <1>4, <2>2, StaleKeeps
<1>5. CASE RunIsNewest(s)
  <2> DEFINE x == [intents[k] EXCEPT !.status = "failed"]
  <2>1. failed = MatchEnd(s, "failed", x)
    BY <1>2, <1>5 DEF Fail, MatchEnd, RunIsNewest
  <2>2. /\ TurnInv(failed, stored', {s}) /\ Began(Turn, failed) = {}
        /\ Len(failed.requests) = Len(requests) /\ Replaced(s, x, failed)
    <3>1. Replaces(s, x)
      BY <1>1, <1>5 DEF Replaces, RunIsNewest
    <3> HIDE DEF failed, x
    <3> QED
      BY <1>1, <1>3, <2>1, <3>1, MatchKeeps
  <2>3. x.status # "pending"
    <3>1. intents[k] \in Intent
      BY <1>1, <1>5, RunFacts DEF RunIsNewest
    <3> QED
      BY <3>1 DEF Intent
  <2> HIDE DEF failed, x
  <2>4. BeganNewest(Turn, failed)
    BY <2>2 DEF BeganNewest
  <2>5. IInv' /\ BeganNewest(Turn, Turn')
    BY <1>1, <2>2, <2>4, LoopGoesOn
  <2>6. Advances(failed.intents, intents', Steady) /\ Len(requests') = Len(failed.requests)
    BY <1>1, <2>2, GoingOnAdvances
  <2>7. Advances(intents, intents', Steady \ {k})
    BY <2>2, <2>6, SteadyKeys DEF Advances, Replaced
  <2>8. k \in Steady => intents'[k] = x
    BY <2>2, <2>3, <2>6 DEF Advances, Replaced, TakenUp
  <2> QED
    BY <1>5, <2>2, <2>5, <2>6, <2>7, <2>8 DEF x
<1> QED
  BY <1>4, <1>5

LEMMA ClearingKeeps ==
  ASSUME IInv, NEW ks,
         \A k \in ks \cap Steady : intents[k].status \in {"pendingConfirmation", "failed"},
         intents' = [k \in Keys |-> IF k \in ks THEN NoIntent ELSE intents[k]],
         UNCHANGED <<items, running, requests, stored>>
  PROVE  IInv' /\ BeganNewest(Turn, Turn')
<1> DEFINE end == [intents |-> intents', items |-> items, running |-> running,
                   requests |-> requests]
<1>1. TurnInv(Turn, stored, {}) /\ Refs(Turn, stored) /\ Turn \in MidTurn
  BY DEF IInv, TurnInv, Refs
<1>2. /\ end.items = items /\ end.running = running /\ end.requests = requests
      /\ end.intents = intents'
  OBVIOUS
<1>3. intents' \in [Keys -> Intent \cup {NoIntent}]
  BY <1>1, MidTurnTypes, TurnParts
<1>4. end \in MidTurn
  BY <1>1, <1>3, MidTurnTypes, TurnParts DEF MidTurn
<1>5. Turn' = end
  BY DEF Turn
<1> HIDE DEF end
<1>6. \A t \in Scopes : RunOf(end, {}, t) = RunOf(Turn, {}, t)
  BY <1>2, TurnParts DEF RunOf
<1>7. \A h \in Keys : end.intents[h] = IF h \in ks THEN NoIntent ELSE intents[h]
  BY <1>2
<1>8. Refs(end, stored)
  BY <1>1, <1>2, <1>4, <1>7, TurnParts DEF Refs
<1>9. Idle(end, {})
  BY <1>1, <1>2, TurnParts DEF TurnInv, Idle
<1>10. ASSUME NEW k \in Steady PROVE KeyInv(end, stored, {}, k)
  <2>1. /\ k \in Keys /\ QueueInv(Turn, k) /\ IntentInv(Turn, stored, {}, k)
        /\ RunInv(Turn, stored, {}, k) /\ RequestInv(Turn, {}, k)
    BY <1>1, SteadyKeys DEF TurnInv, KeyInv
  <2>2. CASE k \notin ks
    <3>1. end.intents[k] = Turn.intents[k]
      BY <1>7, <2>1, <2>2, TurnParts
    <3>2. QueueInv(end, k)
      BY <1>2, <2>1, <3>1, TurnParts DEF QueueInv
    <3>3. IntentInv(end, stored, {}, k)
      BY <1>1, <1>2, <1>6, <2>1, <3>1, TurnParts, MidTurnTypes, IntentValues DEF IntentInv
    <3>4. RunInv(end, stored, {}, k)
      BY <1>2, <1>6, <2>1, <3>1, TurnParts DEF RunInv
    <3>5. RequestInv(end, {}, k)
      BY <1>2, <1>6, <2>1, <3>1, TurnParts DEF RequestInv
    <3> QED
      BY <3>2, <3>3, <3>4, <3>5 DEF KeyInv
  <2>3. CASE k \in ks
    <3>1. /\ end.intents[k] = NoIntent
          /\ Turn.intents[k].status \notin {"pending", "running"}
      BY <1>7, <2>1, <2>3, TurnParts
    <3>2. QueueInv(end, k)
      BY <1>2, <2>1, <3>1, TurnParts DEF QueueInv
    <3>3. IntentInv(end, stored, {}, k)
      BY <3>1 DEF IntentInv
    <3>4. RunInv(end, stored, {}, k)
      BY <1>6, <2>1, <3>1 DEF RunInv
    <3>5. RequestInv(end, {}, k)
      BY <1>2, <1>6, <2>1, <3>1, TurnParts DEF RequestInv
    <3> QED
      BY <3>2, <3>3, <3>4, <3>5 DEF KeyInv
  <2> QED
    BY <2>2, <2>3
<1>11. TurnInv(Turn', stored', {})
  BY <1>5, <1>8, <1>9, <1>10 DEF TurnInv
<1>12. Began(Turn, Turn') = {}
  BY <1>2, <1>5, TurnParts DEF Began
<1> QED
  BY <1>11, <1>12 DEF IInv, BeganNewest

LEMMA InitHolds ==
  ASSUME Init
  PROVE  IInv
<1>1. /\ intents = [k \in Keys |-> NoIntent] /\ items = [s \in Scopes |-> <<>>]
      /\ running = [s \in Scopes |-> NoRun] /\ requests = <<>>
      /\ stored = [k \in Keys |-> 0]
  BY DEF Init
<1>2. /\ <<>> \in Seq(Keys) /\ <<>> \in Seq([key : Keys, fate : Fates])
      /\ Len(requests) = 0 /\ DOMAIN requests = {}
  <2>1. requests \in Seq([key : Keys, fate : Fates]) /\ Len(requests) = 0
    BY <1>1, EmptySeq
  <2> QED
    BY <1>1, <2>1, EmptySeq, LenProperties
<1>3. Turn \in MidTurn
  BY <1>1, <1>2 DEF Turn, MidTurn
<1>4. Refs(Turn, stored)
  BY <1>1, <1>2, <1>3, TurnParts, IntentAssumption DEF Refs
<1>5. Idle(Turn, {})
  BY <1>1, TurnParts DEF Idle
<1>6. ASSUME NEW k \in Steady PROVE KeyInv(Turn, stored, {}, k)
  <2>1. k \in Keys /\ Turn.intents[k] = NoIntent
    BY <1>1, SteadyKeys, TurnParts
  <2>2. \A s \in Scopes : DOMAIN Turn.items[s] = {} /\ RunOf(Turn, {}, s) = NoRun
    <3>1. ASSUME NEW s \in Scopes PROVE Turn.items[s] = <<>> /\ RunOf(Turn, {}, s) = NoRun
      BY <1>1, TurnParts DEF RunOf
    <3>2. DOMAIN requests = {} /\ requests = <<>>
      BY <1>1, <1>2
    <3> QED
      BY <3>1, <3>2
  <2> QED
    BY <1>2, <2>1, <2>2, TurnParts DEF KeyInv, QueueInv, IntentInv, RunInv, RequestInv
<1> QED
  BY <1>4, <1>5, <1>6 DEF IInv, TurnInv

LEMMA StepKeeps ==
  ASSUME IInv, [Next]_vars
  PROVE  IInv' /\ BeganNewest(Turn, Turn')
<1>1. ASSUME NEW t \in Targets, RequestWrite(t[1], t[2])
      PROVE  IInv' /\ BeganNewest(Turn, Turn')
  BY <1>1, RequestWriteKeeps
<1>2. ASSUME NEW s \in Scopes, RunStep(s) PROVE IInv' /\ BeganNewest(Turn, Turn')
  BY <1>2, RunSucceedsKeeps, SuccessCallbackThrowsKeeps, RunFailsKeeps DEF RunStep
<1>3. ASSUME NEW ks \in SUBSET Keys, ClearSettled(ks)
      PROVE  IInv' /\ BeganNewest(Turn, Turn')
  <2>1. /\ \A k \in ks \cap Steady : intents[k].status \in {"pendingConfirmation", "failed"}
        /\ intents' = [k \in Keys |-> IF k \in ks THEN NoIntent ELSE intents[k]]
        /\ UNCHANGED <<items, running, requests, stored>>
    BY <1>3 DEF ClearSettled
  <2> QED
    BY <2>1, ClearingKeeps
<1>4. ASSUME NEW k \in Keys, Forget(k) PROVE IInv' /\ BeganNewest(Turn, Turn')
  <2>1. \A h \in {k} \cap Steady : intents[h].status \in {"pendingConfirmation", "failed"}
    BY <1>4, SteadyKeys DEF Forget
  <2>2. intents \in [Keys -> Intent \cup {NoIntent}]
    <3>1. Turn \in MidTurn
      BY DEF IInv, TurnInv, Refs
    <3> QED
      BY <3>1, MidTurnTypes, TurnParts
  <2>3. /\ intents' = [h \in Keys |-> IF h \in {k} THEN NoIntent ELSE intents[h]]
        /\ UNCHANGED <<items, running, requests, stored>>
    BY <1>4, <2>2 DEF Forget
  <2> QED
    BY <2>1, <2>3, ClearingKeeps
<1>5. ASSUME UNCHANGED vars PROVE IInv' /\ BeganNewest(Turn, Turn')
  <2>1. Turn' = Turn /\ stored' = stored
    BY <1>5 DEF vars, Turn
  <2> QED
    BY <2>1, NothingBegan DEF IInv, BeganNewest
<1> QED
  BY <1>1, <1>2, <1>3, <1>4, <1>5 DEF Next, AllDone
-----------------------------------------------------------------------------
(* The theorems.                                                           *)

LEMMA TypesAndPromises ==
  ASSUME IInv
  PROVE  TypeOK /\ NoRequestLost /\ ConfirmedWasStored
<1>1. /\ TurnInv(Turn, stored, {}) /\ Refs(Turn, stored) /\ Idle(Turn, {})
      /\ Turn \in MidTurn
  BY DEF IInv, TurnInv, Refs
<1>2. TypeOK
  <2>1. /\ intents \in [Keys -> Intent \cup {NoIntent}]
        /\ items \in [Scopes -> Seq(Keys)]
        /\ running \in [Scopes -> Run \cup {NoRun}]
        /\ requests \in Seq([key : Keys, fate : Fates]) /\ Len(requests) \in Nat
    BY <1>1, MidTurnTypes, TurnParts
  <2>2. Len(requests) <= MaxRequests /\ stored \in [Keys -> 0 .. Len(requests)]
    BY <1>1, TurnParts DEF Refs
  <2>3. stored \in [Keys -> 0 .. MaxRequests]
    <3>1. \A n \in 0 .. Len(requests) : n \in 0 .. MaxRequests
      BY <2>1, <2>2, IntentAssumption
    <3> QED
      BY <2>2, <3>1
  <2> QED
    BY <2>1, <2>2, <2>3 DEF TypeOK, Fates
<1>3. ASSUME NEW k \in Steady
      PROVE  k \in Keys /\ IntentInv(Turn, stored, {}, k) /\ RequestInv(Turn, {}, k)
  BY <1>1, SteadyKeys DEF TurnInv, KeyInv
<1>4. NoRequestLost
  <2>1. SUFFICES ASSUME NEW k \in Steady, NEW n \in Newest(k), requests[n].fate = "waiting"
                 PROVE  /\ intents[k] # NoIntent /\ intents[k].request = n
                        /\ running[intents[k].scope] # NoRun
                        /\ k \in Range(items[intents[k].scope])
    BY DEF NoRequestLost, StillWaits
  <2>2. /\ n \in DOMAIN requests /\ requests[n].key = k
        /\ \A m \in DOMAIN requests : requests[m].key = k => m <= n
    BY <2>1 DEF Newest, RequestsOf
  <2>3. intents[k] # NoIntent /\ intents[k].request = n /\ intents[k].status = "pending"
    BY <1>3, <2>1, <2>2, TurnParts DEF RequestInv
  <2>4. PICK i \in DOMAIN items[intents[k].scope] : items[intents[k].scope][i] = k
    BY <1>3, <2>3, TurnParts DEF IntentInv
  <2>5. intents[k].scope \in Scopes
    BY <1>1, <1>3, <2>3, MidTurnTypes, TurnParts, IntentValues
  <2>6. running[intents[k].scope] # NoRun
    <3>1. SUFFICES ASSUME items[intents[k].scope] = <<>> PROVE FALSE
      BY <1>1, <2>5, TurnParts DEF Idle
    <3>2. <<>> \in Seq(Keys) /\ Len(<<>>) = 0
      OBVIOUS
    <3> QED
      BY <2>4, <3>1, <3>2, LenProperties
  <2> QED
    BY <2>3, <2>4, <2>6 DEF Range
<1>5. ConfirmedWasStored
  <2>1. SUFFICES ASSUME NEW k \in Steady, intents[k].status = "pendingConfirmation"
                 PROVE  stored[k] = intents[k].request
    BY DEF ConfirmedWasStored
  <2>2. intents[k] # NoIntent
    BY <2>1 DEF NoIntent
  <2> QED
    BY <1>3, <2>1, <2>2, TurnParts DEF IntentInv
<1> QED
  BY <1>2, <1>4, <1>5

(* What has begun in a step is the newest of its key, and alone.           *)
LEMMA BeganIsNewest ==
  ASSUME NEW st, NEW carried, TurnInv(st, carried, {}), NEW k \in Steady,
         NEW n \in DOMAIN st.requests, st.requests[n].key = k,
         st.requests[n].fate = "running", st.intents[k].status = "running"
  PROVE  /\ n > carried[k]
         /\ \A m \in DOMAIN st.requests : st.requests[m].key = k =>
              m <= n /\ (m < n => st.requests[m].fate # "running")
<1>1. /\ IntentInv(st, carried, {}, k) /\ RunInv(st, carried, {}, k)
      /\ RequestInv(st, {}, k) /\ k \in Keys /\ Refs(st, carried) /\ st \in MidTurn
  BY SteadyKeys DEF TurnInv, KeyInv, Refs
<1> DEFINE intent == st.intents[k]
<1>2. intent # NoIntent
  BY DEF NoIntent
<1>3. intent.scope \in Scopes
  BY <1>1, <1>2, MidTurnTypes, IntentValues
<1>4. /\ <<k, intent.scope>> \in Targets
      /\ \A m \in DOMAIN st.requests : st.requests[m].key = k => m <= intent.request
      /\ RunOf(st, {}, intent.scope) =
           [key |-> k, version |-> intent.version, request |-> intent.request]
  BY <1>1, <1>2 DEF IntentInv
<1>5. ASSUME NEW m \in DOMAIN st.requests, st.requests[m].key = k,
             st.requests[m].fate = "running"
      PROVE  m = intent.request /\ carried[k] < m
  <2>1. PICK s \in Scopes : /\ RunOf(st, {}, s) # NoRun /\ RunOf(st, {}, s).key = k
                            /\ RunOf(st, {}, s).request = m
    BY <1>1, <1>5 DEF RequestInv
  <2>2. <<k, s>> \in Targets /\ carried[k] < m
    BY <1>1, <2>1 DEF RunInv
  <2>3. s = intent.scope
    BY <1>3, <1>4, <2>2, SteadyKeys
  <2> QED
    BY <1>4, <2>1, <2>2, <2>3
<1>6. n = intent.request /\ carried[k] < n
  BY <1>5
<1>7. n \in Nat /\ carried[k] \in Nat
  BY <1>1, MidTurnTypes DEF Refs
<1>8. ASSUME NEW m \in DOMAIN st.requests, st.requests[m].key = k
      PROVE  m <= n /\ (m < n => st.requests[m].fate # "running")
  <2>1. m <= n
    BY <1>4, <1>6, <1>8
  <2>2. ASSUME st.requests[m].fate = "running" PROVE ~ (m < n)
    BY <1>5, <1>6, <1>7, <1>8, <2>2
  <2> QED
    BY <2>1, <2>2
<1> QED
  BY <1>6, <1>7, <1>8

(* The invariant holds at the end of every turn of the event loop, whatever *)
(* the callers of request() and the callbacks do in between.                *)
THEOREM IntentInvariant == Spec => []IInv
<1>1. Init => IInv
  BY InitHolds
<1>2. IInv /\ [Next]_vars => IInv'
  BY StepKeeps
<1> QED
  BY <1>1, <1>2, PTL DEF Spec

(* intents, items, running, requests and stored keep their types.          *)
THEOREM IntentTypeCorrect == Spec => []TypeOK
<1>1. IInv => TypeOK
  BY TypesAndPromises
<1> QED
  BY <1>1, IntentInvariant, PTL

(* "must not reorder or drop them": the newest request of a steady key has *)
(* the intent and a place in the queue of an active loop until its run()   *)
(* is called.                                                              *)
THEOREM NewestIsNotLost == Spec => []NoRequestLost
<1>1. IInv => NoRequestLost
  BY TypesAndPromises
<1> QED
  BY <1>1, IntentInvariant, PTL

(* An intent that awaits confirmation is of the request of its key carried *)
(* out last.                                                               *)
THEOREM ConfirmedIsStored == Spec => []ConfirmedWasStored
<1>1. IInv => ConfirmedWasStored
  BY TypesAndPromises
<1> QED
  BY <1>1, IntentInvariant, PTL

(* A run() that is called is of the newest request of its key, that was not *)
(* carried out yet, while none of the key is under way.                     *)
THEOREM NewestRuns == Spec => OnlyNewestRuns
<1> DEFINE Starts(k, n) == /\ requests'[n].key = k /\ requests'[n].fate = "running"
                           /\ n \in DOMAIN requests => requests[n].fate # "running"
           Step == \A k \in Steady, n \in DOMAIN requests' :
                     Starts(k, n) =>
                       /\ n > stored'[k]
                       /\ \A m \in RequestsOf(k)' :
                            m <= n /\ (m < n => requests'[m].fate # "running")
<1>1. ASSUME IInv, [Next]_vars PROVE [Step]_vars
  <2>1. IInv' /\ BeganNewest(Turn, Turn')
    BY <1>1, StepKeeps
  <2>2. Turn'.requests = requests' /\ Turn'.intents = intents'
    BY DEF Turn
  <2>3. TurnInv(Turn', stored', {})
    BY <2>1 DEF IInv
  <2>4. SUFFICES ASSUME NEW k \in Steady, NEW n \in DOMAIN requests', Starts(k, n)
                 PROVE  /\ n > stored'[k]
                        /\ \A m \in RequestsOf(k)' :
                             m <= n /\ (m < n => requests'[m].fate # "running")
    OBVIOUS
  <2>5. n \in Began(Turn, Turn')
    BY <2>2, <2>4, TurnParts DEF Began
  <2>6. Turn'.intents[k].status = "running"
    BY <2>1, <2>2, <2>4, <2>5 DEF BeganNewest
  <2>7. /\ n > stored'[k]
        /\ \A m \in DOMAIN Turn'.requests : Turn'.requests[m].key = k =>
             m <= n /\ (m < n => Turn'.requests[m].fate # "running")
    BY <2>2, <2>3, <2>4, <2>6, BeganIsNewest
  <2> QED
    BY <2>2, <2>7 DEF RequestsOf
<1>2. IInv /\ [Next]_vars => [Step]_vars
  BY <1>1
<1>3. Spec => [][Step]_vars
  BY <1>2, IntentInvariant, PTL DEF Spec
<1> QED
  BY <1>3 DEF OnlyNewestRuns
-----------------------------------------------------------------------------
(* The chapters of a project: ProjectWriteCoordinator.                     *)

WishValues == [value : Values, before : Values]
Steps == {"none", "queued", "writing", "written",
          "syncing", "pulled", "listed", "published"}
WriteSteps == {"queued", "writing", "written"}

(* Every request has its wish, every snapshot all fields and titles.       *)
ProjectTypes ==
  /\ wishes \in Seq(WishValues) /\ Len(wishes) = Len(requests)
  /\ step \in Steps /\ due \in BOOLEAN /\ owed \in BOOLEAN /\ notified \in BOOLEAN
  /\ file \in [Fields -> Values] /\ listing \in [Fields -> Values]
  /\ list \in Snapshot /\ cache \in Snapshot /\ discovery \in Discovery
  /\ pulls \in 0 .. MaxPulls /\ writer \in [Fields -> Nobody .. Somebody]

(* The step is one of the run the loop awaits; the file that a write has   *)
(* written is from its request, and a sync that has reconciled owes nothing.*)
StepOK ==
  /\ step = "none" <=> TheRun = NoRun
  /\ step # "none" => (step \in WriteSteps <=> TheRun.key \in Fields)
  /\ step = "written" => writer[TheRun.key] = TheRun.request
  /\ step \in {"pulled", "listed", "published"} => ~ owed

(* The inductive invariant of the project.                                 *)
ProjectInv ==
  /\ IInv /\ ProjectTypes /\ StepOK
  /\ WishIsShown /\ ConfirmedWasWritten /\ SyncIsOnItsWay

LEMMA ProjectKeys ==
  /\ Steady = Keys /\ Keys = Fields \cup {sync} /\ sync \notin Fields
  /\ Titles \subseteq Fields /\ Metadata \subseteq Fields
  /\ OneShot = {sync} /\ Scopes = {repo}
  /\ \A k \in Keys : <<k, repo>> \in Targets
BY ProjectAssumption DEF Steady, Fields

(* What is known of the coordinator: intents have wishes, and the run of   *)
(* the loop an intent.                                                     *)
Wished(its) ==
  /\ its \in [Keys -> Intent \cup {NoIntent}]
  /\ \A k \in Keys : its[k] # NoIntent => its[k].request \in DOMAIN wishes

LEMMA IntentsAreWished ==
  ASSUME IInv, ProjectTypes
  PROVE  Wished(intents)
<1>1. Refs(Turn, stored) /\ Turn \in MidTurn
  BY DEF IInv, TurnInv, Refs
<1>2. Turn.intents \in [Keys -> Intent \cup {NoIntent}] /\ DOMAIN Turn.requests = 1 .. Len(Turn.requests)
  BY <1>1, MidTurnTypes
<1>3. DOMAIN wishes = 1 .. Len(wishes)
  BY LenProperties DEF ProjectTypes
<1> QED
  BY <1>1, <1>2, <1>3, TurnParts DEF Refs, Wished, ProjectTypes

LEMMA WishTypes ==
  ASSUME ProjectTypes, NEW its, Wished(its), NEW k \in Keys, its[k] # NoIntent
  PROVE  WishOf(its[k]) \in Values
<1>1. its[k].request \in DOMAIN wishes
  BY DEF Wished
<1>2. wishes[its[k].request] \in WishValues
  BY <1>1, ElementOfSeq, LenProperties DEF ProjectTypes
<1> QED
  BY <1>2 DEF WishOf, WishValues

LEMMA TheRunFacts ==
  ASSUME IInv, TheRun # NoRun
  PROVE  /\ running[repo] # NoRun /\ TheRun = running[repo]
         /\ TheRun \in Run /\ TheRun.key \in Keys /\ TheRun.key \in Steady
         /\ TheRun.request \in DOMAIN requests
         /\ intents[TheRun.key] \in Intent /\ intents[TheRun.key] # NoIntent
         /\ intents[TheRun.key].status \in {"pending", "running"}
         /\ RunIsNewest(repo) <=> IsNewest
         /\ IsNewest => intents[TheRun.key].request = TheRun.request
<1>1. repo \in Scopes /\ running[repo] # NoRun /\ TheRun = running[repo]
  BY ProjectKeys DEF TheRun
<1>2. /\ TheRun \in Run /\ TheRun.key \in Keys /\ TheRun.request \in DOMAIN requests
      /\ intents \in [Keys -> Intent \cup {NoIntent}] /\ TheRun.key \in Steady
  BY <1>1, RunFacts, ProjectKeys
<1>3. RunInv(Turn, stored, {}, TheRun.key)
  BY <1>2 DEF IInv, TurnInv, KeyInv
<1>4. RunOf(Turn, {}, repo) = TheRun
  BY <1>1, TurnParts DEF RunOf
<1>5. /\ intents[TheRun.key].status \in {"pending", "running"}
      /\ \/ TheRun.version = intents[TheRun.key].version
              /\ TheRun.request = intents[TheRun.key].request
         \/ TheRun.version < intents[TheRun.key].version
  BY <1>1, <1>3, <1>4, TurnParts DEF RunInv
<1>6. intents[TheRun.key] # NoIntent /\ intents[TheRun.key] \in Intent
  BY <1>2, <1>5 DEF NoIntent
<1>7. TheRun.version \in Nat /\ intents[TheRun.key].version \in Nat
  BY <1>2, <1>6, IntentAssumption DEF Run, Intent, RequestIds
<1>8. RunIsNewest(repo) <=> IsNewest
  BY <1>1, <1>6 DEF RunIsNewest, IsNewest
<1>9. IsNewest => intents[TheRun.key].request = TheRun.request
  BY <1>5, <1>7 DEF IsNewest
<1> QED
  BY <1>1, <1>2, <1>5, <1>6, <1>8, <1>9
-----------------------------------------------------------------------------
(* Intents and snapshots of the list.                                      *)

(* Some confirmed intents of fields may be gone.                           *)
Clears(its, its2) ==
  \A k \in Keys :
    \/ its2[k] = its[k]
    \/ k \in Fields /\ its[k].status = "pendingConfirmation" /\ its2[k] = NoIntent

LEMMA ClearingClears ==
  ASSUME NEW its, Wished(its), NEW snap
  PROVE  Wished(ClearConfirmed(its, snap)) /\ Clears(its, ClearConfirmed(its, snap))
BY DEF Wished, Clears, ClearConfirmed

LEMMA ClearsTwice ==
  ASSUME NEW a, NEW b, NEW c, Clears(a, b), Clears(b, c)
  PROVE  Clears(a, c)
BY DEF Clears

(* An overlay shows every wish that is under way or awaits confirmation.   *)
Shows(its, snap) ==
  snap.shown => \A k \in Fields :
                  its[k].status \in Overlays => snap.value[k] = WishOf(its[k])

LEMMA OverlayShows ==
  ASSUME ProjectTypes, NEW its, Wished(its), NEW snap \in Snapshot
  PROVE  Overlay(its, snap) \in Snapshot /\ Shows(its, Overlay(its, snap))
<1> DEFINE over == {k \in Fields : snap.shown /\ its[k].status \in Overlays}
           value == [k \in Fields |-> IF k \in over THEN WishOf(its[k]) ELSE snap.value[k]]
           mark == [t \in Titles |-> IF t \in over THEN "pending" ELSE snap.mark[t]]
<1>1. ASSUME NEW k \in over PROVE WishOf(its[k]) \in Values
  <2>1. its[k] # NoIntent /\ k \in Keys
    BY ProjectKeys DEF Overlays, NoIntent
  <2> QED
    BY <2>1, WishTypes
<1>2. /\ snap.value \in [Fields -> Values] /\ snap.mark \in [Titles -> Marks]
      /\ snap.shown \in BOOLEAN
  BY DEF Snapshot
<1>3. value \in [Fields -> Values]
  BY <1>1, <1>2
<1>4. mark \in [Titles -> Marks]
  BY <1>2 DEF Marks
<1>5. Overlay(its, snap) = [value |-> value, mark |-> mark, shown |-> snap.shown]
  BY DEF Overlay
<1>6. \A k \in Fields : snap.shown /\ its[k].status \in Overlays => value[k] = WishOf(its[k])
  OBVIOUS
<1> HIDE DEF value, mark
<1>7. /\ Overlay(its, snap) \in Snapshot /\ Overlay(its, snap).value = value
      /\ Overlay(its, snap).shown = snap.shown
  BY <1>2, <1>3, <1>4, <1>5 DEF Snapshot
<1> QED
  BY <1>6, <1>7 DEF Shows

(* What a refresh can keep of a list: titles and their marks.              *)
KeepsTitles(before) ==
  before.mark \in [Titles -> Marks] /\ \A t \in Titles : before.value[t] \in Values

LEMMA SnapshotTypes ==
  /\ \A snap \in Snapshot : KeepsTitles(snap) /\ MarkedTitles(snap) \in Marked
  /\ \A before \in Marked : KeepsTitles(before)
  /\ \A values \in [Fields -> Values] : Listed(values) \in Snapshot
  /\ InitialList \in Snapshot /\ InitialList.value \in [Fields -> Values]
  /\ Missing \in Snapshot /\ NoDiscovery \in Discovery
<1>1. ASSUME NEW snap \in Snapshot
      PROVE  KeepsTitles(snap) /\ MarkedTitles(snap) \in Marked
  <2>1. snap.value \in [Fields -> Values] /\ snap.mark \in [Titles -> Marks]
    BY DEF Snapshot
  <2>2. [t \in Titles |-> IF snap.mark[t] = "none" THEN Original ELSE snap.value[t]]
          \in [Titles -> Values]
    BY <2>1, ProjectKeys, ProjectAssumption
  <2> QED
    BY <2>1, <2>2, ProjectKeys DEF KeepsTitles, MarkedTitles, Marked
<1>2. \A before \in Marked : KeepsTitles(before)
  BY DEF KeepsTitles, Marked
<1>3. AllUnmarked \in [Titles -> Marks]
  BY DEF AllUnmarked, Marks
<1>4. \A values \in [Fields -> Values] : Listed(values) \in Snapshot
  BY <1>3 DEF Listed, Snapshot
<1>5. [k \in Fields |-> Original] \in [Fields -> Values]
  BY ProjectAssumption
<1>6. InitialList \in Snapshot /\ InitialList.value = [k \in Fields |-> Original]
  BY <1>4, <1>5 DEF InitialList, Listed
<1>7. NoDiscovery \in Discovery
  BY <1>1, <1>6 DEF NoDiscovery, Discovery
<1>8. Missing \in Snapshot
  BY <1>6 DEF Missing, Snapshot
<1> QED
  BY <1>1, <1>2, <1>4, <1>5, <1>6, <1>7, <1>8

LEMMA PreserveTypes ==
  ASSUME NEW snap \in Snapshot, NEW before, KeepsTitles(before)
  PROVE  Preserve(snap, before) \in Snapshot
<1> DEFINE kept == {t \in Titles :
                      /\ snap.shown
                      /\ \/ before.mark[t] = "pending"
                         \/ before.mark[t] = "local" /\ snap.value[t] # before.value[t]}
           value == [k \in Fields |-> IF k \in kept THEN before.value[k] ELSE snap.value[k]]
           mark == [t \in Titles |-> IF t \in kept THEN before.mark[t] ELSE snap.mark[t]]
<1>1. /\ snap.value \in [Fields -> Values] /\ snap.mark \in [Titles -> Marks]
      /\ snap.shown \in BOOLEAN
  BY DEF Snapshot
<1>2. kept \subseteq Titles
  OBVIOUS
<1> HIDE DEF kept
<1>3. value \in [Fields -> Values]
  BY <1>1, <1>2 DEF KeepsTitles
<1>4. mark \in [Titles -> Marks]
  BY <1>1, <1>2 DEF KeepsTitles
<1>5. Preserve(snap, before) = [value |-> value, mark |-> mark, shown |-> snap.shown]
  BY DEF Preserve, kept
<1> HIDE DEF value, mark
<1> QED
  BY <1>1, <1>3, <1>4, <1>5 DEF Snapshot

LEMMA VisibleTypes ==
  ASSUME ProjectTypes, NEW its, Wished(its), NEW snap \in Snapshot,
         NEW before, KeepsTitles(before)
  PROVE  Visible(its, snap, before) \in Snapshot
<1> DEFINE cleared == ClearConfirmed(its, snap)
           kept == Preserve(snap, before)
<1>1. Wished(cleared) /\ kept \in Snapshot
  BY ClearingClears, PreserveTypes
<1> HIDE DEF cleared, kept
<1>2. Overlay(cleared, kept) \in Snapshot
  BY <1>1, OverlayShows
<1> QED
  BY <1>2 DEF Visible, cleared, kept

(* What is published shows the wishes of the intents that are left.        *)
Published ==
  /\ list' \in Snapshot /\ Shows(intents', list')
  /\ Clears(intents, intents') /\ Wished(intents')
  /\ UNCHANGED <<items, running, requests, stored>>

LEMMA PublishShows ==
  ASSUME ProjectTypes, NEW its, Wished(its), Clears(intents, its),
         NEW visible \in Snapshot, Publish(its, visible)
  PROVE  Published
<1> DEFINE cleared == ClearConfirmed(its, visible)
<1>1. /\ intents' = cleared /\ list' = Overlay(cleared, visible)
      /\ UNCHANGED <<items, running, requests, stored>>
  BY DEF Publish
<1>2. Wished(cleared) /\ Clears(its, cleared)
  BY ClearingClears
<1> HIDE DEF cleared
<1>3. Overlay(cleared, visible) \in Snapshot /\ Shows(cleared, Overlay(cleared, visible))
  BY <1>2, OverlayShows
<1>4. Clears(intents, cleared)
  BY <1>2, ClearsTwice
<1> QED
  BY <1>1, <1>2, <1>3, <1>4 DEF Published

LEMMA PublishListedShows ==
  ASSUME ProjectTypes, Wished(intents), NEW snap \in Snapshot,
         NEW before, KeepsTitles(before), PublishListed(snap, before)
  PROVE  Published /\ Visible(intents, snap, before) \in Snapshot
<1> DEFINE cleared == ClearConfirmed(intents, snap)
           visible == Visible(intents, snap, before)
<1>1. Wished(cleared) /\ Clears(intents, cleared) /\ visible \in Snapshot
  BY ClearingClears, VisibleTypes
<1>2. Publish(cleared, visible)
  BY DEF PublishListed
<1> HIDE DEF cleared, visible
<1>3. Published
  BY <1>1, <1>2, PublishShows
<1> QED
  BY <1>1, <1>3 DEF visible
-----------------------------------------------------------------------------
(* Steps.  Each is a step of the coordinator, or leaves it alone.          *)

LEMMA ClearsIsStep ==
  ASSUME Wished(intents), Clears(intents, intents'), Wished(intents'),
         UNCHANGED <<items, running, requests, stored>>
  PROVE  [Next]_vars
<1> DEFINE ks == {k \in Keys : intents'[k] # intents[k]}
<1>1. intents' \in [Keys -> Intent \cup {NoIntent}] /\ intents \in [Keys -> Intent \cup {NoIntent}]
  BY DEF Wished
<1>2. \A k \in ks : intents[k].status = "pendingConfirmation" /\ intents'[k] = NoIntent
  BY DEF Clears
<1>3. intents' = [k \in Keys |-> IF k \in ks THEN NoIntent ELSE intents[k]]
  BY <1>1, <1>2
<1>4. CASE ks = {}
  <2>1. intents' = intents
    BY <1>1, <1>4
  <2> QED
    BY <2>1 DEF vars
<1>5. CASE ks # {}
  <2>1. ks \in (SUBSET Keys) \ {{}}
    BY <1>5
  <2> HIDE DEF ks
  <2>2. ClearSettled(ks)
    BY <1>2, <1>3 DEF ClearSettled
  <2> QED
    BY <2>1, <2>2 DEF Next
<1> QED
  BY <1>4, <1>5

LEMMA RequestIsStep ==
  ASSUME NEW k \in Keys, RequestWrite(k, repo)
  PROVE  [Next]_vars
<1>1. <<k, repo>> \in Targets
  BY ProjectKeys
<1>2. PICK t \in Targets : t = <<k, repo>>
  BY <1>1
<1>3. t[1] = k /\ t[2] = repo
  BY <1>2
<1>4. RequestWrite(t[1], t[2])
  BY <1>3
<1> QED
  BY <1>4 DEF Next

LEMMA RunIsStep ==
  ASSUME \/ RunSucceeds(repo, NoFollowUp) \/ RunSucceeds(repo, <<sync, repo>>)
         \/ RunFails(repo)
  PROVE  [Next]_vars
<1>1. repo \in Scopes /\ <<sync, repo>> \in Targets
  BY ProjectKeys
<1>2. RunStep(repo)
  BY <1>1 DEF RunStep
<1> QED
  BY <1>1, <1>2 DEF Next

LEMMA InvIsKept ==
  ASSUME IInv, [Next]_vars
  PROVE  IInv'
BY StepKeeps

(* Of a field whose intent a turn has taken up, confirmed or cleared, the  *)
(* promises are kept if nothing else of it changes.                        *)
ShownField(k) ==
  list.shown /\ intents[k].status \in Overlays => list.value[k] = WishOf(intents[k])
WrittenField(k) ==
  intents[k].status = "pendingConfirmation" => writer[k] \in {intents[k].request, Somebody}
SyncOwed == owed => due \/ intents[sync].status \in {"pending", "running"}

LEMMA PromisesByField ==
  /\ WishIsShown <=> \A k \in Fields : ShownField(k)
  /\ ConfirmedWasWritten <=> \A k \in Fields : WrittenField(k)
  /\ SyncIsOnItsWay <=> SyncOwed
BY DEF WishIsShown, ShownField, ConfirmedWasWritten, WrittenField, SyncIsOnItsWay, SyncOwed

LEMMA FieldIsKept ==
  ASSUME ProjectInv, NEW k \in Fields,
         \/ intents'[k] = intents[k]
         \/ TakenUp(intents[k], intents'[k])
         \/ intents'[k] = NoIntent,
         \A n \in DOMAIN wishes : wishes'[n] = wishes[n],
         list'.value[k] = list.value[k], list'.shown = list.shown,
         writer'[k] \in {writer[k], Somebody}
  PROVE  ShownField(k)' /\ WrittenField(k)'
<1>1. ShownField(k) /\ WrittenField(k) /\ Wished(intents) /\ k \in Keys
  BY PromisesByField, IntentsAreWished, ProjectKeys DEF ProjectInv
<1>2. CASE intents'[k] = intents[k]
  <2>1. intents[k] # NoIntent => wishes'[intents[k].request] = wishes[intents[k].request]
    BY <1>1 DEF Wished
  <2>2. intents[k].status \in Overlays => intents[k] # NoIntent
    BY DEF Overlays, NoIntent
  <2>3. ShownField(k)'
    BY <1>1, <1>2, <2>1, <2>2 DEF ShownField, WishOf
  <2>4. WrittenField(k)'
    BY <1>1, <1>2 DEF WrittenField
  <2> QED
    BY <2>3, <2>4
<1>3. CASE TakenUp(intents[k], intents'[k])
  <2>1. wishes'[intents[k].request] = wishes[intents[k].request]
    BY <1>1, <1>3 DEF Wished, TakenUp
  <2>2. list.shown => list.value[k] = wishes[intents[k].request].value
    BY <1>1, <1>3 DEF ShownField, WishOf, TakenUp, Overlays
  <2>3. ShownField(k)'
    BY <1>3, <2>1, <2>2 DEF ShownField, WishOf, TakenUp
  <2>4. WrittenField(k)'
    BY <1>3 DEF WrittenField, TakenUp
  <2> QED
    BY <2>3, <2>4
<1>4. CASE intents'[k] = NoIntent
  BY <1>4 DEF ShownField, WrittenField, NoIntent, Overlays
<1> QED
  BY <1>2, <1>3, <1>4

LEMMA SyncIsKept ==
  ASSUME ProjectInv,
         \/ intents'[sync] = intents[sync]
         \/ TakenUp(intents[sync], intents'[sync]),
         owed' => owed, due => due'
  PROVE  SyncOwed'
<1>1. SyncOwed
  BY PromisesByField DEF ProjectInv
<1> QED
  BY <1>1 DEF SyncOwed, TakenUp

LEMMA PromisesAreKept ==
  ASSUME \A k \in Fields : ShownField(k)' /\ WrittenField(k)', SyncOwed'
  PROVE  WishIsShown' /\ ConfirmedWasWritten' /\ SyncIsOnItsWay'
BY DEF WishIsShown, ShownField, ConfirmedWasWritten, WrittenField, SyncIsOnItsWay, SyncOwed

(* A pull changes fields of the files, and owns what it changes.           *)
LEMMA PullTypes ==
  ASSUME ProjectTypes, Pull
  PROVE  /\ file' \in [Fields -> Values] /\ pulls' \in 0 .. MaxPulls
         /\ writer' \in [Fields -> Nobody .. Somebody]
         /\ \A k \in Fields : writer'[k] \in {writer[k], Somebody}
<1>1. /\ file \in [Fields -> Values] /\ pulls \in 0 .. MaxPulls
      /\ writer \in [Fields -> Nobody .. Somebody]
  BY DEF ProjectTypes
<1>2. Somebody \in Nobody .. Somebody /\ MaxPulls \in Nat
  BY IntentAssumption, ProjectAssumption DEF Somebody, Nobody
<1>3. CASE UNCHANGED <<file, writer, pulls>>
  BY <1>1, <1>3
<1>4. CASE /\ pulls < MaxPulls /\ pulls' = pulls + 1
           /\ \E k \in Fields : \E v \in Values \ {file[k]} :
                file' = [file EXCEPT ![k] = v] /\ writer' = [writer EXCEPT ![k] = Somebody]
  <2>1. PICK k \in Fields, v \in Values :
          file' = [file EXCEPT ![k] = v] /\ writer' = [writer EXCEPT ![k] = Somebody]
    BY <1>4
  <2>2. pulls' \in 0 .. MaxPulls
    BY <1>1, <1>2, <1>4
  <2>3. file' \in [Fields -> Values]
    BY <1>1, <2>1
  <2>4. writer' \in [Fields -> Nobody .. Somebody]
    BY <1>1, <1>2, <2>1
  <2>5. \A j \in Fields : writer'[j] \in {writer[j], Somebody}
    BY <1>1, <2>1
  <2> QED
    BY <2>2, <2>3, <2>4, <2>5
<1> QED
  BY <1>3, <1>4 DEF Pull
-----------------------------------------------------------------------------
(* Steps that leave the coordinator and the list alone.                    *)

LEMMA QuietKeeps ==
  ASSUME ProjectInv, UNCHANGED <<vars, wishes, due, list>>,
         ProjectTypes', StepOK', owed' => owed,
         \A k \in Fields : \/ writer'[k] \in {writer[k], Somebody}
                           \/ intents[k].status # "pendingConfirmation"
  PROVE  ProjectInv'
<1>1. UNCHANGED <<intents, items, running, requests, stored>> /\ [Next]_vars
  BY DEF vars
<1>2. IInv'
  BY <1>1, InvIsKept DEF ProjectInv
<1>3. ASSUME NEW k \in Fields PROVE ShownField(k)' /\ WrittenField(k)'
  <2>1. CASE writer'[k] \in {writer[k], Somebody}
    BY <1>1, <2>1, FieldIsKept
  <2>2. CASE intents[k].status # "pendingConfirmation"
    <3>1. ShownField(k)
      BY PromisesByField DEF ProjectInv
    <3>2. ShownField(k)'
      BY <1>1, <3>1 DEF ShownField, WishOf
    <3> QED
      BY <1>1, <2>2, <3>2 DEF WrittenField
  <2> QED
    BY <2>1, <2>2
<1>4. SyncOwed'
  BY <1>1, SyncIsKept
<1> QED
  BY <1>2, <1>3, <1>4, PromisesAreKept DEF ProjectInv
LEMMA RunStepsKeepQuiet ==
  ASSUME ProjectInv, WriteStarts \/ FileIsWritten \/ SyncPulls \/ SyncLists
  PROVE  ProjectInv' /\ [Next]_vars
<1>0. IInv /\ ProjectTypes /\ StepOK
  BY DEF ProjectInv
<1>1. CASE WriteStarts
  <2>1. /\ step = "queued" /\ step' = "writing"
        /\ UNCHANGED <<vars, wishes, due, files, list, listing, discovery, query, owed>>
    BY <1>1 DEF WriteStarts
  <2>2. ProjectTypes'
    BY <1>0, <2>1 DEF ProjectTypes, Steps, vars, files, query
  <2>3. StepOK'
    BY <1>0, <2>1 DEF StepOK, TheRun, WriteSteps, vars, files
  <2> QED
    BY <2>1, <2>2, <2>3, QuietKeeps DEF vars, files
<1>2. CASE FileIsWritten
  <2>1. /\ step = "writing" /\ step' = "written"
        /\ file' = [file EXCEPT ![TheRun.key] = TheWish.value]
        /\ writer' = [writer EXCEPT ![TheRun.key] = TheRun.request]
        /\ UNCHANGED <<vars, wishes, due, list, listing, discovery, query, pulls, owed>>
    BY <1>2 DEF FileIsWritten
  <2>2. TheRun # NoRun /\ TheRun.key \in Fields
    BY <1>0, <2>1 DEF StepOK, WriteSteps
  <2>3. /\ TheRun.request \in DOMAIN requests /\ TheRun \in Run
        /\ intents[TheRun.key].status \in {"pending", "running"}
    BY <1>0, <2>2, TheRunFacts
  <2>4. TheWish.value \in Values
    <3>1. DOMAIN requests = 1 .. Len(requests)
      <4>1. Turn \in MidTurn
        BY <1>0 DEF IInv, TurnInv, Refs
      <4> QED
        BY <4>1, MidTurnTypes, TurnParts
    <3>2. TheRun.request \in DOMAIN wishes
      BY <1>0, <2>3, <3>1, LenProperties DEF ProjectTypes
    <3>3. wishes[TheRun.request] \in WishValues
      BY <1>0, <3>2, ElementOfSeq, LenProperties DEF ProjectTypes
    <3> QED
      BY <3>3 DEF TheWish, WishValues
  <2>5. TheRun.request \in Nobody .. Somebody
    BY <2>3, IntentAssumption DEF Run, RequestIds, Nobody, Somebody
  <2>6. /\ file' \in [Fields -> Values] /\ writer' \in [Fields -> Nobody .. Somebody]
        /\ writer'[TheRun.key] = TheRun.request
        /\ \A k \in Fields : k # TheRun.key => writer'[k] = writer[k]
    BY <1>0, <2>1, <2>2, <2>4, <2>5 DEF ProjectTypes
  <2>7. ProjectTypes'
    BY <1>0, <2>1, <2>6 DEF ProjectTypes, Steps, vars, query
  <2>8. StepOK'
    BY <1>0, <2>1, <2>2, <2>6 DEF StepOK, TheRun, WriteSteps, vars
  <2>9. ASSUME NEW k \in Fields
        PROVE  \/ writer'[k] \in {writer[k], Somebody}
               \/ intents[k].status # "pendingConfirmation"
    BY <2>3, <2>6
  <2> QED
    BY <2>1, <2>7, <2>8, <2>9, QuietKeeps DEF vars
<1>3. CASE SyncPulls
  <2>1. /\ step = "syncing" /\ step' = "pulled" /\ Pull /\ owed' = FALSE
        /\ UNCHANGED <<vars, wishes, due, list, listing, discovery, query>>
    BY <1>3 DEF SyncPulls
  <2>2. /\ file' \in [Fields -> Values] /\ pulls' \in 0 .. MaxPulls
        /\ writer' \in [Fields -> Nobody .. Somebody]
        /\ \A k \in Fields : writer'[k] \in {writer[k], Somebody}
    BY <1>0, <2>1, PullTypes
  <2>3. ProjectTypes'
    BY <1>0, <2>1, <2>2 DEF ProjectTypes, Steps, vars, query
  <2>4. StepOK'
    BY <1>0, <2>1 DEF StepOK, TheRun, WriteSteps, vars
  <2> QED
    BY <2>1, <2>2, <2>3, <2>4, QuietKeeps DEF vars
<1>4. CASE SyncLists
  <2>1. /\ step = "pulled" /\ step' = "listed" /\ listing' = file
        /\ UNCHANGED <<vars, wishes, due, files, list, discovery, query, owed>>
    BY <1>4 DEF SyncLists
  <2>2. ProjectTypes'
    BY <1>0, <2>1 DEF ProjectTypes, Steps, vars, files, query
  <2>3. StepOK'
    BY <1>0, <2>1 DEF StepOK, TheRun, WriteSteps, vars, files
  <2> QED
    BY <2>1, <2>2, <2>3, QuietKeeps DEF vars, files
<1> QED
  BY <1>1, <1>2, <1>3, <1>4

LEMMA DiscoveriesKeepQuiet ==
  ASSUME ProjectInv,
         \/ DiscoveryStarts \/ DiscoveryLists \/ DiscoveryListFails
         \/ DiscoveryPulls \/ DiscoveryListsAgain
         \/ DiscoveryIsAborted \/ DiscoveryRestarts
  PROVE  ProjectInv' /\ [Next]_vars
<1>0. IInv /\ ProjectTypes /\ StepOK
  BY DEF ProjectInv
<1>1. /\ discovery \in Discovery /\ list \in Snapshot /\ file \in [Fields -> Values]
      /\ MarkedTitles(list) \in Marked /\ Listed(file) \in Snapshot
      /\ InitialList \in Snapshot /\ Missing \in Snapshot /\ NoDiscovery \in Discovery
  BY <1>0, SnapshotTypes DEF ProjectTypes
<1>2. CASE ~ DiscoveryPulls
  <2>1. /\ discovery' \in Discovery /\ notified' \in BOOLEAN
        /\ UNCHANGED <<vars, wishes, step, due, files, list, listing, cache, owed>>
    <3>1. CASE DiscoveryStarts
      <4>1. /\ discovery' = [discovery EXCEPT !.phase = "started", !.before = MarkedTitles(list)]
            /\ notified' = TRUE
            /\ UNCHANGED <<vars, wishes, step, due, files, list, listing, cache, owed>>
        BY <3>1 DEF DiscoveryStarts
      <4>2. PICK m \in Marked : m = MarkedTitles(list)
        BY <1>1
      <4>3. discovery' \in Discovery
        BY <1>1, <4>1, <4>2 DEF Discovery
      <4> QED
        BY <4>1, <4>3
    <3>2. CASE DiscoveryLists
      <4>1. /\ discovery' = [discovery EXCEPT !.phase = "listed", !.files = Listed(file)]
            /\ UNCHANGED <<vars, wishes, step, due, files, list, listing, query, owed>>
        BY <3>2 DEF DiscoveryLists
      <4>2. PICK snap \in Snapshot : snap = Listed(file)
        BY <1>1
      <4>3. discovery' \in Discovery
        BY <1>1, <4>1, <4>2 DEF Discovery
      <4> QED
        BY <1>0, <4>1, <4>3 DEF query, ProjectTypes
    <3>3. CASE DiscoveryListsAgain
      <4>1. /\ discovery' = [discovery EXCEPT !.phase = "relisted", !.files = Listed(file),
                               !.merged = InitialList]
            /\ UNCHANGED <<vars, wishes, step, due, files, list, listing, query, owed>>
        BY <3>3 DEF DiscoveryListsAgain
      <4>2. PICK snap \in Snapshot : snap = Listed(file)
        BY <1>1
      <4>3. PICK first \in Snapshot : first = InitialList
        BY <1>1
      <4>4. discovery' \in Discovery
        BY <1>1, <4>1, <4>2, <4>3 DEF Discovery
      <4> QED
        BY <1>0, <4>1, <4>4 DEF query, ProjectTypes
    <3>4. CASE DiscoveryIsAborted
      BY <1>0, <1>1, <3>4 DEF DiscoveryIsAborted, query, ProjectTypes
    <3>5. CASE DiscoveryListFails
      <4>1. /\ discovery' = [discovery EXCEPT !.phase = "shown", !.files = Missing,
                               !.merged = Missing]
            /\ UNCHANGED <<vars, wishes, step, due, files, list, listing, query, owed>>
        BY <3>5 DEF DiscoveryListFails
      <4>2. PICK snap \in Snapshot : snap = Missing
        BY <1>1
      <4>3. discovery' \in Discovery
        BY <1>1, <4>1, <4>2 DEF Discovery
      <4> QED
        BY <1>0, <4>1, <4>3 DEF query, ProjectTypes
    <3>6. CASE DiscoveryRestarts
      <4>1. /\ discovery' = [NoDiscovery EXCEPT !.phase = "started",
                               !.before = discovery.before]
            /\ notified' = TRUE
            /\ UNCHANGED <<vars, wishes, step, due, files, list, listing, cache, owed>>
        BY <3>6 DEF DiscoveryRestarts
      <4>2. PICK none \in Discovery : none = NoDiscovery
        BY <1>1
      <4>3. discovery' \in Discovery
        BY <1>1, <4>1, <4>2 DEF Discovery
      <4> QED
        BY <4>1, <4>3
    <3> QED
      BY <1>2, <3>1, <3>2, <3>3, <3>4, <3>5, <3>6
  <2>2. ProjectTypes'
    BY <1>0, <2>1 DEF ProjectTypes, vars, files
  <2>3. StepOK'
    BY <1>0, <2>1 DEF StepOK, TheRun, vars, files
  <2> QED
    BY <2>1, <2>2, <2>3, QuietKeeps DEF vars, files
<1>3. CASE DiscoveryPulls
  <2>1. /\ step \notin {"writing", "written"} /\ Pull
        /\ UNCHANGED <<vars, wishes, step, due, list, listing, discovery, query, owed>>
    BY <1>3 DEF DiscoveryPulls
  <2>2. /\ file' \in [Fields -> Values] /\ pulls' \in 0 .. MaxPulls
        /\ writer' \in [Fields -> Nobody .. Somebody]
        /\ \A k \in Fields : writer'[k] \in {writer[k], Somebody}
    BY <1>0, <2>1, PullTypes
  <2>3. ProjectTypes'
    BY <1>0, <2>1, <2>2 DEF ProjectTypes, vars, query
  <2>4. StepOK'
    BY <1>0, <2>1 DEF StepOK, TheRun, vars
  <2> QED
    BY <2>1, <2>2, <2>3, <2>4, QuietKeeps DEF vars
<1> QED
  BY <1>2, <1>3
-----------------------------------------------------------------------------
(* Steps that publish a snapshot, or replace the query's.                  *)

LEMMA ClearingKeepsInv ==
  ASSUME ProjectInv, Clears(intents, intents'), Wished(intents'),
         UNCHANGED <<items, running, requests, stored>>,
         UNCHANGED <<wishes, due, files, owed>>,
         ProjectTypes', StepOK',
         Shows(intents', list') \/ list' = list
  PROVE  ProjectInv' /\ [Next]_vars
<1>1. IInv /\ ProjectTypes /\ Wished(intents)
  BY IntentsAreWished DEF ProjectInv
<1>2. [Next]_vars
  BY <1>1, ClearsIsStep
<1>3. IInv'
  BY <1>1, <1>2, InvIsKept
<1>4. wishes' = wishes /\ writer' = writer /\ owed' = owed /\ due' = due
  BY DEF files
<1>5. ASSUME NEW k \in Fields PROVE ShownField(k)' /\ WrittenField(k)'
  <2>1. intents'[k] = intents[k] \/ intents'[k] = NoIntent
    BY ProjectKeys DEF Clears
  <2>2. WrittenField(k)'
    <3>1. WrittenField(k)
      BY PromisesByField DEF ProjectInv
    <3> QED
      BY <1>4, <2>1, <3>1 DEF WrittenField, NoIntent
  <2>3. CASE Shows(intents', list')
    BY <1>4, <2>2, <2>3 DEF Shows, ShownField, WishOf
  <2>4. CASE list' = list
    BY <1>4, <2>1, <2>4, FieldIsKept
  <2> QED
    BY <2>3, <2>4
<1>6. SyncOwed'
  <2>1. intents'[sync] = intents[sync]
    BY ProjectKeys DEF Clears
  <2> QED
    BY <1>4, <2>1, SyncIsKept
<1> QED
  BY <1>2, <1>3, <1>5, <1>6, PromisesAreKept DEF ProjectInv

LEMMA SyncPublishesKeeps ==
  ASSUME ProjectInv, SyncPublishes
  PROVE  ProjectInv' /\ [Next]_vars
<1>0. IInv /\ ProjectTypes /\ StepOK /\ Wished(intents)
  BY IntentsAreWished DEF ProjectInv
<1>1. /\ step = "listed" /\ step' = "published" /\ listing' = InitialList.value
      /\ notified' = TRUE /\ UNCHANGED <<wishes, due, files, discovery, owed>>
      /\ \E snap \in {Listed(listing), Missing} :
           PublishListed(snap, list) /\ cache' = Visible(intents, snap, list)
  BY DEF SyncPublishes
<1>2. /\ Listed(listing) \in Snapshot /\ Missing \in Snapshot
      /\ KeepsTitles(list) /\ InitialList.value \in [Fields -> Values]
  BY <1>0, SnapshotTypes DEF ProjectTypes
<1>3. PICK snap \in Snapshot :
        PublishListed(snap, list) /\ cache' = Visible(intents, snap, list)
  BY <1>1, <1>2
<1>4. Published /\ Visible(intents, snap, list) \in Snapshot
  <2>1. ASSUME NEW before, before = list
        PROVE  Published /\ Visible(intents, snap, before) \in Snapshot
    BY <1>0, <1>2, <1>3, <2>1, PublishListedShows
  <2> QED
    BY <2>1
<1>5. ProjectTypes'
  BY <1>0, <1>1, <1>2, <1>4, <1>3 DEF ProjectTypes, Published, Steps, files
<1>6. StepOK'
  BY <1>0, <1>1, <1>4 DEF StepOK, Published, TheRun, WriteSteps, files
<1> QED
  BY <1>1, <1>4, <1>5, <1>6, ClearingKeepsInv DEF Published

LEMMA ObserverAppliesKeeps ==
  ASSUME ProjectInv, ObserverApplies
  PROVE  ProjectInv' /\ [Next]_vars
<1>0. IInv /\ ProjectTypes /\ StepOK /\ Wished(intents) /\ cache \in Snapshot
  BY IntentsAreWished DEF ProjectInv, ProjectTypes
<1>1. /\ notified' = FALSE
      /\ \/ Publish(intents, cache)
         \/ UNCHANGED <<vars, list>>
      /\ UNCHANGED <<wishes, step, due, files, listing, discovery, cache, owed>>
  BY DEF ObserverApplies
<1>2. CASE Publish(intents, cache)
  <2>1. Clears(intents, intents)
    BY DEF Clears
  <2>2. Published
    BY <1>0, <1>2, <2>1, PublishShows
  <2>3. ProjectTypes'
    BY <1>0, <1>1, <2>2 DEF ProjectTypes, Published, files
  <2>4. StepOK'
    BY <1>0, <1>1, <2>2 DEF StepOK, Published, TheRun, files
  <2> QED
    BY <1>1, <2>2, <2>3, <2>4, ClearingKeepsInv DEF Published
<1>3. CASE UNCHANGED <<vars, list>>
  <2>1. ProjectTypes'
    BY <1>0, <1>1, <1>3 DEF ProjectTypes, vars, files
  <2>2. StepOK'
    BY <1>0, <1>1, <1>3 DEF StepOK, TheRun, vars, files
  <2> QED
    BY <1>1, <1>3, <2>1, <2>2, QuietKeeps DEF vars, files
<1> QED
  BY <1>1, <1>2, <1>3

LEMMA DiscoveryPublishingKeeps ==
  ASSUME ProjectInv, \/ DiscoveryPublishes \/ DiscoveryReportsProgress
                     \/ DiscoveryPublishesFiles
  PROVE  ProjectInv' /\ [Next]_vars
<1>0. IInv /\ ProjectTypes /\ StepOK /\ Wished(intents)
  BY IntentsAreWished DEF ProjectInv
<1>1. /\ discovery \in Discovery /\ discovery.files \in Snapshot
      /\ discovery.merged \in Snapshot /\ discovery.before \in Marked
      /\ KeepsTitles(discovery.before) /\ InitialList \in Snapshot
  BY <1>0, SnapshotTypes DEF ProjectTypes, Discovery
<1> DEFINE visible == Visible(intents, discovery.files, discovery.before)
<1>2. ASSUME PublishListed(discovery.files, discovery.before)
      PROVE  Published /\ visible \in Snapshot
  <2>1. ASSUME NEW snap \in Snapshot, NEW before, KeepsTitles(before),
               PublishListed(snap, before)
        PROVE  Published /\ Visible(intents, snap, before) \in Snapshot
    BY <1>0, <2>1, PublishListedShows
  <2> QED
    BY <1>1, <1>2, <2>1
<1> HIDE DEF visible
<1>3. Published /\ discovery' \in Discovery
      /\ UNCHANGED <<wishes, step, due, files, listing, query, owed>>
  <2>1. CASE DiscoveryPublishes
    <3>1. /\ PublishListed(discovery.files, discovery.before)
          /\ discovery' = [discovery EXCEPT !.phase = "shown", !.merged = visible,
                             !.files = IF discovery.phase = "listed" THEN visible
                                       ELSE discovery.files]
          /\ UNCHANGED <<wishes, step, due, files, listing, query, owed>>
      BY <2>1 DEF DiscoveryPublishes, visible
    <3>2. Published /\ visible \in Snapshot
      BY <1>2, <3>1
    <3>3. PICK a \in Snapshot, b \in Snapshot :
            a = visible /\ b = IF discovery.phase = "listed" THEN visible ELSE discovery.files
      BY <1>1, <3>2
    <3>4. discovery' = [discovery EXCEPT !.phase = "shown", !.merged = a, !.files = b]
      BY <3>1, <3>3
    <3>5. discovery' \in Discovery
      BY <1>1, <3>4 DEF Discovery
    <3> QED
      BY <3>1, <3>2, <3>5
  <2>2. CASE DiscoveryReportsProgress
    <3>1. /\ Publish(intents, discovery.merged)
          /\ UNCHANGED <<wishes, step, due, files, listing, discovery, query, owed>>
      BY <2>2 DEF DiscoveryReportsProgress
    <3>2. Clears(intents, intents)
      BY DEF Clears
    <3>3. Published
      BY <1>0, <1>1, <3>1, <3>2, PublishShows
    <3> QED
      BY <1>1, <3>1, <3>3
  <2>3. CASE DiscoveryPublishesFiles
    <3>1. /\ PublishListed(discovery.files, discovery.before)
          /\ discovery' = [discovery EXCEPT !.phase = "ending", !.files = InitialList,
                             !.merged = visible]
          /\ UNCHANGED <<wishes, step, due, files, listing, query, owed>>
      BY <2>3 DEF DiscoveryPublishesFiles, visible
    <3>2. Published /\ visible \in Snapshot
      BY <1>2, <3>1
    <3>3. PICK a \in Snapshot, b \in Snapshot : a = visible /\ b = InitialList
      BY <1>1, <3>2
    <3>4. discovery' = [discovery EXCEPT !.phase = "ending", !.files = b, !.merged = a]
      BY <3>1, <3>3
    <3>5. discovery' \in Discovery
      BY <1>1, <3>4 DEF Discovery
    <3> QED
      BY <3>1, <3>2, <3>5
  <2> QED
    BY <2>1, <2>2, <2>3
<1>4. ProjectTypes'
  BY <1>0, <1>3 DEF ProjectTypes, Published, files, query
<1>5. StepOK'
  BY <1>0, <1>3 DEF StepOK, Published, TheRun, files
<1> QED
  BY <1>3, <1>4, <1>5, ClearingKeepsInv DEF Published

LEMMA DiscoveryEndsKeeps ==
  ASSUME ProjectInv, DiscoveryEnds
  PROVE  ProjectInv' /\ [Next]_vars
<1>0. IInv /\ ProjectTypes /\ StepOK /\ Wished(intents)
  BY IntentsAreWished DEF ProjectInv
<1>1. discovery.merged \in Snapshot /\ NoDiscovery \in Discovery
  BY <1>0, SnapshotTypes DEF ProjectTypes, Discovery
<1> DEFINE cleared == ClearConfirmed(intents, discovery.merged)
<1>2. /\ discovery' = NoDiscovery /\ intents' = cleared
      /\ cache' = Overlay(intents', discovery.merged) /\ notified' = TRUE
      /\ UNCHANGED <<items, running, requests, stored, wishes, step, due, files,
                     list, listing, owed>>
  BY DEF DiscoveryEnds
<1>3. Wished(cleared) /\ Clears(intents, cleared)
  BY <1>0, ClearingClears
<1> HIDE DEF cleared
<1>4. Overlay(cleared, discovery.merged) \in Snapshot
  BY <1>0, <1>1, <1>3, OverlayShows
<1>5. /\ cache' \in Snapshot /\ Clears(intents, intents') /\ Wished(intents')
  BY <1>2, <1>3, <1>4
<1>6. ProjectTypes'
  BY <1>0, <1>1, <1>2, <1>5 DEF ProjectTypes, files
<1>7. StepOK'
  BY <1>0, <1>2 DEF StepOK, TheRun, files
<1> QED
  BY <1>2, <1>5, <1>6, <1>7, ClearingKeepsInv
-----------------------------------------------------------------------------
(* Requests.                                                               *)

LEMMA LoopRunTypes ==
  ASSUME IInv
  PROVE  TheRun \in Run \cup {NoRun} /\ (TheRun \in Run => TheRun # NoRun /\ TheRun.key \in Keys)
<1>1. Turn \in MidTurn /\ repo \in Scopes
  BY ProjectKeys DEF IInv, TurnInv, Refs
<1>2. running \in [Scopes -> Run \cup {NoRun}]
  BY <1>1, MidTurnTypes, TurnParts
<1>3. TheRun \in Run \cup {NoRun}
  BY <1>1, <1>2 DEF TheRun
<1> QED
  BY <1>3, RunValues

LEMMA NextLoopRun ==
  ASSUME IInv'
  PROVE  /\ TheRun' \in Run \cup {NoRun}
         /\ TheRun' \in Run => TheRun' # NoRun /\ TheRun'.key \in Keys
         /\ TheRun' = running'[repo]
<1>1. TurnInv(Turn', stored', {}) /\ repo \in Scopes
  BY ProjectKeys DEF IInv
<1>2. ASSUME NEW st, TurnInv(st, stored', {})
      PROVE  st.running \in [Scopes -> Run \cup {NoRun}]
  <2>1. st \in MidTurn
    BY <1>2 DEF TurnInv, Refs
  <2> QED
    BY <2>1, MidTurnTypes
<1>3. running' \in [Scopes -> Run \cup {NoRun}]
  <2>1. Turn'.running = running'
    BY DEF Turn
  <2> QED
    BY <1>1, <1>2, <2>1
<1>4. TheRun' = running'[repo] /\ TheRun' \in Run \cup {NoRun}
  BY <1>1, <1>3 DEF TheRun
<1> QED
  BY <1>4, RunValues

(* The first step of the run that the loop takes up.                       *)
LEMMA FirstStepOK ==
  ASSUME IInv', step' = FirstStep(running'[repo])
  PROVE  StepOK' /\ step' \in Steps
<1>1. /\ TheRun' \in Run \cup {NoRun} /\ TheRun' = running'[repo]
      /\ TheRun' \in Run => TheRun' # NoRun /\ TheRun'.key \in Keys
  BY NextLoopRun
<1>2. CASE TheRun' = NoRun
  <2>1. step' = "none"
    BY <1>1, <1>2 DEF FirstStep
  <2> QED
    BY <1>2, <2>1 DEF StepOK, Steps
<1>3. CASE TheRun' # NoRun
  <2>1. step' = IF TheRun'.key = sync THEN "syncing" ELSE "queued"
    BY <1>1, <1>3 DEF FirstStep
  <2>2. TheRun'.key \in Fields <=> TheRun'.key # sync
    BY <1>1, <1>3, ProjectKeys
  <2> QED
    BY <1>3, <2>1, <2>2 DEF StepOK, Steps, WriteSteps
<1> QED
  BY <1>2, <1>3

LEMMA StartsIfIdleOK ==
  ASSUME ProjectInv, IInv', StartsIfIdle, running[repo] # NoRun => running' = running,
         UNCHANGED <<writer, owed>>
  PROVE  StepOK' /\ step' \in Steps
<1>1. StepOK /\ step \in Steps
  BY DEF ProjectInv, ProjectTypes
<1>2. CASE running[repo] = NoRun
  BY <1>2, FirstStepOK DEF StartsIfIdle
<1>3. CASE running[repo] # NoRun
  <2>1. step' = step /\ running' = running
    BY <1>3 DEF StartsIfIdle
  <2> QED
    BY <1>1, <2>1 DEF StepOK, TheRun
<1> QED
  BY <1>2, <1>3

(* Another wish is behind the others.                                      *)
LEMMA AppendedWish ==
  ASSUME ProjectTypes, NEW w \in WishValues, wishes' = Append(wishes, w)
  PROVE  /\ wishes' \in Seq(WishValues) /\ Len(wishes') = Len(requests) + 1
         /\ wishes'[Len(requests) + 1] = w
         /\ \A n \in DOMAIN wishes : wishes'[n] = wishes[n]
BY AppendProperties, LenProperties DEF ProjectTypes

LEMMA NoWishTypes ==
  NoWish \in WishValues
BY ProjectAssumption DEF NoWish, WishValues

LEMMA RequestKeepsInv ==
  ASSUME ProjectInv, NEW k \in Fields, NEW v \in Values, Request(k, v)
  PROVE  ProjectInv' /\ [Next]_vars
<1>0. IInv /\ ProjectTypes /\ list \in Snapshot
  BY DEF ProjectInv, ProjectTypes
<1> DEFINE w == [value |-> v, before |-> IF k \in Metadata THEN list.value[k] ELSE v]
           value == [list.value EXCEPT ![k] = v]
           mark == [t \in Titles |-> IF t = k THEN "pending" ELSE list.mark[t]]
<1>1. /\ RequestWrite(k, repo) /\ wishes' = Append(wishes, w)
      /\ list' = [value |-> value, mark |-> mark, shown |-> TRUE]
      /\ list.shown /\ StartsIfIdle
      /\ UNCHANGED <<due, files, listing, discovery, query, owed>>
  BY DEF Request
<1>2. /\ list.value \in [Fields -> Values] /\ list.mark \in [Titles -> Marks]
  BY <1>0 DEF Snapshot
<1>3. /\ w \in WishValues /\ value \in [Fields -> Values] /\ value[k] = v
      /\ \A j \in Fields : j # k => value[j] = list.value[j]
  BY <1>2 DEF WishValues
<1>4. mark \in [Titles -> Marks]
  BY <1>2 DEF Marks
<1>5. k \in Keys /\ k \in Steady /\ repo \in Scopes /\ sync # k /\ sync \in Steady
  BY ProjectKeys
<1>6. [Next]_vars /\ IInv'
  BY <1>0, <1>1, <1>5, RequestIsStep, InvIsKept
<1>7. /\ AskedFor(intents, intents', k, Len(requests) + 1)
      /\ Len(requests') = Len(requests) + 1
      /\ running[repo] # NoRun => running' = running
  BY <1>0, <1>1, <1>5, RequestWriteAsks
<1>8. w.value = v
  OBVIOUS
<1> HIDE DEF w, value, mark
<1>9. /\ wishes' \in Seq(WishValues) /\ Len(wishes') = Len(requests) + 1
      /\ wishes'[Len(requests) + 1] = w
      /\ \A n \in DOMAIN wishes : wishes'[n] = wishes[n]
  BY <1>0, <1>1, <1>3, AppendedWish
<1>10. list' \in Snapshot /\ list'.value = value /\ list'.shown = list.shown
  BY <1>0, <1>1, <1>3, <1>4 DEF Snapshot
<1>11. writer' = writer /\ owed' = owed /\ due' = due
  BY <1>1 DEF files
<1>12. StepOK' /\ step' \in Steps
  BY <1>1, <1>6, <1>7, <1>11, StartsIfIdleOK
<1>13. ProjectTypes'
  BY <1>0, <1>1, <1>7, <1>9, <1>10, <1>12 DEF ProjectTypes, files, query
<1>14. ASSUME NEW j \in Fields PROVE ShownField(j)' /\ WrittenField(j)'
  <2>1. CASE j = k
    <3>1. intents'[k].request = Len(requests) + 1 /\ intents'[k].status \in {"pending", "running"}
      BY <1>7 DEF AskedFor
    <3>2. list'.value[k] = wishes'[intents'[k].request].value
      BY <1>3, <1>8, <1>9, <1>10, <3>1
    <3> QED
      BY <2>1, <3>1, <3>2 DEF ShownField, WishOf, WrittenField
  <2>2. CASE j # k
    <3>1. intents'[j] = intents[j] \/ TakenUp(intents[j], intents'[j])
      BY <1>7, <2>2, ProjectKeys DEF AskedFor, Advances
    <3>2. list'.value[j] = list.value[j]
      BY <1>3, <1>10, <2>2
    <3> QED
      BY <1>9, <1>10, <1>11, <3>1, <3>2, FieldIsKept
  <2> QED
    BY <2>1, <2>2
<1>15. SyncOwed'
  <2>1. intents'[sync] = intents[sync] \/ TakenUp(intents[sync], intents'[sync])
    BY <1>5, <1>7 DEF AskedFor, Advances
  <2> QED
    BY <1>11, <2>1, SyncIsKept
<1> QED
  BY <1>6, <1>12, <1>13, <1>14, <1>15, PromisesAreKept DEF ProjectInv

LEMMA TimerKeepsInv ==
  ASSUME ProjectInv, TimerFires
  PROVE  ProjectInv' /\ [Next]_vars
<1>0. IInv /\ ProjectTypes
  BY DEF ProjectInv
<1>1. /\ due' = FALSE /\ RequestWrite(sync, repo) /\ wishes' = Append(wishes, NoWish)
      /\ StartsIfIdle /\ UNCHANGED <<files, list, listing, discovery, query, owed>>
  BY DEF TimerFires
<1>2. sync \in Keys /\ sync \in Steady /\ repo \in Scopes
  BY ProjectKeys
<1>3. [Next]_vars /\ IInv'
  BY <1>0, <1>1, <1>2, RequestIsStep, InvIsKept
<1>4. /\ AskedFor(intents, intents', sync, Len(requests) + 1)
      /\ Len(requests') = Len(requests) + 1
      /\ running[repo] # NoRun => running' = running
  BY <1>0, <1>1, <1>2, RequestWriteAsks
<1>5. /\ wishes' \in Seq(WishValues) /\ Len(wishes') = Len(requests) + 1
      /\ \A n \in DOMAIN wishes : wishes'[n] = wishes[n]
  BY <1>0, <1>1, NoWishTypes, AppendedWish
<1>6. writer' = writer /\ owed' = owed
  BY <1>1 DEF files
<1>7. StepOK' /\ step' \in Steps
  BY <1>1, <1>3, <1>4, <1>6, StartsIfIdleOK
<1>8. ProjectTypes'
  BY <1>0, <1>1, <1>4, <1>5, <1>7 DEF ProjectTypes, files, query
<1>9. ASSUME NEW j \in Fields PROVE ShownField(j)' /\ WrittenField(j)'
  <2>1. intents'[j] = intents[j] \/ TakenUp(intents[j], intents'[j])
    BY <1>4, ProjectKeys DEF AskedFor, Advances
  <2> QED
    BY <1>1, <1>5, <1>6, <2>1, FieldIsKept
<1>10. SyncOwed'
  BY <1>4 DEF SyncOwed, AskedFor
<1> QED
  BY <1>3, <1>7, <1>8, <1>9, <1>10, PromisesAreKept DEF ProjectInv
-----------------------------------------------------------------------------
(* Ends of runs.                                                           *)

(* A run that ends without a word: fields keep what they have.             *)
LEMMA SilentEndKeeps ==
  ASSUME ProjectInv, IInv', NextRun, Len(requests') = Len(requests),
         UNCHANGED <<wishes, due, files, list, listing, discovery, query>>,
         \A k \in Fields : intents'[k] = intents[k] \/ TakenUp(intents[k], intents'[k]),
         owed' \in BOOLEAN, SyncOwed'
  PROVE  ProjectInv'
<1>1. ProjectTypes
  BY DEF ProjectInv
<1>2. StepOK' /\ step' \in Steps
  BY FirstStepOK DEF NextRun
<1>3. ProjectTypes'
  BY <1>1, <1>2 DEF ProjectTypes, files, query
<1>4. writer' = writer
  BY DEF files
<1>5. ASSUME NEW k \in Fields PROVE ShownField(k)' /\ WrittenField(k)'
  BY <1>4, FieldIsKept
<1> QED
  BY <1>2, <1>3, <1>5, PromisesAreKept DEF ProjectInv

LEMMA StaleWriteKeeps ==
  ASSUME ProjectInv, WriteIsSkipped \/ OlderSucceeds
  PROVE  ProjectInv' /\ [Next]_vars
<1>0. IInv /\ StepOK /\ ProjectTypes
  BY DEF ProjectInv
<1>1. /\ ~ IsNewest \/ ~ StillNewest
      /\ RunSucceeds(repo, NoFollowUp) /\ NextRun
      /\ UNCHANGED <<wishes, due, files, list, listing, discovery, query, owed>>
  BY DEF WriteIsSkipped, OlderSucceeds
<1>2. step \in {"queued", "written"}
  BY DEF WriteIsSkipped, OlderSucceeds
<1>3. TheRun # NoRun
  BY <1>0, <1>2 DEF StepOK
<1>4. /\ TheRun = running[repo] /\ TheRun.key \in Steady
      /\ intents[TheRun.key] # NoIntent /\ (RunIsNewest(repo) <=> IsNewest)
  BY <1>0, <1>3, TheRunFacts
<1>5. ~ RunIsNewest(repo)
  BY <1>1, <1>4 DEF StillNewest, IsNewest
<1>6. Advances(intents, intents', Steady) /\ Len(requests') = Len(requests)
  BY <1>0, <1>1, <1>4, <1>5, ProjectKeys, RunSucceedsEffect
<1>7. [Next]_vars /\ IInv'
  BY <1>0, <1>1, RunIsStep, InvIsKept
<1>8. SyncOwed'
  <2>1. intents'[sync] = intents[sync] \/ TakenUp(intents[sync], intents'[sync])
    BY <1>6, ProjectKeys DEF Advances
  <2> QED
    BY <1>1, <2>1, SyncIsKept
<1>9. \A k \in Fields : intents'[k] = intents[k] \/ TakenUp(intents[k], intents'[k])
  BY <1>6, ProjectKeys DEF Advances
<1>10. owed' \in BOOLEAN
  BY <1>0, <1>1 DEF ProjectTypes
<1> QED
  BY <1>1, <1>6, <1>7, <1>8, <1>9, <1>10, SilentEndKeeps

LEMMA SyncEndKeeps ==
  ASSUME ProjectInv, SyncEnds \/ SyncFails
  PROVE  ProjectInv' /\ [Next]_vars
<1>0. IInv /\ StepOK /\ ProjectTypes
  BY DEF ProjectInv
<1>1. /\ step \in {"syncing", "pulled", "published"} /\ NextRun
      /\ UNCHANGED <<wishes, due, files, list, listing, discovery, query>>
      /\ RunSucceeds(repo, NoFollowUp) \/ RunFails(repo)
  BY DEF SyncEnds, SyncFails
<1>2. TheRun # NoRun /\ TheRun.key \notin Fields
  BY <1>0, <1>1 DEF StepOK, WriteSteps
<1>3. /\ TheRun = running[repo] /\ TheRun.key \in Steady /\ TheRun.key \in Keys
      /\ (RunIsNewest(repo) <=> IsNewest)
  BY <1>0, <1>2, TheRunFacts
<1>4. TheRun.key = sync /\ repo \in Scopes
  BY <1>2, <1>3, ProjectKeys
<1>5. /\ Advances(intents, intents', Steady \ {sync}) /\ Len(requests') = Len(requests)
      /\ ~ IsNewest => Advances(intents, intents', Steady)
  <2>1. CASE RunSucceeds(repo, NoFollowUp)
    <3>1. /\ Len(requests') = Len(requests)
          /\ ~ RunIsNewest(repo) => Advances(intents, intents', Steady)
          /\ RunIsNewest(repo) => Advances(intents, intents', Steady \ {running[repo].key})
      BY <1>0, <1>3, <1>4, <2>1, RunSucceedsEffect
    <3> QED
      BY <1>3, <1>4, <3>1 DEF Advances
  <2>2. CASE RunFails(repo)
    <3>1. /\ Len(requests') = Len(requests)
          /\ ~ RunIsNewest(repo) => Advances(intents, intents', Steady)
          /\ RunIsNewest(repo) => Advances(intents, intents', Steady \ {running[repo].key})
      BY <1>0, <1>4, <2>2, RunFailsKeeps
    <3> QED
      BY <1>3, <1>4, <3>1 DEF Advances
  <2> QED
    BY <1>1, <2>1, <2>2
<1>6. [Next]_vars /\ IInv'
  BY <1>0, <1>1, RunIsStep, InvIsKept
<1>7. owed' \in BOOLEAN /\ (owed' => owed /\ ~ IsNewest)
  <2>1. CASE SyncEnds
    BY <1>0, <2>1 DEF SyncEnds, StepOK, ProjectTypes
  <2>2. CASE SyncFails
    BY <1>0, <2>2 DEF SyncFails, ProjectTypes
  <2> QED
    BY <2>1, <2>2
<1>8. SyncOwed'
  <2>1. CASE ~ owed'
    BY <2>1 DEF SyncOwed
  <2>2. CASE owed'
    <3>1. intents'[sync] = intents[sync] \/ TakenUp(intents[sync], intents'[sync])
      BY <1>5, <1>7, <2>2, ProjectKeys DEF Advances
    <3> QED
      BY <1>1, <1>7, <3>1, SyncIsKept
  <2> QED
    BY <2>1, <2>2
<1>9. \A k \in Fields : intents'[k] = intents[k] \/ TakenUp(intents[k], intents'[k])
  BY <1>5, ProjectKeys DEF Advances
<1> QED
  BY <1>1, <1>5, <1>6, <1>7, <1>8, <1>9, SilentEndKeeps

(* The newest write of a field was carried out: its intent awaits          *)
(* confirmation, of the request that the file has.                         *)
LEMMA ConfirmedField ==
  ASSUME ProjectInv, step = "written", IsNewest, NEW k \in Fields, k = TheRun.key,
         intents'[k] = ConfirmedIntent(repo), list'.shown => list'.value[k] = TheWish.value,
         \A n \in DOMAIN wishes : wishes'[n] = wishes[n], writer' = writer
  PROVE  ShownField(k)' /\ WrittenField(k)'
<1>1. /\ IInv /\ ProjectTypes /\ TheRun # NoRun /\ writer[k] = TheRun.request
  BY DEF ProjectInv, StepOK
<1>2. /\ TheRun = running[repo] /\ intents[k] \in Intent /\ intents[k] # NoIntent
      /\ intents[k].request = TheRun.request /\ k \in Keys
  BY <1>1, TheRunFacts
<1>3. intents'[k] = [intents[k] EXCEPT !.status = "pendingConfirmation"]
  BY <1>1, <1>2, ProjectKeys DEF ConfirmedIntent
<1>4. intents'[k].status = "pendingConfirmation" /\ intents'[k].request = TheRun.request
  BY <1>2, <1>3 DEF Intent
<1>5. wishes'[TheRun.request] = wishes[TheRun.request]
  <2>1. intents[k].request \in DOMAIN wishes
    BY <1>1, <1>2, IntentsAreWished DEF Wished
  <2> QED
    BY <1>2, <2>1
<1>6. ShownField(k)'
  BY <1>4, <1>5 DEF ShownField, WishOf, TheWish
<1>7. WrittenField(k)'
  BY <1>1, <1>4 DEF WrittenField
<1> QED
  BY <1>6, <1>7

LEMMA WishIsTyped ==
  ASSUME IInv, ProjectTypes, TheRun # NoRun
  PROVE  TheWish \in WishValues
<1>1. /\ TheRun.request \in DOMAIN requests /\ Turn \in MidTurn
  BY TheRunFacts DEF IInv, TurnInv, Refs
<1>2. DOMAIN requests = 1 .. Len(requests)
  BY <1>1, MidTurnTypes, TurnParts
<1>3. TheRun.request \in DOMAIN wishes
  BY <1>1, <1>2, LenProperties DEF ProjectTypes
<1> QED
  BY <1>3, ElementOfSeq, LenProperties DEF ProjectTypes, TheWish

LEMMA RenameKeeps ==
  ASSUME ProjectInv, RenameSucceeds
  PROVE  ProjectInv' /\ [Next]_vars
<1> DEFINE k == TheRun.key
           value == IF list.shown THEN [list.value EXCEPT ![k] = TheWish.value] ELSE list.value
           mark == IF list.shown THEN [list.mark EXCEPT ![k] = "local"] ELSE list.mark
<1>0. IInv /\ StepOK /\ ProjectTypes
  BY DEF ProjectInv
<1>1. /\ step = "written" /\ IsNewest /\ k \in Titles
      /\ RunSucceeds(repo, <<sync, repo>>) /\ wishes' = Append(wishes, NoWish)
      /\ list' = IF list.shown
                 THEN [list EXCEPT !.value[k] = TheWish.value, !.mark[k] = "local"]
                 ELSE list
      /\ due' = FALSE /\ owed' = TRUE /\ NextRun
      /\ UNCHANGED <<files, listing, discovery, query>>
  BY DEF RenameSucceeds
<1>2. TheRun # NoRun /\ k \in Fields /\ TheWish \in WishValues
  BY <1>0, <1>1, WishIsTyped DEF StepOK, WriteSteps
<1>3. /\ TheRun = running[repo] /\ k \in Steady /\ (RunIsNewest(repo) <=> IsNewest)
  BY <1>0, <1>2, TheRunFacts
<1>4. /\ sync \in Steady /\ sync # running[repo].key /\ repo \in Scopes
      /\ <<sync, repo>> \in Targets
  BY <1>2, <1>3, ProjectKeys
<1>5. /\ Len(requests') = Len(requests) + 1
      /\ Advances(intents, intents', Steady \ {k, sync})
      /\ intents'[k] = ConfirmedIntent(repo)
      /\ intents'[sync].status \in {"pending", "running"}
  BY <1>0, <1>1, <1>3, <1>4, RunAsksEffect
<1>6. [Next]_vars /\ IInv'
  BY <1>0, <1>1, RunIsStep, InvIsKept
<1>7. /\ list.value \in [Fields -> Values] /\ list.mark \in [Titles -> Marks]
      /\ list.shown \in BOOLEAN
      /\ list = [value |-> list.value, mark |-> list.mark, shown |-> list.shown]
  BY <1>0 DEF ProjectTypes, Snapshot
<1>8. TheWish.value \in Values
  BY <1>2 DEF WishValues
<1>9. /\ value \in [Fields -> Values] /\ (list.shown => value[k] = TheWish.value)
      /\ \A j \in Fields : j # k => value[j] = list.value[j]
  BY <1>2, <1>7, <1>8
<1>10. mark \in [Titles -> Marks]
  BY <1>7 DEF Marks
<1>11. list' = [value |-> value, mark |-> mark, shown |-> list.shown]
  BY <1>1, <1>7
<1> HIDE DEF value, mark
<1>12. list' \in Snapshot /\ list'.value = value /\ list'.shown = list.shown
  BY <1>7, <1>9, <1>10, <1>11 DEF Snapshot
<1>13. /\ wishes' \in Seq(WishValues) /\ Len(wishes') = Len(requests) + 1
       /\ \A n \in DOMAIN wishes : wishes'[n] = wishes[n]
  BY <1>0, <1>1, NoWishTypes, AppendedWish
<1>14. writer' = writer
  BY <1>1 DEF files
<1>15. StepOK' /\ step' \in Steps
  BY <1>1, <1>6, FirstStepOK DEF NextRun
<1>16. ProjectTypes'
  BY <1>0, <1>1, <1>5, <1>12, <1>13, <1>15 DEF ProjectTypes, files, query
<1>17. ASSUME NEW j \in Fields PROVE ShownField(j)' /\ WrittenField(j)'
  <2>1. CASE j = k
    BY <1>1, <1>5, <1>9, <1>12, <1>13, <1>14, <2>1, ConfirmedField
  <2>2. CASE j # k
    <3>1. intents'[j] = intents[j] \/ TakenUp(intents[j], intents'[j])
      BY <1>5, <2>2, ProjectKeys DEF Advances
    <3>2. list'.value[j] = list.value[j]
      BY <1>9, <1>12, <2>2
    <3> QED
      BY <1>12, <1>13, <1>14, <3>1, <3>2, FieldIsKept
  <2> QED
    BY <2>1, <2>2
<1>18. SyncOwed'
  BY <1>5 DEF SyncOwed
<1> QED
  BY <1>6, <1>15, <1>16, <1>17, <1>18, PromisesAreKept DEF ProjectInv

LEMMA MetadataKeeps ==
  ASSUME ProjectInv, MetadataSucceeds
  PROVE  ProjectInv' /\ [Next]_vars
<1> DEFINE k == TheRun.key
           value == IF list.shown THEN [list.value EXCEPT ![k] = TheWish.value] ELSE list.value
<1>0. IInv /\ StepOK /\ ProjectTypes
  BY DEF ProjectInv
<1>1. /\ step = "written" /\ IsNewest /\ RunSucceeds(repo, NoFollowUp)
      /\ list' = IF list.shown THEN [list EXCEPT !.value[k] = TheWish.value] ELSE list
      /\ due' = TRUE /\ owed' = TRUE /\ NextRun
      /\ UNCHANGED <<wishes, files, listing, discovery, query>>
  BY DEF MetadataSucceeds, DefersSync
<1>2. TheRun # NoRun /\ k \in Fields /\ TheWish \in WishValues
  BY <1>0, <1>1, WishIsTyped DEF StepOK, WriteSteps
<1>3. /\ TheRun = running[repo] /\ k \in Steady /\ (RunIsNewest(repo) <=> IsNewest)
  BY <1>0, <1>2, TheRunFacts
<1>4. /\ Len(requests') = Len(requests)
      /\ Advances(intents, intents', Steady \ {k})
      /\ intents'[k] = ConfirmedIntent(repo)
  BY <1>0, <1>1, <1>3, ProjectKeys, RunSucceedsEffect
<1>5. [Next]_vars /\ IInv'
  BY <1>0, <1>1, RunIsStep, InvIsKept
<1>6. /\ list.value \in [Fields -> Values] /\ list.mark \in [Titles -> Marks]
      /\ list.shown \in BOOLEAN
      /\ list = [value |-> list.value, mark |-> list.mark, shown |-> list.shown]
  BY <1>0 DEF ProjectTypes, Snapshot
<1>7. TheWish.value \in Values
  BY <1>2 DEF WishValues
<1>8. /\ value \in [Fields -> Values] /\ (list.shown => value[k] = TheWish.value)
      /\ \A j \in Fields : j # k => value[j] = list.value[j]
  BY <1>2, <1>6, <1>7
<1>9. list' = [value |-> value, mark |-> list.mark, shown |-> list.shown]
  BY <1>1, <1>6
<1> HIDE DEF value
<1>10. list' \in Snapshot /\ list'.value = value /\ list'.shown = list.shown
  BY <1>6, <1>8, <1>9 DEF Snapshot
<1>11. writer' = writer /\ wishes' = wishes
  BY <1>1 DEF files
<1>12. StepOK' /\ step' \in Steps
  BY <1>1, <1>5, FirstStepOK DEF NextRun
<1>13. ProjectTypes'
  BY <1>0, <1>1, <1>4, <1>10, <1>12 DEF ProjectTypes, files, query
<1>14. ASSUME NEW j \in Fields PROVE ShownField(j)' /\ WrittenField(j)'
  <2>1. CASE j = k
    BY <1>1, <1>4, <1>8, <1>10, <1>11, <2>1, ConfirmedField
  <2>2. CASE j # k
    <3>1. intents'[j] = intents[j] \/ TakenUp(intents[j], intents'[j])
      BY <1>4, <2>2, ProjectKeys DEF Advances
    <3>2. list'.value[j] = list.value[j]
      BY <1>8, <1>10, <2>2
    <3> QED
      BY <1>10, <1>11, <3>1, <3>2, FieldIsKept
  <2> QED
    BY <2>1, <2>2
<1>15. SyncOwed'
  BY <1>1 DEF SyncOwed
<1> QED
  BY <1>5, <1>12, <1>13, <1>14, <1>15, PromisesAreKept DEF ProjectInv

LEMMA WriteFailsKeeps ==
  ASSUME ProjectInv, WriteFails
  PROVE  ProjectInv' /\ [Next]_vars
<1> DEFINE k == TheRun.key
           value == IF IsNewest /\ k \in Metadata /\ list.shown
                    THEN [list.value EXCEPT ![k] = TheWish.before] ELSE list.value
<1>0. IInv /\ StepOK /\ ProjectTypes
  BY DEF ProjectInv
<1>1. /\ step = "writing" /\ RunFails(repo)
      /\ list' = IF IsNewest /\ k \in Metadata /\ list.shown
                 THEN [list EXCEPT !.value[k] = TheWish.before] ELSE list
      /\ NextRun /\ UNCHANGED <<wishes, due, files, listing, discovery, query, owed>>
  BY DEF WriteFails
<1>2. TheRun # NoRun /\ k \in Fields /\ TheWish \in WishValues
  BY <1>0, <1>1, WishIsTyped DEF StepOK, WriteSteps
<1>3. /\ TheRun = running[repo] /\ k \in Steady /\ (RunIsNewest(repo) <=> IsNewest)
      /\ intents[k] \in Intent /\ repo \in Scopes
  BY <1>0, <1>2, TheRunFacts, ProjectKeys
<1>4. /\ Len(requests') = Len(requests)
      /\ ~ IsNewest => Advances(intents, intents', Steady)
      /\ IsNewest => /\ Advances(intents, intents', Steady \ {k})
                     /\ intents'[k] = [intents[k] EXCEPT !.status = "failed"]
  BY <1>0, <1>1, <1>3, RunFailsKeeps
<1>5. [Next]_vars /\ IInv'
  BY <1>0, <1>1, RunIsStep, InvIsKept
<1>6. /\ list.value \in [Fields -> Values] /\ list.mark \in [Titles -> Marks]
      /\ list.shown \in BOOLEAN
      /\ list = [value |-> list.value, mark |-> list.mark, shown |-> list.shown]
  BY <1>0 DEF ProjectTypes, Snapshot
<1>7. TheWish.before \in Values
  BY <1>2 DEF WishValues
<1>8. /\ value \in [Fields -> Values] /\ (~ IsNewest => value = list.value)
      /\ \A j \in Fields : j # k => value[j] = list.value[j]
  BY <1>2, <1>6, <1>7
<1>9. list' = [value |-> value, mark |-> list.mark, shown |-> list.shown]
  BY <1>1, <1>6
<1> HIDE DEF value
<1>10. list' \in Snapshot /\ list'.value = value /\ list'.shown = list.shown
  BY <1>6, <1>8, <1>9 DEF Snapshot
<1>11. writer' = writer /\ wishes' = wishes
  BY <1>1 DEF files
<1>12. StepOK' /\ step' \in Steps
  BY <1>1, <1>5, FirstStepOK DEF NextRun
<1>13. ProjectTypes'
  BY <1>0, <1>1, <1>4, <1>10, <1>12 DEF ProjectTypes, files, query
<1>14. ASSUME NEW j \in Fields PROVE ShownField(j)' /\ WrittenField(j)'
  <2>1. CASE j = k /\ IsNewest
    <3>1. intents'[k].status = "failed"
      BY <1>3, <1>4, <2>1 DEF Intent
    <3> QED
      BY <2>1, <3>1 DEF ShownField, WrittenField, Overlays
  <2>2. CASE j # k \/ ~ IsNewest
    <3>1. intents'[j] = intents[j] \/ TakenUp(intents[j], intents'[j])
      BY <1>4, <2>2, ProjectKeys DEF Advances
    <3>2. list'.value[j] = list.value[j]
      BY <1>8, <1>10, <2>2
    <3> QED
      BY <1>10, <1>11, <3>1, <3>2, FieldIsKept
  <2> QED
    BY <2>1, <2>2
<1>15. SyncOwed'
  <2>1. intents'[sync] = intents[sync] \/ TakenUp(intents[sync], intents'[sync])
    BY <1>2, <1>4, ProjectKeys DEF Advances
  <2> QED
    BY <1>1, <2>1, SyncIsKept
<1> QED
  BY <1>5, <1>12, <1>13, <1>14, <1>15, PromisesAreKept DEF ProjectInv
-----------------------------------------------------------------------------
(* The theorems about the project.                                         *)

LEMMA ProjectInitHolds ==
  ASSUME ProjectInit
  PROVE  ProjectInv
<1>1. /\ Init /\ wishes = <<>> /\ step = "none" /\ due = FALSE /\ owed = FALSE
      /\ file = [k \in Fields |-> Original] /\ list = InitialList
      /\ listing = file /\ discovery = NoDiscovery
      /\ cache = InitialList /\ notified = FALSE
      /\ pulls = 0 /\ writer = [k \in Fields |-> Nobody]
  BY DEF ProjectInit
<1>2. /\ intents = [k \in Keys |-> NoIntent] /\ requests = <<>>
      /\ running = [s \in Scopes |-> NoRun]
  BY <1>1 DEF Init
<1>3. IInv
  BY <1>1, InitHolds
<1>4. ProjectTypes
  <2>1. wishes \in Seq(WishValues) /\ Len(wishes) = Len(requests)
    BY <1>1, <1>2
  <2>2. file \in [Fields -> Values]
    BY <1>1, ProjectAssumption
  <2>3. pulls \in 0 .. MaxPulls
    BY <1>1, ProjectAssumption
  <2>4. Nobody \in Nobody .. Somebody
    BY IntentAssumption DEF Nobody, Somebody
  <2>5. writer \in [Fields -> Nobody .. Somebody]
    BY <1>1, <2>4
  <2> QED
    BY <1>1, <2>1, <2>2, <2>3, <2>5, SnapshotTypes DEF ProjectTypes, Steps
<1>5. TheRun = NoRun
  BY <1>2, ProjectKeys DEF TheRun
<1>6. StepOK
  BY <1>1, <1>5 DEF StepOK
<1>7. \A k \in Fields : intents[k].status = "idle"
  BY <1>2, ProjectKeys DEF NoIntent
<1> QED
  BY <1>1, <1>3, <1>4, <1>6, <1>7
     DEF ProjectInv, WishIsShown, ConfirmedWasWritten, SyncIsOnItsWay, Overlays

LEMMA ProjectStepKeeps ==
  ASSUME ProjectInv, [ProjectNext]_projectVars
  PROVE  ProjectInv' /\ [Next]_vars
<1>1. ASSUME NEW k \in Fields, NEW v \in Values, Request(k, v)
      PROVE  ProjectInv' /\ [Next]_vars
  BY <1>1, RequestKeepsInv
<1>2. CASE TimerFires
  BY <1>2, TimerKeepsInv
<1>3. CASE RunGoesOn
  BY <1>3, RunStepsKeepQuiet, StaleWriteKeeps, RenameKeeps, MetadataKeeps,
     WriteFailsKeeps, SyncPublishesKeeps, SyncEndKeeps DEF RunGoesOn
<1>4. CASE ObserverApplies
  BY <1>4, ObserverAppliesKeeps
<1>5. CASE Discover
  BY <1>5, DiscoveriesKeepQuiet, DiscoveryPublishingKeeps, DiscoveryEndsKeeps
     DEF Discover
<1>6. CASE UNCHANGED projectVars
  <2>1. UNCHANGED <<vars, wishes, step, due, file, pulls, writer, list, listing,
                    discovery, cache, notified, owed>>
    BY <1>6 DEF projectVars, files, query
  <2>2. ProjectTypes'
    BY <2>1 DEF ProjectInv, ProjectTypes, vars
  <2>3. StepOK'
    BY <2>1 DEF ProjectInv, StepOK, TheRun, vars
  <2> QED
    BY <2>1, <2>2, <2>3, QuietKeeps DEF vars
<1> QED
  BY <1>1, <1>2, <1>3, <1>4, <1>5, <1>6 DEF ProjectNext

(* The invariant of the project holds however the user's requests, the     *)
(* steps of runs, the timer, other people's changes, the observer and the  *)
(* discoveries of the page overlap.                                        *)
THEOREM ProjectInvariant == ProjectSpec => []ProjectInv
<1>1. ProjectInit => ProjectInv
  BY ProjectInitHolds
<1>2. ProjectInv /\ [ProjectNext]_projectVars => ProjectInv'
  BY ProjectStepKeeps
<1> QED
  BY <1>1, <1>2, PTL DEF ProjectSpec

(* What the flows and refreshes of a project do with the intents is what   *)
(* the coordinator expects of its callers: it requests writes, ends runs,  *)
(* and only clears intents that are settled.                               *)
THEOREM ProjectIsACoordinator == ProjectSpec => Spec
<1>1. ProjectInit => Init
  BY DEF ProjectInit
<1>2. ProjectInv /\ [ProjectNext]_projectVars => [Next]_vars
  BY ProjectStepKeeps
<1> QED
  BY <1>1, <1>2, ProjectInvariant, PTL DEF ProjectSpec, Spec

(* Whatever refreshes do with what they listed before a write, and whatever *)
(* fails of an older wish, the list shows the newest wish for a field whose *)
(* intent has not failed.                                                   *)
THEOREM WishesAreShown == ProjectSpec => []WishIsShown
<1>1. ProjectInv => WishIsShown
  BY DEF ProjectInv
<1> QED
  BY <1>1, ProjectInvariant, PTL

(* A write that the repo queue skipped for a newer one is not taken for    *)
(* done: a confirmed field is in the file as wished, or someone else's.    *)
THEOREM ConfirmedIsWritten == ProjectSpec => []ConfirmedWasWritten
<1>1. ProjectInv => ConfirmedWasWritten
  BY DEF ProjectInv
<1> QED
  BY <1>1, ProjectInvariant, PTL

(* A wish that was carried out is followed by a sync: put off, requested,  *)
(* or one that has reconciled the repository since.                        *)
THEOREM SyncsFollow == ProjectSpec => []SyncIsOnItsWay
<1>1. ProjectInv => SyncIsOnItsWay
  BY DEF ProjectInv
<1> QED
  BY <1>1, ProjectInvariant, PTL
=============================================================================
