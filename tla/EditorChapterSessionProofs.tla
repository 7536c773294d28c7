---------------------- MODULE EditorChapterSessionProofs ----------------------
(***************************************************************************)
(* The chapter session for every set of chapters and changes, and any      *)
(* number of flows and syncs under way: TypeOK and NothingLingers are      *)
(* invariants, reloads keep drafts, a request for a reload is dropped only *)
(* by a load that has what it was made for, and a refresh brings what its  *)
(* sync found.                                                             *)
(*                                                                         *)
(* The operators of the module take the tasks and the session they change  *)
(* as arguments, and so do the parts of the invariant: each operator has a *)
(* lemma that it keeps them, and an action is a chain of operators.        *)
(***************************************************************************)
EXTENDS EditorChapterSession, TLAPS

LoadPcs == {"rows", "head", "apply"}

(* The awaits of each kind of task.                                        *)
PcsOf(kind) ==
  CASE kind = "sync" -> LoadPcs \cup {"queued", "pulled", "paint"}
    [] kind = "open" -> LoadPcs \cup {"ops"}
    [] kind = "refresh" -> LoadPcs \cup {"ops", "access", "others", "synced", "refreshed"}
    [] kind = "back" -> LoadPcs \cup {"access"}
    [] kind \in {"toProjects", "toGlossary"} -> {"save", "left"}
    [] OTHER -> {""}

Kinds == {"none", "sync", "open", "refresh", "back", "toProjects", "toGlossary"}
Pcs == LoadPcs \cup {"", "queued", "pulled", "paint", "ops", "access", "others", "synced",
                     "refreshed", "save", "left"}
MaybeChapter == Chapters \cup {NoChapter}
MaybeSync == Syncs \cup {NoSync}

Task ==
  [kind : Kinds, pc : Pcs, chapter : MaybeChapter, current : BOOLEAN, on : MaybeSync,
   preserve : BOOLEAN, prev : MaybeChapter, read : SUBSET Changes, at : Nat,
   found : SUBSET Changes, result : {"none", "load", "rest", "deferred"},
   sure : BOOLEAN, clean : BOOLEAN]
Editor ==
  [chapter : MaybeChapter, status : {"idle", "loading", "ready", "error"}, rows : BOOLEAN,
   known : SUBSET Changes, base : Nat, sound : BOOLEAN, draft : BOOLEAN]
Session == [chapter : MaybeChapter, pending : MaybeSync, reload : SUBSET Changes]

(* What slot t may hold.                                                   *)
Fits(t, r) ==
  /\ r.pc \in PcsOf(r.kind)
  /\ t \in Syncs => r.kind \in {"none", "sync"}
  /\ t \in Flows => r.kind # "sync"
  /\ r.current => r.kind = "sync"
  /\ r.preserve => r.prev = r.chapter

UnderWay(ts) == {s \in Syncs : ts[s].kind = "sync"}

(* What is awaited is under way.                                           *)
GoodTasks(ts) ==
  /\ ts \in [Slots -> Task]
  /\ \A t \in Slots : Fits(t, ts[t]) /\ ts[t].on \in UnderWay(ts) \cup {NoSync}

(* A task that may own the modal is one that will hide it.                 *)
Blocks(t, r) ==
  \/ t \in Flows /\ r.kind \in {"open", "toGlossary"}
  \/ t \in Syncs /\ r.kind = "sync" /\ r.pc \in LoadPcs \cup {"paint"}
ModalOK(ts, m) == m = NoSync \/ (m \in Slots /\ Blocks(m, ts[m]))

(* A sync that reloads for its session has read what the request is for.   *)
Brings(r, ses) ==
  r.current /\ r.clean =>
    /\ r.pc \in {"head", "apply"} /\ r.chapter = ses.chapter => ses.reload \subseteq r.read
    /\ r.pc = "paint" /\ r.result = "rest" => ses.reload \subseteq r.read

(* The request of a session is for changes that were pulled, and of two    *)
(* syncs of it neither is clean.                                           *)
RequestOK(ts, ses, pulled) ==
  /\ ses.reload \subseteq pulled \cap In(ses.chapter)
  /\ ses.chapter = NoChapter => ses.reload = {}
  /\ \A s \in Syncs : ts[s].pc = "pulled" => ts[s].found \subseteq pulled
  /\ \A s \in Syncs : Brings(ts[s], ses)
  /\ \A s, u \in Syncs : s # u /\ ts[s].current /\ ts[u].current => ~ ts[s].clean

(* Tasks, session and modal, with what was pulled.                         *)
OK(ts, ses, m, pulled) ==
  /\ GoodTasks(ts)
  /\ ses \in Session /\ ses.pending \in UnderWay(ts) \cup {NoSync}
  /\ ModalOK(ts, m)
  /\ RequestOK(ts, ses, pulled)
-----------------------------------------------------------------------------
LEMMA Pieces ==
  /\ NoTask \in Task /\ NoTask.kind = "none" /\ NoTask.pc = "" /\ NoTask.on = NoSync
  /\ ~ NoTask.current /\ ~ NoTask.preserve
  /\ QueuedSync \in Task /\ QueuedSync.kind = "sync" /\ QueuedSync.pc = "queued"
  /\ QueuedSync.on = NoSync /\ ~ QueuedSync.preserve
  /\ Flows \cap Syncs = {} /\ NoSync \notin Slots /\ Syncs \subseteq Slots /\ Flows \subseteq Slots
  BY SlotsAssumption
     DEF SlotsAssumption, NoTask, QueuedSync, Task, Kinds, Pcs, LoadPcs, MaybeChapter,
         MaybeSync, Slots

(* How a sync may change and leave the request of its session as true as   *)
(* it was.                                                                 *)
Calm(a, b) ==
  /\ b.current => a.current
  /\ b.current /\ b.clean => a.clean
  /\ b.pc = "pulled" => a.pc = "pulled" /\ b.found = a.found
  /\ \/ b.pc \notin {"head", "apply", "paint"}
     \/ b.pc = a.pc /\ b.chapter = a.chapter /\ b.read = a.read /\ b.result = a.result

LEMMA RequestKept ==
  ASSUME NEW ts, NEW ses, NEW pulled, RequestOK(ts, ses, pulled),
         NEW ts2, NEW ses2, ses2.chapter = ses.chapter, ses2.reload = ses.reload,
         \A s \in Syncs : Calm(ts[s], ts2[s])
  PROVE  RequestOK(ts2, ses2, pulled)
  BY DEF RequestOK, Calm, Brings

(* One task changes.                                                       *)
LEMMA SetOK ==
  ASSUME NEW ts, NEW ses, NEW m, NEW pulled, OK(ts, ses, m, pulled),
         NEW t \in Slots, NEW r \in Task, Fits(t, r),
         r.kind = "sync" <=> ts[t].kind = "sync",
         r.on \in UnderWay(ts) \cup {NoSync},
         m = t => Blocks(t, r), t \in Syncs => Calm(ts[t], r)
  PROVE  OK([ts EXCEPT ![t] = r], ses, m, pulled)
<1> DEFINE ts2 == [ts EXCEPT ![t] = r]
<1>1. ts \in [Slots -> Task] /\ GoodTasks(ts)
  BY DEF OK, GoodTasks
<1>2. /\ ts2 \in [Slots -> Task] /\ ts2[t] = r
      /\ \A u \in Slots : u # t => ts2[u] = ts[u]
  BY <1>1
<1> HIDE DEF ts2
<1>3. UnderWay(ts2) = UnderWay(ts)
  BY <1>2, Pieces DEF UnderWay
<1>4. GoodTasks(ts2)
  BY <1>1, <1>2, <1>3 DEF GoodTasks
<1>5. ModalOK(ts2, m)
  BY <1>2 DEF OK, ModalOK
<1>6. \A s \in Syncs : Calm(ts[s], ts2[s])
  BY <1>2, Pieces DEF Calm
<1>7. RequestOK(ts2, ses, pulled)
  BY <1>6, RequestKept DEF OK
<1> QED
  BY <1>3, <1>4, <1>5, <1>7 DEF OK, ts2

(* The modal is hidden.                                                    *)
LEMMA HiddenOK ==
  ASSUME NEW ts, NEW ses, NEW m, NEW pulled, OK(ts, ses, m, pulled)
  PROVE  OK(ts, ses, NoSync, pulled)
  BY DEF OK, ModalOK

(* All tasks change by what concerns neither slots nor awaits.             *)
Alike(a, b) ==
  /\ b.kind = a.kind /\ b.pc = a.pc /\ b.on = a.on /\ b.chapter = a.chapter
  /\ b.preserve = a.preserve /\ b.prev = a.prev /\ b.read = a.read /\ b.found = a.found
  /\ b.result = a.result /\ b.at = a.at /\ b.sure = a.sure
  /\ b.current => a.current
  /\ b.clean => a.clean

LEMMA AlikeOK ==
  ASSUME NEW ts, NEW ses, NEW m, NEW pulled, OK(ts, ses, m, pulled),
         NEW ts2 \in [Slots -> Task], \A t \in Slots : Alike(ts[t], ts2[t])
  PROVE  OK(ts2, ses, m, pulled)
<1>1. UnderWay(ts2) = UnderWay(ts)
  BY Pieces DEF UnderWay, Alike
<1>2. GoodTasks(ts2)
  BY <1>1 DEF OK, GoodTasks, Alike, Fits
<1>3. ModalOK(ts2, m)
  BY DEF OK, ModalOK, Alike, Blocks
<1>4. RequestOK(ts2, ses, pulled)
  <2>1. \A s \in Syncs : Calm(ts[s], ts2[s])
    BY Pieces DEF Alike, Calm
  <2> QED
    BY <2>1, RequestKept DEF OK
<1> QED
  BY <1>1, <1>2, <1>3, <1>4 DEF OK

LEMMA OutdatedFacts ==
  ASSUME NEW ts \in [Slots -> Task]
  PROVE  /\ Outdated(ts) \in [Slots -> Task]
         /\ \A t \in Slots : Alike(ts[t], Outdated(ts)[t]) /\ ~ Outdated(ts)[t].current
<1> DEFINE r(t) == [ts[t] EXCEPT !.current = FALSE]
<1>1. \A t \in Slots : Outdated(ts)[t] = r(t)
  BY DEF Outdated
<1>2. ASSUME NEW t \in Slots
      PROVE  r(t) \in Task /\ Alike(ts[t], r(t)) /\ ~ r(t).current
  <2>1. ts[t] \in Task
    OBVIOUS
  <2> QED
    BY <2>1 DEF Task, Alike
<1> HIDE DEF r
<1>3. Outdated(ts) = [t \in Slots |-> Outdated(ts)[t]]
  BY DEF Outdated
<1> QED
  BY <1>1, <1>2, <1>3

LEMMA Uncleaned ==
  ASSUME NEW a \in Task
  PROVE  /\ [a EXCEPT !.clean = FALSE] \in Task
         /\ Alike(a, [a EXCEPT !.clean = FALSE]) /\ Alike(a, a)
         /\ ~ [a EXCEPT !.clean = FALSE].clean
  BY DEF Task, Alike

LEMMA DoubtedFacts ==
  ASSUME NEW ts \in [Slots -> Task]
  PROVE  /\ Doubted(ts) \in [Slots -> Task]
         /\ \A t \in Slots : Alike(ts[t], Doubted(ts)[t])
         /\ \A t \in Slots : ts[t].kind = "sync" => ~ Doubted(ts)[t].clean
<1> DEFINE r(t) == IF ts[t].kind = "sync" THEN [ts[t] EXCEPT !.clean = FALSE] ELSE ts[t]
<1>1. \A t \in Slots : Doubted(ts)[t] = r(t)
  BY DEF Doubted
<1>2. ASSUME NEW t \in Slots
      PROVE  r(t) \in Task /\ Alike(ts[t], r(t)) /\ (ts[t].kind = "sync" => ~ r(t).clean)
  BY Uncleaned
<1> QED
  BY <1>1, <1>2 DEF Doubted

(* What a load that is applied does to the other flows.                    *)
OvertakenBy(t, f) ==
  f \in Flows \ {t} /\ tasks[f].on # t
    /\ ~(tasks[f].found \cap In(tasks[t].chapter) \subseteq tasks[t].read)

LEMMA OvertakenFacts ==
  ASSUME tasks \in [Slots -> Task], NEW t \in Slots
  PROVE  /\ Overtaken(t) \in [Slots -> Task]
         /\ \A f \in Slots : Alike(tasks[f], Overtaken(t)[f])
         /\ \A f \in Slots : OvertakenBy(t, f) => ~ Overtaken(t)[f].clean
<1> DEFINE r(f) == IF OvertakenBy(t, f) THEN [tasks[f] EXCEPT !.clean = FALSE] ELSE tasks[f]
<1>1. \A f \in Slots : Overtaken(t)[f] = r(f)
  BY DEF Overtaken, OvertakenBy
<1>2. ASSUME NEW f \in Slots
      PROVE  r(f) \in Task /\ Alike(tasks[f], r(f)) /\ (OvertakenBy(t, f) => ~ r(f).clean)
  BY Uncleaned
<1> QED
  BY <1>1, <1>2 DEF Overtaken

LEMMA OutdatedOK ==
  ASSUME NEW ts, NEW ses, NEW m, NEW pulled, OK(ts, ses, m, pulled)
  PROVE  OK(Outdated(ts), ses, m, pulled)
  BY OutdatedFacts, AlikeOK DEF OK, GoodTasks

LEMMA OvertakenOK ==
  ASSUME NEW ses, NEW m, NEW pulled, OK(tasks, ses, m, pulled), NEW t \in Slots
  PROVE  OK(Overtaken(t), ses, m, pulled)
<1>1. PICK ts : ts = tasks
  OBVIOUS
<1>2. OK(ts, ses, m, pulled) /\ tasks \in [Slots -> Task]
  BY <1>1 DEF OK, GoodTasks
<1>3. Overtaken(t) \in [Slots -> Task] /\ \A f \in Slots : Alike(ts[f], Overtaken(t)[f])
  BY <1>1, <1>2, OvertakenFacts
<1> QED
  BY <1>2, <1>3, AlikeOK
-----------------------------------------------------------------------------
(* A free slot takes a sync.                                               *)
LEMMA QueuedFacts ==
  ASSUME NEW ts, NEW ses, NEW m, NEW pulled, OK(ts, ses, m, pulled),
         NEW s \in Syncs, ts[s].kind = "none"
  PROVE  /\ [ts EXCEPT ![s] = QueuedSync] \in [Slots -> Task]
         /\ [ts EXCEPT ![s] = QueuedSync][s] = QueuedSync
         /\ \A t \in Slots : t # s => [ts EXCEPT ![s] = QueuedSync][t] = ts[t]
         /\ UnderWay([ts EXCEPT ![s] = QueuedSync]) = UnderWay(ts) \cup {s}
         /\ GoodTasks([ts EXCEPT ![s] = QueuedSync])
         /\ ModalOK([ts EXCEPT ![s] = QueuedSync], m)
         /\ ~ ts[s].current
<1> DEFINE ts2 == [ts EXCEPT ![s] = QueuedSync]
<1>1. ts \in [Slots -> Task] /\ GoodTasks(ts) /\ ModalOK(ts, m)
  BY DEF OK, GoodTasks
<1>2. /\ ts2 \in [Slots -> Task] /\ ts2[s] = QueuedSync
      /\ \A u \in Slots : u # s => ts2[u] = ts[u]
  BY <1>1, Pieces
<1> HIDE DEF ts2
<1>3. UnderWay(ts2) = UnderWay(ts) \cup {s}
  BY <1>2, Pieces DEF UnderWay
<1>4. Fits(s, QueuedSync)
  BY Pieces DEF Fits, PcsOf
<1>5. GoodTasks(ts2)
  BY <1>1, <1>2, <1>3, <1>4, Pieces DEF GoodTasks
<1>6. ModalOK(ts2, m)
  <2>1. m # s \/ m = NoSync
    BY <1>1, Pieces DEF ModalOK, Blocks
  <2> QED
    BY <1>1, <1>2, <2>1 DEF ModalOK
<1>7. ~ ts[s].current
  BY <1>1, Pieces DEF GoodTasks, Fits
<1> QED
  BY <1>2, <1>3, <1>5, <1>6, <1>7 DEF ts2

(* With no other sync that is current, or with all syncs in doubt, the     *)
(* queued sync leaves the request as it was.                               *)
LEMMA BeginOK ==
  ASSUME NEW ts, NEW ses, NEW m, NEW pulled, OK(ts, ses, m, pulled),
         NEW s \in Syncs, ts[s].kind = "none"
  PROVE  OK(BeginSync(s, ts), [ses EXCEPT !.pending = s], m, pulled)
<1> DEFINE begun == [ts EXCEPT ![s] = QueuedSync]
           ses2 == [ses EXCEPT !.pending = s]
<1>1. /\ begun \in [Slots -> Task] /\ begun[s] = QueuedSync
      /\ \A t \in Slots : t # s => begun[t] = ts[t]
      /\ UnderWay(begun) = UnderWay(ts) \cup {s}
      /\ GoodTasks(begun) /\ ModalOK(begun, m) /\ ~ ts[s].current
  BY QueuedFacts
<1>2. ses \in Session /\ RequestOK(ts, ses, pulled)
  BY DEF OK
<1>3. /\ ses2 \in Session /\ ses2.pending = s
      /\ ses2.chapter = ses.chapter /\ ses2.reload = ses.reload
  BY <1>2 DEF Session, MaybeSync
<1> HIDE DEF begun, ses2
<1>4. s \in UnderWay(begun)
  BY <1>1
<1>5. CASE \E u \in Syncs : ts[u].current
  <2> DEFINE all == Doubted(begun)
  <2>1. /\ all \in [Slots -> Task]
        /\ \A t \in Slots : Alike(begun[t], all[t])
        /\ \A t \in Slots : begun[t].kind = "sync" => ~ all[t].clean
    BY <1>1, DoubtedFacts
  <2> HIDE DEF all
  <2>2. UnderWay(all) = UnderWay(begun)
    BY <2>1, Pieces DEF UnderWay, Alike
  <2>3. GoodTasks(all)
    BY <1>1, <2>1, <2>2 DEF GoodTasks, Alike, Fits
  <2>4. ModalOK(all, m)
    BY <1>1, <2>1 DEF ModalOK, Blocks, Alike
  <2>5. \A u \in Syncs : all[u].current => ~ all[u].clean
    BY <1>1, <2>1, Pieces DEF GoodTasks, Fits, Alike
  <2>6. \A u \in Syncs : all[u].pc = "pulled" => all[u].found \subseteq pulled
    <3>1. \A u \in Syncs : begun[u].pc = "pulled" => begun[u].found \subseteq pulled
      BY <1>1, <1>2, Pieces DEF RequestOK
    <3>2. \A u \in Syncs : all[u].pc = begun[u].pc /\ all[u].found = begun[u].found
      BY <2>1, Pieces DEF Alike
    <3> QED
      BY <3>1, <3>2
  <2>7. RequestOK(all, ses2, pulled)
    BY <1>2, <1>3, <2>5, <2>6 DEF RequestOK, Brings
  <2>8. OK(all, ses2, m, pulled)
    BY <1>3, <1>4, <2>2, <2>3, <2>4, <2>7 DEF OK
  <2> QED
    BY <1>5, <2>8 DEF BeginSync, all, begun, ses2
<1>6. CASE ~ \E u \in Syncs : ts[u].current
  <2>1. \A u \in Syncs : u # s => ~ begun[u].current
    BY <1>1, <1>6, Pieces
  <2>2. \A u \in Syncs : begun[u].pc = "pulled" => begun[u].found \subseteq pulled
    BY <1>1, <1>2, Pieces DEF RequestOK
  <2>3. \A u \in Syncs : Brings(begun[u], ses2)
    BY <1>1, <2>1, Pieces DEF Brings
  <2>4. RequestOK(begun, ses2, pulled)
    BY <1>2, <1>3, <2>1, <2>2, <2>3 DEF RequestOK
  <2>5. OK(begun, ses2, m, pulled)
    BY <1>1, <1>3, <1>4, <2>4 DEF OK
  <2> QED
    BY <1>6, <2>5 DEF BeginSync, begun, ses2
<1> QED
  BY <1>5, <1>6

(* A new session asks for nothing, and no sync is of it yet.               *)
LEMMA FreshOK ==
  ASSUME NEW ts, NEW ses, NEW m, NEW pulled, OK(ts, ses, m, pulled), NEW key \in MaybeChapter
  PROVE  OK(Outdated(ts), [Stopped EXCEPT !.chapter = key], m, pulled)
<1>1. OK(Outdated(ts), ses, m, pulled)
  BY OutdatedOK
<1>2. \A t \in Slots : ~ Outdated(ts)[t].current
  BY OutdatedFacts DEF OK, GoodTasks
<1> DEFINE ses2 == [Stopped EXCEPT !.chapter = key]
<1>3. ses2 \in Session /\ ses2.pending = NoSync /\ ses2.reload = {}
  BY DEF Stopped, Session, MaybeSync
<1> HIDE DEF ses2
<1>4. RequestOK(Outdated(ts), ses2, pulled)
  BY <1>1, <1>2, <1>3, Pieces DEF OK, RequestOK, Brings
<1> QED
  BY <1>1, <1>3, <1>4 DEF OK, ses2

(* Nor is one that the session begins with in doubt.                       *)
LEMMA FreshBeginOK ==
  ASSUME NEW ts, NEW ses, NEW m, NEW pulled, OK(ts, ses, m, pulled), NEW key \in MaybeChapter,
         NEW s \in Syncs, ts[s].kind = "none"
  PROVE  OK([Outdated(ts) EXCEPT ![s] = QueuedSync],
            [[Stopped EXCEPT !.chapter = key] EXCEPT !.pending = s], m, pulled)
<1> DEFINE old == Outdated(ts)
           ses1 == [Stopped EXCEPT !.chapter = key]
<1>1. OK(old, ses1, m, pulled)
  BY FreshOK
<1>2. old[s].kind = "none" /\ \A u \in Syncs : ~ old[u].current
  BY OutdatedFacts, Pieces DEF OK, GoodTasks, Alike
<1> HIDE DEF old, ses1
<1>3. OK(BeginSync(s, old), [ses1 EXCEPT !.pending = s], m, pulled)
  BY <1>1, <1>2, BeginOK
<1>4. BeginSync(s, old) = [old EXCEPT ![s] = QueuedSync]
  BY <1>2 DEF BeginSync
<1> QED
  BY <1>3, <1>4 DEF old, ses1
-----------------------------------------------------------------------------
(* The tasks after the end of sync s.                                      *)
Woken(s, result, r) ==
  IF r.on # s THEN r
  ELSE IF r.pc # "synced" THEN [r EXCEPT !.on = NoSync]
  ELSE [r EXCEPT !.on = NoSync, !.result = result,
                 !.found = IF result \in {"none", "deferred"} THEN {} ELSE @]

WithoutSync(s, result, ts) == [t \in Slots |-> IF t = s THEN NoTask ELSE Woken(s, result, ts[t])]

LEMMA EndSyncIs ==
  ASSUME NEW s, NEW result, NEW ses, NEW ts, EndSync(s, result, ses, ts)
  PROVE  tasks' = WithoutSync(s, result, ts) /\ session' = [ses EXCEPT !.pending = NoSync]
  BY DEF EndSync, WithoutSync, Woken

Results == {"none", "load", "rest", "deferred"}

LEMMA WokenFacts ==
  ASSUME NEW s \in Syncs, NEW result \in Results, NEW r \in Task
  PROVE  /\ Woken(s, result, r) \in Task
         /\ Woken(s, result, r).on = IF r.on = s THEN NoSync ELSE r.on
         /\ \A t : Fits(t, r) => Fits(t, Woken(s, result, r))
         /\ \A t : Blocks(t, r) => Blocks(t, Woken(s, result, r))
         /\ Woken(s, result, r).kind = r.kind
         /\ r.pc # "synced" => Calm(r, Woken(s, result, r))
<1>1. CASE r.on # s
  BY <1>1 DEF Woken, Calm
<1>2. CASE r.on = s /\ r.pc # "synced"
  BY <1>2 DEF Woken, Calm, Task, Fits, Blocks, MaybeSync
<1>3. CASE r.on = s /\ r.pc = "synced"
  BY <1>3 DEF Woken, Task, Fits, Blocks, MaybeSync, Results
<1> QED
  BY <1>1, <1>2, <1>3

LEMMA EndSyncOK ==
  ASSUME NEW ts, NEW ses, NEW m, NEW pulled, OK(ts, ses, m, pulled),
         NEW s \in Syncs, NEW result \in Results, m # s
  PROVE  OK(WithoutSync(s, result, ts), [ses EXCEPT !.pending = NoSync], m, pulled)
<1> DEFINE ts2 == WithoutSync(s, result, ts)
           ses2 == [ses EXCEPT !.pending = NoSync]
<1>1. ts \in [Slots -> Task] /\ GoodTasks(ts) /\ ModalOK(ts, m) /\ ses \in Session
      /\ RequestOK(ts, ses, pulled)
  BY DEF OK, GoodTasks
<1>2. /\ ts2[s] = NoTask
      /\ \A t \in Slots : t # s => ts2[t] = Woken(s, result, ts[t])
  BY Pieces DEF WithoutSync
<1>3. ts2 \in [Slots -> Task]
  BY <1>1, WokenFacts, Pieces DEF WithoutSync
<1>4. /\ ses2 \in Session /\ ses2.pending = NoSync
      /\ ses2.chapter = ses.chapter /\ ses2.reload = ses.reload
  BY <1>1 DEF Session, MaybeSync
<1> HIDE DEF ts2, ses2
<1>5. \A t \in Slots : t # s => ts2[t].kind = ts[t].kind
  BY <1>1, <1>2, WokenFacts
<1>6. UnderWay(ts2) = UnderWay(ts) \ {s}
  BY <1>2, <1>5, Pieces DEF UnderWay
<1>7. ASSUME NEW t \in Slots
      PROVE  Fits(t, ts2[t]) /\ ts2[t].on \in UnderWay(ts2) \cup {NoSync}
  <2>1. CASE t = s
    BY <1>2, <2>1, Pieces DEF Fits, PcsOf
  <2>2. CASE t # s
    <3>1. ts[t] \in Task /\ Fits(t, ts[t]) /\ ts[t].on \in UnderWay(ts) \cup {NoSync}
      BY <1>1 DEF GoodTasks
    <3> QED
      BY <1>2, <1>6, <2>2, <3>1, WokenFacts
  <2> QED
    BY <2>1, <2>2
<1>8. GoodTasks(ts2)
  BY <1>3, <1>7 DEF GoodTasks
<1>9. ModalOK(ts2, m)
  BY <1>1, <1>2, WokenFacts DEF ModalOK
<1>10. ASSUME NEW t \in Syncs
       PROVE  Calm(ts[t], ts2[t])
  <2>1. CASE t = s
    BY <1>2, <2>1, Pieces DEF Calm
  <2>2. CASE t # s
    <3>1. t \in Slots /\ ts[t] \in Task /\ ts[t].pc # "synced"
      BY <1>1, Pieces DEF GoodTasks, Fits, PcsOf, LoadPcs
    <3>2. Calm(ts[t], Woken(s, result, ts[t]))
      BY <3>1, WokenFacts
    <3> QED
      BY <1>2, <2>2, <3>1, <3>2
  <2> QED
    BY <2>1, <2>2
<1>11. RequestOK(ts2, ses2, pulled)
  BY <1>1, <1>4, <1>10, RequestKept
<1> QED
  BY <1>4, <1>8, <1>9, <1>11 DEF OK, ts2, ses2
-----------------------------------------------------------------------------
(* The operators that change the session.                                  *)

(* The request of a session that goes on is not dropped.                   *)
KeepsRequest == session'.chapter = session.chapter => session.reload \subseteq session'.reload

LEMMA ModalShownOK ==
  ASSUME NEW ts, NEW ses, NEW m, NEW pulled, OK(ts, ses, m, pulled),
         NEW t \in Slots, Blocks(t, ts[t])
  PROVE  OK(ts, ses, t, pulled)
  BY DEF OK, ModalOK

LEMMA BeginFacts ==
  ASSUME NEW ts \in [Slots -> Task], NEW s \in Syncs
  PROVE  /\ BeginSync(s, ts) \in [Slots -> Task]
         /\ BeginSync(s, ts)[s].kind = "sync"
         /\ \A t \in Slots : t # s => Alike(ts[t], BeginSync(s, ts)[t])
<1> DEFINE begun == [ts EXCEPT ![s] = QueuedSync]
<1>1. /\ begun \in [Slots -> Task] /\ begun[s] = QueuedSync
      /\ \A u \in Slots : u # s => begun[u] = ts[u]
  BY Pieces
<1> HIDE DEF begun
<1>2. /\ Doubted(begun) \in [Slots -> Task]
      /\ \A t \in Slots : Alike(begun[t], Doubted(begun)[t])
  BY <1>1, DoubtedFacts
<1>3. BeginSync(s, ts) \in {begun, Doubted(begun)}
  BY DEF BeginSync, begun
<1>4. begun[s].kind = "sync" /\ Doubted(begun)[s].kind = "sync"
  BY <1>1, <1>2, Pieces DEF Alike
<1>5. \A t \in Slots : Alike(begun[t], begun[t])
  BY DEF Alike
<1> QED
  BY <1>1, <1>2, <1>3, <1>4, <1>5

LEMMA StartOK ==
  ASSUME NEW e, NEW scr, NEW initial, NEW ts, NEW m, NEW pulled,
         OK(ts, session, m, pulled), Key(e, scr) \in MaybeChapter,
         StartSession(e, scr, initial, ts)
  PROVE  /\ OK(tasks', session', m, pulled)
         /\ session'.chapter \in {session.chapter, Key(e, scr)}
         /\ KeepsRequest
         /\ \A t \in Slots \ Syncs : tasks'[t].pc = ts[t].pc
<1> DEFINE key == Key(e, scr)
           fresh == [Stopped EXCEPT !.chapter = key]
<1>1. ts \in [Slots -> Task] /\ (session.chapter = NoChapter => session.reload = {})
  BY DEF OK, GoodTasks, RequestOK
<1>2. fresh.chapter = key /\ [fresh EXCEPT !.pending = NoSync].chapter = key
  BY DEF Stopped
<1>3. \A t \in Slots : Outdated(ts)[t].pc = ts[t].pc
  BY <1>1, OutdatedFacts DEF Alike
<1>4. Outdated(ts) \in [Slots -> Task]
  BY <1>1, OutdatedFacts
<1>5. CASE key # NoChapter /\ session.chapter = key
  BY <1>5 DEF StartSession, KeepsRequest
<1>6. CASE /\ ~ (key # NoChapter /\ session.chapter = key)
           /\ key # NoChapter /\ initial /\ ~e.draft
  <2>1. PICK s \in Free(ts, Syncs) :
               /\ session' = [fresh EXCEPT !.pending = s]
               /\ tasks' = [Outdated(ts) EXCEPT ![s] = QueuedSync]
    BY <1>6 DEF StartSession
  <2>2. s \in Syncs /\ ts[s].kind = "none"
    BY DEF Free
  <2>3. OK(tasks', session', m, pulled)
    BY <2>1, <2>2, FreshBeginOK
  <2>4. session'.chapter = key
    BY <2>1, <1>2 DEF Stopped
  <2>5. \A t \in Slots \ Syncs : tasks'[t].pc = ts[t].pc
    BY <1>3, <1>4, <2>1, <2>2
  <2> QED
    BY <1>6, <2>3, <2>4, <2>5 DEF KeepsRequest
<1>7. CASE /\ ~ (key # NoChapter /\ session.chapter = key)
           /\ ~ (key # NoChapter /\ initial /\ ~e.draft)
  <2>1. session' = fresh /\ tasks' = Outdated(ts)
    BY <1>7 DEF StartSession
  <2>2. OK(tasks', session', m, pulled)
    BY <2>1, FreshOK
  <2> QED
    BY <1>1, <1>2, <1>3, <1>7, <2>1, <2>2 DEF KeepsRequest
<1> QED
  BY <1>5, <1>6, <1>7

(* A flow awaits a sync of its own.                                        *)
LEMMA OwnSyncOK ==
  ASSUME NEW ts, NEW m, NEW pulled, OK(ts, session, m, pulled),
         NEW f \in Flows, NEW pc \in Pcs, pc \in PcsOf(ts[f].kind), OwnSync(f, pc, ts)
  PROVE  /\ OK(tasks', session', m, pulled)
         /\ session'.chapter = session.chapter /\ KeepsRequest
         /\ tasks'[f].pc = pc
<1>1. PICK s \in Free(ts, Syncs) :
             /\ session' = [session EXCEPT !.pending = s]
             /\ tasks' = [BeginSync(s, ts) EXCEPT ![f].pc = pc, ![f].on = s]
  BY DEF OwnSync
<1>2. s \in Syncs /\ ts[s].kind = "none" /\ f \in Slots /\ f # s
  BY Pieces DEF Free
<1>3. OK(BeginSync(s, ts), session', m, pulled)
  BY <1>1, <1>2, BeginOK
<1>4. PICK begun : begun = BeginSync(s, ts)
  OBVIOUS
<1>5. begun \in [Slots -> Task] /\ begun[s].kind = "sync" /\ Alike(ts[f], begun[f])
  BY <1>2, <1>4, BeginFacts DEF OK, GoodTasks
<1>6. PICK r : r = [begun[f] EXCEPT !.pc = pc, !.on = s]
  OBVIOUS
<1>7. tasks' = [begun EXCEPT ![f] = r]
  BY <1>1, <1>2, <1>4, <1>5, <1>6
<1>8. /\ r \in Task /\ r.kind = begun[f].kind /\ r.pc = pc /\ r.on = s
      /\ r.current = begun[f].current /\ r.preserve = begun[f].preserve
      /\ r.prev = begun[f].prev /\ r.chapter = begun[f].chapter
  BY <1>2, <1>5, <1>6 DEF Task, MaybeSync
<1>9. Fits(f, begun[f]) /\ ModalOK(begun, m)
  BY <1>2, <1>3, <1>4 DEF OK, GoodTasks
<1>10. Fits(f, r)
  BY <1>5, <1>8, <1>9 DEF Fits, Alike
<1>11. s \in UnderWay(begun)
  BY <1>2, <1>5 DEF UnderWay
<1>12. m = f => Blocks(f, r)
  BY <1>2, <1>8, <1>9, Pieces DEF ModalOK, Blocks
<1>13. f \notin Syncs
  BY Pieces
<1>14. OK([begun EXCEPT ![f] = r], session', m, pulled)
  BY <1>2, <1>3, <1>4, <1>8, <1>10, <1>11, <1>12, <1>13, SetOK
<1>15. session' \in Session /\ session \in Session
  BY <1>3 DEF OK
<1>16. session'.chapter = session.chapter /\ session'.reload = session.reload
  BY <1>1, <1>15 DEF Session
<1> QED
  BY <1>2, <1>5, <1>7, <1>8, <1>14, <1>16 DEF KeepsRequest
-----------------------------------------------------------------------------
(* One task changes, and with it the request or the modal.                 *)
LEMMA ChangeOK ==
  ASSUME NEW ts, NEW ses, NEW m, NEW pulled, OK(ts, ses, m, pulled),
         NEW t \in Slots, NEW r \in Task, Fits(t, r),
         r.kind = "sync" <=> ts[t].kind = "sync",
         r.on \in UnderWay(ts) \cup {NoSync},
         NEW ses2 \in Session, ses2.pending = ses.pending,
         NEW m2, ModalOK([ts EXCEPT ![t] = r], m2),
         NEW pulled2, RequestOK([ts EXCEPT ![t] = r], ses2, pulled2)
  PROVE  OK([ts EXCEPT ![t] = r], ses2, m2, pulled2)
<1> DEFINE ts2 == [ts EXCEPT ![t] = r]
<1>1. ts \in [Slots -> Task] /\ GoodTasks(ts)
  BY DEF OK, GoodTasks
<1>2. /\ ts2 \in [Slots -> Task] /\ ts2[t] = r
      /\ \A u \in Slots : u # t => ts2[u] = ts[u]
  BY <1>1
<1> HIDE DEF ts2
<1>3. UnderWay(ts2) = UnderWay(ts)
  BY <1>2, Pieces DEF UnderWay
<1>4. GoodTasks(ts2)
  BY <1>1, <1>2, <1>3 DEF GoodTasks
<1> QED
  BY <1>3, <1>4 DEF OK, ts2

(* A flow goes on, its kind the same or done.                              *)
LEMMA FlowOK ==
  ASSUME NEW ts, NEW ses, NEW m, NEW pulled, OK(ts, ses, m, pulled),
         NEW f \in Flows, NEW r \in Task, Fits(f, r),
         r.on \in UnderWay(ts) \cup {NoSync}, m = f => r.kind = ts[f].kind
  PROVE  OK([ts EXCEPT ![f] = r], ses, m, pulled)
<1>1. f \in Slots /\ f \notin Syncs /\ Fits(f, ts[f]) /\ ModalOK(ts, m)
  BY Pieces DEF OK, GoodTasks
<1>2. r.kind # "sync" /\ ts[f].kind # "sync"
  BY <1>1 DEF Fits
<1>3. m = f => Blocks(f, r)
  BY <1>1, Pieces DEF ModalOK, Blocks
<1> QED
  BY <1>1, <1>2, <1>3, SetOK

LEMMA EndFlowOK ==
  ASSUME NEW ts, NEW ses, NEW m, NEW pulled, OK(ts, ses, m, pulled),
         NEW f \in Flows, m # f
  PROVE  OK([ts EXCEPT ![f] = NoTask], ses, m, pulled)
<1>1. Fits(f, NoTask)
  BY Pieces DEF Fits, PcsOf
<1> QED
  BY <1>1, Pieces, FlowOK

LEMMA RefreshSyncsOK ==
  ASSUME NEW e, NEW ts, NEW m, NEW pulled, OK(ts, session, m, pulled),
         NEW f \in Flows, ts[f].kind = "refresh", RefreshSyncs(f, e, ts)
  PROVE  /\ OK(tasks', session', m, pulled)
         /\ session'.chapter = session.chapter /\ KeepsRequest
         /\ tasks'[f].pc \in {"refreshed", "others", "synced"}
<1>1. /\ f \in Slots /\ ts \in [Slots -> Task] /\ ts[f] \in Task /\ Fits(f, ts[f])
      /\ ts[f].on \in UnderWay(ts) \cup {NoSync}
      /\ session.pending \in UnderWay(ts) \cup {NoSync} /\ UnderWay(ts) \subseteq Syncs
  BY Pieces DEF OK, GoodTasks, UnderWay
<1>2. {"refreshed", "others", "synced"} \subseteq Pcs \cap PcsOf("refresh")
  BY DEF Pcs, PcsOf
<1>3. CASE tasks' = [ts EXCEPT ![f].pc = "refreshed"] /\ session' = session
  <2>1. PICK r : r = [ts[f] EXCEPT !.pc = "refreshed"]
    OBVIOUS
  <2>2. /\ r \in Task /\ r.kind = "refresh" /\ r.pc = "refreshed" /\ r.on = ts[f].on
        /\ Fits(f, r)
    BY <1>1, <1>2, <2>1 DEF Task, Fits
  <2>3. OK([ts EXCEPT ![f] = r], session, m, pulled)
    BY <1>1, <2>2, FlowOK
  <2> QED
    BY <1>1, <1>3, <2>1, <2>2, <2>3 DEF KeepsRequest
<1>4. CASE /\ session.pending # NoSync /\ session' = session
           /\ tasks' = [ts EXCEPT ![f].pc = "others", ![f].on = session.pending]
  <2>1. PICK r : r = [ts[f] EXCEPT !.pc = "others", !.on = session.pending]
    OBVIOUS
  <2>2. /\ r \in Task /\ r.kind = "refresh" /\ r.pc = "others" /\ r.on = session.pending
        /\ Fits(f, r)
    BY <1>1, <1>2, <2>1 DEF Task, Fits, MaybeSync
  <2>3. OK([ts EXCEPT ![f] = r], session, m, pulled)
    BY <1>1, <2>2, FlowOK
  <2> QED
    BY <1>1, <1>4, <2>1, <2>2, <2>3 DEF KeepsRequest
<1>5. CASE OwnSync(f, "synced", ts)
  BY <1>2, <1>5, OwnSyncOK
<1> QED
  BY <1>3, <1>4, <1>5 DEF RefreshSyncs
-----------------------------------------------------------------------------
(* What follows a load, and leaving the editor.                            *)

LEMMA HideOK ==
  ASSUME NEW ts, NEW ses, NEW pulled, OK(ts, ses, modal, pulled), NEW t \in Slots, HideModal(t)
  PROVE  OK(ts, ses, modal', pulled) /\ modal' # t
  BY HiddenOK, Pieces DEF HideModal

LEMMA KeyIs ==
  ASSUME NEW e, e.chapter \in MaybeChapter, NEW scr
  PROVE  Key(e, scr) \in MaybeChapter /\ (Key(e, scr) # NoChapter => scr = "translate")
  BY DEF Key, MaybeChapter

LEMMA PaintOK ==
  ASSUME NEW ts, NEW ses, NEW m, NEW pulled, OK(ts, ses, m, pulled),
         NEW t \in Syncs, ts[t].kind = "sync", ts[t].pc = "apply",
         NEW ok \in BOOLEAN, ok => ts[t].chapter = ses.chapter
  PROVE  OK([ts EXCEPT ![t] = [Unload(@) EXCEPT !.pc = "paint",
                                                !.result = IF ok THEN "rest" ELSE "load"]],
            ses, m, pulled)
<1>1. /\ t \in Slots /\ ts \in [Slots -> Task] /\ ts[t] \in Task /\ Fits(t, ts[t])
      /\ ts[t].on \in UnderWay(ts) \cup {NoSync} /\ ModalOK(ts, m) /\ RequestOK(ts, ses, pulled)
      /\ ses \in Session
  BY Pieces DEF OK, GoodTasks
<1>2. PICK r : r = [Unload(ts[t]) EXCEPT !.pc = "paint", !.result = IF ok THEN "rest" ELSE "load"]
  OBVIOUS
<1>3. /\ r \in Task /\ r.kind = "sync" /\ r.pc = "paint" /\ r.on = ts[t].on
      /\ r.current = ts[t].current /\ r.clean = ts[t].clean /\ r.read = ts[t].read
      /\ r.result = "rest" => ok /\ ~ r.preserve
  BY <1>1, <1>2 DEF Unload, Task, MaybeChapter, Pcs
<1>4. ~ r.preserve
  BY <1>1, <1>2 DEF Unload, Task
<1>5. Fits(t, r)
  BY <1>1, <1>3, <1>4, Pieces DEF Fits, PcsOf
<1>6. PICK ts2 : ts2 = [ts EXCEPT ![t] = r]
  OBVIOUS
<1>7. ts2[t] = r /\ \A u \in Slots : u # t => ts2[u] = ts[u]
  BY <1>1, <1>6
<1>8. ModalOK(ts2, m)
  BY <1>1, <1>3, <1>7, Pieces DEF ModalOK, Blocks
<1>9. Brings(r, ses)
  BY <1>1, <1>3 DEF RequestOK, Brings
<1>10. RequestOK(ts2, ses, pulled)
  <2>1. \A s \in Syncs : ts2[s].pc = "pulled" => ts2[s].found \subseteq pulled
    BY <1>1, <1>3, <1>7, Pieces DEF RequestOK
  <2>2. \A s \in Syncs : Brings(ts2[s], ses)
    BY <1>1, <1>7, <1>9, Pieces DEF RequestOK
  <2>3. \A s \in Syncs : s \in Slots /\ ts2[s].current = ts[s].current /\ ts2[s].clean = ts[s].clean
    BY <1>3, <1>7, Pieces
  <2> QED
    BY <1>1, <2>1, <2>2, <2>3 DEF RequestOK
<1>11. OK([ts EXCEPT ![t] = r], ses, m, pulled)
  BY <1>1, <1>3, <1>5, <1>6, <1>8, <1>10, ChangeOK
<1> QED
  BY <1>1, <1>2, <1>11

LEMMA OpenShownOK ==
  ASSUME NEW e, e.chapter \in MaybeChapter, NEW ts, NEW pulled, OK(ts, session, modal, pulled),
         NEW t \in Flows, OpenShown(t, e, ts)
  PROVE  /\ OK(tasks', session', modal', pulled)
         /\ session'.chapter \in {session.chapter, Key(e, screen)}
         /\ KeepsRequest
         /\ tasks'[t].pc = ""
<1>1. t \in Slots /\ t \notin Syncs /\ ts \in [Slots -> Task]
  BY Pieces DEF OK, GoodTasks
<1>2. OK(ts, session, modal', pulled) /\ modal' # t
  BY <1>1, HideOK DEF OpenShown
<1>3. PICK ended : ended = [ts EXCEPT ![t] = NoTask]
  OBVIOUS
<1>4. OK(ended, session, modal', pulled) /\ ended[t].pc = ""
  BY <1>1, <1>2, <1>3, EndFlowOK, Pieces
<1>5. CASE StartSession(e, screen, TRUE, ended)
  <2>1. Key(e, screen) \in MaybeChapter
    BY KeyIs
  <2>2. PICK m, scr, i : m = modal' /\ scr = screen /\ i = TRUE
    OBVIOUS
  <2>3. /\ OK(tasks', session', m, pulled)
        /\ session'.chapter \in {session.chapter, Key(e, scr)}
        /\ KeepsRequest
        /\ \A u \in Slots \ Syncs : tasks'[u].pc = ended[u].pc
    <3>1. OK(ended, session, m, pulled) /\ Key(e, scr) \in MaybeChapter
      BY <1>4, <2>1, <2>2
    <3>2. StartSession(e, scr, i, ended)
      BY <1>5, <2>2
    <3> QED
      BY <3>1, <3>2, StartOK
  <2> QED
    BY <1>1, <1>4, <2>2, <2>3
<1>6. CASE session' = session /\ tasks' = ended
  BY <1>4, <1>6 DEF KeepsRequest
<1> QED
  BY <1>3, <1>5, <1>6 DEF OpenShown

LEMMA AfterLoadOK ==
  ASSUME NEW e, e.chapter \in MaybeChapter, NEW ok \in BOOLEAN, NEW ts, NEW pulled,
         OK(ts, session, modal, pulled),
         NEW t \in Slots, tasks[t].pc = "apply", Alike(tasks[t], ts[t]),
         ok => e.chapter = tasks[t].chapter,
         AfterLoad(t, e, ok, ts)
  PROVE  /\ OK(tasks', session', modal', pulled)
         /\ session'.chapter \in {session.chapter, Key(e, screen)}
         /\ KeepsRequest
         /\ tasks'[t].pc # "apply"
<1>1. /\ ts \in [Slots -> Task] /\ ts[t] \in Task /\ Fits(t, ts[t])
      /\ ts[t].on \in UnderWay(ts) \cup {NoSync} /\ ModalOK(ts, modal)
      /\ ts[t].kind = tasks[t].kind /\ ts[t].chapter = tasks[t].chapter
      /\ ts[t].pc = "apply" /\ session \in Session
  BY DEF OK, GoodTasks, Alike
<1>2. tasks[t].kind # "sync" => t \in Flows /\ t \notin Syncs
  BY <1>1, Pieces DEF Fits, PcsOf, Slots
<1>3. CASE tasks[t].kind = "open" /\ OpenShown(t, e, ts)
  BY <1>2, <1>3, OpenShownOK
<1>4. CASE /\ tasks[t].kind \in {"back", "refresh"} /\ modal' = modal
           /\ tasks' = [ts EXCEPT ![t] = NoTask] /\ session' = session
  <2>1. modal # t
    BY <1>1, <1>2, <1>4, Pieces DEF ModalOK, Blocks
  <2> QED
    BY <1>1, <1>2, <1>4, <2>1, EndFlowOK, Pieces DEF KeepsRequest
<1>5. CASE /\ tasks[t].kind = "back" /\ modal' = modal
           /\ StartSession(e, screen, TRUE, [ts EXCEPT ![t] = NoTask])
  <2>1. modal # t
    BY <1>1, <1>2, <1>5, Pieces DEF ModalOK, Blocks
  <2>2. PICK ended : ended = [ts EXCEPT ![t] = NoTask]
    OBVIOUS
  <2>3. OK(ended, session, modal, pulled) /\ ended[t].pc = ""
    BY <1>1, <1>2, <1>5, <2>1, <2>2, EndFlowOK, Pieces
  <2>4. Key(e, screen) \in MaybeChapter
    BY KeyIs
  <2>5. StartSession(e, screen, TRUE, ended)
    BY <1>5, <2>2
  <2>6. /\ OK(tasks', session', modal, pulled)
        /\ session'.chapter \in {session.chapter, Key(e, screen)}
        /\ KeepsRequest
        /\ \A u \in Slots \ Syncs : tasks'[u].pc = ended[u].pc
    <3>1. PICK m, scr, i : m = modal /\ scr = screen /\ i = TRUE
      OBVIOUS
    <3>2. /\ StartSession(e, scr, i, ended) /\ Key(e, scr) \in MaybeChapter
          /\ OK(ended, session, m, pulled)
      BY <2>3, <2>4, <2>5, <3>1
    <3>3. /\ OK(tasks', session', m, pulled)
          /\ session'.chapter \in {session.chapter, Key(e, scr)}
          /\ KeepsRequest
          /\ \A u \in Slots \ Syncs : tasks'[u].pc = ended[u].pc
      BY <3>2, StartOK
    <3> QED
      BY <3>1, <3>3
  <2> QED
    BY <1>2, <1>5, <2>3, <2>6
<1>6. CASE /\ tasks[t].kind = "refresh" /\ modal' = modal /\ session' = session
           /\ tasks' = [ts EXCEPT ![t] = [Unload(@) EXCEPT !.pc = "refreshed"]]
  <2>1. PICK r : r = [Unload(ts[t]) EXCEPT !.pc = "refreshed"]
    OBVIOUS
  <2>2. /\ r \in Task /\ r.kind = "refresh" /\ r.pc = "refreshed" /\ r.on = ts[t].on
        /\ r.current = ts[t].current /\ ~ r.preserve
    BY <1>1, <1>6, <2>1 DEF Unload, Task, MaybeChapter, Pcs
  <2>3. Fits(t, r)
    BY <1>1, <1>2, <1>6, <2>2 DEF Fits, PcsOf
  <2>4. OK([ts EXCEPT ![t] = r], session, modal, pulled)
    BY <1>1, <1>2, <1>6, <2>2, <2>3, FlowOK
  <2> QED
    BY <1>1, <1>6, <2>1, <2>2, <2>4 DEF KeepsRequest
<1>7. CASE /\ tasks[t].kind = "refresh" /\ modal' = modal
           /\ RefreshSyncs(t, e, [ts EXCEPT ![t] = Unload(@)])
  <2>1. PICK r : r = Unload(ts[t])
    OBVIOUS
  <2>2. /\ r \in Task /\ r.kind = "refresh" /\ r.pc = "apply" /\ r.on = ts[t].on
        /\ r.current = ts[t].current /\ ~ r.preserve
    BY <1>1, <1>7, <2>1 DEF Unload, Task, MaybeChapter
  <2>3. Fits(t, r)
    BY <1>1, <1>2, <1>7, <2>2 DEF Fits, PcsOf, LoadPcs
  <2>4. PICK ts2 : ts2 = [ts EXCEPT ![t] = r]
    OBVIOUS
  <2>5. OK(ts2, session, modal, pulled) /\ ts2[t].kind = "refresh"
    BY <1>1, <1>2, <1>7, <2>2, <2>3, <2>4, FlowOK
  <2>6. RefreshSyncs(t, e, ts2)
    BY <1>1, <1>7, <2>1, <2>4
  <2>7. /\ OK(tasks', session', modal, pulled)
        /\ session'.chapter = session.chapter /\ KeepsRequest
        /\ tasks'[t].pc \in {"refreshed", "others", "synced"}
    BY <1>2, <1>7, <2>5, <2>6, RefreshSyncsOK
  <2> QED
    BY <1>7, <2>7
<1>8. CASE /\ tasks[t].kind = "sync" /\ MatchesWith(e, t)
           /\ tasks' = [ts EXCEPT ![t] = [Unload(@) EXCEPT !.pc = "paint",
                                            !.result = IF ok THEN "rest" ELSE "load"]]
           /\ UNCHANGED <<session, modal>>
  <2>1. t \in Syncs
    BY <1>1, <1>8 DEF Fits, Slots
  <2>2. ok => ts[t].chapter = session.chapter
    BY <1>1, <1>8 DEF MatchesWith, Key
  <2>3. OK(tasks', session, modal, pulled)
    BY <1>1, <1>8, <2>1, <2>2, PaintOK
  <2>4. tasks'[t].pc = "paint"
    BY <1>1, <1>8 DEF Unload, Task
  <2> QED
    BY <1>8, <2>3, <2>4 DEF KeepsRequest
<1>9. CASE tasks[t].kind = "sync" /\ HideModal(t) /\ EndSync(t, "load", session, ts)
  <2>1. t \in Syncs
    BY <1>1, <1>9 DEF Fits, Slots
  <2>2. OK(ts, session, modal', pulled) /\ modal' # t
    BY <1>9, HideOK
  <2>3. tasks' = WithoutSync(t, "load", ts) /\ session' = [session EXCEPT !.pending = NoSync]
    BY <1>9, EndSyncIs
  <2>4. OK(tasks', session', modal', pulled)
    BY <2>1, <2>2, <2>3, EndSyncOK DEF Results
  <2>5. tasks'[t] = NoTask
    BY <2>3 DEF WithoutSync
  <2>6. session'.chapter = session.chapter /\ session'.reload = session.reload
    BY <1>1, <2>3 DEF Session
  <2> QED
    BY <2>4, <2>5, <2>6, Pieces DEF KeepsRequest
<1> QED
  BY <1>3, <1>4, <1>5, <1>6, <1>7, <1>8, <1>9 DEF AfterLoad

(* The editor is left, or was before.                                      *)
LEMMA GoOK ==
  ASSUME NEW pulled, OK(tasks, session, modal, pulled), NEW f \in Flows, Go(f)
  PROVE  /\ OK(tasks', session', modal', pulled)
         /\ session'.chapter = IF screen = "translate" THEN NoChapter ELSE session.chapter
         /\ screen' \in {"projects", "glossary"}
         /\ KeepsRequest
<1>1. f \in Slots /\ tasks \in [Slots -> Task] /\ session.chapter = NoChapter => session.reload = {}
  BY Pieces DEF OK, GoodTasks, RequestOK
<1>2. OK(tasks, session, modal', pulled) /\ modal' # f
  BY <1>1, HideOK, Pieces DEF Go
<1>3. PICK ended : ended = [tasks EXCEPT ![f] = NoTask]
  OBVIOUS
<1>4. OK(ended, session, modal', pulled)
  BY <1>2, <1>3, EndFlowOK
<1>5. OK(Outdated(ended), [Stopped EXCEPT !.chapter = NoChapter], modal', pulled)
  BY <1>4, FreshOK DEF MaybeChapter
<1>6. [Stopped EXCEPT !.chapter = NoChapter] = Stopped /\ Stopped.chapter = NoChapter
  BY DEF Stopped
<1>7. session.chapter = NoChapter => session.reload = {}
  BY DEF OK, RequestOK
<1>8. CASE screen = "translate"
  BY <1>3, <1>5, <1>6, <1>7, <1>8 DEF Go, KeepsRequest
<1>9. CASE screen # "translate"
  BY <1>3, <1>4, <1>9 DEF Go, KeepsRequest
<1> QED
  BY <1>8, <1>9
-----------------------------------------------------------------------------
(* A sync goes on; a current one may ask for more.                         *)
LEMMA SyncOK ==
  ASSUME NEW ts, NEW ses, NEW m, NEW pulled, OK(ts, ses, m, pulled),
         NEW t \in Syncs, ts[t].kind = "sync",
         NEW r \in Task, r.kind = "sync", Fits(t, r), r.on \in UnderWay(ts) \cup {NoSync},
         r.current = ts[t].current, r.clean = ts[t].clean,
         r.pc = "pulled" => r.found \subseteq pulled,
         m = t => Blocks(t, r),
         NEW ses2 \in Session, ses2.pending = ses.pending, ses2.chapter = ses.chapter,
         ses2.reload \subseteq pulled \cap In(ses.chapter),
         ses.chapter = NoChapter => ses2.reload = {},
         ses2.reload = ses.reload \/ r.current,
         Brings(r, ses2)
  PROVE  OK([ts EXCEPT ![t] = r], ses2, m, pulled)
<1>1. /\ t \in Slots /\ ts \in [Slots -> Task] /\ ModalOK(ts, m) /\ RequestOK(ts, ses, pulled)
  BY Pieces DEF OK, GoodTasks
<1>2. PICK ts2 : ts2 = [ts EXCEPT ![t] = r]
  OBVIOUS
<1>3. ts2[t] = r /\ \A u \in Slots : u # t => ts2[u] = ts[u]
  BY <1>1, <1>2
<1>4. ModalOK(ts2, m)
  BY <1>1, <1>3 DEF ModalOK
<1>5. \A s \in Syncs : s \in Slots
  BY Pieces
<1>6. \A s \in Syncs : ts2[s].pc = "pulled" => ts2[s].found \subseteq pulled
  BY <1>1, <1>3, <1>5 DEF RequestOK
<1>7. \A s \in Syncs : ts2[s].current = ts[s].current /\ ts2[s].clean = ts[s].clean
  BY <1>3, <1>5
<1>8. \A s, u \in Syncs : s # u /\ ts2[s].current /\ ts2[u].current => ~ ts2[s].clean
  BY <1>1, <1>7 DEF RequestOK
<1>9. ASSUME NEW s \in Syncs
      PROVE  Brings(ts2[s], ses2)
  <2>1. CASE s = t
    BY <1>3, <2>1
  <2>2. CASE s # t /\ ses2.reload = ses.reload
    <3>1. Brings(ts[s], ses)
      BY <1>1 DEF RequestOK
    <3> QED
      BY <1>3, <1>5, <2>2, <3>1 DEF Brings
  <2>3. CASE s # t /\ r.current
    BY <1>3, <1>8, <2>3 DEF Brings
  <2> QED
    BY <2>1, <2>2, <2>3
<1>10. RequestOK(ts2, ses2, pulled)
  BY <1>6, <1>8, <1>9 DEF RequestOK
<1> QED
  BY <1>1, <1>2, <1>4, <1>10, ChangeOK

(* A load that reads has what was pulled by then.                          *)
LEMMA ReadOK ==
  ASSUME NEW ts, NEW ses, NEW m, NEW pulled, OK(ts, ses, m, pulled),
         NEW t \in Slots, ts[t].kind # "none", ts[t].pc \in {"rows", "head"},
         NEW r \in Task, r.kind = ts[t].kind, r.pc \in {"head", "apply"}, r.on = ts[t].on,
         r.current = ts[t].current, r.clean = ts[t].clean, r.chapter = ts[t].chapter,
         r.preserve = ts[t].preserve, r.prev = ts[t].prev,
         \/ r.read = pulled \cap In(r.chapter)
         \/ ts[t].pc = "head" /\ r.read = ts[t].read
  PROVE  OK([ts EXCEPT ![t] = r], ses, m, pulled)
<1>1. /\ ts \in [Slots -> Task] /\ Fits(t, ts[t]) /\ ts[t].on \in UnderWay(ts) \cup {NoSync}
      /\ ModalOK(ts, m) /\ RequestOK(ts, ses, pulled) /\ ses \in Session
  BY DEF OK, GoodTasks
<1>2. Fits(t, r)
  <2>1. r.pc \in PcsOf(r.kind)
    <3>1. ts[t].pc \in PcsOf(ts[t].kind)
      BY <1>1 DEF Fits
    <3>2. ts[t].kind \in {"sync", "open", "refresh", "back"}
      <4>1. ts[t].kind \in Kinds
        BY <1>1 DEF Task
      <4> QED
        BY <3>1, <4>1 DEF PcsOf, LoadPcs, Kinds
    <3> QED
      BY <3>2 DEF PcsOf, LoadPcs
  <2> QED
    BY <1>1, <2>1 DEF Fits
<1>3. CASE t \in Flows
  BY <1>1, <1>2, <1>3, FlowOK
<1>4. CASE t \in Syncs
  <2>1. ts[t].kind = "sync"
    BY <1>1, <1>4 DEF Fits
  <2>2. m = t => Blocks(t, r)
    BY <1>4, <2>1 DEF Blocks, LoadPcs
  <2>3. Brings(r, ses)
    BY <1>1, <1>4 DEF RequestOK, Brings
  <2>4. ses.reload \subseteq pulled \cap In(ses.chapter) /\ (ses.chapter = NoChapter => ses.reload = {})
    BY <1>1 DEF RequestOK
  <2> QED
    BY <1>1, <1>2, <1>4, <2>1, <2>2, <2>3, <2>4, SyncOK
<1> QED
  BY <1>3, <1>4 DEF Slots

(* The request is dropped.                                                 *)
LEMMA ClearedOK ==
  ASSUME NEW ts, NEW ses, NEW m, NEW pulled, OK(ts, ses, m, pulled)
  PROVE  OK(ts, [ses EXCEPT !.reload = {}], m, pulled)
<1>1. PICK ses2 : ses2 = [ses EXCEPT !.reload = {}]
  OBVIOUS
<1>2. /\ ses2 \in Session /\ ses2.pending = ses.pending /\ ses2.reload = {}
  BY <1>1 DEF OK, Session
<1>3. RequestOK(ts, ses2, pulled)
  BY <1>2 DEF OK, RequestOK, Brings
<1> QED
  BY <1>1, <1>2, <1>3 DEF OK

(* More is pulled.                                                         *)
LEMMA MorePulledOK ==
  ASSUME NEW ts, NEW ses, NEW m, NEW pulled, OK(ts, ses, m, pulled),
         NEW more, pulled \subseteq more
  PROVE  OK(ts, ses, m, more)
<1>1. RequestOK(ts, ses, more)
  BY DEF OK, RequestOK
<1> QED
  BY <1>1 DEF OK
-----------------------------------------------------------------------------
(* The inductive invariant: what surrounds the tasks, and the tasks.       *)

(* Only rows that are shown have a draft, and only the editor's screen has *)
(* a session.                                                              *)
Around ==
  /\ screen \in {"projects", "translate", "glossary"} /\ selected \in MaybeChapter
  /\ editor \in Editor /\ (editor.draft => editor.rows)
  /\ session.chapter # NoChapter => screen = "translate"
  /\ repo \in [head : Nat, pulled : SUBSET Changes, op : MaybeChapter, saves : 0 .. MaxSaves]

SessionInv == Around /\ OK(tasks, session, modal, repo.pulled)

LEMMA InvFacts ==
  ASSUME SessionInv
  PROVE  /\ tasks \in [Slots -> Task] /\ session \in Session
         /\ \A t \in Slots : /\ tasks[t] \in Task /\ Fits(t, tasks[t])
                             /\ tasks[t].on \in UnderWay(tasks) \cup {NoSync}
         /\ session.pending \in UnderWay(tasks) \cup {NoSync}
         /\ ModalOK(tasks, modal) /\ RequestOK(tasks, session, repo.pulled)
         /\ OK(tasks, session, modal, repo.pulled) /\ Around
         /\ editor.chapter \in MaybeChapter
  BY DEF SessionInv, OK, GoodTasks, Around, Editor

LEMMA InitInv == Init => SessionInv
<1> SUFFICES ASSUME Init PROVE SessionInv
  OBVIOUS
<1>1. Around
  BY SavesAssumption DEF Init, Around, SavesAssumption, MaybeChapter, Editor, Closed, Stopped
<1>2. tasks \in [Slots -> Task] /\ \A t \in Slots : tasks[t] = NoTask
  BY Pieces DEF Init
<1>3. GoodTasks(tasks)
  BY <1>2, Pieces DEF GoodTasks, Fits, PcsOf
<1>4. session \in Session /\ session.pending = NoSync /\ session.reload = {}
  BY DEF Init, Stopped, Session, MaybeChapter, MaybeSync
<1>5. ModalOK(tasks, modal)
  BY DEF Init, ModalOK
<1>6. RequestOK(tasks, session, repo.pulled)
  BY <1>2, <1>4, Pieces DEF RequestOK, Brings
<1> QED
  BY <1>1, <1>3, <1>4, <1>5, <1>6 DEF SessionInv, OK

LEMMA ReadRowsKeeps ==
  ASSUME SessionInv, NEW t \in Slots, ReadRows(t)
  PROVE  SessionInv' /\ KeepsRequest
<1>1. tasks[t] \in Task /\ Fits(t, tasks[t]) /\ tasks \in [Slots -> Task]
  BY InvFacts
<1>2. PICK r : r = [tasks[t] EXCEPT !.pc = "head", !.read = repo.pulled \cap In(tasks[t].chapter)]
  OBVIOUS
<1>3. tasks' = [tasks EXCEPT ![t] = r]
  BY <1>1, <1>2 DEF ReadRows
<1>4. /\ r \in Task /\ r.kind = tasks[t].kind /\ r.pc = "head" /\ r.on = tasks[t].on
      /\ r.current = tasks[t].current /\ r.clean = tasks[t].clean
      /\ r.chapter = tasks[t].chapter /\ r.preserve = tasks[t].preserve
      /\ r.prev = tasks[t].prev /\ r.read = repo.pulled \cap In(r.chapter)
  BY <1>1, <1>2 DEF Task, Pcs, LoadPcs, In
<1>5. /\ OK(tasks, session, modal, repo.pulled)
      /\ tasks[t].kind # "none" /\ tasks[t].pc = "rows"
  BY InvFacts DEF ReadRows, Loads
<1>6. PICK ts, pulled : ts = tasks /\ pulled = repo.pulled
  OBVIOUS
<1>7. OK([ts EXCEPT ![t] = r], session, modal, pulled)
  BY <1>4, <1>5, <1>6, ReadOK
<1> QED
  BY <1>3, <1>6, <1>7, InvFacts DEF ReadRows, SessionInv, Around, KeepsRequest

LEMMA ReadHeadKeeps ==
  ASSUME SessionInv, NEW t \in Slots, ReadHead(t)
  PROVE  SessionInv' /\ KeepsRequest
<1>1. /\ tasks[t] \in Task /\ Fits(t, tasks[t]) /\ tasks \in [Slots -> Task]
      /\ repo.head \in Nat
  BY InvFacts DEF Around
<1>2. PICK r : r = [tasks[t] EXCEPT !.pc = "apply", !.at = repo.head,
                      !.sure = tasks[t].read = repo.pulled \cap In(tasks[t].chapter)]
  OBVIOUS
<1>3. tasks' = [tasks EXCEPT ![t] = r]
  BY <1>1, <1>2 DEF ReadHead
<1>4. /\ r \in Task /\ r.kind = tasks[t].kind /\ r.pc = "apply" /\ r.on = tasks[t].on
      /\ r.current = tasks[t].current /\ r.clean = tasks[t].clean
      /\ r.chapter = tasks[t].chapter /\ r.preserve = tasks[t].preserve
      /\ r.prev = tasks[t].prev /\ r.read = tasks[t].read
  BY <1>1, <1>2 DEF Task, Pcs, LoadPcs
<1>5. /\ OK(tasks, session, modal, repo.pulled)
      /\ tasks[t].kind # "none" /\ tasks[t].pc = "head"
  BY InvFacts DEF ReadHead, Loads
<1>6. PICK ts, pulled : ts = tasks /\ pulled = repo.pulled
  OBVIOUS
<1>7. OK([ts EXCEPT ![t] = r], session, modal, pulled)
  BY <1>4, <1>5, <1>6, ReadOK
<1> QED
  BY <1>3, <1>6, <1>7, InvFacts DEF ReadHead, SessionInv, Around, KeepsRequest

(* What a load that is applied leaves on screen.                           *)
LEMMA LoadedIs ==
  ASSUME SessionInv, NEW t \in Slots, tasks[t].kind # "none", tasks[t].pc = "apply"
  PROVE  /\ Loaded(tasks[t]) \in Editor /\ Loaded(tasks[t]).rows
         /\ Loaded(tasks[t]).chapter = tasks[t].chapter
         /\ LoadFailed(tasks[t]) \in Editor
         /\ LoadFailed(tasks[t]).draft => LoadFailed(tasks[t]).rows
         /\ LoadFailed(tasks[t]).chapter = editor.chapter
<1>1. tasks[t] \in Task /\ editor \in Editor /\ (editor.draft => editor.rows)
  BY InvFacts DEF Around
<1>2. Loaded(tasks[t]) \in Editor /\ Loaded(tasks[t]).rows
  BY <1>1 DEF Loaded, Task, Editor
<1>3. Loaded(tasks[t]).chapter = tasks[t].chapter
  BY DEF Loaded
<1>4. /\ LoadFailed(tasks[t]) \in Editor
      /\ LoadFailed(tasks[t]).draft => LoadFailed(tasks[t]).rows
      /\ LoadFailed(tasks[t]).chapter = editor.chapter
  BY <1>1 DEF LoadFailed, Editor
<1> QED
  BY <1>2, <1>3, <1>4

LEMMA ApplyLoadKeeps ==
  ASSUME SessionInv, NEW t \in Slots, ApplyLoad(t)
  PROVE  SessionInv' /\ KeepsRequest /\ tasks'[t].pc # "apply"
<1>1. PICK ts \in {Overtaken(t)} : AfterLoad(t, editor', TRUE, ts)
  BY DEF ApplyLoad
<1>2. OK(ts, session, modal, repo.pulled) /\ Alike(tasks[t], ts[t])
  BY <1>1, InvFacts, OvertakenOK, OvertakenFacts
<1>3. PICK e, ok : e = editor' /\ ok = TRUE
  OBVIOUS
<1>4. /\ e \in Editor /\ e.rows /\ e.chapter = tasks[t].chapter /\ e.chapter \in MaybeChapter
  BY <1>3, LoadedIs DEF ApplyLoad, Loads, Editor
<1>5. AfterLoad(t, e, ok, ts) /\ ok \in BOOLEAN /\ tasks[t].pc = "apply"
  BY <1>1, <1>3 DEF ApplyLoad, Loads
<1>6. /\ OK(tasks', session', modal', repo.pulled)
      /\ session'.chapter \in {session.chapter, Key(e, screen)}
      /\ KeepsRequest
      /\ tasks'[t].pc # "apply"
  BY <1>2, <1>4, <1>5, AfterLoadOK
<1>7. session'.chapter # NoChapter => screen = "translate"
  BY <1>4, <1>6, InvFacts, KeyIs DEF Around
<1> QED
  BY <1>3, <1>4, <1>6, <1>7, InvFacts DEF ApplyLoad, SessionInv, Around

LEMMA FailLoadKeeps ==
  ASSUME SessionInv, NEW t \in Slots, FailLoad(t)
  PROVE  SessionInv' /\ KeepsRequest /\ tasks'[t].pc # "apply"
<1>1. PICK e, ok : e = editor' /\ ok = FALSE
  OBVIOUS
<1>2. /\ e \in Editor /\ (e.draft => e.rows) /\ e.chapter \in MaybeChapter
  BY <1>1, LoadedIs DEF FailLoad, Loads, Editor
<1>3. AfterLoad(t, e, ok, tasks) /\ ok \in BOOLEAN /\ tasks[t].pc = "apply"
  BY <1>1 DEF FailLoad, Loads
<1>4. OK(tasks, session, modal, repo.pulled) /\ Alike(tasks[t], tasks[t])
  BY InvFacts DEF Alike
<1>5. PICK ts : ts = tasks
  OBVIOUS
<1>6. /\ OK(tasks', session', modal', repo.pulled)
      /\ session'.chapter \in {session.chapter, Key(e, screen)}
      /\ KeepsRequest
      /\ tasks'[t].pc # "apply"
  BY <1>1, <1>2, <1>3, <1>4, <1>5, AfterLoadOK
<1>7. session'.chapter # NoChapter => screen = "translate"
  BY <1>2, <1>6, InvFacts, KeyIs DEF Around
<1> QED
  BY <1>1, <1>2, <1>6, <1>7, InvFacts DEF FailLoad, SessionInv, Around
-----------------------------------------------------------------------------
(* The steps of the flows and of the user.                                 *)

LEMMA BegunOK ==
  ASSUME NEW ts, NEW ses, NEW pulled, OK(ts, ses, NoSync, pulled), NEW f \in Flows,
         NEW kind \in Kinds \ {"none", "sync"}, NEW pc \in Pcs, pc \in PcsOf(kind),
         NEW c \in MaybeChapter
  PROVE  /\ OK([ts EXCEPT ![f] = [NoTask EXCEPT !.kind = kind, !.pc = pc, !.chapter = c]],
               ses, NoSync, pulled)
         /\ kind \in {"open", "toGlossary"} =>
              OK([ts EXCEPT ![f] = [NoTask EXCEPT !.kind = kind, !.pc = pc, !.chapter = c]],
                 ses, f, pulled)
<1>1. PICK r : r = [NoTask EXCEPT !.kind = kind, !.pc = pc, !.chapter = c]
  OBVIOUS
<1>2. /\ r \in Task /\ r.kind = kind /\ r.pc = pc /\ r.on = NoSync /\ ~ r.current /\ ~ r.preserve
      /\ f \in Slots /\ f \notin Syncs /\ f # NoSync /\ ts \in [Slots -> Task]
  BY <1>1, Pieces DEF NoTask, Task, OK, GoodTasks
<1>3. Fits(f, r)
  BY <1>2 DEF Fits
<1>4. PICK ts2 : ts2 = [ts EXCEPT ![f] = r]
  OBVIOUS
<1>5. OK(ts2, ses, NoSync, pulled) /\ ts2[f] = r
  BY <1>2, <1>3, <1>4, FlowOK
<1>6. kind \in {"open", "toGlossary"} => Blocks(f, ts2[f])
  BY <1>2, <1>5 DEF Blocks
<1>7. kind \in {"open", "toGlossary"} => OK(ts2, ses, f, pulled)
  BY <1>2, <1>5, <1>6, ModalShownOK
<1> QED
  BY <1>1, <1>4, <1>5, <1>7

(* What a load begins with.                                                *)
LEMMA LoadBegins ==
  ASSUME NEW task \in Task, NEW option \in BOOLEAN, NEW e \in Editor, NEW scr,
         NEW c \in MaybeChapter
  PROVE  /\ BeginLoad(task, option, e, scr, c) \in Task
         /\ BeginLoad(task, option, e, scr, c).kind = task.kind
         /\ BeginLoad(task, option, e, scr, c).pc = "rows"
         /\ BeginLoad(task, option, e, scr, c).on = task.on
         /\ BeginLoad(task, option, e, scr, c).current = task.current
         /\ BeginLoad(task, option, e, scr, c).clean = task.clean
         /\ BeginLoad(task, option, e, scr, c).preserve
              => BeginLoad(task, option, e, scr, c).prev = BeginLoad(task, option, e, scr, c).chapter
         /\ Loading(option, e, scr, c) \in Editor
         /\ (e.draft => e.rows) => (Loading(option, e, scr, c).draft => Loading(option, e, scr, c).rows)
         /\ Loading(option, e, scr, c).chapter = c
<1>1. Preserves(option, e, scr, c) \in BOOLEAN /\ (Preserves(option, e, scr, c) => e.chapter = c)
  BY DEF Preserves
<1>2. /\ BeginLoad(task, option, e, scr, c) \in Task
      /\ BeginLoad(task, option, e, scr, c).kind = task.kind
      /\ BeginLoad(task, option, e, scr, c).pc = "rows"
      /\ BeginLoad(task, option, e, scr, c).on = task.on
      /\ BeginLoad(task, option, e, scr, c).current = task.current
      /\ BeginLoad(task, option, e, scr, c).clean = task.clean
      /\ BeginLoad(task, option, e, scr, c).prev = e.chapter
      /\ BeginLoad(task, option, e, scr, c).chapter = c
      /\ BeginLoad(task, option, e, scr, c).preserve = Preserves(option, e, scr, c)
  BY <1>1 DEF BeginLoad, Task, Editor, Pcs, LoadPcs
<1>3. CASE Preserves(option, e, scr, c)
  BY <1>1, <1>2, <1>3 DEF Loading, Editor
<1>4. CASE ~ Preserves(option, e, scr, c)
  BY <1>1, <1>2, <1>4 DEF Loading, Editor, Closed, MaybeChapter
<1> QED
  BY <1>3, <1>4

(* A flow begins a load.                                                   *)
LEMMA FlowLoadsOK ==
  ASSUME NEW ts, NEW ses, NEW m, NEW pulled, OK(ts, ses, m, pulled), NEW f \in Flows,
         ts[f].kind \in {"open", "refresh", "back"},
         NEW option \in BOOLEAN, NEW e \in Editor, NEW scr, NEW c \in MaybeChapter
  PROVE  OK([ts EXCEPT ![f] = BeginLoad(@, option, e, scr, c)], ses, m, pulled)
<1>1. /\ f \in Slots /\ ts \in [Slots -> Task] /\ ts[f] \in Task /\ Fits(f, ts[f])
      /\ ts[f].on \in UnderWay(ts) \cup {NoSync}
  BY Pieces DEF OK, GoodTasks
<1>2. PICK r : r = BeginLoad(ts[f], option, e, scr, c)
  OBVIOUS
<1>3. /\ r \in Task /\ r.kind = ts[f].kind /\ r.pc = "rows" /\ r.on = ts[f].on
      /\ r.current = ts[f].current /\ (r.preserve => r.prev = r.chapter)
  BY <1>1, <1>2, LoadBegins
<1>4. r.pc \in PcsOf(r.kind)
  BY <1>3 DEF PcsOf, LoadPcs
<1>5. Fits(f, r)
  BY <1>1, <1>3, <1>4 DEF Fits
<1>6. OK([ts EXCEPT ![f] = r], ses, m, pulled)
  BY <1>1, <1>3, <1>5, FlowOK
<1> QED
  BY <1>1, <1>2, <1>6

LEMMA OpenKeeps ==
  ASSUME SessionInv, NEW f \in Flows, NEW c \in Chapters, Open(c, f)
  PROVE  SessionInv' /\ KeepsRequest
<1>1. PICK ts, pulled : ts = tasks /\ pulled = repo.pulled
  OBVIOUS
<1>2. OK(ts, session, NoSync, pulled)
  BY <1>1, InvFacts DEF Open, UserMayAct
<1>3. "open" \in Kinds \ {"none", "sync"} /\ "ops" \in Pcs /\ "ops" \in PcsOf("open")
  BY DEF Kinds, Pcs, PcsOf
<1>4. OK([ts EXCEPT ![f] = [NoTask EXCEPT !.kind = "open", !.pc = "ops", !.chapter = c]],
         session, f, pulled)
  BY <1>2, <1>3, BegunOK DEF MaybeChapter
<1> QED
  BY <1>1, <1>4, InvFacts DEF Open, Begin, SessionInv, Around, KeepsRequest

LEMMA ResumeKeeps ==
  ASSUME SessionInv, NEW c \in Chapters, Resume(c)
  PROVE  SessionInv' /\ KeepsRequest
<1>1. PICK e, scr, i, ts, m, pulled : /\ e = editor' /\ scr = "translate" /\ i = TRUE
                                      /\ ts = tasks /\ m = modal /\ pulled = repo.pulled
  OBVIOUS
<1>2. /\ e \in Editor /\ (e.draft => e.rows) /\ e.chapter \in MaybeChapter
  BY <1>1, InvFacts DEF Resume, Around, Editor
<1>3. /\ OK(ts, session, m, pulled) /\ StartSession(e, scr, i, ts)
      /\ Key(e, scr) \in MaybeChapter
  BY <1>1, <1>2, InvFacts, KeyIs DEF Resume
<1>4. OK(tasks', session', m, pulled) /\ KeepsRequest
  BY <1>3, StartOK
<1> QED
  BY <1>1, <1>2, <1>4, InvFacts DEF Resume, SessionInv, Around, MaybeChapter

LEMMA EnterChapterKeeps ==
  ASSUME SessionInv, NEW f \in Flows, EnterChapter(f)
  PROVE  SessionInv' /\ KeepsRequest
<1>1. PICK e, scr, i, ts, m, pulled : /\ e = editor /\ scr = "translate" /\ i = FALSE
                                      /\ ts = tasks /\ m = modal /\ pulled = repo.pulled
  OBVIOUS
<1>2. PICK c : c = tasks[f].chapter
  OBVIOUS
<1>3. /\ e \in Editor /\ (e.draft => e.rows) /\ c \in MaybeChapter /\ ts[f].kind = "open"
      /\ OK(ts, session, m, pulled) /\ i \in BOOLEAN
  BY <1>1, <1>2, InvFacts, Pieces DEF Around, Task, EnterChapter
<1>4. OK([ts EXCEPT ![f] = BeginLoad(@, i, e, scr, c)], session, m, pulled)
  BY <1>3, FlowLoadsOK
<1>5. Loading(i, e, scr, c) \in Editor /\ (Loading(i, e, scr, c).draft => Loading(i, e, scr, c).rows)
  BY <1>3, LoadBegins, Pieces
<1> QED
  BY <1>1, <1>2, <1>3, <1>4, <1>5, InvFacts
     DEF EnterChapter, SessionInv, Around, MaybeChapter, KeepsRequest

LEMMA RefreshKeeps ==
  ASSUME SessionInv, NEW f \in Flows, Refresh(f)
  PROVE  SessionInv' /\ KeepsRequest
<1>1. PICK c, ts, pulled : c = editor.chapter /\ ts = tasks /\ pulled = repo.pulled
  OBVIOUS
<1>2. OK(ts, session, NoSync, pulled) /\ c \in MaybeChapter
  BY <1>1, InvFacts DEF Refresh, UserMayAct
<1>3. "refresh" \in Kinds \ {"none", "sync"} /\ "ops" \in Pcs /\ "ops" \in PcsOf("refresh")
  BY DEF Kinds, Pcs, PcsOf
<1>4. OK([ts EXCEPT ![f] = [NoTask EXCEPT !.kind = "refresh", !.pc = "ops", !.chapter = c]],
         session, NoSync, pulled)
  BY <1>2, <1>3, BegunOK
<1> QED
  BY <1>1, <1>4, InvFacts DEF Refresh, UserMayAct, Begin, SessionInv, Around, KeepsRequest

LEMMA BackKeeps ==
  ASSUME SessionInv, NEW f \in Flows, Back(f)
  PROVE  SessionInv' /\ KeepsRequest
<1>1. PICK c, ts, pulled : c = selected /\ ts = tasks /\ pulled = repo.pulled
  OBVIOUS
<1>2. OK(ts, session, NoSync, pulled) /\ c \in MaybeChapter
  BY <1>1, InvFacts DEF Back, UserMayAct, Around
<1>3. "back" \in Kinds \ {"none", "sync"} /\ "access" \in Pcs /\ "access" \in PcsOf("back")
  BY DEF Kinds, Pcs, PcsOf
<1>4. OK([ts EXCEPT ![f] = [NoTask EXCEPT !.kind = "back", !.pc = "access", !.chapter = c]],
         session, NoSync, pulled)
  BY <1>2, <1>3, BegunOK
<1> QED
  BY <1>1, <1>4, InvFacts DEF Back, UserMayAct, Begin, SessionInv, Around, KeepsRequest

LEMMA LeaveKeeps ==
  ASSUME SessionInv, NEW f \in Flows, NEW kind \in {"toProjects", "toGlossary"}, Leave(kind, f)
  PROVE  SessionInv' /\ KeepsRequest
<1>1. PICK c, ts, pulled : c = NoChapter /\ ts = tasks /\ pulled = repo.pulled
  OBVIOUS
<1>2. OK(ts, session, NoSync, pulled) /\ c \in MaybeChapter
  BY <1>1, InvFacts DEF Leave, UserMayAct, MaybeChapter
<1>3. kind \in Kinds \ {"none", "sync"} /\ "save" \in Pcs /\ "save" \in PcsOf(kind)
  BY DEF Kinds, Pcs, PcsOf
<1>4. PICK ts2 : ts2 = [ts EXCEPT ![f] = [NoTask EXCEPT !.kind = kind, !.pc = "save", !.chapter = c]]
  OBVIOUS
<1>5. /\ OK(ts2, session, NoSync, pulled)
      /\ kind = "toGlossary" => OK(ts2, session, f, pulled)
  BY <1>2, <1>3, <1>4, BegunOK
<1>6. modal' = IF kind = "toGlossary" THEN f ELSE NoSync
  BY DEF Leave, UserMayAct
<1>7. OK(ts2, session, modal', pulled)
  BY <1>5, <1>6
<1> QED
  BY <1>1, <1>4, <1>7, InvFacts DEF Leave, Begin, SessionInv, Around, KeepsRequest

(* A flow goes on to an await of its kind, or is done.                     *)
LEMMA FlowGoesOn ==
  ASSUME SessionInv, NEW f \in Flows, NEW pc \in Pcs, pc \in PcsOf(tasks[f].kind),
         tasks' = [tasks EXCEPT ![f].pc = pc],
         UNCHANGED <<screen, selected, editor, session, modal, repo>>
  PROVE  SessionInv' /\ KeepsRequest
<1>1. f \in Slots /\ tasks[f] \in Task /\ Fits(f, tasks[f]) /\ tasks \in [Slots -> Task]
  BY InvFacts, Pieces
<1>2. PICK r, ts, m, pulled : /\ r = [tasks[f] EXCEPT !.pc = pc] /\ ts = tasks
                              /\ m = modal /\ pulled = repo.pulled
  OBVIOUS
<1>3. r \in Task /\ r.kind = ts[f].kind /\ r.on \in UnderWay(ts) \cup {NoSync} /\ Fits(f, r)
  BY <1>1, <1>2, InvFacts DEF Task, Fits
<1>4. OK(ts, session, m, pulled)
  BY <1>2, InvFacts
<1>5. OK([ts EXCEPT ![f] = r], session, m, pulled)
  BY <1>3, <1>4, FlowOK
<1> QED
  BY <1>1, <1>2, <1>5, InvFacts DEF SessionInv, Around, KeepsRequest

LEMMA FlowIsDone ==
  ASSUME SessionInv, NEW f \in Flows, modal # f, tasks' = [tasks EXCEPT ![f] = NoTask],
         UNCHANGED <<screen, selected, editor, session, modal, repo>>
  PROVE  SessionInv' /\ KeepsRequest
<1>1. PICK ts, m, pulled : ts = tasks /\ m = modal /\ pulled = repo.pulled
  OBVIOUS
<1>2. OK(ts, session, m, pulled)
  BY <1>1, InvFacts
<1>3. OK([ts EXCEPT ![f] = NoTask], session, m, pulled)
  BY <1>1, <1>2, EndFlowOK
<1> QED
  BY <1>1, <1>3, InvFacts DEF SessionInv, Around, KeepsRequest

(* Only an opening and a leave show the modal.                             *)
LEMMA NotTheModals ==
  ASSUME SessionInv, NEW f \in Flows, tasks[f].kind \notin {"open", "toGlossary"}
  PROVE  modal # f
  BY InvFacts, Pieces DEF ModalOK, Blocks

(* The awaits of a refresh only.                                           *)
LEMMA RefreshPcs ==
  ASSUME SessionInv, NEW t \in Slots, tasks[t].pc \in {"others", "synced", "refreshed"}
  PROVE  tasks[t].kind = "refresh"
<1>1. tasks[t].kind \in Kinds /\ tasks[t].pc \in PcsOf(tasks[t].kind)
  BY InvFacts DEF Task, Fits
<1> QED
  BY <1>1 DEF Kinds, PcsOf, LoadPcs

LEMMA LeavePcs ==
  ASSUME SessionInv, NEW t \in Slots, tasks[t].pc \in {"save", "left"}
  PROVE  tasks[t].kind \in {"toProjects", "toGlossary"}
<1>1. tasks[t].kind \in Kinds /\ tasks[t].pc \in PcsOf(tasks[t].kind)
  BY InvFacts DEF Task, Fits
<1> QED
  BY <1>1 DEF Kinds, PcsOf, LoadPcs

LEMMA RefreshAccessKeeps ==
  ASSUME SessionInv, NEW f \in Flows, CheckAccess(f) \/ RefreshSynced(f)
  PROVE  SessionInv' /\ KeepsRequest
<1>1. tasks[f].kind = "refresh"
  BY RefreshPcs, Pieces DEF CheckAccess, RefreshSynced, Awaits
<1>2. {"access", "refreshed"} \subseteq Pcs \cap PcsOf("refresh")
  BY DEF Pcs, PcsOf
<1> QED
  BY <1>1, <1>2, FlowGoesOn DEF CheckAccess, RefreshSynced

LEMMA RefreshEndsKeeps ==
  ASSUME SessionInv, NEW f \in Flows, RefreshDeferred(f) \/ Refreshed(f)
  PROVE  SessionInv' /\ KeepsRequest
<1>1. tasks[f].kind = "refresh"
  BY RefreshPcs, Pieces DEF RefreshDeferred, Refreshed, Awaits
<1>2. modal # f
  BY <1>1, NotTheModals
<1> QED
  BY <1>2, FlowIsDone DEF RefreshDeferred, Refreshed

LEMMA LeaveBlockedKeeps ==
  ASSUME SessionInv, NEW f \in Flows, LeaveBlocked(f)
  PROVE  SessionInv' /\ KeepsRequest
<1>1. PICK ts, pulled : ts = tasks /\ pulled = repo.pulled
  OBVIOUS
<1>2. OK(ts, session, modal', pulled) /\ modal' # f
  BY <1>1, InvFacts, HideOK, Pieces DEF LeaveBlocked
<1>3. OK([ts EXCEPT ![f] = NoTask], session, modal', pulled)
  BY <1>2, EndFlowOK
<1> QED
  BY <1>1, <1>3, InvFacts DEF LeaveBlocked, SessionInv, Around, KeepsRequest

LEMMA OpenBlockedKeeps ==
  ASSUME SessionInv, NEW f \in Flows, OpenBlocked(f)
  PROVE  SessionInv' /\ KeepsRequest
<1>1. PICK ts, pulled : ts = tasks /\ pulled = repo.pulled
  OBVIOUS
<1>2. OK(ts, session, modal', pulled) /\ modal' # f
  BY <1>1, InvFacts, HideOK, Pieces DEF OpenBlocked
<1>3. OK([ts EXCEPT ![f] = NoTask], session, modal', pulled)
  BY <1>2, EndFlowOK
<1> QED
  BY <1>1, <1>3, InvFacts DEF OpenBlocked, SessionInv, Around, KeepsRequest

LEMMA BackFailsKeeps ==
  ASSUME SessionInv, NEW f \in Flows, BackFails(f)
  PROVE  SessionInv' /\ KeepsRequest
<1>1. modal # f
  BY NotTheModals DEF BackFails
<1> QED
  BY <1>1, FlowIsDone DEF BackFails

LEMMA OthersSyncedKeeps ==
  ASSUME SessionInv, NEW f \in Flows, OthersSynced(f)
  PROVE  SessionInv' /\ KeepsRequest
<1>1. tasks[f].kind = "refresh"
  BY RefreshPcs, Pieces DEF OthersSynced, Awaits
<1>2. PICK e, ts, m, pulled : e = editor /\ ts = tasks /\ m = modal /\ pulled = repo.pulled
  OBVIOUS
<1>3. OK(ts, session, m, pulled) /\ ts[f].kind = "refresh" /\ RefreshSyncs(f, e, ts)
  BY <1>1, <1>2, InvFacts DEF OthersSynced
<1>4. OK(tasks', session', m, pulled) /\ session'.chapter = session.chapter /\ KeepsRequest
  BY <1>3, RefreshSyncsOK
<1> QED
  BY <1>2, <1>4, InvFacts DEF OthersSynced, SessionInv, Around

LEMMA FlowLoadsKeeps ==
  ASSUME SessionInv, NEW f \in Flows, RefreshLoads(f) \/ RefreshReloads(f) \/ BackLoads(f)
  PROVE  SessionInv' /\ KeepsRequest /\ tasks'[f].pc = "rows"
<1>1. PICK e, scr, i, ts, m, pulled, c : /\ e = editor /\ scr = screen /\ i = TRUE
                                         /\ ts = tasks /\ m = modal /\ pulled = repo.pulled
                                         /\ c = selected
  OBVIOUS
<1>2. PICK ts2 : ts2 = [ts EXCEPT ![f] = BeginLoad(@, i, e, scr, c)]
  OBVIOUS
<1>3. tasks[f].kind \in {"refresh", "back"}
  BY RefreshPcs, Pieces DEF RefreshLoads, RefreshReloads, BackLoads, Awaits
<1>4. /\ e \in Editor /\ (e.draft => e.rows) /\ c \in MaybeChapter /\ i \in BOOLEAN
      /\ OK(ts, session, m, pulled) /\ ts[f] \in Task
  BY <1>1, InvFacts, Pieces DEF Around
<1>5. OK(ts2, session, m, pulled) /\ ts2[f].pc = "rows" /\ f \in Slots \ Syncs
  <2>1. BeginLoad(ts[f], i, e, scr, c).pc = "rows"
    BY <1>4, LoadBegins
  <2>2. f \in Slots \ Syncs /\ ts \in [Slots -> Task]
    BY <1>1, InvFacts, Pieces
  <2> QED
    BY <1>1, <1>2, <1>3, <1>4, <2>1, <2>2, FlowLoadsOK
<1>6. /\ Loading(i, e, scr, c) \in Editor
      /\ Loading(i, e, scr, c).draft => Loading(i, e, scr, c).rows
  BY <1>4, LoadBegins
<1>7. CASE RefreshLoads(f)
  <2>1. PICK j : j = FALSE
    OBVIOUS
  <2>2. StartSession(e, scr, j, ts2) /\ Key(e, scr) \in MaybeChapter
    BY <1>1, <1>2, <1>4, <1>7, <2>1, KeyIs, InvFacts DEF RefreshLoads
  <2>3. /\ OK(tasks', session', m, pulled)
        /\ session'.chapter \in {session.chapter, Key(e, scr)} /\ KeepsRequest
        /\ \A u \in Slots \ Syncs : tasks'[u].pc = ts2[u].pc
    BY <1>5, <2>2, StartOK
  <2>4. Key(e, scr) # NoChapter => scr = "translate"
    BY <1>1, InvFacts, KeyIs
  <2> QED
    BY <1>1, <1>5, <1>6, <1>7, <2>3, <2>4, InvFacts DEF RefreshLoads, LoadsAgain, SessionInv, Around
<1>8. CASE RefreshReloads(f) \/ BackLoads(f)
  BY <1>1, <1>2, <1>5, <1>6, <1>8, InvFacts
     DEF RefreshReloads, BackLoads, LoadsAgain, SessionInv, Around, KeepsRequest
<1> QED
  BY <1>7, <1>8

LEMMA LeaveSyncedKeeps ==
  ASSUME SessionInv, NEW f \in Flows, Go(f), UNCHANGED <<selected, editor, repo>>
  PROVE  SessionInv' /\ KeepsRequest
<1>1. PICK pulled : pulled = repo.pulled
  OBVIOUS
<1>2. OK(tasks, session, modal, pulled)
  BY <1>1, InvFacts
<1>3. /\ OK(tasks', session', modal', pulled)
      /\ session'.chapter = IF screen = "translate" THEN NoChapter ELSE session.chapter
      /\ screen' \in {"projects", "glossary"}
      /\ KeepsRequest
  BY <1>2, GoOK
<1> QED
  BY <1>1, <1>3, InvFacts DEF SessionInv, Around

LEMMA LeaveSavedKeeps ==
  ASSUME SessionInv, NEW f \in Flows, LeaveSaved(f)
  PROVE  SessionInv' /\ KeepsRequest
<1>1. /\ f \in Slots /\ tasks[f] \in Task /\ Fits(f, tasks[f]) /\ tasks \in [Slots -> Task]
      /\ tasks[f].kind \in {"toProjects", "toGlossary"}
  BY InvFacts, LeavePcs, Pieces DEF LeaveSaved, Awaits
<1>2. "left" \in Pcs /\ "left" \in PcsOf(tasks[f].kind)
  BY <1>1 DEF Pcs, PcsOf
<1>3. PICK ts, m, pulled : ts = tasks /\ m = modal /\ pulled = repo.pulled
  OBVIOUS
<1>4. OK(ts, session, m, pulled)
  BY <1>3, InvFacts
<1>5. CASE Go(f)
  BY <1>5, LeaveSyncedKeeps DEF LeaveSaved
<1>6. CASE UNCHANGED <<screen, modal>> /\ OwnSync(f, "left", tasks)
  <2>1. OwnSync(f, "left", ts) /\ "left" \in PcsOf(ts[f].kind)
    BY <1>2, <1>3, <1>6
  <2>2. OK(tasks', session', m, pulled) /\ session'.chapter = session.chapter /\ KeepsRequest
    BY <1>2, <1>4, <2>1, OwnSyncOK
  <2> QED
    BY <1>3, <1>6, <2>2, InvFacts DEF LeaveSaved, SessionInv, Around
<1>7. CASE /\ UNCHANGED <<screen, modal, session>>
           /\ tasks' = [tasks EXCEPT ![f].pc = "left", ![f].on = session.pending]
  <2>1. PICK r : r = [tasks[f] EXCEPT !.pc = "left", !.on = session.pending]
    OBVIOUS
  <2>2. session.pending \in UnderWay(tasks) \cup {NoSync} /\ session.pending \in MaybeSync
    BY InvFacts DEF Session
  <2>3. /\ r \in Task /\ r.kind = ts[f].kind /\ r.on \in UnderWay(ts) \cup {NoSync}
        /\ Fits(f, r)
    BY <1>1, <1>2, <1>3, <2>1, <2>2 DEF Task, Fits
  <2>4. OK([ts EXCEPT ![f] = r], session, m, pulled)
    BY <1>4, <2>3, FlowOK
  <2> QED
    BY <1>1, <1>3, <1>7, <2>1, <2>4, InvFacts DEF LeaveSaved, SessionInv, Around, KeepsRequest
<1> QED
  BY <1>5, <1>6, <1>7 DEF LeaveSaved

LEMMA GlossaryToProjectsKeeps ==
  ASSUME SessionInv, GlossaryToProjects
  PROVE  SessionInv' /\ KeepsRequest
  BY InvFacts DEF GlossaryToProjects, SessionInv, Around, KeepsRequest

(* What the user writes, and its commits.                                  *)
LEMMA WritesKeep ==
  ASSUME SessionInv, Type \/ SaveDraft \/ RequestOperation \/ FinishOperation
  PROVE  SessionInv' /\ KeepsRequest
<1>1. /\ editor \in Editor /\ (editor.draft => editor.rows) /\ editor.chapter \in MaybeChapter
      /\ repo \in [head : Nat, pulled : SUBSET Changes, op : MaybeChapter, saves : 0 .. MaxSaves]
      /\ repo.head \in Nat
  BY InvFacts DEF Around
<1>2. UNCHANGED <<screen, selected, session, modal, tasks>>
  BY DEF Type, SaveDraft, RequestOperation, FinishOperation
<1>3. Committed \in Editor /\ Committed.rows = editor.rows /\ Committed.draft = editor.draft
  <2>1. PICK n \in Nat, b \in BOOLEAN : Committed = [editor EXCEPT !.base = n, !.sound = b]
    <3>1. repo.head + 1 \in Nat
      BY <1>1
    <3>2. (repo.pulled \cap In(editor.chapter) \subseteq editor.known) \in BOOLEAN
      OBVIOUS
    <3> QED
      BY <3>1, <3>2, Zenon DEF Committed
  <2> QED
    BY <1>1, <2>1 DEF Editor
<1>4. repo.saves < MaxSaves => repo.saves + 1 \in 0 .. MaxSaves
  BY <1>1, SavesAssumption DEF SavesAssumption
<1>5. /\ repo' \in [head : Nat, pulled : SUBSET Changes, op : MaybeChapter, saves : 0 .. MaxSaves]
      /\ repo'.pulled = repo.pulled
      /\ editor' \in Editor /\ (editor'.draft => editor'.rows)
  <2>1. CASE Type
    BY <1>1, <1>4, <2>1 DEF Type, Editor
  <2>2. CASE SaveDraft
    <3>1. repo' = [repo EXCEPT !.head = @ + 1] /\ editor' = [Committed EXCEPT !.draft = FALSE]
      BY <2>2 DEF SaveDraft
    <3>2. editor' \in Editor /\ ~ editor'.draft
      BY <1>3, <3>1 DEF Editor
    <3> QED
      BY <1>1, <3>1, <3>2
  <2>3. CASE RequestOperation
    BY <1>1, <1>4, <2>3 DEF RequestOperation, MaybeChapter
  <2>4. CASE FinishOperation
    <3>1. /\ repo' = [repo EXCEPT !.head = @ + 1, !.op = NoChapter]
          /\ editor' \in {Committed, editor}
      BY <2>4 DEF FinishOperation
    <3>2. NoChapter \in MaybeChapter
      BY DEF MaybeChapter
    <3>3. editor' \in Editor /\ (editor'.draft => editor'.rows)
      <4>1. CASE editor' = Committed
        BY <1>1, <1>3, <4>1
      <4>2. CASE editor' = editor
        BY <1>1, <4>2
      <4> QED
        BY <3>1, <4>1, <4>2
    <3>4. repo'.pulled = repo.pulled
      BY <1>1, <3>1
    <3>5. repo' \in [head : Nat, pulled : SUBSET Changes, op : MaybeChapter, saves : 0 .. MaxSaves]
      <4>1. PICK h \in Nat : repo' = [repo EXCEPT !.head = h, !.op = NoChapter]
        <5>1. repo.head + 1 \in Nat
          BY <1>1
        <5>2. repo' = [repo EXCEPT !.head = repo.head + 1, !.op = NoChapter]
          BY <3>1
        <5> QED
          BY <5>1, <5>2
      <4> QED
        BY <1>1, <3>2, <4>1
    <3> QED
      BY <3>3, <3>4, <3>5
  <2> QED
    BY <2>1, <2>2, <2>3, <2>4
<1> QED
  BY <1>2, <1>5, InvFacts DEF SessionInv, Around, KeepsRequest
-----------------------------------------------------------------------------
(* The steps of a sync.                                                    *)

LEMMA TimerKeeps ==
  ASSUME SessionInv, Timer
  PROVE  SessionInv' /\ KeepsRequest
<1>1. PICK s \in Free(tasks, Syncs) :
             /\ session' = [session EXCEPT !.pending = s]
             /\ tasks' = BeginSync(s, tasks)
  BY DEF Timer
<1>2. PICK ts, m, pulled : ts = tasks /\ m = modal /\ pulled = repo.pulled
  OBVIOUS
<1>3. OK(ts, session, m, pulled) /\ s \in Syncs /\ ts[s].kind = "none"
  BY <1>2, InvFacts DEF Free
<1>4. OK(BeginSync(s, ts), [session EXCEPT !.pending = s], m, pulled)
  BY <1>3, BeginOK
<1>5. session'.chapter = session.chapter /\ session'.reload = session.reload
  BY <1>1, InvFacts DEF Session
<1> QED
  BY <1>1, <1>2, <1>4, <1>5, InvFacts DEF Timer, SessionInv, Around, KeepsRequest

(* A sync that has not loaded does not own the modal.                      *)
LEMMA SyncFacts ==
  ASSUME SessionInv, NEW s \in Syncs
  PROVE  /\ s \in Slots
         /\ tasks[s].pc \in {"queued", "pulled"} => modal # s
         /\ tasks[s].pc = "pulled" => tasks[s].found \subseteq repo.pulled
  BY InvFacts, Pieces DEF ModalOK, Blocks, LoadPcs, RequestOK

LEMMA DropSyncKeeps ==
  ASSUME SessionInv, NEW s \in Syncs, DropSync(s)
  PROVE  SessionInv' /\ KeepsRequest
<1>1. PICK ts, m, pulled, none : /\ ts = tasks /\ m = modal /\ pulled = repo.pulled
                                 /\ none = "none"
  OBVIOUS
<1>2. OK(ts, session, m, pulled) /\ m # s /\ none \in Results
  BY <1>1, InvFacts, SyncFacts DEF DropSync, SyncAt, Results
<1>3. OK(WithoutSync(s, none, ts), [session EXCEPT !.pending = NoSync], m, pulled)
  BY <1>2, EndSyncOK
<1>4. EndSync(s, none, session, ts)
  BY <1>1 DEF DropSync
<1>5. tasks' = WithoutSync(s, none, ts) /\ session' = [session EXCEPT !.pending = NoSync]
  BY <1>4, EndSyncIs
<1>6. session'.chapter = session.chapter /\ session'.reload = session.reload
  BY <1>5, InvFacts DEF Session
<1> QED
  BY <1>1, <1>3, <1>5, <1>6, InvFacts DEF DropSync, SessionInv, Around, KeepsRequest

LEMMA MarkRowsKeeps ==
  ASSUME SessionInv, NEW s \in Syncs, MarkRows(s)
  PROVE  SessionInv' /\ KeepsRequest
<1>1. PICK ts, m, pulled, result :
             /\ ts = tasks /\ m = modal /\ pulled = repo.pulled
             /\ result = IF tasks[s].found = {} /\ HeadMatches(s) THEN "rest" ELSE "load"
  OBVIOUS
<1>2. OK(ts, session, m, pulled) /\ m # s /\ result \in Results
  BY <1>1, InvFacts, SyncFacts DEF MarkRows, Answers, SyncAt, Results
<1>3. OK(WithoutSync(s, result, ts), [session EXCEPT !.pending = NoSync], m, pulled)
  BY <1>2, EndSyncOK
<1>4. EndSync(s, result, session, ts)
  BY <1>1 DEF MarkRows
<1>5. tasks' = WithoutSync(s, result, ts) /\ session' = [session EXCEPT !.pending = NoSync]
  BY <1>4, EndSyncIs
<1>6. session'.chapter = session.chapter /\ session'.reload = session.reload
  BY <1>5, InvFacts DEF Session
<1>7. /\ editor \in Editor /\ (editor.draft => editor.rows) /\ tasks[s] \in Task
      /\ tasks[s].at + (IF tasks[s].found = {} THEN 0 ELSE 1) \in Nat
  BY InvFacts, SyncFacts DEF Around, Task
<1>8. editor' \in Editor /\ (editor'.draft => editor'.rows)
  BY <1>7 DEF MarkRows, Editor, Task
<1> QED
  BY <1>1, <1>3, <1>5, <1>6, <1>8, InvFacts DEF MarkRows, SessionInv, Around, KeepsRequest

LEMMA EndReloadKeeps ==
  ASSUME SessionInv, NEW s \in Syncs, EndReload(s)
  PROVE  SessionInv'
<1>1. PICK ts, m, pulled, result, ses :
             /\ ts = tasks /\ m = modal' /\ pulled = repo.pulled /\ result = tasks[s].result
             /\ ses = IF MatchesWith(editor, s) /\ tasks[s].result = "rest"
                      THEN [session EXCEPT !.reload = {}] ELSE session
  OBVIOUS
<1>2. OK(ts, session, m, pulled) /\ m # s /\ result \in Results
  BY <1>1, InvFacts, SyncFacts, HideOK DEF EndReload, Results, Task
<1>3. OK(ts, ses, m, pulled)
  BY <1>1, <1>2, ClearedOK
<1>4. OK(WithoutSync(s, result, ts), [ses EXCEPT !.pending = NoSync], m, pulled)
  BY <1>2, <1>3, EndSyncOK
<1>5. EndSync(s, result, ses, ts)
  BY <1>1 DEF EndReload
<1>6. tasks' = WithoutSync(s, result, ts) /\ session' = [ses EXCEPT !.pending = NoSync]
  BY <1>5, EndSyncIs
<1>7. session'.chapter = session.chapter
  BY <1>1, <1>6, InvFacts DEF Session
<1> QED
  BY <1>1, <1>4, <1>6, <1>7, InvFacts DEF EndReload, SessionInv, Around

(* What a current sync asks for was pulled.                                *)
LEMMA AskedFacts ==
  ASSUME SessionInv, NEW s \in Syncs, Answers(s)
  PROVE  /\ tasks[s].kind = "sync" /\ tasks[s].pc = "pulled" /\ tasks[s].current
         /\ session.chapter # NoChapter
         /\ Asked(s) \subseteq repo.pulled \cap In(session.chapter)
         /\ session.reload \subseteq Asked(s)
         /\ [session EXCEPT !.reload = Asked(s)] \in Session
<1>1. tasks[s].kind = "sync" /\ tasks[s].pc = "pulled" /\ tasks[s].current /\ session.chapter # NoChapter
  BY DEF Answers, SyncAt, MatchesWith
<1>2. /\ session \in Session /\ session.reload \subseteq repo.pulled \cap In(session.chapter)
      /\ tasks[s].found \subseteq repo.pulled /\ repo.pulled \subseteq Changes
  BY <1>1, InvFacts, SyncFacts DEF RequestOK, Around
<1>3. Asked(s) \subseteq repo.pulled \cap In(session.chapter) /\ session.reload \subseteq Asked(s)
  BY <1>2 DEF Asked
<1>4. [session EXCEPT !.reload = Asked(s)] \in Session
  BY <1>2, <1>3 DEF Session
<1> QED
  BY <1>1, <1>3, <1>4

LEMMA DeferReloadKeeps ==
  ASSUME SessionInv, NEW s \in Syncs, DeferReload(s)
  PROVE  SessionInv' /\ KeepsRequest
<1>1. PICK ts, m, pulled, result, ses, old :
             /\ ts = tasks /\ m = modal /\ pulled = repo.pulled /\ result = "deferred"
             /\ ses = [session EXCEPT !.reload = Asked(s)] /\ old = session
  OBVIOUS
<1>2. Answers(s) /\ EndSync(s, result, ses, ts)
  BY <1>1 DEF DeferReload
<1>3. /\ ts[s].kind = "sync" /\ ts[s].pc = "pulled" /\ ts[s].current
      /\ old.chapter # NoChapter /\ ses \in Session
      /\ Asked(s) \subseteq pulled \cap In(old.chapter) /\ old.reload \subseteq Asked(s)
  BY <1>1, <1>2, AskedFacts
<1>4. /\ OK(ts, old, m, pulled) /\ m # s /\ result \in Results /\ s \in Slots
      /\ ts \in [Slots -> Task] /\ ts[s] \in Task /\ Fits(s, ts[s])
      /\ ts[s].on \in UnderWay(ts) \cup {NoSync} /\ ts[s].found \subseteq pulled /\ old \in Session
  BY <1>1, <1>3, InvFacts, SyncFacts DEF Results
<1>5. ses.pending = old.pending /\ ses.chapter = old.chapter /\ ses.reload = Asked(s)
  BY <1>1, <1>4 DEF Session
<1>6. Brings(ts[s], ses)
  BY <1>3 DEF Brings
<1>7. PICK r : r = ts[s]
  OBVIOUS
<1>8. OK([ts EXCEPT ![s] = r], ses, m, pulled)
  BY <1>3, <1>4, <1>5, <1>6, <1>7, SyncOK
<1>9. OK(ts, ses, m, pulled)
  BY <1>4, <1>7, <1>8
<1>10. OK(WithoutSync(s, result, ts), [ses EXCEPT !.pending = NoSync], m, pulled)
  BY <1>4, <1>9, EndSyncOK
<1>11. tasks' = WithoutSync(s, result, ts) /\ session' = [ses EXCEPT !.pending = NoSync]
  BY <1>2, EndSyncIs
<1>12. session'.chapter = session.chapter /\ session'.reload = Asked(s)
  BY <1>1, <1>3, <1>5, <1>11 DEF Session
<1> QED
  BY <1>1, <1>3, <1>10, <1>11, <1>12, InvFacts DEF DeferReload, SessionInv, Around, KeepsRequest

LEMMA BlockAndReloadKeeps ==
  ASSUME SessionInv, NEW s \in Syncs, BlockAndReload(s)
  PROVE  SessionInv' /\ KeepsRequest
<1>1. PICK ts, m, pulled, ses, old, e, scr, i, c :
             /\ ts = tasks /\ m = modal /\ pulled = repo.pulled
             /\ ses = session' /\ old = session
             /\ e = editor /\ scr = screen /\ i = TRUE /\ c = selected
  OBVIOUS
<1>2. PICK task : task = [ts[s] EXCEPT !.found = {}, !.at = 0]
  OBVIOUS
<1>3. PICK r : r = BeginLoad(task, i, e, scr, c)
  OBVIOUS
<1>4. /\ ts[s].kind = "sync" /\ ts[s].pc = "pulled" /\ ts[s].current
      /\ old.chapter # NoChapter /\ ses \in Session
      /\ Asked(s) \subseteq pulled \cap In(old.chapter) /\ old.reload \subseteq Asked(s)
      /\ ses = [old EXCEPT !.reload = Asked(s)]
  BY <1>1, AskedFacts DEF BlockAndReload
<1>5. /\ OK(ts, old, m, pulled) /\ m # s /\ s \in Slots
      /\ ts \in [Slots -> Task] /\ ts[s] \in Task /\ Fits(s, ts[s])
      /\ ts[s].on \in UnderWay(ts) \cup {NoSync} /\ old \in Session
      /\ e \in Editor /\ (e.draft => e.rows) /\ c \in MaybeChapter /\ i \in BOOLEAN
  BY <1>1, <1>4, InvFacts, SyncFacts DEF Around
<1>6. ses.pending = old.pending /\ ses.chapter = old.chapter /\ ses.reload = Asked(s)
  BY <1>4, <1>5 DEF Session
<1>7. /\ task \in Task /\ task.kind = "sync" /\ task.on = ts[s].on
      /\ task.current = ts[s].current /\ task.clean = ts[s].clean
  BY <1>2, <1>4, <1>5 DEF Task
<1>8. /\ r \in Task /\ r.kind = "sync" /\ r.pc = "rows" /\ r.on = ts[s].on
      /\ r.current = ts[s].current /\ r.clean = ts[s].clean
      /\ (r.preserve => r.prev = r.chapter)
      /\ Loading(i, e, scr, c) \in Editor
      /\ Loading(i, e, scr, c).draft => Loading(i, e, scr, c).rows
  BY <1>3, <1>5, <1>7, LoadBegins
<1>9. Fits(s, r)
  BY <1>5, <1>8, Pieces DEF Fits, PcsOf, LoadPcs
<1>10. Brings(r, ses) /\ Blocks(s, r)
  BY <1>8 DEF Brings, Blocks, LoadPcs
<1>11. PICK ts2 : ts2 = [ts EXCEPT ![s] = r]
  OBVIOUS
<1>12. OK(ts2, ses, m, pulled)
  BY <1>4, <1>5, <1>6, <1>8, <1>9, <1>10, <1>11, SyncOK
<1>13. OK(ts2, ses, s, pulled)
  BY <1>5, <1>10, <1>11, <1>12, ModalShownOK
<1>14. /\ tasks' = ts2 /\ modal' = s /\ editor' = Loading(i, e, scr, c)
       /\ UNCHANGED <<screen, selected, repo>>
  BY <1>1, <1>2, <1>3, <1>5, <1>11 DEF BlockAndReload
<1>15. KeepsRequest
  BY <1>1, <1>4, <1>6 DEF KeepsRequest
<1>16. Around'
  <2>1. editor' \in Editor /\ (editor'.draft => editor'.rows)
    BY <1>8, <1>14
  <2>2. session'.chapter = session.chapter
    BY <1>1, <1>6
  <2> QED
    BY <1>14, <2>1, <2>2, InvFacts DEF Around
<1>17. OK(tasks', session', modal', repo'.pulled)
  BY <1>1, <1>13, <1>14
<1> QED
  BY <1>15, <1>16, <1>17 DEF SessionInv

(* The summary of a sync reaches the refreshes that await it.              *)
LEMMA FoundOK ==
  ASSUME NEW ts, NEW ses, NEW m, NEW pulled, OK(ts, ses, m, pulled), NEW ts2 \in [Slots -> Task],
         \A t \in Slots : \/ ts2[t] = ts[t]
                          \/ ts[t].pc = "synced" /\ \E x : ts2[t] = [ts[t] EXCEPT !.found = x]
  PROVE  OK(ts2, ses, m, pulled)
<1>1. ts \in [Slots -> Task] /\ GoodTasks(ts) /\ ModalOK(ts, m)
  BY DEF OK, GoodTasks
<1>2. \A t \in Slots : /\ ts2[t].kind = ts[t].kind /\ ts2[t].pc = ts[t].pc
                       /\ ts2[t].on = ts[t].on /\ ts2[t].current = ts[t].current
                       /\ ts2[t].preserve = ts[t].preserve /\ ts2[t].prev = ts[t].prev
                       /\ ts2[t].chapter = ts[t].chapter
  BY <1>1 DEF Task
<1>3. UnderWay(ts2) = UnderWay(ts)
  BY <1>2, Pieces DEF UnderWay
<1>4. GoodTasks(ts2)
  BY <1>1, <1>2, <1>3 DEF GoodTasks, Fits
<1>5. ModalOK(ts2, m)
  BY <1>1, <1>2 DEF ModalOK, Blocks
<1>6. \A s \in Syncs : ts2[s] = ts[s]
  BY <1>1, Pieces DEF GoodTasks, Fits, PcsOf, LoadPcs
<1>7. RequestOK(ts2, ses, pulled)
  BY <1>6 DEF OK, RequestOK
<1> QED
  BY <1>3, <1>4, <1>5, <1>7 DEF OK

LEMMA PullKeeps ==
  ASSUME SessionInv, NEW s \in Syncs, Pull(s)
  PROVE  SessionInv' /\ KeepsRequest
<1>1. PICK found \in SUBSET (Changes \ repo.pulled) :
        /\ repo' = [repo EXCEPT !.pulled = @ \cup found, !.head = IF found = {} THEN @ ELSE @ + 1]
        /\ tasks' = [t \in Slots |->
             IF t = s THEN [tasks[t] EXCEPT !.pc = "pulled", !.found = found, !.at = repo.head]
             ELSE IF tasks[t].on = s /\ tasks[t].pc = "synced"
             THEN [tasks[t] EXCEPT !.found = repo'.pulled \cap In(tasks[t].chapter)]
             ELSE tasks[t]]
  BY DEF Pull
<1>2. /\ tasks[s].kind = "sync" /\ tasks[s].pc = "queued"
      /\ UNCHANGED <<screen, selected, editor, session, modal>>
  BY DEF Pull, SyncAt
<1>3. repo \in [head : Nat, pulled : SUBSET Changes, op : MaybeChapter, saves : 0 .. MaxSaves]
  BY InvFacts DEF Around
<1>4. PICK ts, ses, m, pulled, more : /\ ts = tasks /\ ses = session /\ m = modal
                                      /\ pulled = repo.pulled /\ more = pulled \cup found
  OBVIOUS
<1>5. PICK r : r = [tasks[s] EXCEPT !.pc = "pulled", !.found = found, !.at = repo.head]
  OBVIOUS
<1>6. /\ repo' \in [head : Nat, pulled : SUBSET Changes, op : MaybeChapter, saves : 0 .. MaxSaves]
      /\ repo'.pulled = more /\ pulled \subseteq more /\ found \subseteq more /\ more \subseteq Changes
  <2>1. PICK h \in Nat : h = IF found = {} THEN repo.head ELSE repo.head + 1
    <3>1. repo.head \in Nat /\ repo.head + 1 \in Nat
      BY <1>3
    <3> QED
      BY <3>1
  <2>2. repo' = [repo EXCEPT !.pulled = repo.pulled \cup found, !.head = h]
    BY <1>1, <2>1
  <2>3. repo.pulled \cup found \subseteq Changes
    BY <1>1, <1>3
  <2> QED
    BY <1>3, <1>4, <2>2, <2>3
<1>7. /\ s \in Slots /\ ts \in [Slots -> Task] /\ ts[s] \in Task /\ Fits(s, ts[s]) /\ m # s
      /\ ts[s].on \in UnderWay(ts) \cup {NoSync} /\ ses \in Session
      /\ OK(ts, ses, m, pulled) /\ RequestOK(ts, ses, pulled)
  BY <1>2, <1>4, InvFacts, SyncFacts
<1>8. OK(ts, ses, m, more)
  BY <1>6, <1>7, MorePulledOK
<1>9. /\ r \in Task /\ r.kind = "sync" /\ r.pc = "pulled" /\ r.on = ts[s].on
      /\ r.current = ts[s].current /\ r.clean = ts[s].clean /\ r.found = found
      /\ r.preserve = ts[s].preserve /\ r.prev = ts[s].prev /\ r.chapter = ts[s].chapter
  BY <1>2, <1>3, <1>4, <1>5, <1>6, <1>7 DEF Task, Pcs
<1>10. Fits(s, r)
  BY <1>7, <1>9, Pieces DEF Fits, PcsOf
<1>11. Brings(r, ses) /\ RequestOK(ts, ses, more)
  BY <1>8, <1>9 DEF Brings, OK
<1>12. /\ ses.reload \subseteq more \cap In(ses.chapter)
       /\ ses.chapter = NoChapter => ses.reload = {}
  BY <1>11 DEF RequestOK
<1>13. PICK ts1 : ts1 = [ts EXCEPT ![s] = r]
  OBVIOUS
<1>14. OK(ts1, ses, m, more)
  BY <1>2, <1>4, <1>6, <1>7, <1>8, <1>9, <1>10, <1>11, <1>12, <1>13, SyncOK
<1>15. ts1[s] = r /\ \A t \in Slots : t # s => ts1[t] = ts[t]
  BY <1>7, <1>13
<1>16. PICK ts2 : ts2 = tasks'
  OBVIOUS
<1>17. ASSUME NEW t \in Slots
       PROVE  \/ ts2[t] = ts1[t]
              \/ /\ ts1[t].pc = "synced"
                 /\ \E x \in SUBSET Changes : ts2[t] = [ts1[t] EXCEPT !.found = x]
  <2>1. CASE t = s
    BY <1>1, <1>5, <1>7, <1>15, <1>16, <2>1
  <2>2. CASE t # s /\ tasks[t].on = s /\ tasks[t].pc = "synced"
    <3>1. ts2[t] = [tasks[t] EXCEPT !.found = repo'.pulled \cap In(tasks[t].chapter)]
      BY <1>1, <1>16, <2>2
    <3>2. repo'.pulled \cap In(tasks[t].chapter) \in SUBSET Changes
      BY <1>6
    <3> QED
      BY <1>4, <1>15, <2>2, <3>1, <3>2
  <2>3. CASE t # s /\ ~ (tasks[t].on = s /\ tasks[t].pc = "synced")
    BY <1>1, <1>4, <1>15, <1>16, <2>3
  <2> QED
    BY <2>1, <2>2, <2>3
<1>18. ts2 \in [Slots -> Task]
  <2>1. ASSUME NEW t \in Slots
        PROVE  ts2[t] \in Task
    <3>1. ts1[t] \in Task
      BY <1>7, <1>9, <1>15
    <3>2. \A x \in SUBSET Changes : [ts1[t] EXCEPT !.found = x] \in Task
      BY <3>1 DEF Task
    <3>3. CASE ts2[t] = ts1[t]
      BY <3>1, <3>3
    <3>4. CASE \E x \in SUBSET Changes : ts2[t] = [ts1[t] EXCEPT !.found = x]
      <4>1. PICK x \in SUBSET Changes : ts2[t] = [ts1[t] EXCEPT !.found = x]
        BY <3>4
      <4>2. [ts1[t] EXCEPT !.found = x] \in Task
        BY <3>2, <4>1
      <4> QED
        BY <4>1, <4>2
    <3> QED
      BY <1>17, <3>3, <3>4
  <2>2. DOMAIN ts2 = Slots /\ ts2 = [t \in Slots |-> ts2[t]]
    BY <1>1, <1>16
  <2> QED
    BY <2>1, <2>2
<1>19. \A t \in Slots : \/ ts2[t] = ts1[t]
                        \/ ts1[t].pc = "synced" /\ \E x : ts2[t] = [ts1[t] EXCEPT !.found = x]
  BY <1>17
<1>20. OK(ts2, ses, m, more)
  BY <1>14, <1>18, <1>19, FoundOK
<1> QED
  BY <1>2, <1>4, <1>6, <1>16, <1>20, InvFacts DEF SessionInv, Around, KeepsRequest
-----------------------------------------------------------------------------
(* What a flow does in Next.                                               *)
StepsOf(f) == FlowStep(f) \/ LeaveBlocked(f) \/ OpenBlocked(f) \/ BackFails(f)

(* Every step keeps the invariant, and the request but at the end of a     *)
(* reload.                                                                 *)
LEMMA FlowStepKeeps ==
  ASSUME SessionInv, NEW f \in Flows, StepsOf(f)
  PROVE  SessionInv' /\ KeepsRequest
<1>1. f \in Slots
  BY Pieces
<1>2. CASE LoadStep(f)
  BY <1>1, <1>2, ReadRowsKeeps, ReadHeadKeeps, ApplyLoadKeeps, FailLoadKeeps DEF LoadStep
<1>3. CASE EnterChapter(f) \/ LeaveBlocked(f) \/ OthersSynced(f) \/ LeaveSaved(f)
  BY <1>3, EnterChapterKeeps, LeaveBlockedKeeps, OthersSyncedKeeps, LeaveSavedKeeps
<1>4. CASE RefreshLoads(f) \/ RefreshReloads(f) \/ BackLoads(f)
  BY <1>4, FlowLoadsKeeps
<1>5. CASE CheckAccess(f) \/ RefreshSynced(f)
  BY <1>5, RefreshAccessKeeps
<1>6. CASE RefreshDeferred(f) \/ Refreshed(f)
  BY <1>6, RefreshEndsKeeps
<1>7. CASE LeaveSynced(f)
  BY <1>7, LeaveSyncedKeeps DEF LeaveSynced
<1>8. CASE OpenBlocked(f) \/ BackFails(f)
  BY <1>8, OpenBlockedKeeps, BackFailsKeeps
<1> QED
  BY <1>2, <1>3, <1>4, <1>5, <1>6, <1>7, <1>8 DEF StepsOf, FlowStep

LEMMA SyncStepKeeps ==
  ASSUME SessionInv, NEW s \in Syncs, SyncStep(s)
  PROVE  SessionInv' /\ (KeepsRequest \/ EndReload(s))
<1>1. s \in Slots
  BY Pieces
<1>2. CASE LoadStep(s)
  BY <1>1, <1>2, ReadRowsKeeps, ReadHeadKeeps, ApplyLoadKeeps, FailLoadKeeps DEF LoadStep
<1>3. CASE Pull(s) \/ DropSync(s) \/ MarkRows(s)
  BY <1>3, PullKeeps, DropSyncKeeps, MarkRowsKeeps
<1>4. CASE DeferReload(s) \/ BlockAndReload(s)
  BY <1>4, DeferReloadKeeps, BlockAndReloadKeeps
<1>5. CASE EndReload(s)
  BY <1>5, EndReloadKeeps
<1> QED
  BY <1>2, <1>3, <1>4, <1>5 DEF SyncStep

LEMMA UserStepKeeps ==
  ASSUME SessionInv, UserStep
  PROVE  SessionInv' /\ KeepsRequest
<1>1. CASE \E f \in Flows : \E c \in Chapters : Open(c, f)
  BY <1>1, OpenKeeps
<1>2. CASE \E f \in Flows : \E kind \in {"toProjects", "toGlossary"} : Leave(kind, f)
  BY <1>2, LeaveKeeps
<1>3. CASE \E f \in Flows : Refresh(f) \/ Back(f)
  BY <1>3, RefreshKeeps, BackKeeps
<1>4. CASE \E c \in Chapters : Resume(c)
  BY <1>4, ResumeKeeps
<1>5. CASE GlossaryToProjects \/ Type \/ RequestOperation
  BY <1>5, GlossaryToProjectsKeeps, WritesKeep
<1> QED
  BY <1>1, <1>2, <1>3, <1>4, <1>5 DEF UserStep

LEMMA StepKeeps ==
  ASSUME SessionInv, Next
  PROVE  SessionInv' /\ (KeepsRequest \/ \E s \in Syncs : EndReload(s))
<1>1. CASE UserStep
  BY <1>1, UserStepKeeps
<1>2. CASE Timer
  BY <1>2, TimerKeeps
<1>3. CASE SaveDraft \/ FinishOperation
  BY <1>3, WritesKeep
<1>4. CASE \E f \in Flows : StepsOf(f)
  BY <1>4, FlowStepKeeps
<1>5. CASE \E s \in Syncs : SyncStep(s)
  BY <1>5, SyncStepKeeps
<1> QED
  BY <1>1, <1>2, <1>3, <1>4, <1>5 DEF Next, StepsOf

LEMMA StutterKeeps ==
  ASSUME SessionInv, UNCHANGED vars
  PROVE  SessionInv'
  BY DEF SessionInv, Around, vars

(* Tasks, session, modal and what was pulled stay consistent: what is      *)
(* awaited is under way, a modal has an owner that will hide it, and a     *)
(* request of a session is for changes that were pulled                    *)
(* (editor-background-sync.js, navigation-loading.js).                     *)
THEOREM SessionInvariant == Spec => []SessionInv
<1>1. Init => SessionInv
  BY InitInv
<1>2. SessionInv /\ [Next]_vars => SessionInv'
  BY StepKeeps, StutterKeeps
<1> QED
  BY <1>1, <1>2, PTL DEF Spec

(* A flow or a session awaits only a sync that is under way, and a flow    *)
(* keeps to a flow's slot (editor-background-sync.js, pendingSync).        *)
THEOREM TypeCorrect == Spec => []TypeOK
<1>1. SessionInv => TypeOK
  <2> SUFFICES ASSUME SessionInv PROVE TypeOK
    OBVIOUS
  <2>1. \A t \in Slots : tasks[t].kind # "none" => (tasks[t].kind = "sync" <=> t \in Syncs)
    BY InvFacts, Pieces DEF Fits, Slots
  <2>2. \A t \in Slots : tasks[t].on # NoSync => tasks[tasks[t].on].kind = "sync"
    BY InvFacts DEF UnderWay
  <2>3. modal \in Slots \cup {NoSync}
    BY InvFacts DEF ModalOK
  <2> QED
    BY <2>1, <2>2, <2>3, InvFacts DEF TypeOK, Around, Editor, Session, MaybeChapter, MaybeSync
<1> QED
  BY <1>1, SessionInvariant, PTL

(* With nothing under way the screen is not blocked, and no session is     *)
(* left behind another screen or awaiting a sync that has ended            *)
(* (navigation-loading.js, editor-background-sync.js).                     *)
THEOREM NothingIsLeft == Spec => []NothingLingers
<1>1. SessionInv => NothingLingers
  <2> SUFFICES ASSUME SessionInv, AtRest PROVE NothingLingers
    BY DEF NothingLingers
  <2>1. \A t \in Slots : tasks[t].kind = "none"
    BY Pieces DEF AtRest
  <2>2. UnderWay(tasks) = {}
    BY <2>1, Pieces DEF UnderWay
  <2>3. modal = NoSync /\ session.pending = NoSync
    BY <2>1, <2>2, InvFacts DEF ModalOK, Blocks
  <2>4. session.chapter # NoChapter => screen = "translate"
    BY InvFacts DEF Around
  <2> QED
    BY <2>3, <2>4 DEF NothingLingers
<1> QED
  BY <1>1, SessionInvariant, PTL

(* The end of a reload drops the request only when its load was applied    *)
(* and has what was asked for (reloadSyncedChapter); nothing else drops it *)
(* (editor-background-sync.js, pendingReloadReason).                       *)
THEOREM RequestIsAnswered == Spec => RequestOutlivesFailure
<1> DEFINE A == DropsRequest => \E s \in Syncs :
                  /\ tasks[s].pc = "paint" /\ tasks[s].result = "rest"
                  /\ tasks[s].clean => session.reload \subseteq tasks[s].read
<1>1. SessionInv /\ [Next]_vars => A
  <2> SUFFICES ASSUME SessionInv, [Next]_vars, DropsRequest
               PROVE  \E s \in Syncs :
                        /\ tasks[s].pc = "paint" /\ tasks[s].result = "rest"
                        /\ tasks[s].clean => session.reload \subseteq tasks[s].read
    OBVIOUS
  <2>1. session.reload # {} /\ session'.reload = {} /\ session'.chapter = session.chapter
    BY DEF DropsRequest
  <2>2. ~ KeepsRequest
    BY <2>1 DEF KeepsRequest
  <2>3. ~ UNCHANGED vars
    BY <2>1 DEF vars
  <2>4. PICK s \in Syncs : EndReload(s)
    BY <2>2, <2>3, StepKeeps
  <2>5. PICK ts, result, ses :
               /\ ts = tasks /\ result = tasks[s].result
               /\ ses = IF MatchesWith(editor, s) /\ tasks[s].result = "rest"
                        THEN [session EXCEPT !.reload = {}] ELSE session
    OBVIOUS
  <2>6. EndSync(s, result, ses, ts)
    BY <2>4, <2>5 DEF EndReload
  <2>7. session' = [ses EXCEPT !.pending = NoSync]
    BY <2>6, EndSyncIs
  <2>8. MatchesWith(editor, s) /\ tasks[s].result = "rest"
    BY <2>1, <2>5, <2>7, InvFacts DEF Session
  <2>9. tasks[s].pc = "paint" /\ tasks[s].current
    BY <2>4, <2>8 DEF EndReload, SyncAt, MatchesWith
  <2>10. tasks[s].clean => session.reload \subseteq tasks[s].read
    BY <2>8, <2>9, InvFacts DEF RequestOK, Brings
  <2> QED
    BY <2>8, <2>9, <2>10
<1> QED
  BY <1>1, SessionInvariant, PTL DEF Spec, RequestOutlivesFailure

-----------------------------------------------------------------------------
(* Drafts.                                                                 *)

LEMMA LoadedDrafts ==
  ASSUME SessionInv, NEW t \in Slots, editor.draft, ApplyLoad(t) \/ FailLoad(t), ~ editor'.draft
  PROVE  /\ tasks[t].pc = "apply" /\ tasks'[t].pc # "apply"
         /\ tasks[t].preserve => tasks[t].chapter # editor.chapter
<1>1. tasks[t].pc = "apply" /\ tasks'[t].pc # "apply"
  BY ApplyLoadKeeps, FailLoadKeeps DEF ApplyLoad, FailLoad, Loads
<1>2. (tasks[t].preserve => tasks[t].prev = tasks[t].chapter) /\ editor \in Editor
  BY InvFacts DEF Fits, Around
<1>3. CASE ApplyLoad(t)
  <2>1. editor' = Loaded(tasks[t])
    BY <1>3 DEF ApplyLoad
  <2>2. ~ KeepsDrafts(tasks[t])
    BY <2>1 DEF Loaded
  <2> QED
    BY <1>1, <1>2, <2>2 DEF KeepsDrafts
<1>4. CASE FailLoad(t)
  <2>1. editor' = LoadFailed(tasks[t])
    BY <1>4 DEF FailLoad
  <2>2. ~ (tasks[t].preserve /\ editor.chapter = tasks[t].chapter)
    BY <1>2, <2>1 DEF LoadFailed, Editor
  <2> QED
    BY <1>1, <2>2
<1> QED
  BY <1>3, <1>4

(* A load that begins takes the rows of another chapter than the one       *)
(* selected, or on another screen.                                         *)
LEMMA BegunDrafts ==
  ASSUME SessionInv, NEW f \in Flows, editor.draft, ~ editor'.draft,
         RefreshLoads(f) \/ RefreshReloads(f) \/ BackLoads(f)
  PROVE  /\ tasks[f].pc # "rows" /\ tasks'[f].pc = "rows"
         /\ screen # "translate" \/ editor.chapter # selected
<1>1. tasks'[f].pc = "rows"
  BY FlowLoadsKeeps
<1>2. tasks[f].pc # "rows" /\ LoadsAgain(f)
  BY DEF RefreshLoads, RefreshReloads, BackLoads, Awaits
<1>3. editor.rows /\ editor \in Editor
  BY InvFacts DEF Around
<1>4. CASE Preserves(TRUE, editor, screen, selected)
  BY <1>2, <1>3, <1>4 DEF LoadsAgain, Loading, Editor
<1>5. CASE ~ Preserves(TRUE, editor, screen, selected)
  BY <1>1, <1>2, <1>3, <1>5 DEF Preserves
<1> QED
  BY <1>4, <1>5

(* No other step takes a draft that is not saved.                          *)
LEMMA OthersKeepDrafts ==
  ASSUME SessionInv, Next, TakesDraft
  PROVE  \E t \in Slots : \/ ApplyLoad(t) \/ FailLoad(t)
                          \/ t \in Flows /\ (RefreshLoads(t) \/ RefreshReloads(t) \/ BackLoads(t))
<1>1. /\ editor.draft /\ ~ editor'.draft /\ repo'.head = repo.head /\ editor' # editor
      /\ editor \in Editor /\ repo.head \in Nat /\ repo.head + 1 # repo.head
      /\ repo \in [head : Nat, pulled : SUBSET Changes, op : MaybeChapter, saves : 0 .. MaxSaves]
  BY InvFacts DEF TakesDraft, Around
<1>2. ~ UserStep
  <2>1. ~ (\E c \in Chapters : Resume(c)) /\ ~ Type
    BY <1>1 DEF Resume, Type, Editor
  <2> QED
    BY <1>1, <2>1 DEF UserStep, Open, Leave, Refresh, Back, GlossaryToProjects, RequestOperation
<1>3. ~ Timer
  BY <1>1 DEF Timer
<1>4. ~ SaveDraft /\ ~ FinishOperation
  <2>1. [repo EXCEPT !.head = @ + 1].head # repo.head
    BY <1>1
  <2>2. [repo EXCEPT !.head = @ + 1, !.op = NoChapter].head # repo.head
    BY <1>1
  <2> QED
    BY <1>1, <2>1, <2>2 DEF SaveDraft, FinishOperation
<1>5. ASSUME NEW f \in Flows, StepsOf(f)
      PROVE  ApplyLoad(f) \/ FailLoad(f) \/ RefreshLoads(f) \/ RefreshReloads(f) \/ BackLoads(f)
  <2>1. ~ EnterChapter(f)
    BY <1>1 DEF EnterChapter, Awaits, Ready
  <2>2. ~ (CheckAccess(f) \/ OthersSynced(f) \/ RefreshDeferred(f) \/ RefreshSynced(f)
           \/ Refreshed(f) \/ LeaveSaved(f) \/ LeaveSynced(f) \/ LeaveBlocked(f)
           \/ OpenBlocked(f) \/ BackFails(f) \/ ReadRows(f) \/ ReadHead(f))
    BY <1>1 DEF CheckAccess, OthersSynced, RefreshDeferred, RefreshSynced, Refreshed,
                LeaveSaved, LeaveSynced, LeaveBlocked, OpenBlocked, BackFails, ReadRows,
                ReadHead
  <2> QED
    BY <1>5, <2>1, <2>2 DEF StepsOf, FlowStep, LoadStep
<1>6. ASSUME NEW s \in Syncs, SyncStep(s)
      PROVE  ApplyLoad(s) \/ FailLoad(s)
  <2>1. ~ (Pull(s) \/ DropSync(s) \/ DeferReload(s) \/ EndReload(s) \/ ReadRows(s) \/ ReadHead(s))
    BY <1>1 DEF Pull, DropSync, DeferReload, EndReload, ReadRows, ReadHead
  <2>2. ~ BlockAndReload(s)
    BY <1>1 DEF BlockAndReload
  <2>3. ~ MarkRows(s)
    BY <1>1 DEF MarkRows, Editor
  <2> QED
    BY <1>6, <2>1, <2>2, <2>3 DEF SyncStep, LoadStep
<1> QED
  BY <1>2, <1>3, <1>4, <1>5, <1>6, Pieces DEF Next, StepsOf, Slots

(* No reload takes a draft from the chapter on screen, whenever it was     *)
(* typed and whether the load is applied or fails                          *)
(* (editor-chapter-load-flow.js, mergeInFlightDirtyEditorRows).            *)
THEOREM DraftsAreKept == Spec => DraftsSurviveReloads
<1> DEFINE Taken(t) ==
             \/ /\ tasks[t].pc = "apply" /\ tasks'[t].pc # "apply"
                /\ tasks[t].preserve => tasks[t].chapter # editor.chapter
             \/ /\ tasks[t].pc # "rows" /\ tasks'[t].pc = "rows"
                /\ screen # "translate" \/ editor.chapter # selected
<1>1. SessionInv /\ [Next]_vars => (TakesDraft => \E t \in Slots : Taken(t))
  <2> SUFFICES ASSUME SessionInv, [Next]_vars, TakesDraft
               PROVE  \E t \in Slots : Taken(t)
    OBVIOUS
  <2>1. editor.draft /\ ~ editor'.draft
    BY DEF TakesDraft
  <2>2. ~ UNCHANGED vars
    BY <2>1 DEF vars
  <2>3. PICK t \in Slots : \/ ApplyLoad(t) \/ FailLoad(t)
                           \/ t \in Flows /\ (RefreshLoads(t) \/ RefreshReloads(t) \/ BackLoads(t))
    BY <2>2, OthersKeepDrafts
  <2>4. Taken(t)
    BY <2>1, <2>3, LoadedDrafts, BegunDrafts
  <2> QED
    BY <2>4
<1> QED
  BY <1>1, SessionInvariant, PTL DEF Spec, DraftsSurviveReloads
-----------------------------------------------------------------------------
(* What refreshes bring.  A chapter whose rows are from the head it        *)
(* believes in, and a load that read both, know all that was pulled by     *)
(* then; a refresh in turn knows what its sync found, and the chapter on   *)
(* screen knows it when the sync says that nothing is left to load.        *)

(* What rows that are from base know: all, if base is the head, and all    *)
(* that was pulled before, if base is the head that a sync found.          *)
Current(known, chapter, base, ts, head, pulled) ==
  /\ 1 <= base /\ base <= head
  /\ base = head => pulled \cap In(chapter) \subseteq known
  /\ \A s \in Syncs : ts[s].pc = "pulled" /\ base = ts[s].at =>
       (pulled \ ts[s].found) \cap In(chapter) \subseteq known

HeadsOK(ts, e, head, pulled) ==
  /\ e.sound => Current(e.known, e.chapter, e.base, ts, head, pulled)
  /\ \A t \in Slots : ts[t].pc = "apply" /\ ts[t].sure =>
       Current(ts[t].read, ts[t].chapter, ts[t].at, ts, head, pulled)

(* One sync at a time has pulled, and nothing has been committed since.    *)
PullsOK(ts, head) ==
  /\ head \in Nat /\ 1 <= head
  /\ \A s \in Syncs : ts[s].pc = "pulled" =>
       /\ ts[s].at \in Nat
       /\ head = IF ts[s].found = {} THEN ts[s].at ELSE ts[s].at + 1
  /\ \A s, u \in Syncs : ts[s].pc = "pulled" /\ ts[u].pc = "pulled" => s = u

(* What a refresh was told of is on screen.                                *)
Shown(r, e) ==
  r.clean /\ e.chapter = r.chapter /\ e.sound => r.found \cap In(e.chapter) \subseteq e.known

(* A refresh r, and the sync q it awaits.                                  *)
Awaiting(r, q, e, pulled) ==
  /\ q.pc = "pulled" => r.found = pulled \cap In(r.chapter)
  /\ q.pc \in {"head", "apply"} => r.found \cap In(q.chapter) \subseteq q.read
  /\ q.pc = "paint" /\ q.result = "rest" => Shown(r, e)

(* A flow by itself.                                                       *)
Resting(r, e) ==
  /\ r.on # NoSync => r.pc \in {"others", "synced", "left"}
  /\ r.pc = "refreshed" => Shown(r, e)
  /\ r.pc = "synced" /\ r.on = NoSync /\ r.result = "rest" => Shown(r, e)
  /\ r.pc = "synced" /\ r.on = NoSync /\ r.result = "none" => r.found = {}
  /\ r.pc \in {"head", "apply"} => r.found \cap In(r.chapter) \subseteq r.read
  /\ r.pc \in LoadPcs => r.result = "load" \/ r.found = {}
  /\ r.pc \in {"ops", "access", "others"} => r.found = {}

FlowsOK(ts, e, pulled) ==
  /\ \A t \in Slots : ts[t].found \subseteq pulled
  /\ \A f \in Flows : Resting(ts[f], e)
  /\ \A f \in Flows, s \in Syncs :
       ts[f].pc = "synced" /\ ts[f].on = s => Awaiting(ts[f], ts[s], e, pulled)

Told(ts, e, head, pulled) ==
  HeadsOK(ts, e, head, pulled) /\ PullsOK(ts, head) /\ FlowsOK(ts, e, pulled)

(* Slots that are left alone, emptied or queued anew.                      *)
Fresh(r) == r.pc \in {"", "queued"} /\ r.found = {} /\ r.on = NoSync
Settled(ts, ts2) == \A t \in Slots : Alike(ts[t], ts2[t]) \/ Fresh(ts2[t])

LEMMA FreshTasks ==
  Fresh(NoTask) /\ Fresh(QueuedSync)
  BY DEF Fresh, NoTask, QueuedSync

LEMMA AlikeSelf ==
  \A a : Alike(a, a)
  BY DEF Alike

LEMMA SettledTwice ==
  ASSUME NEW ts, NEW ts1, NEW ts2, Settled(ts, ts1), Settled(ts1, ts2)
  PROVE  Settled(ts, ts2)
<1> SUFFICES ASSUME NEW t \in Slots
             PROVE  Alike(ts[t], ts2[t]) \/ Fresh(ts2[t])
  BY DEF Settled
<1>1. CASE Fresh(ts2[t])
  BY <1>1
<1>2. CASE Alike(ts1[t], ts2[t])
  <2>1. CASE Alike(ts[t], ts1[t])
    BY <1>2, <2>1 DEF Alike
  <2>2. CASE Fresh(ts1[t])
    BY <1>2, <2>2 DEF Alike, Fresh
  <2> QED
    BY <2>1, <2>2 DEF Settled
<1> QED
  BY <1>1, <1>2 DEF Settled

LEMMA SettledTold ==
  ASSUME NEW ts, NEW e, NEW head, NEW pulled, Told(ts, e, head, pulled),
         NEW ts2, Settled(ts, ts2)
  PROVE  Told(ts2, e, head, pulled)
<1>1. \A t \in Slots : ts2[t].pc \notin {"", "queued"} => Alike(ts[t], ts2[t])
  BY DEF Settled, Fresh
<1>2. Syncs \subseteq Slots /\ Flows \subseteq Slots
  BY Pieces
<1>3. \A s \in Syncs : ts2[s].pc = "pulled" =>
        ts[s].pc = "pulled" /\ ts2[s].at = ts[s].at /\ ts2[s].found = ts[s].found
  BY <1>1, <1>2 DEF Alike
<1>4. \A known, chapter, base : Current(known, chapter, base, ts, head, pulled)
                                  => Current(known, chapter, base, ts2, head, pulled)
  BY <1>3 DEF Current
<1>5. HeadsOK(ts2, e, head, pulled)
  <2>1. \A t \in Slots : ts2[t].pc = "apply" /\ ts2[t].sure =>
          /\ ts[t].pc = "apply" /\ ts[t].sure /\ ts2[t].read = ts[t].read
          /\ ts2[t].chapter = ts[t].chapter /\ ts2[t].at = ts[t].at
    BY <1>1 DEF Alike
  <2> QED
    BY <1>4, <2>1 DEF Told, HeadsOK
<1>6. PullsOK(ts2, head)
  BY <1>3 DEF Told, PullsOK
<1>7. \A t \in Slots : ts2[t].found \subseteq pulled
  BY DEF Told, FlowsOK, Settled, Alike, Fresh
<1>8. ASSUME NEW f \in Flows
      PROVE  Resting(ts2[f], e)
  <2>1. CASE Alike(ts[f], ts2[f])
    <3>1. Resting(ts[f], e)
      BY DEF Told, FlowsOK
    <3> QED
      BY <2>1, <3>1 DEF Resting, Alike, Shown
  <2>2. CASE Fresh(ts2[f])
    BY <2>2 DEF Fresh, Resting, LoadPcs
  <2> QED
    BY <1>2, <2>1, <2>2 DEF Settled
<1>9. ASSUME NEW f \in Flows, NEW s \in Syncs, ts2[f].pc = "synced", ts2[f].on = s
      PROVE  Awaiting(ts2[f], ts2[s], e, pulled)
  <2>1. Alike(ts[f], ts2[f])
    BY <1>1, <1>2, <1>9
  <2>2. Awaiting(ts[f], ts[s], e, pulled)
    BY <1>9, <2>1 DEF Alike, Told, FlowsOK
  <2>3. CASE Alike(ts[s], ts2[s])
    BY <2>1, <2>2, <2>3 DEF Alike, Awaiting, Shown
  <2>4. CASE Fresh(ts2[s])
    BY <2>4 DEF Fresh, Awaiting
  <2> QED
    BY <1>2, <2>3, <2>4 DEF Settled
<1> QED
  BY <1>5, <1>6, <1>7, <1>8, <1>9 DEF Told, FlowsOK

(* One task changes.                                                       *)
LEMMA SetTold ==
  ASSUME NEW ts \in [Slots -> Task], NEW e, NEW head, NEW pulled, Told(ts, e, head, pulled),
         NEW t \in Slots, NEW r \in Task, r.pc # "pulled", r.found \subseteq pulled,
         r.pc = "apply" /\ r.sure => Current(r.read, r.chapter, r.at, ts, head, pulled),
         t \in Flows => /\ Resting(r, e)
                        /\ \A s \in Syncs : r.pc = "synced" /\ r.on = s =>
                             Awaiting(r, ts[s], e, pulled),
         t \in Syncs => \A f \in Flows : ts[f].pc = "synced" /\ ts[f].on = t =>
                          Awaiting(ts[f], r, e, pulled)
  PROVE  Told([ts EXCEPT ![t] = r], e, head, pulled)
<1> DEFINE ts2 == [ts EXCEPT ![t] = r]
<1>1. ts2[t] = r /\ \A u \in Slots : u # t => ts2[u] = ts[u]
  OBVIOUS
<1> HIDE DEF ts2
<1>2. Syncs \subseteq Slots /\ Flows \subseteq Slots /\ Flows \cap Syncs = {}
  BY Pieces
<1>3. \A s \in Syncs : ts2[s].pc = "pulled" => ts2[s] = ts[s]
  BY <1>1, <1>2
<1>4. \A known, chapter, base : Current(known, chapter, base, ts, head, pulled)
                                  => Current(known, chapter, base, ts2, head, pulled)
  BY <1>3 DEF Current
<1>5. HeadsOK(ts2, e, head, pulled)
  BY <1>1, <1>4 DEF Told, HeadsOK
<1>6. PullsOK(ts2, head)
  BY <1>3 DEF Told, PullsOK
<1>7. \A u \in Slots : ts2[u].found \subseteq pulled
  BY <1>1 DEF Told, FlowsOK
<1>8. \A f \in Flows : Resting(ts2[f], e)
  BY <1>1, <1>2 DEF Told, FlowsOK
<1>9. ASSUME NEW f \in Flows, NEW s \in Syncs, ts2[f].pc = "synced", ts2[f].on = s
      PROVE  Awaiting(ts2[f], ts2[s], e, pulled)
  <2>1. CASE t = f
    BY <1>1, <1>2, <1>9, <2>1
  <2>2. CASE t = s
    BY <1>1, <1>2, <1>9, <2>2
  <2>3. CASE t # f /\ t # s
    BY <1>1, <1>2, <1>9, <2>3 DEF Told, FlowsOK
  <2> QED
    BY <2>1, <2>2, <2>3
<1> QED
  BY <1>5, <1>6, <1>7, <1>8, <1>9 DEF Told, FlowsOK, ts2

(* The screen shows other rows, or comes to know more of the same.         *)
LEMMA RowsTold ==
  ASSUME NEW ts, NEW e, NEW head, NEW pulled, Told(ts, e, head, pulled),
         NEW e2,
         e2.sound => /\ Current(e2.known, e2.chapter, e2.base, ts, head, pulled)
                     /\ e.sound /\ e2.chapter = e.chapter /\ e.known \subseteq e2.known
  PROVE  Told(ts, e2, head, pulled)
<1>1. \A r : Shown(r, e) => Shown(r, e2)
  BY DEF Shown
<1>2. HeadsOK(ts, e2, head, pulled)
  BY DEF Told, HeadsOK
<1>3. \A f \in Flows : Resting(ts[f], e2)
  BY <1>1 DEF Told, FlowsOK, Resting
<1>4. \A f \in Flows, s \in Syncs :
        ts[f].pc = "synced" /\ ts[f].on = s => Awaiting(ts[f], ts[s], e2, pulled)
  BY <1>1 DEF Told, FlowsOK, Awaiting
<1> QED
  BY <1>2, <1>3, <1>4 DEF Told, FlowsOK

(* The beginning of a load shows no rows that were not shown before.       *)
LEMMA LoadingTold ==
  ASSUME NEW ts, NEW e \in Editor, NEW head, NEW pulled, Told(ts, e, head, pulled),
         NEW option, NEW scr, NEW c
  PROVE  Told(ts, Loading(option, e, scr, c), head, pulled)
<1>1. PICK e2 : e2 = Loading(option, e, scr, c)
  OBVIOUS
<1>2. e2.sound => e.sound /\ e2.chapter = e.chapter /\ e2.known = e.known /\ e2.base = e.base
  BY <1>1 DEF Loading, Closed, Editor
<1>3. e.sound => Current(e.known, e.chapter, e.base, ts, head, pulled)
  BY DEF Told, HeadsOK
<1>4. Told(ts, e2, head, pulled)
  BY <1>2, <1>3, RowsTold
<1> QED
  BY <1>1, <1>4

LEMMA StartSettles ==
  ASSUME NEW e, NEW scr, NEW initial, NEW ts \in [Slots -> Task],
         StartSession(e, scr, initial, ts)
  PROVE  Settled(ts, tasks')
<1>1. Outdated(ts) \in [Slots -> Task] /\ \A t \in Slots : Alike(ts[t], Outdated(ts)[t])
  BY OutdatedFacts
<1>2. CASE tasks' = ts
  BY <1>2, AlikeSelf DEF Settled
<1>3. CASE tasks' = Outdated(ts)
  BY <1>1, <1>3 DEF Settled
<1>4. CASE \E s \in Free(ts, Syncs) : tasks' = [Outdated(ts) EXCEPT ![s] = QueuedSync]
  <2>1. PICK s : tasks' = [Outdated(ts) EXCEPT ![s] = QueuedSync]
    BY <1>4
  <2>2. \A t \in Slots : tasks'[t] = IF t = s THEN QueuedSync ELSE Outdated(ts)[t]
    BY <1>1, <2>1
  <2> QED
    BY <1>1, <2>2, FreshTasks DEF Settled
<1> QED
  BY <1>2, <1>3, <1>4 DEF StartSession

LEMMA BeginSettles ==
  ASSUME NEW ts \in [Slots -> Task], NEW s \in Syncs
  PROVE  /\ Settled(ts, BeginSync(s, ts)) /\ BeginSync(s, ts) \in [Slots -> Task]
         /\ BeginSync(s, ts)[s].pc = "queued"
<1> DEFINE begun == [ts EXCEPT ![s] = QueuedSync]
<1>1. /\ begun \in [Slots -> Task] /\ begun[s] = QueuedSync /\ s \in Slots
      /\ \A u \in Slots : u # s => begun[u] = ts[u]
  BY Pieces
<1>2. Settled(ts, begun)
  BY <1>1, AlikeSelf, FreshTasks DEF Settled
<1> HIDE DEF begun
<1>3. /\ Doubted(begun) \in [Slots -> Task]
      /\ \A t \in Slots : Alike(begun[t], Doubted(begun)[t])
  BY <1>1, DoubtedFacts
<1>4. Settled(begun, Doubted(begun))
  BY <1>3 DEF Settled
<1>5. Settled(ts, Doubted(begun))
  BY <1>2, <1>4, SettledTwice
<1>6. BeginSync(s, ts) \in {begun, Doubted(begun)}
  BY DEF BeginSync, begun
<1>7. begun[s].pc = "queued" /\ Doubted(begun)[s].pc = "queued"
  BY <1>1, <1>3, Pieces DEF Alike
<1> QED
  BY <1>1, <1>2, <1>3, <1>5, <1>6, <1>7

(* A flow that begins to await a sync has not been told of anything.       *)
LEMMA OwnSyncTold ==
  ASSUME NEW ts \in [Slots -> Task], NEW e, NEW head, NEW pulled, Told(ts, e, head, pulled),
         NEW f \in Flows, NEW pc \in {"synced", "left"}, OwnSync(f, pc, ts)
  PROVE  Told(tasks', e, head, pulled)
<1>1. PICK s \in Free(ts, Syncs) : tasks' = [BeginSync(s, ts) EXCEPT ![f].pc = pc, ![f].on = s]
  BY DEF OwnSync
<1>2. s \in Syncs /\ f \in Slots /\ f \notin Syncs /\ s # NoSync
  BY Pieces DEF Free
<1>3. PICK begun : begun = BeginSync(s, ts)
  OBVIOUS
<1>4. begun \in [Slots -> Task] /\ Settled(ts, begun) /\ begun[s].pc = "queued"
  BY <1>2, <1>3, BeginSettles
<1>5. Told(begun, e, head, pulled)
  BY <1>4, SettledTold
<1>6. PICK r : r = [begun[f] EXCEPT !.pc = pc, !.on = s]
  OBVIOUS
<1>7. tasks' = [begun EXCEPT ![f] = r]
  BY <1>1, <1>2, <1>3, <1>4, <1>6
<1>8. /\ r \in Task /\ r.pc = pc /\ r.on = s /\ r.found = begun[f].found
  <2>1. begun[f] \in Task /\ pc \in Pcs /\ s \in MaybeSync
    BY <1>2, <1>4 DEF MaybeSync, Pcs
  <2> QED
    BY <1>6, <2>1 DEF Task
<1>9. r.found \subseteq pulled
  BY <1>2, <1>5, <1>8 DEF Told, FlowsOK
<1>10. Resting(r, e)
  BY <1>2, <1>8 DEF Resting, LoadPcs
<1>11. \A u \in Syncs : r.on = u => Awaiting(r, begun[u], e, pulled)
  BY <1>4, <1>8 DEF Awaiting
<1>12. Told([begun EXCEPT ![f] = r], e, head, pulled)
  BY <1>2, <1>4, <1>5, <1>8, <1>9, <1>10, <1>11, SetTold
<1> QED
  BY <1>7, <1>12

LEMMA RefreshSyncsTold ==
  ASSUME NEW e, NEW e2, NEW ts \in [Slots -> Task], NEW head, NEW pulled, Told(ts, e2, head, pulled),
         session \in Session,
         NEW f \in Flows, ts[f].found = {}, ts[f].on = NoSync, RefreshSyncs(f, e, ts)
  PROVE  Told(tasks', e2, head, pulled)
<1>1. f \in Slots /\ f \notin Syncs /\ ts[f] \in Task
  BY Pieces
<1>2. CASE tasks' = [ts EXCEPT ![f].pc = "refreshed"]
  <2>1. PICK r : r = [ts[f] EXCEPT !.pc = "refreshed"]
    OBVIOUS
  <2>2. r \in Task /\ r.pc = "refreshed" /\ r.found = {} /\ r.on = NoSync
    BY <1>1, <2>1 DEF Task, Pcs
  <2>3. Resting(r, e2)
    BY <2>2 DEF Resting, Shown, LoadPcs
  <2>4. Told([ts EXCEPT ![f] = r], e2, head, pulled)
    BY <1>1, <2>2, <2>3, SetTold
  <2> QED
    BY <1>1, <1>2, <2>1, <2>4
<1>3. CASE tasks' = [ts EXCEPT ![f].pc = "others", ![f].on = session.pending]
  <2>1. PICK r : r = [ts[f] EXCEPT !.pc = "others", !.on = session.pending]
    OBVIOUS
  <2>2. r \in Task /\ r.pc = "others" /\ r.found = {}
    BY <1>1, <2>1 DEF Task, Pcs, Session
  <2>3. Resting(r, e2)
    BY <2>2 DEF Resting, LoadPcs
  <2>4. Told([ts EXCEPT ![f] = r], e2, head, pulled)
    BY <1>1, <2>2, <2>3, SetTold
  <2> QED
    BY <1>1, <1>3, <2>1, <2>4
<1>4. CASE OwnSync(f, "synced", ts)
  BY <1>4, OwnSyncTold
<1> QED
  BY <1>2, <1>3, <1>4 DEF RefreshSyncs

(* The end of a sync: a result that leaves nothing to load goes to         *)
(* refreshes that have on screen what they were told of.                   *)
LEMMA EndSyncTold ==
  ASSUME NEW ts \in [Slots -> Task], NEW e, NEW head, NEW pulled, Told(ts, e, head, pulled),
         NEW s \in Syncs, NEW result \in Results,
         result = "rest" => \A f \in Flows : ts[f].pc = "synced" /\ ts[f].on = s => Shown(ts[f], e)
  PROVE  Told(WithoutSync(s, result, ts), e, head, pulled)
<1> DEFINE ts2 == WithoutSync(s, result, ts)
           Waited(t) == ts[t].pc = "synced" /\ ts[t].on = s
<1>1. Syncs \subseteq Slots /\ Flows \subseteq Slots /\ Flows \cap Syncs = {} /\ NoSync \notin Syncs
  BY Pieces
<1>2. \A t \in Slots : ts2[t] = IF t = s THEN NoTask ELSE Woken(s, result, ts[t])
  BY DEF WithoutSync
<1> HIDE DEF ts2
<1>3. ASSUME NEW t \in Slots, t # s
      PROVE  /\ ts2[t].pc = ts[t].pc /\ ts2[t].read = ts[t].read /\ ts2[t].at = ts[t].at
             /\ ts2[t].chapter = ts[t].chapter /\ ts2[t].sure = ts[t].sure
             /\ ts2[t].clean = ts[t].clean
             /\ ts2[t].on = IF ts[t].on = s THEN NoSync ELSE ts[t].on
             /\ ~ Waited(t) => ts2[t].found = ts[t].found /\ ts2[t].result = ts[t].result
             /\ Waited(t) => /\ ts2[t].result = result
                             /\ ts2[t].found = IF result \in {"none", "deferred"} THEN {} ELSE ts[t].found
  <2>1. ts[t] \in Task /\ ts2[t] = Woken(s, result, ts[t])
    BY <1>2, <1>3
  <2>2. PICK r : r = ts[t]
    OBVIOUS
  <2>3. CASE r.on # s
    BY <2>1, <2>2, <2>3 DEF Woken
  <2>4. CASE r.on = s /\ r.pc # "synced"
    BY <2>1, <2>2, <2>4 DEF Woken, Task
  <2>5. CASE r.on = s /\ r.pc = "synced"
    BY <2>1, <2>2, <2>5 DEF Woken, Task
  <2> QED
    BY <2>3, <2>4, <2>5
<1>4. ts2[s].pc = "" /\ ts2[s].found = {}
  <2>1. ts2[s] = NoTask
    BY <1>1, <1>2
  <2> QED
    BY <2>1, FreshTasks, Pieces DEF Fresh
<1>5. \A u \in Syncs : ts2[u].pc = "pulled" =>
        u # s /\ ts[u].pc = "pulled" /\ ts2[u].at = ts[u].at /\ ts2[u].found = ts[u].found
  BY <1>1, <1>3, <1>4
<1>6. \A known, chapter, base : Current(known, chapter, base, ts, head, pulled)
                                  => Current(known, chapter, base, ts2, head, pulled)
  BY <1>5 DEF Current
<1>7. HeadsOK(ts2, e, head, pulled)
  BY <1>3, <1>4, <1>6 DEF Told, HeadsOK
<1>8. PullsOK(ts2, head)
  BY <1>5 DEF Told, PullsOK
<1>9. \A t \in Slots : ts2[t].found \subseteq pulled
  BY <1>3, <1>4 DEF Told, FlowsOK
<1>10. ASSUME NEW f \in Flows
       PROVE  Resting(ts2[f], e)
  <2>1. f \in Slots /\ f # s /\ Resting(ts[f], e)
    BY <1>1 DEF Told, FlowsOK
  <2>2. CASE Waited(f)
    BY <1>3, <2>1, <2>2 DEF Resting, Shown, LoadPcs
  <2>3. CASE ~ Waited(f)
    BY <1>3, <2>1, <2>3 DEF Resting, Shown
  <2> QED
    BY <2>2, <2>3
<1>11. ASSUME NEW f \in Flows, NEW u \in Syncs, ts2[f].pc = "synced", ts2[f].on = u
       PROVE  Awaiting(ts2[f], ts2[u], e, pulled)
  <2>1. f \in Slots /\ f # s /\ u \in Slots /\ u # NoSync
    BY <1>1
  <2>2. ~ Waited(f) /\ ts[f].pc = "synced" /\ ts[f].on = u /\ u # s
    BY <1>3, <1>11, <2>1
  <2>3. Awaiting(ts[f], ts[u], e, pulled)
    BY <2>2 DEF Told, FlowsOK
  <2>4. ~ Waited(u) => ts2[u].result = ts[u].result
    BY <1>3, <2>1, <2>2
  <2>5. Waited(u) => ts2[u].pc = "synced"
    BY <1>3, <2>1, <2>2
  <2> QED
    BY <1>3, <2>1, <2>2, <2>3, <2>4, <2>5 DEF Awaiting, Shown
<1> QED
  BY <1>7, <1>8, <1>9, <1>10, <1>11 DEF Told, FlowsOK, ts2

LEMMA EndFlowTold ==
  ASSUME NEW ts \in [Slots -> Task], NEW e, NEW head, NEW pulled, Told(ts, e, head, pulled),
         NEW f \in Flows
  PROVE  Told([ts EXCEPT ![f] = NoTask], e, head, pulled)
<1>1. f \in Slots /\ f \notin Syncs /\ NoTask \in Task /\ NoTask.pc = "" /\ NoTask.found = {}
      /\ NoTask.on = NoSync
  BY Pieces, FreshTasks DEF Fresh
<1>2. Resting(NoTask, e)
  BY <1>1 DEF Resting, LoadPcs
<1> QED
  BY <1>1, <1>2, SetTold

(* What a load read is what the flows that await its sync were told of,    *)
(* and so is what it read for itself.                                      *)
LEMMA AfterLoadTold ==
  ASSUME NEW e, NEW ok \in BOOLEAN, NEW ts, GoodTasks(ts), session \in Session,
         NEW head, NEW pulled, Told(ts, e, head, pulled),
         NEW t \in Slots, ts[t].pc = "apply", ts[t].kind = tasks[t].kind,
         ts[t].result = tasks[t].result,
         ok => e.chapter = ts[t].chapter /\ e.known = ts[t].read,
         AfterLoad(t, e, ok, ts)
  PROVE  Told(tasks', e, head, pulled)
<1>1. ts \in [Slots -> Task] /\ ts[t] \in Task /\ Fits(t, ts[t])
  BY DEF GoodTasks
<1>2. tasks[t].kind # "sync" => t \in Flows /\ t \notin Syncs
  BY <1>1, Pieces DEF Fits, PcsOf, Slots
<1>3. CASE tasks[t].kind # "sync" /\ tasks' = [ts EXCEPT ![t] = NoTask]
  BY <1>1, <1>2, <1>3, EndFlowTold
<1>4. CASE tasks[t].kind # "sync" /\ StartSession(e, screen, TRUE, [ts EXCEPT ![t] = NoTask])
  <2>1. PICK ended, scr, i : ended = [ts EXCEPT ![t] = NoTask] /\ scr = screen /\ i = TRUE
    OBVIOUS
  <2>2. ended \in [Slots -> Task] /\ Told(ended, e, head, pulled)
    BY <1>1, <1>2, <1>4, <2>1, EndFlowTold, Pieces
  <2>3. StartSession(e, scr, i, ended)
    BY <1>4, <2>1
  <2> QED
    BY <2>2, <2>3, StartSettles, SettledTold
<1>5. CASE /\ tasks[t].kind = "refresh" /\ ok /\ tasks[t].result = "load"
           /\ tasks' = [ts EXCEPT ![t] = [Unload(@) EXCEPT !.pc = "refreshed"]]
  <2>1. PICK r : r = [Unload(ts[t]) EXCEPT !.pc = "refreshed"]
    OBVIOUS
  <2>2. /\ r \in Task /\ r.pc = "refreshed" /\ r.on = ts[t].on /\ r.chapter = ts[t].chapter
        /\ r.found = ts[t].found
    BY <1>1, <1>5, <2>1 DEF Unload, Task, MaybeChapter, Pcs
  <2>3. Resting(ts[t], e) /\ ts[t].found \subseteq pulled
    BY <1>2, <1>5 DEF Told, FlowsOK
  <2>4. Resting(r, e)
    BY <1>5, <2>2, <2>3 DEF Resting, Shown, LoadPcs
  <2>5. Told([ts EXCEPT ![t] = r], e, head, pulled)
    BY <1>1, <1>2, <1>5, <2>2, <2>3, <2>4, SetTold
  <2> QED
    BY <1>1, <1>5, <2>1, <2>5
<1>6. CASE /\ tasks[t].kind = "refresh" /\ tasks[t].result # "load"
           /\ RefreshSyncs(t, e, [ts EXCEPT ![t] = Unload(@)])
  <2>1. PICK r : r = Unload(ts[t])
    OBVIOUS
  <2>2. Resting(ts[t], e)
    BY <1>2, <1>6 DEF Told, FlowsOK
  <2>3. /\ r \in Task /\ r.pc = "apply" /\ r.on = NoSync /\ r.found = {} /\ ~ r.sure
    BY <1>1, <1>6, <2>1, <2>2 DEF Unload, Task, MaybeChapter, Resting, LoadPcs
  <2>4. Resting(r, e)
    BY <2>3 DEF Resting, LoadPcs
  <2>5. PICK ts2 : ts2 = [ts EXCEPT ![t] = r]
    OBVIOUS
  <2>6. Told(ts2, e, head, pulled)
    BY <1>1, <1>2, <1>6, <2>3, <2>4, <2>5, SetTold
  <2>7. ts2 \in [Slots -> Task] /\ ts2[t].found = {} /\ ts2[t].on = NoSync /\ RefreshSyncs(t, e, ts2)
    BY <1>1, <1>6, <2>1, <2>3, <2>5
  <2> QED
    BY <1>2, <1>6, <2>6, <2>7, RefreshSyncsTold
<1>7. CASE /\ tasks[t].kind = "sync"
           /\ tasks' = [ts EXCEPT ![t] = [Unload(@) EXCEPT !.pc = "paint",
                                            !.result = IF ok THEN "rest" ELSE "load"]]
  <2>1. t \in Syncs /\ t \notin Flows
    BY <1>1, <1>7, Pieces DEF Fits, Slots
  <2>2. PICK r : r = [Unload(ts[t]) EXCEPT !.pc = "paint", !.result = IF ok THEN "rest" ELSE "load"]
    OBVIOUS
  <2>3. /\ r \in Task /\ r.pc = "paint" /\ r.found = ts[t].found
        /\ r.result = "rest" => ok
    BY <1>1, <1>7, <2>2 DEF Unload, Task, MaybeChapter, Pcs
  <2>4. r.found \subseteq pulled
    BY <2>3 DEF Told, FlowsOK
  <2>5. ASSUME NEW f \in Flows, ts[f].pc = "synced", ts[f].on = t
        PROVE  Awaiting(ts[f], r, e, pulled)
    <3>1. Awaiting(ts[f], ts[t], e, pulled)
      BY <2>1, <2>5 DEF Told, FlowsOK
    <3> QED
      BY <2>3, <3>1 DEF Awaiting, Shown
  <2>6. Told([ts EXCEPT ![t] = r], e, head, pulled)
    BY <1>1, <2>1, <2>3, <2>4, <2>5, SetTold
  <2> QED
    BY <1>1, <1>7, <2>2, <2>6
<1>8. CASE tasks[t].kind = "sync" /\ EndSync(t, "load", session, ts)
  <2>1. t \in Syncs
    BY <1>1, <1>8 DEF Fits, Slots
  <2>2. PICK result : result = "load"
    OBVIOUS
  <2>3. tasks' = WithoutSync(t, result, ts)
    BY <1>8, <2>2, EndSyncIs
  <2>4. result \in Results /\ result # "rest"
    BY <2>2 DEF Results
  <2> QED
    BY <1>1, <2>1, <2>3, <2>4, EndSyncTold
<1> QED
  BY <1>3, <1>4, <1>5, <1>6, <1>7, <1>8 DEF AfterLoad, OpenShown
-----------------------------------------------------------------------------
(* The steps.                                                              *)

AllTold == Told(tasks, editor, repo.head, repo.pulled)

(* The loads that are applied, and those that fail.                        *)
LEMMA OvertakenTold ==
  ASSUME SessionInv, AllTold, NEW t \in Slots, tasks[t].pc = "apply"
  PROVE  Told(Overtaken(t), Loaded(tasks[t]), repo.head, repo.pulled)
<1>1. PICK ts2, e, head, pulled : /\ ts2 = Overtaken(t) /\ e = Loaded(tasks[t])
                                  /\ head = repo.head /\ pulled = repo.pulled
  OBVIOUS
<1>2. /\ ts2 \in [Slots -> Task] /\ \A f \in Slots : Alike(tasks[f], ts2[f])
      /\ \A f \in Slots : OvertakenBy(t, f) => ~ ts2[f].clean
  BY <1>1, InvFacts, OvertakenFacts
<1>3. Told(ts2, editor, head, pulled)
  <2>1. PICK ts : ts = tasks
    OBVIOUS
  <2>2. Told(ts, editor, head, pulled) /\ Settled(ts, ts2)
    BY <1>1, <1>2, <2>1 DEF AllTold, Settled
  <2> QED
    BY <2>2, SettledTold
<1>4. /\ e.chapter = tasks[t].chapter /\ e.known = tasks[t].read /\ e.base = tasks[t].at
      /\ e.sound = tasks[t].sure
  BY <1>1 DEF Loaded
<1>5. HeadsOK(ts2, e, head, pulled)
  <2>1. /\ ts2[t].pc = "apply" /\ ts2[t].sure = tasks[t].sure /\ ts2[t].read = tasks[t].read
        /\ ts2[t].chapter = tasks[t].chapter /\ ts2[t].at = tasks[t].at
    BY <1>2 DEF Alike
  <2> QED
    BY <1>3, <1>4, <2>1 DEF Told, HeadsOK
<1>6. Flows \subseteq Slots /\ Syncs \subseteq Slots /\ NoSync \notin Slots
  BY Pieces
<1>7. ASSUME NEW f \in Flows, f # t, tasks[f].on # t
      PROVE  Shown(ts2[f], e)
  <2>1. Alike(tasks[f], ts2[f])
    BY <1>2, <1>6
  <2>2. CASE OvertakenBy(t, f)
    BY <1>2, <1>6, <2>2 DEF Shown
  <2>3. CASE ~ OvertakenBy(t, f)
    BY <1>4, <1>7, <2>1, <2>3 DEF Shown, Alike, OvertakenBy
  <2> QED
    BY <2>2, <2>3
<1>8. ASSUME NEW f \in Flows
      PROVE  Resting(ts2[f], e)
  <2>1. Resting(ts2[f], editor) /\ Alike(tasks[f], ts2[f]) /\ Alike(tasks[t], ts2[t])
    BY <1>2, <1>3, <1>6 DEF Told, FlowsOK
  <2>2. ASSUME ts2[f].pc = "refreshed" \/ (ts2[f].pc = "synced" /\ ts2[f].on = NoSync)
        PROVE  Shown(ts2[f], e)
    <3>1. f # t /\ tasks[f].on = NoSync
      BY <2>1, <2>2 DEF Alike, Resting
    <3> QED
      BY <1>6, <1>7, <3>1
  <2> QED
    BY <2>1, <2>2 DEF Resting
<1>9. ASSUME NEW f \in Flows, NEW s \in Syncs, ts2[f].pc = "synced", ts2[f].on = s
      PROVE  Awaiting(ts2[f], ts2[s], e, pulled)
  <2>1. Awaiting(ts2[f], ts2[s], editor, pulled)
    BY <1>3, <1>9 DEF Told, FlowsOK
  <2>2. ASSUME ts2[s].pc = "paint"
        PROVE  Shown(ts2[f], e)
    <3>1. Alike(tasks[f], ts2[f]) /\ Alike(tasks[s], ts2[s])
      BY <1>2, <1>6
    <3>2. f # t /\ tasks[f].on = s /\ s # t
      BY <1>9, <2>2, <3>1 DEF Alike
    <3> QED
      BY <1>7, <3>2
  <2> QED
    BY <2>1, <2>2 DEF Awaiting
<1>10. Told(ts2, e, head, pulled)
  BY <1>3, <1>5, <1>8, <1>9 DEF Told, FlowsOK
<1> QED
  BY <1>1, <1>10

LEMMA ApplyLoadTold ==
  ASSUME SessionInv, AllTold, NEW t \in Slots, ApplyLoad(t)
  PROVE  AllTold'
<1>1. PICK ts \in {Overtaken(t)} : AfterLoad(t, editor', TRUE, ts)
  BY DEF ApplyLoad
<1>2. PICK e, ok, head, pulled : /\ e = editor' /\ ok = TRUE
                                 /\ head = repo.head /\ pulled = repo.pulled
  OBVIOUS
<1>3. /\ e = Loaded(tasks[t]) /\ tasks[t].pc = "apply" /\ ok \in BOOLEAN
      /\ UNCHANGED repo /\ AfterLoad(t, e, ok, ts)
  BY <1>1, <1>2 DEF ApplyLoad, Loads
<1>4. Told(ts, e, head, pulled)
  BY <1>1, <1>2, <1>3, OvertakenTold
<1>5. GoodTasks(ts) /\ Alike(tasks[t], ts[t]) /\ session \in Session
  BY <1>1, InvFacts, OvertakenOK, OvertakenFacts DEF OK
<1>6. /\ ts[t].pc = "apply" /\ ts[t].kind = tasks[t].kind /\ ts[t].result = tasks[t].result
      /\ e.chapter = ts[t].chapter /\ e.known = ts[t].read
  BY <1>3, <1>5 DEF Alike, Loaded
<1>7. Told(tasks', e, head, pulled)
  BY <1>3, <1>4, <1>5, <1>6, AfterLoadTold
<1> QED
  BY <1>2, <1>3, <1>7 DEF AllTold

LEMMA FailLoadTold ==
  ASSUME SessionInv, AllTold, NEW t \in Slots, FailLoad(t)
  PROVE  AllTold'
<1>1. PICK ts, e, e1, ok, head, pulled :
             /\ ts = tasks /\ e = editor' /\ e1 = editor /\ ok = FALSE
             /\ head = repo.head /\ pulled = repo.pulled
  OBVIOUS
<1>2. /\ e = LoadFailed(tasks[t]) /\ tasks[t].pc = "apply" /\ ok \in BOOLEAN
      /\ UNCHANGED repo /\ AfterLoad(t, e, ok, ts)
  BY <1>1 DEF FailLoad, Loads
<1>3. Told(ts, e1, head, pulled) /\ e1 \in Editor
  BY <1>1, InvFacts DEF AllTold, Around
<1>4. e.sound => e1.sound /\ e.chapter = e1.chapter /\ e.known = e1.known /\ e.base = e1.base
  BY <1>1, <1>2, <1>3 DEF LoadFailed, Editor
<1>5. e1.sound => Current(e1.known, e1.chapter, e1.base, ts, head, pulled)
  BY <1>3 DEF Told, HeadsOK
<1>6. Told(ts, e, head, pulled)
  BY <1>3, <1>4, <1>5, RowsTold
<1>7. GoodTasks(ts) /\ session \in Session
  BY <1>1, InvFacts DEF OK
<1>8. Told(tasks', e, head, pulled)
  BY <1>1, <1>2, <1>6, <1>7, AfterLoadTold
<1> QED
  BY <1>1, <1>2, <1>8 DEF AllTold

LEMMA ReadRowsTold ==
  ASSUME SessionInv, AllTold, NEW t \in Slots, ReadRows(t)
  PROVE  AllTold'
<1>1. PICK ts, e, head, pulled : /\ ts = tasks /\ e = editor
                                 /\ head = repo.head /\ pulled = repo.pulled
  OBVIOUS
<1>2. /\ ts \in [Slots -> Task] /\ ts[t] \in Task /\ ts[t].pc = "rows"
      /\ Told(ts, e, head, pulled) /\ Syncs \subseteq Slots
      /\ pulled \subseteq Changes
  BY <1>1, InvFacts, Pieces DEF ReadRows, Loads, AllTold, Around
<1>3. PICK r : r = [ts[t] EXCEPT !.pc = "head", !.read = pulled \cap In(ts[t].chapter)]
  OBVIOUS
<1>4. /\ r \in Task /\ r.pc = "head" /\ r.read = pulled \cap In(r.chapter) /\ r.on = ts[t].on
      /\ r.found = ts[t].found /\ r.result = ts[t].result
  BY <1>2, <1>3 DEF Task, Pcs, LoadPcs
<1>5. r.found \subseteq pulled /\ \A f \in Slots : ts[f].found \subseteq pulled
  BY <1>2, <1>4 DEF Told, FlowsOK
<1>6. t \in Flows => Resting(r, e)
  <2>1. t \in Flows => Resting(ts[t], e)
    BY <1>2 DEF Told, FlowsOK
  <2> QED
    BY <1>2, <1>4, <1>5, <2>1 DEF Resting, LoadPcs
<1>7. \A f \in Flows : Awaiting(ts[f], r, e, pulled)
  BY <1>4, <1>5, Pieces DEF Awaiting
<1>8. Told([ts EXCEPT ![t] = r], e, head, pulled)
  BY <1>2, <1>4, <1>5, <1>6, <1>7, SetTold
<1> QED
  BY <1>1, <1>2, <1>3, <1>8 DEF ReadRows, AllTold

LEMMA ReadHeadTold ==
  ASSUME SessionInv, AllTold, NEW t \in Slots, ReadHead(t)
  PROVE  AllTold'
<1>1. PICK ts, e, head, pulled : /\ ts = tasks /\ e = editor
                                 /\ head = repo.head /\ pulled = repo.pulled
  OBVIOUS
<1>2. /\ ts \in [Slots -> Task] /\ ts[t] \in Task /\ ts[t].pc = "head"
      /\ Told(ts, e, head, pulled) /\ head \in Nat /\ 1 <= head
  BY <1>1, InvFacts DEF ReadHead, Loads, AllTold, Around, Told, PullsOK
<1>3. PICK sure \in BOOLEAN : sure = (ts[t].read = pulled \cap In(ts[t].chapter))
  OBVIOUS
<1>4. PICK r : r = [ts[t] EXCEPT !.pc = "apply", !.at = head, !.sure = sure]
  OBVIOUS
<1>5. /\ r \in Task /\ r.pc = "apply" /\ r.read = ts[t].read /\ r.on = ts[t].on
      /\ r.chapter = ts[t].chapter /\ r.found = ts[t].found /\ r.result = ts[t].result
      /\ r.at = head /\ r.sure = sure
  BY <1>2, <1>4 DEF Task, Pcs, LoadPcs
<1>6. r.found \subseteq pulled
  BY <1>2, <1>5 DEF Told, FlowsOK
<1>7. t \in Flows => Resting(r, e)
  <2>1. t \in Flows => Resting(ts[t], e)
    BY <1>2 DEF Told, FlowsOK
  <2> QED
    BY <1>2, <1>5, <2>1 DEF Resting, LoadPcs
<1>8. ASSUME t \in Syncs, NEW f \in Flows, ts[f].pc = "synced", ts[f].on = t
      PROVE  Awaiting(ts[f], r, e, pulled)
  <2>1. Awaiting(ts[f], ts[t], e, pulled)
    BY <1>2, <1>8 DEF Told, FlowsOK
  <2> QED
    BY <1>2, <1>5, <2>1 DEF Awaiting
<1>9. r.sure => Current(r.read, r.chapter, r.at, ts, head, pulled)
  <2>1. sure => ts[t].read = pulled \cap In(ts[t].chapter)
    BY <1>3
  <2>2. r.sure => r.read = pulled \cap In(r.chapter)
    BY <1>5, <2>1
  <2>3. 1 <= r.at /\ r.at <= head
    BY <1>2, <1>5
  <2> QED
    BY <2>2, <2>3 DEF Current
<1>10. Told([ts EXCEPT ![t] = r], e, head, pulled)
  BY <1>2, <1>5, <1>6, <1>7, <1>8, <1>9, SetTold
<1>11. tasks' = [tasks EXCEPT ![t] = r]
  <2>1. tasks' = [tasks EXCEPT ![t] =
                    [@ EXCEPT !.pc = "apply", !.at = repo.head,
                              !.sure = tasks[t].read = repo.pulled \cap In(tasks[t].chapter)]]
    BY <1>1, <1>2 DEF ReadHead
  <2> QED
    BY <1>1, <1>2, <1>3, <1>4, <2>1
<1> QED
  BY <1>1, <1>10, <1>11 DEF ReadHead, AllTold
-----------------------------------------------------------------------------
(* A flow that has been told of nothing, or is to load for it.             *)

LEMMA FlowTold ==
  ASSUME NEW ts \in [Slots -> Task], NEW e, NEW head, NEW pulled, Told(ts, e, head, pulled),
         NEW f \in Flows, NEW r \in Task, r.found \subseteq pulled, r.on = NoSync, r.pc = "rows",
         r.result = "load" \/ r.found = {}
  PROVE  Told([ts EXCEPT ![f] = r], e, head, pulled)
<1>1. f \in Slots /\ f \notin Syncs /\ NoSync \notin Syncs
  BY Pieces
<1>2. Resting(r, e)
  BY DEF Resting
<1> QED
  BY <1>1, <1>2, SetTold

LEMMA LoadKeepsFound ==
  ASSUME NEW task \in Task, NEW option, NEW e, NEW scr, NEW c
  PROVE  /\ BeginLoad(task, option, e, scr, c).found = task.found
         /\ BeginLoad(task, option, e, scr, c).result = task.result
  BY DEF BeginLoad, Task

(* A flow begins to load.                                                  *)
LEMMA FlowLoadsTold ==
  ASSUME SessionInv, AllTold, NEW f \in Flows,
         EnterChapter(f) \/ RefreshLoads(f) \/ RefreshReloads(f) \/ BackLoads(f)
  PROVE  AllTold'
<1>1. PICK ts, e, head, pulled, scr, i, c :
             /\ ts = tasks /\ e = editor /\ head = repo.head /\ pulled = repo.pulled
             /\ scr = (IF EnterChapter(f) THEN "translate" ELSE screen)
             /\ i = (IF EnterChapter(f) THEN FALSE ELSE TRUE)
             /\ c = (IF EnterChapter(f) THEN tasks[f].chapter ELSE selected)
  OBVIOUS
<1>2. /\ ts \in [Slots -> Task] /\ ts[f] \in Task /\ e \in Editor /\ f \in Slots
      /\ Told(ts, e, head, pulled) /\ Resting(ts[f], e) /\ ts[f].found \subseteq pulled
      /\ i \in BOOLEAN /\ c \in MaybeChapter
  <2>1. tasks[f] \in Task /\ selected \in MaybeChapter /\ tasks[f].chapter \in MaybeChapter
    BY InvFacts, Pieces DEF Around, Task
  <2> QED
    BY <1>1, <2>1, InvFacts, Pieces DEF AllTold, Around, Told, FlowsOK
<1>3. /\ ts[f].on = NoSync
      /\ ts[f].result = "load" \/ ts[f].found = {}
  <2>1. CASE EnterChapter(f) \/ RefreshLoads(f) \/ BackLoads(f)
    <3>1. ts[f].pc \in {"ops", "access"}
      BY <1>1, <2>1 DEF EnterChapter, RefreshLoads, BackLoads, Awaits
    <3> QED
      BY <1>2, <3>1 DEF Resting
  <2>2. CASE RefreshReloads(f)
    BY <1>1, <2>2 DEF RefreshReloads, Awaits, Ready
  <2> QED
    BY <2>1, <2>2
<1>4. PICK r : r = BeginLoad(ts[f], i, e, scr, c)
  OBVIOUS
<1>5. /\ r \in Task /\ r.pc = "rows" /\ r.on = NoSync
      /\ r.found = ts[f].found /\ r.result = ts[f].result
  BY <1>2, <1>3, <1>4, LoadBegins, LoadKeepsFound
<1>6. PICK ts2 : ts2 = [ts EXCEPT ![f] = r]
  OBVIOUS
<1>7. ts2 \in [Slots -> Task] /\ Told(ts2, e, head, pulled)
  BY <1>2, <1>3, <1>5, <1>6, FlowTold
<1>8. Told(tasks', e, head, pulled)
  <2>1. CASE RefreshLoads(f) /\ ~ EnterChapter(f)
    <3>1. PICK j : j = FALSE
      OBVIOUS
    <3>2. StartSession(e, scr, j, ts2)
      BY <1>1, <1>2, <1>4, <1>6, <2>1, <3>1 DEF RefreshLoads
    <3>3. Settled(ts2, tasks')
      BY <1>7, <3>2, StartSettles
    <3> QED
      BY <1>7, <3>3, SettledTold
  <2>2. CASE EnterChapter(f) \/ RefreshReloads(f) \/ BackLoads(f)
    <3>1. tasks' = ts2
      BY <1>1, <1>2, <1>4, <1>6, <2>2 DEF EnterChapter, RefreshReloads, BackLoads, Awaits
    <3> QED
      BY <1>7, <3>1
  <2> QED
    BY <2>1, <2>2
<1>9. editor' = Loading(i, e, scr, c) /\ UNCHANGED repo
  BY <1>1 DEF EnterChapter, RefreshLoads, RefreshReloads, BackLoads, LoadsAgain
<1>10. PICK ts3 : ts3 = tasks'
  OBVIOUS
<1>11. Told(ts3, Loading(i, e, scr, c), head, pulled)
  BY <1>2, <1>8, <1>10, LoadingTold
<1> QED
  BY <1>1, <1>9, <1>10, <1>11 DEF AllTold

(* A flow that goes on and is told of nothing.                             *)
LEMMA NextPcTold ==
  ASSUME SessionInv, AllTold, NEW f \in Flows, NEW pc \in Pcs,
         \/ pc = "access" /\ tasks[f].pc = "ops"
         \/ pc = "refreshed" /\ RefreshSynced(f),
         tasks' = [tasks EXCEPT ![f].pc = pc], UNCHANGED <<editor, repo>>
  PROVE  AllTold'
<1>1. PICK ts, e, head, pulled : /\ ts = tasks /\ e = editor
                                 /\ head = repo.head /\ pulled = repo.pulled
  OBVIOUS
<1>2. /\ ts \in [Slots -> Task] /\ ts[f] \in Task /\ f \in Slots /\ f \notin Syncs
      /\ Told(ts, e, head, pulled) /\ Resting(ts[f], e) /\ ts[f].found \subseteq pulled
  BY <1>1, InvFacts, Pieces DEF AllTold, Told, FlowsOK
<1>3. PICK r : r = [ts[f] EXCEPT !.pc = pc]
  OBVIOUS
<1>4. /\ r \in Task /\ r.pc = pc /\ r.on = ts[f].on /\ r.found = ts[f].found
      /\ r.chapter = ts[f].chapter /\ r.clean = ts[f].clean
  BY <1>2, <1>3 DEF Task
<1>5. Resting(r, e) /\ r.pc \in {"access", "refreshed"}
  <2>1. CASE pc = "access" /\ ts[f].pc = "ops"
    BY <1>2, <1>4, <2>1 DEF Resting, LoadPcs
  <2>2. CASE pc = "refreshed" /\ RefreshSynced(f)
    <3>1. ts[f].pc = "synced" /\ ts[f].on = NoSync /\ ts[f].result \in {"none", "rest"}
      BY <1>1, <2>2 DEF RefreshSynced, Awaits, Ready
    <3>2. Shown(ts[f], e)
      BY <1>2, <3>1 DEF Resting, Shown
    <3> QED
      BY <1>4, <2>2, <3>1, <3>2 DEF Resting, Shown, LoadPcs
  <2> QED
    BY <1>1, <2>1, <2>2
<1>6. Told([ts EXCEPT ![f] = r], e, head, pulled)
  BY <1>2, <1>4, <1>5, SetTold
<1> QED
  BY <1>1, <1>2, <1>3, <1>6 DEF AllTold

LEMMA FlowEndsTold ==
  ASSUME SessionInv, AllTold, NEW f \in Flows, UNCHANGED <<editor, repo>>,
         tasks' = [tasks EXCEPT ![f] = NoTask] \/ Go(f)
  PROVE  AllTold'
<1>1. PICK ts, e, head, pulled : /\ ts = tasks /\ e = editor
                                 /\ head = repo.head /\ pulled = repo.pulled
  OBVIOUS
<1>2. PICK ended : ended = [ts EXCEPT ![f] = NoTask]
  OBVIOUS
<1>3. ended \in [Slots -> Task] /\ Told(ended, e, head, pulled)
  BY <1>1, <1>2, EndFlowTold, InvFacts, Pieces DEF AllTold
<1>4. CASE tasks' = ended
  BY <1>1, <1>3, <1>4 DEF AllTold
<1>5. CASE tasks' = Outdated(ended)
  <2>1. Settled(ended, Outdated(ended))
    BY <1>3, OutdatedFacts DEF Settled
  <2>2. Told(Outdated(ended), e, head, pulled)
    BY <1>3, <2>1, SettledTold
  <2> QED
    BY <1>1, <1>5, <2>2 DEF AllTold
<1> QED
  BY <1>1, <1>2, <1>4, <1>5 DEF Go

LEMMA OthersSyncedTold ==
  ASSUME SessionInv, AllTold, NEW f \in Flows, OthersSynced(f)
  PROVE  AllTold'
<1>1. PICK ts, e, head, pulled : /\ ts = tasks /\ e = editor
                                 /\ head = repo.head /\ pulled = repo.pulled
  OBVIOUS
<1>2. /\ ts \in [Slots -> Task] /\ session \in Session /\ Told(ts, e, head, pulled)
      /\ Resting(ts[f], e) /\ ts[f].pc = "others" /\ ts[f].on = NoSync
      /\ RefreshSyncs(f, e, ts)
  BY <1>1, InvFacts DEF OthersSynced, Awaits, Ready, AllTold, Told, FlowsOK
<1>3. ts[f].found = {}
  BY <1>2 DEF Resting
<1>4. Told(tasks', e, head, pulled)
  BY <1>2, <1>3, RefreshSyncsTold
<1> QED
  BY <1>1, <1>4 DEF OthersSynced, AllTold

LEMMA LeaveSavedTold ==
  ASSUME SessionInv, AllTold, NEW f \in Flows, LeaveSaved(f)
  PROVE  AllTold'
<1>1. PICK ts, e, head, pulled, left : /\ ts = tasks /\ e = editor /\ left = "left"
                                       /\ head = repo.head /\ pulled = repo.pulled
  OBVIOUS
<1>2. /\ ts \in [Slots -> Task] /\ ts[f] \in Task /\ f \in Slots /\ f \notin Syncs
      /\ Told(ts, e, head, pulled) /\ ts[f].found \subseteq pulled /\ session \in Session
  BY <1>1, InvFacts, Pieces DEF AllTold, Told, FlowsOK
<1>3. CASE Go(f)
  BY <1>3, FlowEndsTold DEF LeaveSaved
<1>4. CASE OwnSync(f, left, ts)
  <2>1. Told(tasks', e, head, pulled)
    BY <1>1, <1>2, <1>4, OwnSyncTold
  <2> QED
    BY <1>1, <2>1 DEF LeaveSaved, AllTold
<1>5. CASE tasks' = [tasks EXCEPT ![f].pc = "left", ![f].on = session.pending]
  <2>1. PICK r : r = [ts[f] EXCEPT !.pc = "left", !.on = session.pending]
    OBVIOUS
  <2>2. r \in Task /\ r.pc = "left" /\ r.found = ts[f].found
    BY <1>2, <2>1 DEF Task, Pcs, Session
  <2>3. Resting(r, e)
    BY <2>2 DEF Resting, LoadPcs
  <2>4. Told([ts EXCEPT ![f] = r], e, head, pulled)
    BY <1>2, <2>2, <2>3, SetTold
  <2> QED
    BY <1>1, <1>2, <1>5, <2>1, <2>4 DEF LeaveSaved, AllTold
<1> QED
  BY <1>1, <1>3, <1>4, <1>5 DEF LeaveSaved

LEMMA FlowStepTold ==
  ASSUME SessionInv, AllTold, NEW f \in Flows, StepsOf(f)
  PROVE  AllTold'
<1>1. f \in Slots /\ "access" \in Pcs /\ "refreshed" \in Pcs
  BY Pieces DEF Pcs
<1>2. CASE LoadStep(f)
  BY <1>1, <1>2, ReadRowsTold, ReadHeadTold, ApplyLoadTold, FailLoadTold DEF LoadStep
<1>3. CASE EnterChapter(f) \/ RefreshLoads(f) \/ RefreshReloads(f) \/ BackLoads(f)
  BY <1>3, FlowLoadsTold
<1>4. CASE CheckAccess(f)
  <2>1. PICK pc \in Pcs : pc = "access"
    BY <1>1
  <2>2. /\ tasks[f].pc = "ops" /\ tasks' = [tasks EXCEPT ![f].pc = pc]
        /\ UNCHANGED <<editor, repo>>
    BY <1>4, <2>1 DEF CheckAccess, Awaits
  <2> QED
    BY <2>1, <2>2, NextPcTold
<1>5. CASE RefreshSynced(f)
  BY <1>1, <1>5, NextPcTold DEF RefreshSynced
<1>6. CASE \/ RefreshDeferred(f) \/ Refreshed(f) \/ LeaveBlocked(f) \/ LeaveSynced(f)
           \/ OpenBlocked(f) \/ BackFails(f)
  BY <1>6, FlowEndsTold DEF RefreshDeferred, Refreshed, LeaveBlocked, LeaveSynced, OpenBlocked,
                            BackFails
<1>7. CASE OthersSynced(f) \/ LeaveSaved(f)
  BY <1>7, OthersSyncedTold, LeaveSavedTold
<1> QED
  BY <1>2, <1>3, <1>4, <1>5, <1>6, <1>7 DEF StepsOf, FlowStep
-----------------------------------------------------------------------------
(* The user.                                                               *)

LEMMA BeginTold ==
  ASSUME SessionInv, AllTold, NEW f \in Flows, NEW kind \in Kinds, NEW pc \in {"ops", "save", "access"},
         NEW c \in MaybeChapter, tasks' = Begin(f, kind, pc, c), UNCHANGED <<editor, repo>>
  PROVE  AllTold'
<1>1. PICK ts, e, head, pulled : /\ ts = tasks /\ e = editor
                                 /\ head = repo.head /\ pulled = repo.pulled
  OBVIOUS
<1>2. /\ ts \in [Slots -> Task] /\ f \in Slots /\ f \notin Syncs /\ Told(ts, e, head, pulled)
  BY <1>1, InvFacts, Pieces DEF AllTold
<1>3. PICK r : r = [NoTask EXCEPT !.kind = kind, !.pc = pc, !.chapter = c]
  OBVIOUS
<1>4. r \in Task /\ r.pc = pc /\ r.found = {} /\ r.on = NoSync
  <2>1. NoTask \in Task /\ NoTask.found = {} /\ NoTask.on = NoSync /\ pc \in Pcs
    BY Pieces, FreshTasks DEF Fresh, Pcs
  <2> QED
    BY <1>3, <2>1 DEF Task
<1>5. Resting(r, e)
  BY <1>4 DEF Resting, LoadPcs
<1>6. Told([ts EXCEPT ![f] = r], e, head, pulled)
  BY <1>2, <1>4, <1>5, SetTold
<1> QED
  BY <1>1, <1>3, <1>6 DEF AllTold, Begin

LEMMA ResumeTold ==
  ASSUME SessionInv, AllTold, NEW c \in Chapters, Resume(c)
  PROVE  AllTold'
<1>1. PICK ts, e, e1, head, pulled, scr, i :
             /\ ts = tasks /\ e = editor' /\ e1 = editor /\ scr = "translate" /\ i = TRUE
             /\ head = repo.head /\ pulled = repo.pulled
  OBVIOUS
<1>2. /\ ts \in [Slots -> Task] /\ e1 \in Editor /\ Told(ts, e1, head, pulled)
      /\ StartSession(e, scr, i, ts) /\ e = [e1 EXCEPT !.status = "ready"]
  BY <1>1, InvFacts DEF Resume, AllTold, Around
<1>3. e.sound => e1.sound /\ e.chapter = e1.chapter /\ e.known = e1.known /\ e.base = e1.base
  BY <1>2 DEF Editor
<1>4. e1.sound => Current(e1.known, e1.chapter, e1.base, ts, head, pulled)
  BY <1>2 DEF Told, HeadsOK
<1>5. Told(ts, e, head, pulled)
  BY <1>2, <1>3, <1>4, RowsTold
<1>6. Settled(ts, tasks')
  BY <1>2, StartSettles
<1>7. Told(tasks', e, head, pulled)
  BY <1>5, <1>6, SettledTold
<1> QED
  BY <1>1, <1>7 DEF Resume, AllTold

(* A commit moves the head, and the base of the rows it is a commit of.    *)
LEMMA CommitTold ==
  ASSUME NEW ts \in [Slots -> Task], NEW e, NEW head, NEW pulled, Told(ts, e, head, pulled),
         \A s \in Syncs : ts[s].pc # "pulled",
         e.base \in Nat, NEW e2,
         \/ /\ e2.sound = e.sound /\ e2.chapter = e.chapter
            /\ e2.known = e.known /\ e2.base = e.base
         \/ /\ e2.sound => pulled \cap In(e2.chapter) \subseteq e2.known
            /\ e2.base = head + 1
  PROVE  Told(ts, e2, head + 1, pulled)
<1>1. head \in Nat /\ 1 <= head /\ head + 1 \in Nat /\ 1 <= head + 1
  BY DEF Told, PullsOK
<1>2. ASSUME NEW known, NEW chapter, NEW base \in Nat, Current(known, chapter, base, ts, head, pulled)
      PROVE  Current(known, chapter, base, ts, head + 1, pulled)
  <2>1. 1 <= base /\ base <= head
    BY <1>2 DEF Current
  <2>2. base <= head + 1 /\ base # head + 1
    BY <1>1, <2>1
  <2> QED
    BY <2>1, <2>2 DEF Current
<1>3. ASSUME NEW t \in Slots, ts[t].pc = "apply", ts[t].sure
      PROVE  Current(ts[t].read, ts[t].chapter, ts[t].at, ts, head + 1, pulled)
  <2>1. ts[t].at \in Nat
    BY DEF Task
  <2> QED
    BY <1>2, <1>3, <2>1 DEF Told, HeadsOK
<1>4. e2.sound => Current(e2.known, e2.chapter, e2.base, ts, head + 1, pulled)
  <2>1. CASE /\ e2.sound = e.sound /\ e2.chapter = e.chapter
             /\ e2.known = e.known /\ e2.base = e.base
    BY <1>2, <2>1 DEF Told, HeadsOK
  <2>2. CASE /\ e2.sound => pulled \cap In(e2.chapter) \subseteq e2.known
             /\ e2.base = head + 1
    BY <1>1, <2>2 DEF Current
  <2> QED
    BY <2>1, <2>2
<1>5. HeadsOK(ts, e2, head + 1, pulled)
  BY <1>3, <1>4 DEF HeadsOK
<1>6. PullsOK(ts, head + 1)
  BY <1>1 DEF PullsOK
<1>7. \A t \in Slots : Shown(ts[t], e) => Shown(ts[t], e2)
  <2>1. CASE /\ e2.sound = e.sound /\ e2.chapter = e.chapter
             /\ e2.known = e.known /\ e2.base = e.base
    BY <2>1 DEF Shown
  <2>2. CASE e2.sound => pulled \cap In(e2.chapter) \subseteq e2.known
    BY <2>2 DEF Told, FlowsOK, Shown
  <2> QED
    BY <2>1, <2>2
<1>8. FlowsOK(ts, e2, pulled)
  <2>1. \A f \in Flows : Resting(ts[f], e2)
    BY <1>7, Pieces DEF Told, FlowsOK, Resting
  <2>2. \A f \in Flows, s \in Syncs :
          ts[f].pc = "synced" /\ ts[f].on = s => Awaiting(ts[f], ts[s], e2, pulled)
    BY <1>7, Pieces DEF Told, FlowsOK, Awaiting
  <2> QED
    BY <2>1, <2>2 DEF Told, FlowsOK
<1> QED
  BY <1>5, <1>6, <1>8 DEF Told

LEMMA WritesTold ==
  ASSUME SessionInv, AllTold, Type \/ SaveDraft \/ RequestOperation \/ FinishOperation
  PROVE  AllTold'
<1>1. PICK ts, e, e2, head, pulled : /\ ts = tasks /\ e = editor /\ e2 = editor'
                                     /\ head = repo.head /\ pulled = repo.pulled
  OBVIOUS
<1>2. /\ ts \in [Slots -> Task] /\ e \in Editor /\ Told(ts, e, head, pulled)
      /\ repo \in [head : Nat, pulled : SUBSET Changes, op : MaybeChapter, saves : 0 .. MaxSaves]
      /\ head \in Nat /\ e.base \in Nat /\ e.chapter \in MaybeChapter
  BY <1>1, InvFacts DEF AllTold, Around, Editor
<1>3. UNCHANGED tasks
  BY DEF Type, SaveDraft, RequestOperation, FinishOperation
<1>4. CASE Type \/ RequestOperation
  <2>1. /\ e2.sound = e.sound /\ e2.chapter = e.chapter
        /\ e2.known = e.known /\ e2.base = e.base
    BY <1>1, <1>2, <1>4 DEF Type, RequestOperation, Editor
  <2>2. repo'.head = head /\ repo'.pulled = pulled
    BY <1>1, <1>2, <1>4 DEF Type, RequestOperation
  <2>3. Told(ts, e2, head, pulled)
    BY <1>2, <2>1, RowsTold DEF Told, HeadsOK
  <2> QED
    BY <1>1, <1>3, <2>2, <2>3 DEF AllTold
<1>5. CASE SaveDraft \/ FinishOperation
  <2>1. \A s \in Syncs : ts[s].pc # "pulled"
    BY <1>1, <1>5 DEF SaveDraft, FinishOperation, RepoFree
  <2>2. PICK n \in Nat, b \in BOOLEAN :
          /\ n = head + 1 /\ b = (pulled \cap In(e.chapter) \subseteq e.known)
          /\ Committed = [e EXCEPT !.base = n, !.sound = b]
    <3>1. head + 1 \in Nat /\ (pulled \cap In(e.chapter) \subseteq e.known) \in BOOLEAN
      BY <1>2
    <3> QED
      BY <1>1, <3>1, Zenon DEF Committed
  <2>3. /\ Committed.base = head + 1 /\ Committed.chapter = e.chapter
        /\ Committed.known = e.known /\ Committed.sound = b /\ Committed \in Editor
    BY <1>2, <2>2 DEF Editor
  <2>4. Committed.sound => pulled \cap In(Committed.chapter) \subseteq Committed.known
    BY <2>2, <2>3
  <2>5. \/ e2 = e
        \/ /\ e2.base = Committed.base /\ e2.chapter = Committed.chapter
           /\ e2.known = Committed.known /\ e2.sound = Committed.sound
    <3>1. CASE SaveDraft
      <4>1. e2 = [Committed EXCEPT !.draft = FALSE]
        BY <1>1, <3>1 DEF SaveDraft
      <4> QED
        BY <2>3, <4>1 DEF Editor
    <3>2. CASE FinishOperation
      BY <1>1, <3>2 DEF FinishOperation
    <3> QED
      BY <1>5, <3>1, <3>2
  <2>6. \/ /\ e2.sound = e.sound /\ e2.chapter = e.chapter
           /\ e2.known = e.known /\ e2.base = e.base
        \/ /\ e2.sound => pulled \cap In(e2.chapter) \subseteq e2.known
           /\ e2.base = head + 1
    BY <2>3, <2>4, <2>5
  <2>7. Told(ts, e2, head + 1, pulled)
    BY <1>2, <2>1, <2>6, CommitTold
  <2>8. repo'.head = head + 1 /\ repo'.pulled = pulled
    BY <1>1, <1>2, <1>5 DEF SaveDraft, FinishOperation
  <2> QED
    BY <1>1, <1>3, <2>7, <2>8 DEF AllTold
<1> QED
  BY <1>4, <1>5

LEMMA UserStepTold ==
  ASSUME SessionInv, AllTold, UserStep
  PROVE  AllTold'
<1>1. /\ {"open", "refresh", "back", "toProjects", "toGlossary"} \subseteq Kinds
      /\ editor.chapter \in MaybeChapter /\ selected \in MaybeChapter
      /\ Chapters \cup {NoChapter} = MaybeChapter
  BY InvFacts DEF Kinds, Around, MaybeChapter
<1>2. ASSUME NEW f \in Flows, NEW c \in Chapters, Open(c, f)
      PROVE  AllTold'
  <2>1. PICK kind \in Kinds, pc \in {"ops", "save", "access"} : kind = "open" /\ pc = "ops"
    BY <1>1
  <2> QED
    BY <1>1, <1>2, <2>1, BeginTold DEF Open
<1>3. ASSUME NEW f \in Flows, NEW kind \in {"toProjects", "toGlossary"}, Leave(kind, f)
      PROVE  AllTold'
  <2>1. PICK pc \in {"ops", "save", "access"}, c \in MaybeChapter : pc = "save" /\ c = NoChapter
    BY <1>1
  <2> QED
    BY <1>1, <1>3, <2>1, BeginTold DEF Leave
<1>4. ASSUME NEW f \in Flows, Refresh(f)
      PROVE  AllTold'
  <2>1. PICK kind \in Kinds, pc \in {"ops", "save", "access"}, c \in MaybeChapter :
          kind = "refresh" /\ pc = "ops" /\ c = editor.chapter
    BY <1>1
  <2> QED
    BY <1>4, <2>1, BeginTold DEF Refresh
<1>5. ASSUME NEW f \in Flows, Back(f)
      PROVE  AllTold'
  <2>1. PICK kind \in Kinds, pc \in {"ops", "save", "access"}, c \in MaybeChapter :
          kind = "back" /\ pc = "access" /\ c = selected
    BY <1>1
  <2> QED
    BY <1>5, <2>1, BeginTold DEF Back
<1>6. CASE \E c \in Chapters : Resume(c)
  BY <1>6, ResumeTold
<1>7. CASE GlossaryToProjects
  BY <1>7 DEF GlossaryToProjects, AllTold
<1>8. CASE Type \/ RequestOperation
  BY <1>8, WritesTold
<1> QED
  BY <1>2, <1>3, <1>4, <1>5, <1>6, <1>7, <1>8 DEF UserStep
-----------------------------------------------------------------------------
(* The syncs.                                                              *)

LEMMA TimerTold ==
  ASSUME SessionInv, AllTold, Timer
  PROVE  AllTold'
<1>1. PICK s \in Syncs : tasks' = BeginSync(s, tasks)
  BY DEF Timer, Free
<1>2. PICK ts, e, head, pulled : /\ ts = tasks /\ e = editor
                                 /\ head = repo.head /\ pulled = repo.pulled
  OBVIOUS
<1>3. ts \in [Slots -> Task] /\ Told(ts, e, head, pulled)
  BY <1>2, InvFacts DEF AllTold
<1>4. Told(BeginSync(s, ts), e, head, pulled)
  BY <1>3, BeginSettles, SettledTold
<1> QED
  BY <1>1, <1>2, <1>4 DEF Timer, AllTold

LEMMA DroppedTold ==
  ASSUME SessionInv, AllTold, NEW s \in Syncs, DropSync(s) \/ DeferReload(s) \/ EndReload(s)
  PROVE  AllTold'
<1>1. PICK ts, e, head, pulled, result, ses :
             /\ ts = tasks /\ e = editor /\ head = repo.head /\ pulled = repo.pulled
             /\ result \in Results /\ EndSync(s, result, ses, ts)
             /\ result = "rest" => EndReload(s) /\ tasks[s].result = "rest"
  <2>1. CASE DropSync(s)
    BY <2>1 DEF DropSync, Results
  <2>2. CASE DeferReload(s)
    BY <2>2 DEF DeferReload, Results
  <2>3. CASE EndReload(s)
    <3>1. tasks[s].result \in Results
      BY InvFacts, Pieces DEF Task, Results
    <3> QED
      BY <2>3, <3>1 DEF EndReload
  <2> QED
    BY <2>1, <2>2, <2>3
<1>2. ts \in [Slots -> Task] /\ Told(ts, e, head, pulled) /\ tasks' = WithoutSync(s, result, ts)
  BY <1>1, InvFacts, EndSyncIs DEF AllTold
<1>3. ASSUME result = "rest", NEW f \in Flows, ts[f].pc = "synced", ts[f].on = s
      PROVE  Shown(ts[f], e)
  <2>1. ts[s].pc = "paint" /\ ts[s].result = "rest"
    BY <1>1, <1>3 DEF EndReload, SyncAt
  <2> QED
    BY <1>2, <1>3, <2>1 DEF Told, FlowsOK, Awaiting
<1>4. Told(WithoutSync(s, result, ts), e, head, pulled)
  BY <1>1, <1>2, <1>3, EndSyncTold
<1> QED
  BY <1>1, <1>2, <1>4 DEF DropSync, DeferReload, EndReload, AllTold

LEMMA BlockAndReloadTold ==
  ASSUME SessionInv, AllTold, NEW s \in Syncs, BlockAndReload(s)
  PROVE  AllTold'
<1>1. PICK ts, e, head, pulled, i, scr, c :
             /\ ts = tasks /\ e = editor /\ head = repo.head /\ pulled = repo.pulled
             /\ i = TRUE /\ scr = screen /\ c = selected
  OBVIOUS
<1>2. /\ ts \in [Slots -> Task] /\ ts[s] \in Task /\ s \in Slots /\ s \notin Flows
      /\ e \in Editor /\ Told(ts, e, head, pulled) /\ i \in BOOLEAN /\ c \in MaybeChapter
  BY <1>1, InvFacts, Pieces DEF AllTold, Around
<1>3. PICK task : task = [ts[s] EXCEPT !.found = {}, !.at = 0]
  OBVIOUS
<1>4. PICK r : r = BeginLoad(task, i, e, scr, c)
  OBVIOUS
<1>5. task \in Task /\ task.found = {}
  BY <1>2, <1>3 DEF Task
<1>6. r \in Task /\ r.pc = "rows" /\ r.found = {}
  BY <1>2, <1>4, <1>5, LoadBegins, LoadKeepsFound
<1>7. \A f \in Flows : Awaiting(ts[f], r, e, pulled)
  BY <1>6 DEF Awaiting
<1>8. PICK ts2 : ts2 = [ts EXCEPT ![s] = r]
  OBVIOUS
<1>9. Told(ts2, e, head, pulled)
  BY <1>2, <1>6, <1>7, <1>8, SetTold
<1>10. Told(ts2, Loading(i, e, scr, c), head, pulled)
  BY <1>2, <1>9, LoadingTold
<1> QED
  BY <1>1, <1>2, <1>3, <1>4, <1>8, <1>10 DEF BlockAndReload, AllTold

(* What a sync found is marked in rows that are from the head it started   *)
(* from, and then they know all that was pulled.                           *)
LEMMA MarkRowsTold ==
  ASSUME SessionInv, AllTold, NEW s \in Syncs, MarkRows(s)
  PROVE  AllTold'
<1>1. PICK ts, e, e2, head, pulled, result, found :
             /\ ts = tasks /\ e = editor /\ e2 = editor' /\ head = repo.head /\ pulled = repo.pulled
             /\ result = IF tasks[s].found = {} /\ HeadMatches(s) THEN "rest" ELSE "load"
             /\ found = tasks[s].found
  OBVIOUS
<1>2. /\ ts \in [Slots -> Task] /\ ts[s].pc = "pulled" /\ ts[s].found = found
      /\ e \in Editor /\ Told(ts, e, head, pulled)
      /\ result \in Results /\ EndSync(s, result, session, ts)
  BY <1>1, InvFacts DEF MarkRows, Answers, SyncAt, AllTold, Around, Results
<1>3. /\ ts[s].at \in Nat /\ head \in Nat /\ 1 <= head
      /\ head = ts[s].at + (IF found = {} THEN 0 ELSE 1)
  <2>1. /\ ts[s].at \in Nat /\ head \in Nat /\ 1 <= head
        /\ head = IF found = {} THEN ts[s].at ELSE ts[s].at + 1
    BY <1>2 DEF Told, PullsOK
  <2> QED
    BY <2>1
<1>4. CASE e2 = e /\ ~ (found = {} /\ HeadMatches(s))
  <2>1. result # "rest"
    BY <1>1, <1>4
  <2>2. tasks' = WithoutSync(s, result, ts)
    BY <1>2, EndSyncIs
  <2>3. Told(WithoutSync(s, result, ts), e, head, pulled)
    BY <1>2, <2>1, EndSyncTold
  <2> QED
    BY <1>1, <1>4, <2>2, <2>3 DEF MarkRows, AllTold
<1>5. CASE /\ HeadMatches(s)
           /\ e2 = [e EXCEPT !.known = @ \cup (found \cap In(e.chapter)),
                             !.base = ts[s].at + (IF found = {} THEN 0 ELSE 1)]
  <2>1. /\ e2.known = e.known \cup (found \cap In(e.chapter)) /\ e2.base = head
        /\ e2.chapter = e.chapter /\ e2.sound = e.sound
    BY <1>2, <1>3, <1>5 DEF Editor
  <2>2. e.sound => pulled \cap In(e.chapter) \subseteq e2.known
    <3>1. SUFFICES ASSUME e.sound PROVE pulled \cap In(e.chapter) \subseteq e2.known
      OBVIOUS
    <3>2. Current(e.known, e.chapter, e.base, ts, head, pulled)
      BY <1>2, <3>1 DEF Told, HeadsOK
    <3>3. e.base # 0
      BY <1>2, <3>2 DEF Current, Editor
    <3>4. e.base = ts[s].at
      BY <1>1, <1>5, <3>3 DEF HeadMatches
    <3>5. (pulled \ found) \cap In(e.chapter) \subseteq e.known
      BY <1>2, <3>2, <3>4 DEF Current
    <3> QED
      BY <2>1, <3>5
  <2>3. e2.sound => Current(e2.known, e2.chapter, e2.base, ts, head, pulled)
    BY <1>3, <2>1, <2>2 DEF Current
  <2>4. Told(ts, e2, head, pulled)
    BY <1>2, <2>1, <2>3, RowsTold
  <2>5. ASSUME result = "rest", NEW f \in Flows, ts[f].pc = "synced", ts[f].on = s
        PROVE  Shown(ts[f], e2)
    <3>1. ts[f].found = pulled \cap In(ts[f].chapter)
      BY <1>2, <2>5 DEF Told, FlowsOK, Awaiting
    <3> QED
      BY <2>1, <2>2, <3>1 DEF Shown
  <2>6. tasks' = WithoutSync(s, result, ts)
    BY <1>2, EndSyncIs
  <2>7. Told(WithoutSync(s, result, ts), e2, head, pulled)
    BY <1>2, <2>4, <2>5, EndSyncTold
  <2> QED
    BY <1>1, <2>6, <2>7 DEF MarkRows, AllTold
<1> QED
  BY <1>1, <1>4, <1>5 DEF MarkRows

LEMMA PullTold ==
  ASSUME SessionInv, AllTold, NEW s \in Syncs, Pull(s)
  PROVE  AllTold'
<1>1. PICK found \in SUBSET (Changes \ repo.pulled) :
        /\ repo' = [repo EXCEPT !.pulled = @ \cup found, !.head = IF found = {} THEN @ ELSE @ + 1]
        /\ tasks' = [t \in Slots |->
             IF t = s THEN [tasks[t] EXCEPT !.pc = "pulled", !.found = found, !.at = repo.head]
             ELSE IF tasks[t].on = s /\ tasks[t].pc = "synced"
             THEN [tasks[t] EXCEPT !.found = repo'.pulled \cap In(tasks[t].chapter)]
             ELSE tasks[t]]
  BY DEF Pull
<1>2. PICK ts, ts2, e, head, pulled, head2, pulled2 :
             /\ ts = tasks /\ ts2 = tasks' /\ e = editor
             /\ head = repo.head /\ pulled = repo.pulled
             /\ head2 = repo'.head /\ pulled2 = repo'.pulled
  OBVIOUS
<1>3. /\ ts \in [Slots -> Task] /\ Told(ts, e, head, pulled) /\ e \in Editor
      /\ \A u \in Syncs : ts[u].pc # "pulled"
      /\ repo \in [head : Nat, pulled : SUBSET Changes, op : MaybeChapter, saves : 0 .. MaxSaves]
      /\ UNCHANGED editor
  BY <1>2, InvFacts DEF AllTold, Around, Pull, RepoFree
<1>4. /\ pulled2 = pulled \cup found /\ head \in Nat /\ 1 <= head
      /\ head2 = IF found = {} THEN head ELSE head + 1
      /\ head2 \in Nat /\ 1 <= head2
  <2>1. head \in Nat /\ 1 <= head
    BY <1>3 DEF Told, PullsOK
  <2>2. PICK h \in Nat : h = (IF found = {} THEN head ELSE head + 1) /\ 1 <= h
    BY <2>1
  <2>3. repo' = [repo EXCEPT !.pulled = repo.pulled \cup found, !.head = h]
    BY <1>1, <1>2, <2>2
  <2> QED
    BY <1>2, <1>3, <2>1, <2>2, <2>3
<1>5. Syncs \subseteq Slots /\ Flows \subseteq Slots /\ Flows \cap Syncs = {} /\ NoSync \notin Syncs
  BY Pieces
<1>6. /\ ts2[s] = [ts[s] EXCEPT !.pc = "pulled", !.found = found, !.at = head]
      /\ \A t \in Slots : t # s /\ ts[t].on = s /\ ts[t].pc = "synced" =>
           ts2[t] = [ts[t] EXCEPT !.found = pulled2 \cap In(ts[t].chapter)]
      /\ \A t \in Slots : t # s /\ ~ (ts[t].on = s /\ ts[t].pc = "synced") => ts2[t] = ts[t]
  BY <1>1, <1>2, <1>5
<1>7. /\ ts2[s].pc = "pulled" /\ ts2[s].found = found /\ ts2[s].at = head
  <2>1. ts[s] \in Task
    BY <1>3, <1>5
  <2> QED
    BY <1>6, <2>1 DEF Task
<1>8. ASSUME NEW t \in Slots, t # s, ts[t].on = s, ts[t].pc = "synced"
      PROVE  /\ ts2[t].pc = "synced" /\ ts2[t].on = s /\ ts2[t].chapter = ts[t].chapter
             /\ ts2[t].found = pulled2 \cap In(ts2[t].chapter)
  <2>1. PICK x : x = pulled2 \cap In(ts[t].chapter)
    OBVIOUS
  <2>2. ts[t] \in Task /\ ts2[t] = [ts[t] EXCEPT !.found = x]
    BY <1>3, <1>6, <1>8, <2>1
  <2>3. /\ ts2[t].pc = ts[t].pc /\ ts2[t].on = ts[t].on /\ ts2[t].chapter = ts[t].chapter
        /\ ts2[t].found = x
    BY <2>2 DEF Task
  <2> QED
    BY <1>8, <2>1, <2>3
<1>9. \A u \in Syncs : u # s => ts2[u] = ts[u]
  <2>1. \A u \in Syncs : ts[u].pc # "synced"
    BY <1>2, <1>5, InvFacts DEF Fits, PcsOf, LoadPcs
  <2> QED
    BY <1>5, <1>6, <2>1
<1>10. ASSUME NEW known, NEW chapter, NEW base \in Nat, Current(known, chapter, base, ts, head, pulled)
       PROVE  Current(known, chapter, base, ts2, head2, pulled2)
  <2>1. 1 <= base /\ base <= head /\ (base = head => pulled \cap In(chapter) \subseteq known)
    BY <1>10 DEF Current
  <2>2. base <= head2 /\ (base = head2 => base = head /\ found = {})
    BY <1>4, <2>1
  <2>3. base = head2 => pulled2 \cap In(chapter) \subseteq known
    BY <1>4, <2>1, <2>2
  <2>4. ASSUME NEW u \in Syncs, ts2[u].pc = "pulled", base = ts2[u].at
        PROVE  (pulled2 \ ts2[u].found) \cap In(chapter) \subseteq known
    <3>1. u = s
      BY <1>3, <1>9, <2>4
    <3> QED
      BY <1>4, <1>7, <2>1, <2>4, <3>1
  <2> QED
    BY <2>1, <2>2, <2>3, <2>4 DEF Current
<1>11. HeadsOK(ts2, e, head2, pulled2)
  <2>1. e.sound => Current(e.known, e.chapter, e.base, ts2, head2, pulled2)
    BY <1>3, <1>10 DEF Told, HeadsOK, Editor
  <2>2. ASSUME NEW t \in Slots, ts2[t].pc = "apply", ts2[t].sure
        PROVE  Current(ts2[t].read, ts2[t].chapter, ts2[t].at, ts2, head2, pulled2)
    <3>1. ts2[t] = ts[t]
      BY <1>6, <1>7, <1>8, <2>2
    <3>2. ts[t].at \in Nat
      BY <1>3 DEF Task
    <3> QED
      BY <1>3, <1>10, <2>2, <3>1, <3>2 DEF Told, HeadsOK
  <2> QED
    BY <2>1, <2>2 DEF HeadsOK
<1>12. PullsOK(ts2, head2)
  <2>1. \A u \in Syncs : ts2[u].pc = "pulled" => u = s
    BY <1>3, <1>9
  <2> QED
    BY <1>4, <1>7, <2>1 DEF PullsOK
<1>13. ASSUME NEW t \in Slots
       PROVE  ts2[t].found \subseteq pulled2
  <2>1. CASE t = s
    BY <1>4, <1>7, <2>1
  <2>2. CASE t # s /\ ts[t].on = s /\ ts[t].pc = "synced"
    BY <1>8, <2>2
  <2>3. CASE t # s /\ ~ (ts[t].on = s /\ ts[t].pc = "synced")
    BY <1>3, <1>4, <1>6, <2>3 DEF Told, FlowsOK
  <2> QED
    BY <2>1, <2>2, <2>3
<1>14. ASSUME NEW f \in Flows
       PROVE  Resting(ts2[f], e)
  <2>1. f \in Slots /\ f # s
    BY <1>5
  <2>2. CASE ts[f].on = s /\ ts[f].pc = "synced"
    BY <1>5, <1>8, <2>1, <2>2 DEF Resting, LoadPcs
  <2>3. CASE ~ (ts[f].on = s /\ ts[f].pc = "synced")
    BY <1>3, <1>6, <2>1, <2>3 DEF Told, FlowsOK
  <2> QED
    BY <2>2, <2>3
<1>15. ASSUME NEW f \in Flows, NEW u \in Syncs, ts2[f].pc = "synced", ts2[f].on = u
       PROVE  Awaiting(ts2[f], ts2[u], e, pulled2)
  <2>1. f \in Slots /\ f # s
    BY <1>5
  <2>2. CASE ts[f].on = s /\ ts[f].pc = "synced"
    <3>1. u = s /\ ts2[f].found = pulled2 \cap In(ts2[f].chapter)
      BY <1>8, <1>15, <2>1, <2>2
    <3> QED
      BY <1>7, <3>1 DEF Awaiting
  <2>3. CASE ~ (ts[f].on = s /\ ts[f].pc = "synced")
    <3>1. ts2[f] = ts[f] /\ u # s /\ ts2[u] = ts[u] /\ ts[u].pc # "pulled"
      BY <1>3, <1>6, <1>9, <1>15, <2>1, <2>3
    <3>2. Awaiting(ts[f], ts[u], e, pulled)
      BY <1>3, <1>15, <3>1 DEF Told, FlowsOK
    <3> QED
      BY <3>1, <3>2 DEF Awaiting
  <2> QED
    BY <2>2, <2>3
<1>16. Told(ts2, e, head2, pulled2)
  BY <1>11, <1>12, <1>13, <1>14, <1>15 DEF Told, FlowsOK
<1> QED
  BY <1>2, <1>3, <1>16 DEF AllTold

LEMMA SyncStepTold ==
  ASSUME SessionInv, AllTold, NEW s \in Syncs, SyncStep(s)
  PROVE  AllTold'
<1>1. s \in Slots
  BY Pieces
<1>2. CASE LoadStep(s)
  BY <1>1, <1>2, ReadRowsTold, ReadHeadTold, ApplyLoadTold, FailLoadTold DEF LoadStep
<1>3. CASE Pull(s) \/ BlockAndReload(s) \/ MarkRows(s)
  BY <1>3, PullTold, BlockAndReloadTold, MarkRowsTold
<1>4. CASE DropSync(s) \/ DeferReload(s) \/ EndReload(s)
  BY <1>4, DroppedTold
<1> QED
  BY <1>2, <1>3, <1>4 DEF SyncStep

LEMMA StepTold ==
  ASSUME SessionInv, AllTold, [Next]_vars
  PROVE  AllTold'
<1>1. CASE UserStep
  BY <1>1, UserStepTold
<1>2. CASE Timer
  BY <1>2, TimerTold
<1>3. CASE SaveDraft \/ FinishOperation
  BY <1>3, WritesTold
<1>4. CASE \E f \in Flows : StepsOf(f)
  BY <1>4, FlowStepTold
<1>5. CASE \E s \in Syncs : SyncStep(s)
  BY <1>5, SyncStepTold
<1>6. CASE UNCHANGED vars
  BY <1>6 DEF vars, AllTold
<1> QED
  BY <1>1, <1>2, <1>3, <1>4, <1>5, <1>6 DEF Next, StepsOf

LEMMA InitTold == Init => AllTold
<1> SUFFICES ASSUME Init PROVE AllTold
  OBVIOUS
<1>1. /\ \A t \in Slots : tasks[t] = NoTask
      /\ repo.head = 1 /\ repo.pulled = {} /\ ~ editor.sound
  BY DEF Init, Closed
<1>2. NoTask.pc = "" /\ NoTask.found = {} /\ NoTask.on = NoSync
  BY FreshTasks, Pieces DEF Fresh
<1>3. \A t \in Slots : tasks[t].pc = "" /\ tasks[t].found = {} /\ tasks[t].on = NoSync
  BY <1>1, <1>2
<1>4. Syncs \subseteq Slots /\ Flows \subseteq Slots
  BY Pieces
<1>5. HeadsOK(tasks, editor, repo.head, repo.pulled)
  BY <1>1, <1>3 DEF HeadsOK
<1>6. PullsOK(tasks, repo.head)
  <2>1. repo.head \in Nat /\ 1 <= repo.head
    BY <1>1
  <2>2. \A s \in Syncs : tasks[s].pc # "pulled"
    BY <1>3, <1>4
  <2> QED
    BY <2>1, <2>2 DEF PullsOK
<1>7. FlowsOK(tasks, editor, repo.pulled)
  <2>1. \A f \in Flows : Resting(tasks[f], editor)
    BY <1>3, <1>4 DEF Resting, LoadPcs
  <2> QED
    BY <1>3, <1>4, <2>1 DEF FlowsOK
<1> QED
  BY <1>5, <1>6, <1>7 DEF AllTold, Told

(* Every chapter and load that believes in a head knows what was pulled by *)
(* then, and every refresh knows what its sync found                       *)
(* (editor-background-sync.js, syncResultMatchesCurrentChapterHead).       *)
THEOREM HeadsAreKnown == Spec => []AllTold
<1>1. Init => AllTold
  BY InitTold
<1>2. SessionInv /\ AllTold /\ [Next]_vars => AllTold'
  BY StepTold
<1> QED
  BY <1>1, <1>2, SessionInvariant, PTL DEF Spec

(* A refresh that completes leaves on screen what had been pulled when its *)
(* sync answered (navigation.js, refreshCurrentScreen).                    *)
THEOREM RefreshIsTrue == Spec => RefreshBringsPulled
<1> DEFINE Brought(f) ==
             tasks[f].pc # "refreshed" /\ tasks'[f].pc = "refreshed" /\ tasks'[f].clean
               /\ editor'.chapter = tasks'[f].chapter /\ editor'.sound
             => tasks'[f].found \cap In(editor'.chapter) \subseteq editor'.known
<1>1. AllTold' => \A f \in Flows : Brought(f)
  BY DEF AllTold, Told, FlowsOK, Resting, Shown
<1>2. SessionInv /\ AllTold /\ [Next]_vars => [\A f \in Flows : Brought(f)]_vars
  BY <1>1, StepTold
<1> QED
  BY <1>2, SessionInvariant, HeadsAreKnown, PTL DEF Spec, RefreshBringsPulled
=============================================================================
