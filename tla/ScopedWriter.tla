---------------------------- MODULE ScopedWriter ----------------------------
(***************************************************************************)
(* What a repo write queue promises its callers, with no queue in sight:   *)
(* every write submitted for a repository scope is carried out once, no    *)
(* two writes of one scope are under way together, a more urgent write is  *)
(* taken first and writes of one urgency in the order they were submitted, *)
(* and every write is settled in the end.                                  *)
(*                                                                         *)
(* RepoWriteQueue implements this module; EditorOperationQueue is built on *)
(* it.                                                                     *)
(***************************************************************************)
EXTENDS Naturals

CONSTANTS
  WriteScopes,   \* the repositories written to
  MaxWrites      \* bound on the number of writes ever submitted

ASSUME WriterAssumption == MaxWrites \in Nat

WriteIds == 1 .. MaxWrites    \* numbered in the order they are submitted
Ranks    == 0 .. 2            \* how urgent a write is

VARIABLE writes               \* the writes submitted so far, by id

Write == [scope : WriteScopes, rank : Ranks,
          status : {"queued", "running", "settled"}]

WriterTypeOK ==
  /\ DOMAIN writes \subseteq WriteIds
  /\ writes \in [DOMAIN writes -> Write]

WithStatus(st) == {w \in DOMAIN writes : writes[w].status = st}

(* v is taken before w when both are queued for the same repository.       *)
Precedes(v, w) ==
  /\ writes[v].scope = writes[w].scope
  /\ \/ writes[v].rank > writes[w].rank
     \/ writes[v].rank = writes[w].rank /\ v < w

WriterInit == writes = <<>>

(* A new write, numbered after all the others, joins the queue of its      *)
(* scope; when nothing of that scope is queued or running it may start in  *)
(* the same turn.                                                          *)
SubmitWrite(w, s, k, st) ==
  /\ \A v \in DOMAIN writes : v < w
  /\ \/ st = "queued"
     \/ /\ st = "running"
        /\ \A v \in DOMAIN writes :
             writes[v].scope = s => writes[v].status = "settled"
  /\ writes' = [v \in DOMAIN writes \cup {w} |->
                  IF v = w THEN [scope |-> s, rank |-> k, status |-> st]
                           ELSE writes[v]]

BeginWrite(w) ==
  /\ w \in WithStatus("queued")
  /\ \A v \in WithStatus("running") : writes[v].scope # writes[w].scope
  /\ \A v \in WithStatus("queued") : ~ Precedes(v, w)
  /\ writes' = [writes EXCEPT ![w].status = "running"]

SettleWrite(w) ==
  /\ w \in WithStatus("running")
  /\ writes' = [writes EXCEPT ![w].status = "settled"]

WriterNext ==
  \/ \E w \in WriteIds, s \in WriteScopes, k \in Ranks,
        st \in {"queued", "running"} : SubmitWrite(w, s, k, st)
  \/ \E w \in WriteIds : BeginWrite(w) \/ SettleWrite(w)

WriterSafety == WriterInit /\ [][WriterNext]_writes

WriterSpec ==
  /\ WriterSafety
  /\ \A w \in WriteIds : WF_writes(BeginWrite(w)) /\ WF_writes(SettleWrite(w))
=============================================================================
