------------------------- MODULE EditorChapterSession -------------------------
(***************************************************************************)
(* The chapter open in the editor, its background sync session, and the    *)
(* flows that load, refresh, leave and reopen it.                          *)
(*                                                                         *)
(* Every flow and every sync is a task.  The app runs one turn of its event*)
(* loop at a time, and a task gives up its turn only where it awaits: that *)
(* is its pc.  A task whose await is over goes on before anything else     *)
(* happens (microtasks), which is the guard NewTurn of all other actions.  *)
(*                                                                         *)
(* A change is a commit of somebody else that a sync pulls.  The chapter   *)
(* knows a change when its rows show it or are marked for it, and believes *)
(* in a head of the repository, its base.                                  *)
(***************************************************************************)
EXTENDS Naturals, FiniteSets

CONSTANTS Chapters, NoChapter,
          Changes,         \* what teammates may push
          ChapterOf,       \* the chapter of each change
          KindOf,          \* "rows", "structure" or "conflict"
          Flows,           \* bound: flows of the user under way at a time
          Syncs, NoSync,   \* bound: syncs under way at a time
          MaxSaves         \* bound: commits made by the user

ASSUME ChangesAssumption ==
  /\ NoChapter \notin Chapters
  /\ KindOf \in [Changes -> {"rows", "structure", "conflict"}]
ASSUME SlotsAssumption == Flows \cap Syncs = {} /\ NoSync \notin Flows \cup Syncs
ASSUME SavesAssumption == MaxSaves \in Nat

VARIABLES
  screen,     \* state.screen
  selected,   \* state.selectedChapterId
  editor,     \* state.editorChapter
  session,    \* editorBackgroundSyncSession
  modal,      \* the task whose token navigationLoadingModal has
  tasks,
  repo        \* the local repository and the operation queued on it

vars == <<screen, selected, editor, session, modal, tasks, repo>>

Slots == Flows \cup Syncs
In(c) == {x \in Changes : ChapterOf[x] = c}
Hit(found, kind, c) == \E x \in found \cap In(c) : KindOf[x] = kind

NoTask == [kind |-> "none", pc |-> "", chapter |-> NoChapter, current |-> FALSE, on |-> NoSync,
           preserve |-> FALSE, prev |-> NoChapter, read |-> {}, at |-> 0, found |-> {},
           result |-> "none", sure |-> FALSE, clean |-> TRUE]
Closed == [chapter |-> NoChapter, status |-> "idle", rows |-> FALSE, known |-> {}, base |-> 0,
           sound |-> FALSE, draft |-> FALSE]
Stopped == [chapter |-> NoChapter, pending |-> NoSync, reload |-> {}]

Init ==
  /\ screen = "projects"
  /\ selected = NoChapter
  /\ editor = Closed
  /\ session = Stopped
  /\ modal = NoSync
  /\ tasks = [t \in Slots |-> NoTask]
  /\ repo = [head |-> 1, pulled |-> {}, op |-> NoChapter, saves |-> 0]
-----------------------------------------------------------------------------
(* What awaits something that is over.                                     *)

Free(ts, S) == {t \in S : ts[t].kind = "none"}

Ready(f) ==
  \/ /\ tasks[f].pc = "ops" /\ repo.op # tasks[f].chapter
     /\ tasks[f].kind = "open" => ~editor.draft
  \/ tasks[f].pc = "save" /\ ~editor.draft
  \/ tasks[f].pc \in {"others", "synced", "left"} /\ tasks[f].on = NoSync

NewTurn == \A f \in Flows : ~Ready(f)
UserMayAct == NewTurn /\ modal = NoSync
RepoFree == \A s \in Syncs : tasks[s].pc # "pulled"
Awaits(f, pc) == tasks[f].pc = pc /\ Ready(f)
-----------------------------------------------------------------------------
(* The session.                                                            *)

Key(e, scr) == IF scr = "translate" THEN e.chapter ELSE NoChapter
Matches == session.chapter # NoChapter /\ session.chapter = Key(editor, screen)
MatchesWith(e, s) == session.chapter # NoChapter /\ session.chapter = Key(e, screen) /\ tasks[s].current

QueuedSync == [NoTask EXCEPT !.kind = "sync", !.pc = "queued", !.current = TRUE]

(* The end of a sync of an earlier session clears pendingSync as well, so  *)
(* that a session may begin a sync with another one still under way: no    *)
(* sync answers for what these two do to each other.                       *)
Doubted(ts) ==
  [t \in Slots |-> IF ts[t].kind = "sync" THEN [ts[t] EXCEPT !.clean = FALSE] ELSE ts[t]]

BeginSync(s, ts) ==
  LET begun == [ts EXCEPT ![s] = QueuedSync]
  IN IF \E u \in Syncs : ts[u].current THEN Doubted(begun) ELSE begun

(* A sync carries the id of its session: it is current until another       *)
(* session begins or the editor is left.                                   *)
Outdated(ts) == [t \in Slots |-> [ts[t] EXCEPT !.current = FALSE]]

StartSession(e, scr, initial, ts) ==
  LET key == Key(e, scr)
      fresh == [Stopped EXCEPT !.chapter = key]
  IN IF key # NoChapter /\ session.chapter = key
     THEN session' = session /\ tasks' = ts
     ELSE IF key # NoChapter /\ initial /\ ~e.draft
     THEN \E s \in Free(ts, Syncs) :
            /\ session' = [fresh EXCEPT !.pending = s]
            /\ tasks' = [Outdated(ts) EXCEPT ![s] = QueuedSync]
     ELSE session' = fresh /\ tasks' = Outdated(ts)

(* Mutant of HideModal: the modal is only hidden on the editor's screen.   *)
HideModal_OnScreen(t) == modal' = IF modal = t /\ screen = "translate" THEN NoSync ELSE modal

HideModal(t) == modal' = IF modal = t THEN NoSync ELSE modal
-----------------------------------------------------------------------------
(* Loading a chapter from disk.  A task that loads goes through the pcs    *)
(* "rows", "head" and "apply"; what follows is AfterLoad.                  *)

Preserves(option, e, scr, c) == option /\ scr = "translate" /\ e.chapter = c /\ e.rows

Loading(option, e, scr, c) ==
  IF Preserves(option, e, scr, c)
  THEN [e EXCEPT !.status = "loading"]
  ELSE [Closed EXCEPT !.chapter = c, !.status = "loading"]

BeginLoad(task, option, e, scr, c) ==
  [task EXCEPT !.pc = "rows", !.chapter = c, !.prev = e.chapter,
               !.preserve = Preserves(option, e, scr, c)]

Loads(t, pc) == tasks[t].kind # "none" /\ tasks[t].pc = pc

ReadRows(t) ==
  /\ NewTurn /\ Loads(t, "rows")
  /\ tasks' = [tasks EXCEPT ![t].pc = "head", ![t].read = repo.pulled \cap In(tasks[t].chapter)]
  /\ UNCHANGED <<screen, selected, editor, session, modal, repo>>

(* The rows and the head that goes with them are read apart: a pull that    *)
(* comes between makes the chapter believe in a head its rows are not from.*)

ReadHead(t) ==
  /\ NewTurn /\ Loads(t, "head")
  /\ tasks' = [tasks EXCEPT ![t].pc = "apply", ![t].at = repo.head,
                            ![t].sure = tasks[t].read = repo.pulled \cap In(tasks[t].chapter)]
  /\ UNCHANGED <<screen, selected, editor, session, modal, repo>>

(* Rows with drafts stay as they are when the chapter was open before the  *)
(* load and still is.                                                      *)
(* Mutant of KeepsDrafts: drafts of a chapter that is loading are not seen.*)
KeepsDrafts_Ready(task) == task.prev = task.chapter /\ editor.chapter = task.chapter /\ editor.status = "ready"

KeepsDrafts(task) == task.prev = task.chapter /\ editor.chapter = task.chapter

Loaded(task) ==
  [chapter |-> task.chapter, status |-> "ready", rows |-> TRUE, known |-> task.read,
   base |-> task.at, sound |-> task.sure, draft |-> editor.draft /\ KeepsDrafts(task)]

LoadFailed(task) ==
  IF task.preserve /\ editor.chapter = task.chapter
  THEN [editor EXCEPT !.status = "ready"]
  ELSE [editor EXCEPT !.status = "error", !.rows = FALSE, !.known = {}, !.sound = FALSE, !.draft = FALSE]

OpenShown(t, e, ts) ==
  /\ HideModal(t)
  /\ LET ended == [ts EXCEPT ![t] = NoTask]
     IN IF screen = "translate" /\ e.chapter = tasks[t].chapter /\ e.status = "ready"
        THEN StartSession(e, screen, TRUE, ended)
        ELSE session' = session /\ tasks' = ended
-----------------------------------------------------------------------------
(* Mutant of EndSync: a sync that is dropped wakes nobody.                 *)
EndSync_Silent(s, result, ses, ts) ==
  /\ session' = [ses EXCEPT !.pending = NoSync]
  /\ tasks' = [t \in Slots |->
       IF t = s THEN NoTask
       ELSE IF ts[t].on # s \/ result = "none" THEN ts[t]
       ELSE IF ts[t].pc # "synced" THEN [ts[t] EXCEPT !.on = NoSync]
       ELSE [ts[t] EXCEPT !.on = NoSync, !.result = result,
               !.found = IF result \in {"none", "deferred"} THEN {} ELSE @]]

(* The end of a sync clears pendingSync, whoever owns it by now, and wakes *)
(* the flows that await this sync; a refresh goes by its result.           *)
EndSync(s, result, ses, ts) ==
  /\ session' = [ses EXCEPT !.pending = NoSync]
  /\ tasks' = [t \in Slots |->
       IF t = s THEN NoTask
       ELSE IF ts[t].on # s THEN ts[t]
       ELSE IF ts[t].pc # "synced" THEN [ts[t] EXCEPT !.on = NoSync]
       ELSE [ts[t] EXCEPT !.on = NoSync, !.result = result,
               !.found = IF result \in {"none", "deferred"} THEN {} ELSE @]]

(* A flow at f begins a sync and awaits it at pc.                          *)
OwnSync(f, pc, ts) ==
  \E s \in Free(ts, Syncs) :
    /\ session' = [session EXCEPT !.pending = s]
    /\ tasks' = [BeginSync(s, ts) EXCEPT ![f].pc = pc, ![f].on = s]

(* Mutant of RefreshSyncs: its own sync counts as one under way.           *)
RefreshSyncs_Again(f, e, ts) ==
  IF session.chapter = NoChapter \/ session.chapter # Key(e, screen)
  THEN tasks' = [ts EXCEPT ![f].pc = "refreshed"] /\ session' = session
  ELSE IF session.pending # NoSync
  THEN tasks' = [ts EXCEPT ![f].pc = "others", ![f].on = session.pending] /\ session' = session
  ELSE OwnSync(f, "others", ts)

(* The sync of a refresh comes after the one under way.                    *)
RefreshSyncs(f, e, ts) ==
  IF session.chapter = NoChapter \/ session.chapter # Key(e, screen)
  THEN tasks' = [ts EXCEPT ![f].pc = "refreshed"] /\ session' = session
  ELSE IF session.pending # NoSync
  THEN tasks' = [ts EXCEPT ![f].pc = "others", ![f].on = session.pending] /\ session' = session
  ELSE IF e.draft
  THEN tasks' = [ts EXCEPT ![f].pc = "refreshed"] /\ session' = session
  ELSE OwnSync(f, "synced", ts)

(* The task is done with its load.                                         *)
Unload(task) == [task EXCEPT !.preserve = FALSE, !.prev = NoChapter, !.at = 0, !.sure = FALSE,
                             !.read = IF task.kind = "sync" THEN @ ELSE {}]

AfterLoad(t, e, ok, ts) ==
  LET kind == tasks[t].kind
      end == tasks' = [ts EXCEPT ![t] = NoTask] /\ session' = session
  IN \/ kind = "open" /\ OpenShown(t, e, ts)
     \/ /\ kind = "back"
        /\ modal' = modal
        /\ IF screen = "translate" /\ e.status = "ready"
           THEN StartSession(e, screen, TRUE, [ts EXCEPT ![t] = NoTask])
           ELSE end
     \/ /\ kind = "refresh"
        /\ modal' = modal
        /\ IF ~ok THEN end
           ELSE IF tasks[t].result = "load"
           THEN tasks' = [ts EXCEPT ![t] = [Unload(@) EXCEPT !.pc = "refreshed"]] /\ session' = session
           ELSE RefreshSyncs(t, e, [ts EXCEPT ![t] = Unload(@)])
     \/ /\ kind = "sync"
        /\ IF MatchesWith(e, t)
           THEN /\ tasks' = [ts EXCEPT ![t] = [Unload(@) EXCEPT !.pc = "paint", !.result = IF ok THEN "rest" ELSE "load"]]
                /\ UNCHANGED <<session, modal>>
           ELSE HideModal(t) /\ EndSync(t, "load", session, ts)

(* A load that read before a sync pulled takes back what the refresh that  *)
(* awaits this sync, or goes on after it, is to bring.                     *)
Overtaken(t) ==
  [f \in Slots |->
     IF f \in Flows \ {t} /\ tasks[f].on # t
          /\ ~(tasks[f].found \cap In(tasks[t].chapter) \subseteq tasks[t].read)
     THEN [tasks[f] EXCEPT !.clean = FALSE] ELSE tasks[f]]

ApplyLoad(t) ==
  /\ NewTurn /\ Loads(t, "apply")
  /\ editor' = Loaded(tasks[t])
  /\ \E ts \in {Overtaken(t)} : AfterLoad(t, editor', TRUE, ts)
  /\ UNCHANGED <<screen, selected, repo>>

FailLoad(t) ==
  /\ NewTurn /\ Loads(t, "apply")
  /\ editor' = LoadFailed(tasks[t])
  /\ AfterLoad(t, editor', FALSE, tasks)
  /\ UNCHANGED <<screen, selected, repo>>
-----------------------------------------------------------------------------
(* Opening a chapter.                                                      *)

Begin(f, kind, pc, c) ==
  [tasks EXCEPT ![f] = [NoTask EXCEPT !.kind = kind, !.pc = pc, !.chapter = c]]

Open(c, f) ==
  /\ UserMayAct /\ screen = "projects" /\ tasks[f] = NoTask
  /\ tasks' = Begin(f, "open", "ops", c)
  /\ modal' = f
  /\ ~(editor.chapter = c /\ editor.rows /\ repo.op = c)
  /\ UNCHANGED <<screen, selected, editor, session, repo>>

(* An operation of the chapter is still queued: its rows are shown as they *)
(* are, and nothing is loaded.                                             *)
Resume(c) ==
  /\ UserMayAct /\ screen = "projects"
  /\ editor.chapter = c /\ editor.rows /\ repo.op = c
  /\ selected' = c
  /\ screen' = "translate"
  /\ editor' = [editor EXCEPT !.status = "ready"]
  /\ StartSession(editor', "translate", TRUE, tasks)
  /\ UNCHANGED <<modal, repo>>

(* The drafts of the chapter open before cannot be flushed: nothing opens. *)
OpenBlocked(f) ==
  /\ NewTurn /\ tasks[f].pc = "ops" /\ tasks[f].kind = "open" /\ editor.draft
  /\ tasks' = [tasks EXCEPT ![f] = NoTask]
  /\ HideModal(f)
  /\ UNCHANGED <<screen, selected, editor, session, repo>>

EnterChapter(f) ==
  /\ Awaits(f, "ops") /\ tasks[f].kind = "open"
  /\ LET c == tasks[f].chapter
     IN /\ selected' = c
        /\ editor' = Loading(FALSE, editor, "translate", c)
        /\ tasks' = [tasks EXCEPT ![f] = BeginLoad(@, FALSE, editor, "translate", c)]
  /\ screen' = "translate"
  /\ UNCHANGED <<session, modal, repo>>
-----------------------------------------------------------------------------
(* Refreshing.                                                             *)

Refresh(f) ==
  /\ UserMayAct /\ screen = "translate" /\ tasks[f] = NoTask
  /\ tasks' = Begin(f, "refresh", "ops", editor.chapter)
  /\ UNCHANGED <<screen, selected, editor, session, modal, repo>>

CheckAccess(f) ==
  /\ Awaits(f, "ops") /\ tasks[f].kind = "refresh"
  /\ tasks' = [tasks EXCEPT ![f].pc = "access"]
  /\ UNCHANGED <<screen, selected, editor, session, modal, repo>>

(* A flow loads what is selected by now, on whatever screen.               *)
LoadsAgain(f) ==
  /\ editor' = Loading(TRUE, editor, screen, selected)
  /\ UNCHANGED <<screen, selected, modal, repo>>

RefreshLoads(f) ==
  /\ NewTurn /\ tasks[f].pc = "access" /\ tasks[f].kind = "refresh"
  /\ StartSession(editor, screen, FALSE,
       [tasks EXCEPT ![f] = BeginLoad(@, TRUE, editor, screen, selected)])
  /\ LoadsAgain(f)

OthersSynced(f) ==
  /\ Awaits(f, "others")
  /\ RefreshSyncs(f, editor, tasks)
  /\ UNCHANGED <<screen, selected, editor, modal, repo>>

(* What the summary of its sync leaves to do.                              *)
RefreshReloads(f) ==
  /\ Awaits(f, "synced") /\ tasks[f].result = "load"
  /\ tasks' = [tasks EXCEPT ![f] = BeginLoad(@, TRUE, editor, screen, selected)]
  /\ session' = session
  /\ LoadsAgain(f)

RefreshDeferred(f) ==
  /\ Awaits(f, "synced") /\ tasks[f].result = "deferred"
  /\ tasks' = [tasks EXCEPT ![f] = NoTask]
  /\ UNCHANGED <<screen, selected, editor, session, modal, repo>>

RefreshSynced(f) ==
  /\ Awaits(f, "synced") /\ tasks[f].result \in {"none", "rest"}
  /\ tasks' = [tasks EXCEPT ![f].pc = "refreshed"]
  /\ UNCHANGED <<screen, selected, editor, session, modal, repo>>

Refreshed(f) ==
  /\ NewTurn /\ tasks[f].pc = "refreshed"
  /\ tasks' = [tasks EXCEPT ![f] = NoTask]
  /\ UNCHANGED <<screen, selected, editor, session, modal, repo>>
-----------------------------------------------------------------------------
(* Leaving and coming back.                                                *)

Leave(kind, f) ==
  /\ UserMayAct /\ screen = "translate" /\ tasks[f] = NoTask
  /\ kind = "toGlossary" => Free(tasks, Syncs) # {}     \* bound: it may need one
  /\ tasks' = Begin(f, kind, "save", NoChapter)
  /\ modal' = IF kind = "toGlossary" THEN f ELSE modal
  /\ UNCHANGED <<screen, selected, editor, session, repo>>

Go(f) ==
  /\ screen' = IF tasks[f].kind = "toProjects" THEN "projects" ELSE "glossary"
  /\ LET ended == [tasks EXCEPT ![f] = NoTask]
     IN IF screen = "translate" THEN session' = Stopped /\ tasks' = Outdated(ended)
        ELSE session' = session /\ tasks' = ended
  /\ HideModal(f)

(* The drafts are saved: go, but to the glossary only after a last sync.   *)
LeaveSaved(f) ==
  /\ Awaits(f, "save")
  /\ IF tasks[f].kind = "toProjects" \/ ~Matches THEN Go(f)
     ELSE /\ UNCHANGED <<screen, modal>>
          /\ IF session.pending = NoSync THEN OwnSync(f, "left", tasks)
             ELSE /\ tasks' = [tasks EXCEPT ![f].pc = "left", ![f].on = session.pending]
                  /\ session' = session
  /\ UNCHANGED <<selected, editor, repo>>

LeaveSynced(f) ==
  /\ Awaits(f, "left")
  /\ Go(f)
  /\ UNCHANGED <<selected, editor, repo>>

(* A save is pending or has failed.                                        *)
LeaveBlocked(f) ==
  /\ NewTurn /\ tasks[f].pc = "save" /\ editor.draft
  /\ tasks' = [tasks EXCEPT ![f] = NoTask]
  /\ HideModal(f)
  /\ UNCHANGED <<screen, selected, editor, session, repo>>

Back(f) ==
  /\ UserMayAct /\ screen = "glossary" /\ tasks[f] = NoTask
  /\ screen' = "translate"
  /\ tasks' = Begin(f, "back", "access", selected)
  /\ UNCHANGED <<selected, editor, session, modal, repo>>

BackLoads(f) ==
  /\ NewTurn /\ tasks[f].pc = "access" /\ tasks[f].kind = "back"
  /\ tasks' = [tasks EXCEPT ![f] = BeginLoad(@, TRUE, editor, screen, selected)]
  /\ session' = session
  /\ LoadsAgain(f)

(* The check of the team's access throws: the editor stays as it was left. *)
BackFails(f) ==
  /\ NewTurn /\ tasks[f].pc = "access" /\ tasks[f].kind = "back"
  /\ tasks' = [tasks EXCEPT ![f] = NoTask]
  /\ UNCHANGED <<screen, selected, editor, session, modal, repo>>

GlossaryToProjects ==
  /\ UserMayAct /\ screen = "glossary"
  /\ screen' = "projects"
  /\ UNCHANGED <<selected, editor, session, modal, tasks, repo>>
-----------------------------------------------------------------------------
(* What the user writes.                                                   *)

Type ==
  /\ UserMayAct /\ screen = "translate" /\ editor.rows /\ ~editor.draft
  /\ repo.saves < MaxSaves
  /\ editor' = [editor EXCEPT !.draft = TRUE]
  /\ repo' = [repo EXCEPT !.saves = @ + 1]
  /\ UNCHANGED <<screen, selected, session, modal, tasks>>

(* A commit of the user's moves the head, and the base of the chapter open *)
(* moves with it, over whatever was pulled before.                         *)
Committed ==
  [editor EXCEPT !.base = repo.head + 1, !.sound = repo.pulled \cap In(editor.chapter) \subseteq editor.known]

SaveDraft ==
  /\ NewTurn /\ RepoFree
  /\ editor.draft
  /\ editor' = [Committed EXCEPT !.draft = FALSE]
  /\ repo' = [repo EXCEPT !.head = @ + 1]
  /\ UNCHANGED <<screen, selected, session, modal, tasks>>

(* An operation that neither leaving the editor nor a sync waits for, such *)
(* as the deletion of a row.                                               *)
RequestOperation ==
  /\ UserMayAct /\ screen = "translate" /\ editor.rows
  /\ repo.op = NoChapter /\ repo.saves < MaxSaves
  /\ repo' = [repo EXCEPT !.op = editor.chapter, !.saves = @ + 1]
  /\ UNCHANGED <<screen, selected, editor, session, modal, tasks>>

FinishOperation ==
  /\ NewTurn /\ RepoFree
  /\ repo.op # NoChapter
  /\ editor' = IF editor.chapter = repo.op THEN Committed ELSE editor
  /\ repo' = [repo EXCEPT !.head = @ + 1, !.op = NoChapter]
  /\ UNCHANGED <<screen, selected, session, modal, tasks>>
-----------------------------------------------------------------------------
(* The background sync.                                                    *)

Timer ==
  /\ NewTurn /\ Matches /\ session.pending = NoSync /\ ~editor.draft
  /\ \E s \in Free(tasks, Syncs) :
       /\ session' = [session EXCEPT !.pending = s]
       /\ tasks' = BeginSync(s, tasks)
  /\ UNCHANGED <<screen, selected, editor, modal, repo>>

SyncAt(s, pc) == tasks[s].kind = "sync" /\ tasks[s].pc = pc

(* The backend pulls some of what teammates have pushed by then.           *)
Pull(s) ==
  /\ NewTurn /\ SyncAt(s, "queued") /\ RepoFree
  /\ MatchesWith(editor, s)
  /\ \E found \in SUBSET (Changes \ repo.pulled) :
       /\ repo' = [repo EXCEPT !.pulled = @ \cup found, !.head = IF found = {} THEN @ ELSE @ + 1]
       /\ tasks' = [t \in Slots |->
            IF t = s THEN [tasks[t] EXCEPT !.pc = "pulled", !.found = found, !.at = repo.head]
            ELSE IF tasks[t].on = s /\ tasks[t].pc = "synced"
            THEN [tasks[t] EXCEPT !.found = repo'.pulled \cap In(tasks[t].chapter)]
            ELSE tasks[t]]
  /\ UNCHANGED <<screen, selected, editor, session, modal>>

(* It failed, or its session is over.                                      *)
DropSync(s) ==
  /\ NewTurn
  /\ \/ SyncAt(s, "queued") /\ RepoFree
     \/ SyncAt(s, "pulled")
  /\ EndSync(s, "none", session, tasks)
  /\ UNCHANGED <<screen, selected, editor, modal, repo>>

(* Mutant of HeadMatches: any head is taken for the chapter's.             *)
HeadMatches_Any(s) == tasks[s].kind = "sync"

HeadMatches(s) == editor.base = 0 \/ editor.base = tasks[s].at

(* Why the whole chapter is to be loaded: another conflict, a request that *)
(* is still open, or rows inserted with no draft in the way.               *)
NeedsReload(s) ==
  \/ Hit(tasks[s].found, "conflict", session.chapter)
  \/ session.reload # {}
  \/ HeadMatches(s) /\ ~editor.draft /\ Hit(tasks[s].found, "structure", session.chapter)

(* pendingReloadReason: set or not in the code, here what it was set for.   *)
Asked(s) == session.reload \cup (tasks[s].found \cap In(session.chapter))

Answers(s) == NewTurn /\ SyncAt(s, "pulled") /\ MatchesWith(editor, s)

DeferReload(s) ==
  /\ Answers(s) /\ NeedsReload(s) /\ editor.draft
  /\ EndSync(s, "deferred", [session EXCEPT !.reload = Asked(s)], tasks)
  /\ UNCHANGED <<screen, selected, editor, modal, repo>>

BlockAndReload(s) ==
  /\ Answers(s) /\ NeedsReload(s) /\ ~editor.draft
  /\ session' = [session EXCEPT !.reload = Asked(s)]
  /\ modal' = s
  /\ editor' = Loading(TRUE, editor, screen, selected)
  /\ tasks' = [tasks EXCEPT ![s] = BeginLoad([@ EXCEPT !.found = {}, !.at = 0], TRUE, editor, screen, selected)]
  /\ UNCHANGED <<screen, selected, repo>>

(* A result from another head than the chapter's, or with conflicts in     *)
(* other chapters only, marks nothing.                                     *)
MarkRows(s) ==
  /\ Answers(s) /\ ~NeedsReload(s)
  /\ LET found == tasks[s].found
         marks == HeadMatches(s) /\ \A x \in found : KindOf[x] # "conflict"
     IN /\ editor' = IF marks
                     THEN [editor EXCEPT !.known = @ \cup (found \cap In(editor.chapter)),
                                         !.base = tasks[s].at + (IF found = {} THEN 0 ELSE 1)]
                     ELSE editor
        /\ EndSync(s, IF found = {} /\ HeadMatches(s) THEN "rest" ELSE "load", session, tasks)
  /\ UNCHANGED <<screen, selected, modal, repo>>

(* Mutant of EndReload: a load that failed drops the request as well.      *)
EndReload_Clears(s) ==
  /\ NewTurn /\ SyncAt(s, "paint")
  /\ HideModal(s)
  /\ EndSync(s, tasks[s].result,
       IF MatchesWith(editor, s)
       THEN [session EXCEPT !.reload = {}] ELSE session, tasks)
  /\ UNCHANGED <<screen, selected, editor, repo>>

(* The frame after the load of a blocking reload is on screen.             *)
EndReload(s) ==
  /\ NewTurn /\ SyncAt(s, "paint")
  /\ HideModal(s)
  /\ EndSync(s, tasks[s].result,
       IF MatchesWith(editor, s) /\ tasks[s].result = "rest"
       THEN [session EXCEPT !.reload = {}] ELSE session, tasks)
  /\ UNCHANGED <<screen, selected, editor, repo>>
-----------------------------------------------------------------------------
LoadStep(t) == ReadRows(t) \/ ReadHead(t) \/ ApplyLoad(t) \/ FailLoad(t)

FlowStep(f) ==
  \/ EnterChapter(f)
  \/ CheckAccess(f) \/ RefreshLoads(f) \/ OthersSynced(f) \/ RefreshReloads(f)
  \/ RefreshDeferred(f) \/ RefreshSynced(f) \/ Refreshed(f)
  \/ LeaveSaved(f) \/ LeaveSynced(f) \/ BackLoads(f)
  \/ LoadStep(f)

SyncStep(s) ==
  \/ Pull(s) \/ DropSync(s) \/ DeferReload(s) \/ BlockAndReload(s) \/ MarkRows(s) \/ EndReload(s)
  \/ LoadStep(s)

UserStep ==
  \/ \E f \in Flows :
       \/ \E c \in Chapters : Open(c, f)
       \/ \E kind \in {"toProjects", "toGlossary"} : Leave(kind, f)
       \/ Refresh(f) \/ Back(f)
  \/ \E c \in Chapters : Resume(c)
  \/ GlossaryToProjects \/ Type \/ RequestOperation

Next ==
  \/ UserStep \/ Timer \/ SaveDraft \/ FinishOperation
  \/ \E f \in Flows : FlowStep(f) \/ LeaveBlocked(f) \/ OpenBlocked(f) \/ BackFails(f)
  \/ \E s \in Syncs : SyncStep(s)

Spec == Init /\ [][Next]_vars

(* The event loop runs what is ready, backend and network answer or fail,  *)
(* the write queue is fair among the syncs, and a leave submits the drafts.*)
(* An opening or a way back need not fail for their flows to end.          *)
Fairness ==
  /\ SF_vars(FinishOperation)
  /\ SF_vars(SaveDraft /\ \E f \in Flows : tasks[f].kind = "open")
  /\ \A f \in Flows : SF_vars(FlowStep(f) \/ LeaveBlocked(f))
  /\ \A s \in Syncs : SF_vars(SyncStep(s))

FairSpec == Spec /\ Fairness
-----------------------------------------------------------------------------
(* Types, and a flow awaits only a sync that is under way                  *)
(* (editor-background-sync.js, pendingSync).                               *)
TypeOK ==
  /\ screen \in {"projects", "translate", "glossary"}
  /\ selected \in Chapters \cup {NoChapter}
  /\ editor \in [chapter : Chapters \cup {NoChapter}, status : {"idle", "loading", "ready", "error"},
                 rows : BOOLEAN, known : SUBSET Changes, base : Nat, sound : BOOLEAN, draft : BOOLEAN]
  /\ session \in [chapter : Chapters \cup {NoChapter}, pending : Syncs \cup {NoSync}, reload : SUBSET Changes]
  /\ modal \in Slots \cup {NoSync}
  /\ \A t \in Slots : tasks[t].kind # "none" => (tasks[t].kind = "sync" <=> t \in Syncs)
  /\ \A t \in Slots : tasks[t].on # NoSync => tasks[tasks[t].on].kind = "sync"
  /\ repo.pulled \subseteq Changes /\ repo.saves \in 0 .. MaxSaves

TakesDraft == editor.draft /\ ~editor'.draft /\ repo'.head = repo.head

(* A load that was begun with the rows of the chapter on screen takes no   *)
(* draft of it, also one typed while it is under way, and also when it     *)
(* fails; the beginning of one takes drafts only off the screen, or of a   *)
(* chapter that is not the one selected                                    *)
(* (editor-chapter-load-flow.js, mergeInFlightDirtyEditorRows).            *)
DraftsSurviveReloads ==
  [][TakesDraft =>
       \E t \in Slots :
         \/ /\ tasks[t].pc = "apply" /\ tasks'[t].pc # "apply"
            /\ tasks[t].preserve => tasks[t].chapter # editor.chapter
         \/ /\ tasks[t].pc # "rows" /\ tasks'[t].pc = "rows"
            /\ screen # "translate" \/ editor.chapter # selected]_vars

(* When a refresh completes, the chapter it was for knows what had been    *)
(* pulled when its sync answered, unless the chapter believes in a head    *)
(* its rows are not from, or a load that had read less was applied         *)
(* meanwhile (navigation.js, refreshCurrentScreen).                        *)
RefreshBringsPulled ==
  [][\A f \in Flows :
       tasks[f].pc # "refreshed" /\ tasks'[f].pc = "refreshed" /\ tasks'[f].clean
         /\ editor'.chapter = tasks'[f].chapter /\ editor'.sound
       => tasks'[f].found \cap In(editor'.chapter) \subseteq editor'.known]_vars

DropsRequest == session.reload # {} /\ session'.reload = {} /\ session'.chapter = session.chapter

(* Within a session the request for a reload is dropped only after a load  *)
(* that has what it was made for, if no two syncs of the session ran at    *)
(* once (editor-background-sync.js, reloadSyncedChapter).                  *)
RequestOutlivesFailure ==
  [][DropsRequest => \E s \in Syncs :
                       /\ tasks[s].pc = "paint" /\ tasks[s].result = "rest"
                       /\ tasks[s].clean => session.reload \subseteq tasks[s].read]_vars

AtRest == \A t \in Slots : tasks[t] = NoTask

(* With nothing under way no modal blocks the screen, and a session that   *)
(* is left is one of the editor's screen and awaits no sync                *)
(* (navigation-loading.js, editor-background-sync.js).                     *)
NothingLingers ==
  AtRest => /\ modal = NoSync
            /\ session.chapter # NoChapter => screen = "translate" /\ session.pending = NoSync

(* Every flow and every sync ends (editor-background-sync.js).             *)
EveryTaskEnds == \A t \in Slots : tasks[t].kind # "none" ~> tasks[t].kind = "none"
=============================================================================
