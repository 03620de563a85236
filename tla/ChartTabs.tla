------------------------------ MODULE ChartTabs ------------------------------
(***************************************************************************)
(* The chart tabs of the terminal: the document that lists them            *)
(* (chartTaskTabsStore, chartTaskTabsRuntimeStore), the hook that captures *)
(* what is on screen into it (useChartLayoutPersistence), the queue that   *)
(* saves it (ChartTaskTabsSyncQueue) and the identity it belongs to        *)
(* (useWorkspaceBootstrap).  A workspace (panes, preset, owners, active    *)
(* layout) is a model value, with the user who arranged it.  The second    *)
(* part of the module has the layouts an account saved.                    *)
(***************************************************************************)
EXTENDS Partial, SequencesExt

CONSTANTS
  TabUser,          \* accounts
  Arrangement,      \* workspaces that can be on screen
  MaxChartTasks,    \* MAX_CHART_TASKS
  MaxTabSteps       \* bound: acts of users, other browsers and failures

VARIABLES
  tabs,      \* document, ready, dirty, status, stale (an effect has to run), restore, holder
  shown,     \* the workspace on screen
  sync,      \* the queue: timer, pending, drain, uid, revision, generation
  kept,      \* sessionStorage: pending and conflict documents by uid
  login,     \* uid, ready (workspaceReady), boot (the bootstrap request)
  stored,    \* the server's document of each account
  tabSteps

tabVars == <<tabs, shown, sync, kept, login, stored, tabSteps>>
TabStep == tabSteps < MaxTabSteps /\ tabSteps' = tabSteps + 1

(***************************************************************************)
(* The document.  Ids are numbers; a new tab takes one that no tab has.    *)
(***************************************************************************)
Task(id, work) == [id |-> id, work |-> work]
IndexOfTask(doc, id) == SelectInSeq(doc.tasks, LAMBDA t : t.id = id)
HasTask(doc, id) == IndexOfTask(doc, id) # 0
FreshTaskId(doc) == CHOOSE n \in 1..MaxChartTasks + 1 : \A i \in DOMAIN doc.tasks : doc.tasks[i].id # n
CreateInitialChartTaskTabs(work) == [tasks |-> <<Task(1, work)>>, active |-> 1, revision |-> 0]
AddChartTask(doc, work) ==
  IF Len(doc.tasks) >= MaxChartTasks THEN doc
  ELSE LET id == FreshTaskId(doc)
           active == IndexOfTask(doc, doc.active)
           at == IF active = 0 THEN Len(doc.tasks) ELSE active
       IN  [doc EXCEPT !.tasks = SubSeq(@, 1, at) \o <<Task(id, work)>> \o SubSeq(@, at + 1, Len(@)), !.active = id]
ActivateChartTask(doc, id) == IF HasTask(doc, id) THEN [doc EXCEPT !.active = id] ELSE doc
UpdateChartTask(doc, id, work) ==
  IF HasTask(doc, id) THEN [doc EXCEPT !.tasks[IndexOfTask(doc, id)].work = work] ELSE doc
CloseChartTask(doc, id) ==
  IF Len(doc.tasks) <= 1 \/ ~ HasTask(doc, id) THEN doc
  ELSE LET at == IndexOfTask(doc, id)
           tasks == RemoveAt(doc.tasks, at)
       IN  [doc EXCEPT !.tasks = tasks,
              !.active = IF @ = id THEN tasks[AtMost(at, Len(tasks))].id ELSE @]
MoveChartTask(doc, source, target, edge) ==
  IF source = target \/ ~ HasTask(doc, source) \/ ~ HasTask(doc, target) THEN doc
  ELSE LET from == IndexOfTask(doc, source)
           rest == RemoveAt(doc.tasks, from)
           onto == SelectInSeq(rest, LAMBDA t : t.id = target)
       IN  [doc EXCEPT !.tasks = InsertAt(rest, IF edge = "after" THEN onto + 1 ELSE onto, doc.tasks[from])]
SameContent(d, e) == d.active = e.active /\ d.tasks = e.tasks
ActiveWork(doc) == doc.tasks[IndexOfTask(doc, doc.active)].work
(* normalizeChartTaskTabsDocument: every document here is well formed; one without tasks is none. *)
NormalizeChartTaskTabs(doc, work) == IF doc.tasks = <<>> THEN CreateInitialChartTaskTabs(work) ELSE doc

TabsInit ==
  /\ \E w \in Arrangement :
       /\ shown = <<w, Nothing>>
       /\ tabs = [doc |-> CreateInitialChartTaskTabs(<<w, Nothing>>), ready |-> TRUE, dirty |-> TRUE,
                  status |-> "pending", stale |-> TRUE, restore |-> FALSE, holder |-> Nothing]
  /\ sync = [timer |-> FALSE, pending |-> Nothing, drain |-> Nothing, uid |-> Nothing,
             revision |-> Nothing, generation |-> 0]
  /\ kept = [pending |-> None, conflict |-> None]
  /\ login = [uid |-> Nothing, ready |-> TRUE, boot |-> Nothing]
  /\ stored = [u \in TabUser |-> [tasks |-> <<>>, active |-> 1, revision |-> 0]]
  /\ tabSteps = 0

(***************************************************************************)
(* The document on screen                                                  *)
(***************************************************************************)
CaptureActiveTask == UpdateChartTask(tabs.doc, tabs.doc.active, shown)
SetLocalDocument(t, doc) == [t EXCEPT !.doc = doc, !.dirty = TRUE, !.status = "pending", !.stale = TRUE]
(* applyTask shows the workspace of the active tab. *)
ApplyTask(doc) == shown' = ActiveWork(doc)
UNCHANGEDQueue == UNCHANGED <<sync, kept, login, stored>>

Arranges(w) ==
  /\ TabStep /\ shown' = <<w, login.uid>> /\ shown' # shown
  /\ tabs' = [tabs EXCEPT !.stale = TRUE] /\ UNCHANGEDQueue
Edited(next) ==
  /\ TabStep /\ next # CaptureActiveTask
  /\ tabs' = SetLocalDocument(tabs, next) /\ UNCHANGEDQueue
AddNewChartTask == LET next == AddChartTask(CaptureActiveTask, shown) IN Edited(next) /\ ApplyTask(next)
ActivateTask(id) ==
  LET next == ActivateChartTask(CaptureActiveTask, id) IN Edited(next) /\ ApplyTask(next)
CloseTask(id) ==
  LET captured == CaptureActiveTask
      next == CloseChartTask(captured, id)
  IN  Edited(next) /\ (IF next.active # captured.active THEN ApplyTask(next) ELSE UNCHANGED shown)
(* A drag that ends on a tab, and Shift with an arrow key onto a neighbour. *)
MoveTask(source, target, edge) ==
  LET next == MoveChartTask(CaptureActiveTask, source, target, edge) IN Edited(next) /\ UNCHANGED shown
ArrowMoves(id, direction) ==
  LET at == IndexOfTask(tabs.doc, id) + direction
  IN  at \in DOMAIN tabs.doc.tasks /\ at - direction > 0
      /\ MoveTask(id, tabs.doc.tasks[at].id, IF direction < 0 THEN "before" ELSE "after")

HydrateChartTaskTabs(t, persisted, uid) ==
  IF persisted.tasks # <<>>
  THEN [t EXCEPT !.doc = persisted, !.ready = TRUE, !.dirty = FALSE, !.status = "idle", !.stale = TRUE,
                 !.restore = TRUE, !.holder = uid]
  ELSE [t EXCEPT !.doc = CreateInitialChartTaskTabs(shown), !.ready = TRUE, !.dirty = TRUE, !.status = "pending",
                 !.stale = TRUE, !.restore = TRUE, !.holder = uid]
ResetChartTaskTabs(t, work) ==
  [t EXCEPT !.doc = CreateInitialChartTaskTabs(work), !.ready = TRUE, !.dirty = FALSE, !.status = "idle",
            !.stale = TRUE, !.restore = FALSE, !.holder = Nothing]
AcknowledgedBlindly(t, saved) ==
  [t EXCEPT !.doc.revision = saved.revision, !.dirty = FALSE, !.status = "saved", !.stale = TRUE]
AcknowledgeChartTaskTabs(t, saved) ==
  LET same == SameContent(t.doc, saved)
  IN  [t EXCEPT !.doc.revision = saved.revision, !.dirty = ~ same, !.stale = TRUE,
                !.status = IF same THEN "saved" ELSE "pending", !.holder = login.uid]
AdoptConflicted(t, server) ==
  [t EXCEPT !.doc = NormalizeChartTaskTabs(server, shown), !.dirty = FALSE, !.status = "conflict", !.stale = TRUE,
            !.holder = login.uid]

(***************************************************************************)
(* The queue                                                               *)
(***************************************************************************)
ResetQueue(q) ==
  [q EXCEPT !.generation = @ + 1, !.timer = FALSE, !.pending = Nothing, !.uid = Nothing, !.revision = Nothing]
Enqueue(q, uid, doc) ==
  LET own == IF q.uid # Nothing /\ q.uid # uid THEN ResetQueue(q) ELSE q
  IN  [own EXCEPT !.uid = uid, !.pending = [uid |-> uid, doc |-> doc],
                  !.revision = IF @ = Nothing THEN doc.revision ELSE @,
                  !.timer = @ \/ own.drain = Nothing]
(* One turn of drain's loop: what is pending is put with the known         *)
(* revision, as whoever the browser's session then belongs to.             *)
Dispatch(q) ==
  [q EXCEPT !.pending = Nothing,
     !.drain = [generation |-> q.generation, current |-> q.pending, at |-> "put", as |-> login.uid,
                latest |-> q.pending.doc,
                expected |-> IF q.revision = Nothing THEN q.pending.doc.revision ELSE q.revision]]
(* flush's finally: only a pending document of another generation is scheduled. *)
FlushFinished(q) ==
  [q EXCEPT !.drain = Nothing,
            !.timer = @ \/ (q.pending # Nothing /\ q.generation # q.drain.generation)]
Superseded(q) == q.generation # q.drain.generation \/ q.uid # q.drain.current.uid
LatestOf(q) == IF q.pending # Nothing THEN q.pending.doc ELSE q.drain.current.doc
Retain(q, doc) == [q EXCEPT !.pending = [uid |-> q.drain.current.uid, doc |-> doc]]

(* The effects of the hook, of one render: the active tab is captured, a   *)
(* document that a reload left behind is restored, and the document of     *)
(* this render is queued when it is dirty.                                 *)
RunTabEffects ==
  /\ tabs.stale /\ UNCHANGED <<login, stored, tabSteps>>
  /\ LET user == login.uid
         live == login.ready /\ tabs.ready
         old == IF user # Nothing /\ tabs.restore /\ live THEN At(kept.pending, user) ELSE Nothing
         quiet == [tabs EXCEPT !.stale = FALSE, !.restore = @ /\ ~ live]
         sends == live /\ user # Nothing /\ tabs.dirty
     IN  /\ tabs' = IF old # Nothing THEN SetLocalDocument(quiet, old)
                    ELSE IF live /\ CaptureActiveTask # tabs.doc THEN SetLocalDocument(quiet, CaptureActiveTask)
                    ELSE quiet
         /\ shown' = IF old # Nothing THEN ActiveWork(old) ELSE shown
         /\ sync' = IF sends THEN Enqueue(sync, user, tabs.doc) ELSE sync
         /\ kept' = IF sends THEN [kept EXCEPT !.pending = Put(@, user, tabs.doc)] ELSE kept

(* The timer, or signOutFromTerminal, which flushes first. *)
Flush ==
  /\ (IF sync.timer THEN UNCHANGED tabSteps ELSE TabStep /\ sync.pending # Nothing)
  /\ LET q == [sync EXCEPT !.timer = FALSE]
     IN  sync' = IF q.drain = Nothing /\ q.pending # Nothing THEN Dispatch(q) ELSE q
  /\ UNCHANGED <<tabs, shown, kept, login, stored>>

(* The answer of the PUT; "lost" is served and not heard, "down" neither. *)
PutAnswers(fault) ==
  /\ sync.drain # Nothing /\ sync.drain.at = "put"
  /\ (IF fault = "ok" THEN UNCHANGED tabSteps ELSE TabStep) /\ UNCHANGED login
  /\ LET d == sync.drain
         fits == d.as # Nothing /\ fault # "down" /\ d.expected = stored[d.as].revision
         saved == [d.current.doc EXCEPT !.revision = d.expected + 1]
         conflict == d.as # Nothing /\ fault = "ok" /\ ~ fits
         more == [sync EXCEPT !.revision = saved.revision]
         latest == LatestOf(sync)
     IN  /\ stored' = IF fits THEN [stored EXCEPT ![d.as] = saved] ELSE stored
         /\ CASE Superseded(sync) ->
                   sync' = FlushFinished(sync) /\ UNCHANGED <<tabs, shown, kept>>
              [] ~ Superseded(sync) /\ fits /\ fault = "ok" /\ sync.pending # Nothing ->
                   sync' = Dispatch(more) /\ UNCHANGED <<tabs, shown, kept>>
              [] ~ Superseded(sync) /\ fits /\ fault = "ok" /\ sync.pending = Nothing ->
                   /\ sync' = FlushFinished(more) /\ kept' = [kept EXCEPT !.pending = Drop(@, {d.current.uid})]
                   /\ tabs' = AcknowledgeChartTaskTabs(tabs, saved) /\ UNCHANGED shown
              [] ~ Superseded(sync) /\ conflict ->
                   /\ sync' = [sync EXCEPT !.pending = Nothing, !.drain.at = "get", !.drain.as = login.uid,
                                           !.drain.latest = latest]
                   /\ kept' = [kept EXCEPT !.conflict = Put(@, d.current.uid, latest)]
                   /\ UNCHANGED <<tabs, shown>>
              [] ~ Superseded(sync) /\ ~ conflict /\ ~ (fits /\ fault = "ok") ->
                   /\ sync' = FlushFinished(Retain(sync, latest))
                   /\ kept' = [kept EXCEPT !.pending = Put(@, d.current.uid, latest)]
                   /\ tabs' = [tabs EXCEPT !.status = "error"] /\ UNCHANGED shown

(* The answer of the GET that follows a conflict.  A failure is not        *)
(* checked against the generation.                                         *)
RefreshAnswers(fails) ==
  /\ sync.drain # Nothing /\ sync.drain.at = "get"
  /\ (IF fails THEN TabStep ELSE sync.drain.as # Nothing /\ UNCHANGED tabSteps) /\ UNCHANGED <<login, stored>>
  /\ LET d == sync.drain
     IN  CASE fails ->
                /\ sync' = FlushFinished(Retain(sync, d.latest))
                /\ kept' = [kept EXCEPT !.pending = Put(@, d.current.uid, d.latest)]
                /\ tabs' = [tabs EXCEPT !.status = "error"] /\ UNCHANGED shown
           [] ~ fails /\ Superseded(sync) ->
                sync' = FlushFinished(sync) /\ UNCHANGED <<tabs, shown, kept>>
           [] ~ fails /\ ~ Superseded(sync) ->
                /\ sync' = FlushFinished([sync EXCEPT !.revision = stored[d.as].revision])
                /\ kept' = [kept EXCEPT !.pending = Drop(@, {d.current.uid})]
                /\ tabs' = AdoptConflicted(tabs, stored[d.as])
                /\ ApplyTask(NormalizeChartTaskTabs(stored[d.as], shown))

(***************************************************************************)
(* Identities                                                              *)
(***************************************************************************)
Forgotten(u) == kept' = [kept EXCEPT !.pending = Drop(@, {u}), !.conflict = Drop(@, {u})]
(* A user signs in, or another one does without a sign-out in between.     *)
SignsIn(u) ==
  /\ TabStep /\ u # login.uid
  /\ login' = [uid |-> u, ready |-> FALSE, boot |-> u]
  /\ tabs' = [tabs EXCEPT !.stale = TRUE]
  /\ (IF login.uid # Nothing THEN sync' = ResetQueue(sync) /\ Forgotten(login.uid) ELSE UNCHANGED <<sync, kept>>)
  /\ UNCHANGED <<shown, stored>>
SignsOut(w) ==
  /\ TabStep /\ login.uid # Nothing
  /\ login' = [uid |-> Nothing, ready |-> TRUE, boot |-> Nothing]
  /\ sync' = ResetQueue(sync) /\ Forgotten(login.uid)
  /\ shown' = <<w, Nothing>> /\ tabs' = ResetChartTaskTabs(tabs, <<w, Nothing>>) /\ UNCHANGED stored
(* A reload keeps sessionStorage; the document comes from the server again. *)
Reloads ==
  /\ TabStep /\ login.uid # Nothing
  /\ \E w \in Arrangement :
       /\ shown' = <<w, Nothing>>
       /\ tabs' = [tabs EXCEPT !.doc = CreateInitialChartTaskTabs(<<w, Nothing>>), !.ready = FALSE, !.dirty = FALSE,
                               !.status = "idle", !.stale = TRUE, !.restore = FALSE, !.holder = Nothing]
  /\ sync' = [timer |-> FALSE, pending |-> Nothing, drain |-> Nothing, uid |-> Nothing,
              revision |-> Nothing, generation |-> sync.generation + 1]
  /\ login' = [login EXCEPT !.ready = FALSE, !.boot = login.uid] /\ UNCHANGED <<kept, stored>>
BootstrapAnswers(ok) ==
  /\ login.boot # Nothing /\ (IF ok THEN UNCHANGED tabSteps ELSE TabStep)
  /\ login' = [login EXCEPT !.ready = TRUE, !.boot = Nothing]
  /\ tabs' = IF ok THEN HydrateChartTaskTabs(tabs, stored[login.boot], login.uid)
             ELSE [tabs EXCEPT !.stale = TRUE, !.restore = TRUE]
  /\ shown' = IF ok /\ stored[login.boot].tasks # <<>> THEN ActiveWork(stored[login.boot]) ELSE shown
  /\ UNCHANGED <<sync, kept, stored>>
(* Another browser of the account saves its tabs. *)
ElsewhereSaves(u, w) ==
  /\ TabStep
  /\ stored' = [stored EXCEPT ![u] = [tasks |-> <<Task(1, <<w, u>>)>>, active |-> 1, revision |-> @.revision + 1]]
  /\ UNCHANGED <<tabs, shown, sync, kept, login>>

TabsNext ==
  \/ \E w \in Arrangement : Arranges(w) \/ SignsOut(w) \/ \E u \in TabUser : ElsewhereSaves(u, w)
  \/ AddNewChartTask
  \/ \E id \in 1..MaxChartTasks + 1 : ActivateTask(id) \/ CloseTask(id)
       \/ \E d \in {-1, 1} : ArrowMoves(id, d)
       \/ \E target \in 1..MaxChartTasks + 1, edge \in {"before", "after"} : MoveTask(id, target, edge)
  \/ RunTabEffects \/ Flush
  \/ \E fault \in {"ok", "lost", "down"} : PutAnswers(fault)
  \/ \E fails \in BOOLEAN : RefreshAnswers(fails)
  \/ \E u \in TabUser : SignsIn(u)
  \/ Reloads \/ \E ok \in BOOLEAN : BootstrapAnswers(ok)

TabsSpec == TabsInit /\ [][TabsNext]_tabVars

(* A document that is not dirty and has the revision of the server's       *)
(* document is that document: an edit made while its predecessor is being  *)
(* saved, lost answers, conflicts and the writes of other browsers never   *)
(* pass an unsaved tab off as saved (acknowledgeChartTaskTabsAtom).        *)
SavedIsStored ==
  LET u == login.uid
  IN  (u # Nothing /\ tabs.holder = u /\ ~ tabs.dirty /\ stored[u].tasks # <<>>
        /\ tabs.doc.revision = stored[u].revision) => SameContent(tabs.doc, stored[u])

(* The tabs one user arranged are never saved as those of another (the     *)
(* identity change in useChartLayoutPersistence resets the queue).         *)
TabsStayWithTheirUser ==
  \A u \in TabUser : \A i \in DOMAIN stored[u].tasks : stored[u].tasks[i].work[2] \in {u, Nothing}

(***************************************************************************)
(* The saved layouts: layoutStore and the two menus that use it            *)
(* (TopToolbar, MobileChartToolsWorkspace), with the active layout and the *)
(* drawing context that a layout owns.  Requests are neither serialized    *)
(* nor guarded while one is on its way: the server commits them and the    *)
(* browser hears of them in any order, or gives up on one that the server  *)
(* committed or commits later.  What a layout captures (panes, indicators, *)
(* drawings, panels) is a model value.  The tabs and the layouts share no  *)
(* state.                                                                  *)
(***************************************************************************)
CONSTANTS
  Snapshot,          \* what capture() can find on screen
  MaxLayouts,        \* bound: ids the server gives
  MaxLayoutSteps     \* bound: acts of the user and failures

VARIABLES
  saved,         \* rows (layoutsAtom), active (activeLayoutIdAtom); history: heard, crossed
  screen,        \* what is on screen, and the drawing context it belongs to
  confirming,    \* the layout that an open delete dialog names
  calls,         \* requests: sent, answered but not heard, or given up on
  served,        \* log: the server's rows after each commit; last: its last id
  layoutSteps

layoutVars == <<saved, screen, confirming, calls, served, layoutSteps>>
LayoutStep == layoutSteps < MaxLayoutSteps /\ layoutSteps' = layoutSteps + 1

Row(state, default) == [state |-> state, default |-> default]
HasDefault(rows) == \E id \in DOMAIN rows : rows[id].default
ServerRows == served.log[Len(served.log)]
(* A new default replaces the old one, on the server and in both local updates. *)
WithRow(rows, id, row) ==
  [i \in DOMAIN rows \union {id} |-> IF i = id THEN row
     ELSE [rows[i] EXCEPT !.default = IF row.default THEN FALSE ELSE @]]
OthersStay(rows, id, row) == IF id \in DOMAIN rows THEN Put(rows, id, row) ELSE rows
(* replaceLocal keeps a default flag that is set here and not in the answer. *)
KeepsFlag(rows, id, row) == id \in DOMAIN rows /\ rows[id].default /\ ~ row.default
ReplaceLocal(rows, id, row) ==
  [i \in DOMAIN rows |->
     IF i = id THEN IF KeepsFlag(rows, id, row) THEN [row EXCEPT !.default = TRUE] ELSE row
     ELSE [rows[i] EXCEPT !.default = IF row.default THEN FALSE ELSE @]]

LayoutsInit ==
  /\ \E s, t \in Snapshot :
       /\ screen = [shown |-> s, context |-> 0]
       /\ served = [log |-> <<Put(None, 1, Row(t, TRUE))>>, last |-> 1]
  /\ saved = [rows |-> ServerRows, active |-> Nothing, heard |-> 1, crossed |-> FALSE]
  /\ confirming = Nothing /\ calls = {} /\ layoutSteps = 0

Draws(s) ==
  /\ LayoutStep /\ s # screen.shown /\ screen' = [screen EXCEPT !.shown = s]
  /\ UNCHANGED <<saved, confirming, calls, served>>
(* loadLayoutAtom: the screen and its drawing context are those of the layout. *)
Loaded(id, rows) == [shown |-> rows[id].state, context |-> id]
LoadLayout(id) ==
  /\ LayoutStep /\ id \in DOMAIN saved.rows
  /\ saved' = [saved EXCEPT !.active = id] /\ screen' = Loaded(id, saved.rows)
  /\ UNCHANGED <<confirming, calls, served>>
LoadDefaultLayout ==
  /\ LayoutStep
  /\ \E id \in DOMAIN saved.rows :
       /\ saved.rows[id].default
       /\ saved' = [saved EXCEPT !.active = id] /\ screen' = Loaded(id, saved.rows)
  /\ UNCHANGED <<confirming, calls, served>>

(* "at" is sent, answered or abandoned; n is the commit the answer tells of, *)
(* 0 when the server refused; "act" tells two requests of one content apart. *)
Calls(op, id, row) ==
  /\ LayoutStep
  /\ calls' = calls \union {[op |-> op, id |-> id, row |-> row, at |-> "sent", n |-> 0,
                             act |-> layoutSteps']}
  /\ UNCHANGED <<saved, screen, served>>
ActiveRow == saved.active # Nothing /\ saved.active \in DOMAIN saved.rows
CreateCurrentLayout ==
  /\ Calls("create", Nothing, Row(screen.shown, ~ HasDefault(saved.rows)))
  /\ UNCHANGED confirming
OverwriteActiveLayout ==
  /\ ActiveRow
  /\ Calls("update", saved.active, Row(screen.shown, saved.rows[saved.active].default))
  /\ UNCHANGED confirming
MakeActiveLayoutDefault ==
  /\ ActiveRow /\ ~ saved.rows[saved.active].default
  /\ Calls("update", saved.active, Row(saved.rows[saved.active].state, TRUE))
  /\ UNCHANGED confirming
(* A bootstrap in the same session, after one that failed. *)
AskForLayouts ==
  /\ \A call \in calls : call.op # "list"
  /\ Calls("list", Nothing, Nothing)
  /\ UNCHANGED confirming
(* The dialog names the active layout; what is deleted is the one that is  *)
(* active when it is accepted.                                             *)
AskToDelete ==
  /\ LayoutStep /\ ActiveRow /\ confirming = Nothing /\ confirming' = saved.active
  /\ UNCHANGED <<saved, screen, calls, served>>
DeleteActiveLayout(accepted) ==
  /\ confirming # Nothing /\ confirming' = Nothing
  /\ IF accepted /\ saved.active # Nothing
     THEN Calls("delete", saved.active, Nothing)
     ELSE LayoutStep /\ UNCHANGED <<saved, screen, calls, served>>

(* The server (layouts/repo.go): an update or a deletion of a row that is   *)
(* gone is refused.  What was given up on may still be committed.           *)
RowsAfter(rows, call, id) ==
  IF call.op = "delete" THEN Drop(rows, {id}) ELSE WithRow(rows, id, call.row)
Commits(call) == \/ call.op = "create"
                 \/ call.op \in {"update", "delete"} /\ call.id \in DOMAIN ServerRows
ServeCall(call) ==
  /\ call \in calls /\ call.at # "answered"
  /\ LET id == IF call.op = "create" THEN served.last + 1 ELSE call.id
         log == IF Commits(call) THEN Append(served.log, RowsAfter(ServerRows, call, id))
                ELSE served.log
         answer == [op |-> call.op, id |-> id, row |-> call.row, at |-> "answered", act |-> call.act,
                    n |-> IF Commits(call) \/ call.op = "list" THEN Len(log) ELSE 0]
     IN  /\ call.op = "create" => id <= MaxLayouts
         /\ served' = [log |-> log, last |-> IF call.op = "create" THEN id ELSE served.last]
         /\ calls' = (calls \ {call}) \union (IF call.at = "sent" THEN {answer} ELSE {})
  /\ UNCHANGED <<saved, screen, confirming, layoutSteps>>

(* The browser hears an answer.  It tells of a commit that does not follow *)
(* the last one heard of when another was overtaken, lost or given up on;  *)
(* an update sent before its layout became the default is not kept whole.  *)
Heard(call, rows, active) ==
  [rows |-> rows, active |-> active, heard |-> call.n,
   crossed |-> \/ saved.crossed \/ call.n # saved.heard + 1
               \/ call.op = "update" /\ KeepsFlag(saved.rows, call.id, call.row)]
(* applyRemoteLayoutsAtom; the default is loaded when no workspace was kept. *)
HearsList(call) ==
  LET rows == served.log[call.n]
      Told(active) == [rows |-> rows, active |-> active, heard |-> call.n, crossed |-> FALSE]
  IN  \/ saved' = Told(Nothing) /\ UNCHANGED screen
      \/ \E id \in DOMAIN rows :
           rows[id].default /\ saved' = Told(id) /\ screen' = Loaded(id, rows)
HearsWrite(call) ==
  CASE call.op = "create" ->
         /\ saved' = Heard(call, WithRow(saved.rows, call.id, call.row), call.id)
         /\ screen' = [screen EXCEPT !.context = call.id]
    [] call.op = "update" ->
         /\ saved' = Heard(call, ReplaceLocal(saved.rows, call.id, call.row), saved.active)
         /\ UNCHANGED screen
    [] call.op = "delete" ->
         LET rows == Drop(saved.rows, {call.id})
             next == {i \in DOMAIN rows : HasDefault(rows) => rows[i].default}
         IN  IF rows = None THEN saved' = Heard(call, rows, Nothing) /\ UNCHANGED screen
             ELSE \E i \in next : saved' = Heard(call, rows, i) /\ screen' = Loaded(i, rows)
HearAnswer(call) ==
  /\ call \in calls /\ call.at = "answered"
  /\ calls' = calls \ {call}
  /\ CASE call.n = 0 -> UNCHANGED <<saved, screen>>
       [] call.n # 0 /\ call.op = "list" -> HearsList(call)
       [] call.n # 0 /\ call.op # "list" -> HearsWrite(call)
  /\ UNCHANGED <<confirming, served, layoutSteps>>
(* A connection that breaks, or the timeout of apiRequest. *)
GiveUp(call) ==
  /\ LayoutStep /\ call \in calls /\ call.at # "abandoned"
  /\ calls' = (calls \ {call})
                \union (IF call.at = "sent" THEN {[call EXCEPT !.at = "abandoned"]} ELSE {})
  /\ UNCHANGED <<saved, screen, confirming, served>>
NeverArrives(call) ==
  /\ call \in calls /\ call.at = "abandoned" /\ calls' = calls \ {call}
  /\ UNCHANGED <<saved, screen, confirming, served, layoutSteps>>

LayoutsNext ==
  \/ \E s \in Snapshot : Draws(s)
  \/ \E id \in 1..MaxLayouts : LoadLayout(id)
  \/ LoadDefaultLayout \/ AskForLayouts
  \/ CreateCurrentLayout \/ OverwriteActiveLayout \/ MakeActiveLayoutDefault
  \/ AskToDelete \/ \E accepted \in BOOLEAN : DeleteActiveLayout(accepted)
  \/ \E call \in calls : ServeCall(call) \/ HearAnswer(call) \/ GiveUp(call) \/ NeverArrives(call)

LayoutsSpec == LayoutsInit /\ [][LayoutsNext]_layoutVars

(* The menu lists the rows the server had after the last commit the browser *)
(* heard of, with several requests on their way, each carrying the default  *)
(* flag its click saw, with refusals and bootstraps in between.  Only when *)
(* an answer was lost, overtaken by a later one or given up on, or when it *)
(* takes back a default flag, may the menu differ until the next bootstrap. *)
LayoutsFollowServer == saved.crossed \/ saved.rows = served.log[saved.heard]

(* What a delete dialog named is what its acceptance deletes. *)
DeletesWhatWasNamed ==
  [][\A call \in calls' \ calls :
       (call.op = "delete" /\ call.at = "sent") => call.id = confirming]_layoutVars
==============================================================================
