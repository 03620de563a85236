----------------------------- MODULE DrawingSync -----------------------------
(***************************************************************************)
(* The drawing store of the front end and its synchronisation with the     *)
(* backend: drawingsAtom (the drawings on screen), the per-symbol registry *)
(* in local storage, the retrying outbox (DrawingSyncQueue), the load of a *)
(* symbol's drawings (loadDrawingsForSymbolAtom with DrawingLoadGuard), and *)
(* sign-in, sign-out and page reload.  Source: store/chartStore.ts and     *)
(* components/chart/drawing/persistence.                                   *)
(*                                                                         *)
(* A drawing is its edit identity (val), the client revision it counts,    *)
(* the server revision it was based on (0: undefined) and the places       *)
(* (symbol, layout and chart) its sync binding belongs to.  The two maps   *)
(* of the queue never share a key (each enqueue removes from the other),   *)
(* so one map from ids to operations stands for both.                      *)
(***************************************************************************)
EXTENDS Partial

CONSTANTS
  Id,         \* drawing ids (clientId)
  Symbol,     \* chart symbols
  FirstSymbol, \* the symbol of the chart at start
  Layout, DefaultLayout, \* layout ids and DEFAULT_DRAWING_LAYOUT_ID
  Chart, DefaultChart,   \* chart (pane) ids and DEFAULT_DRAWING_CHART_ID
  MaxEdits,   \* bound: edits by this client and by other devices together
  MaxMoves,   \* bound: switches of symbol or context, sign-ins, reloads, and
              \* failed, timed-out or lost requests, together
  MaxGen      \* bound: the load guard's generation

VARIABLES
  symbol, ctx,      \* symbolAtom; drawingLayoutIdAtom and drawingChartIdAtom
  view,             \* drawingsAtom
  registry,         \* local storage drawings:<symbol>
  trash,            \* the drawing a delete command keeps for its undo
  saved,            \* the chart slice of a saved layout
  auth,             \* loading, anonymous or authed (with a backend session)
  pending,          \* DrawingSyncQueue.upserts and .deletes
  inFlight,         \* DrawingSyncQueue.inFlightRequest
  retrying,         \* retryAttempt > 0
  timer,            \* a flush is scheduled
  outbox,           \* local storage drawingSyncOutbox:v1
  gen,              \* DrawingLoadGuard.generation
  loads,            \* loadDrawingsForSymbolAtom calls that await listDrawings
  net,              \* the batch request on the wire
  late,             \* requests the client gave up that the backend may still run
  server,           \* the backend's rows, tombstones included
  last, settled,    \* history: the last operation queued per id, and whether
                    \* the backend has applied it
  edits, moves

queueVars == <<pending, inFlight, retrying, timer, outbox, last, settled>>
chartVars == <<symbol, ctx, view, registry, trash, saved, auth>>
netVars == <<net, late, server>>
loadVars == <<gen, loads>>
boundVars == <<edits, moves>>
vars == <<queueVars, chartVars, netVars, loadVars, boundVars>>

Move == moves < MaxMoves /\ moves' = moves + 1

Context == Layout \X Chart
Place == Symbol \X Context
Mode == {"chart-only", "layout-symbol", "global"}

\* drawingSyncBinding and drawingBelongsToSyncContext: the places that a
\* drawing of this mode, bound on symbol s in context c, belongs to.
Binding(mode, s, c) ==
  CASE mode = "global" -> {p \in Place : p[1] = s}
    [] mode = "layout-symbol" -> {p \in Place : p[1] = s /\ p[2][1] = c[1]}
    [] OTHER -> {<<s, c>>}

Empty == [i \in Id |-> Nothing]
Ids(f) == {i \in Id : f[i] # Nothing}

\* selectDrawingsForSyncContext and mergeDrawingSyncRegistry.
Select(reg, p) ==
  [i \in Id |-> IF reg[i] # Nothing /\ p \in reg[i].scope THEN reg[i] ELSE Nothing]

Merge(reg, active, p) ==
  [i \in Id |-> IF active[i] # Nothing THEN active[i]
                ELSE IF reg[i] # Nothing /\ p \notin reg[i].scope THEN reg[i]
                ELSE Nothing]

\* persistLocalDrawings writes the active slice back into the registry.
PersistLocal(s, c, active) ==
  registry' = [registry EXCEPT ![s] = Merge(registry[s], active, <<s, c>>)]
-----------------------------------------------------------------------------
(* The queue                                                               *)

\* localDrawingToBackend and the delete of queueDrawingDelete; "for" is
\* history: whether the user or a workspace reset asked for it.
Operation(kind, s, d, for) ==
  [kind |-> kind, sym |-> s, val |-> d.val, crev |-> d.crev, exp |-> d.srv,
   scope |-> d.scope, for |-> for]
Upsert(s, d) == Operation("upsert", s, d, "user")
Delete(s, d, for) == Operation("delete", s, d, for)

\* Which operation it is, whatever precondition it now carries.
Same(op, o) ==
  op # Nothing /\ op.kind = o.kind /\ op.val = o.val /\ op.crev = o.crev

\* snapshot(): what is pending, and what is in flight and not overridden.
Snapshot(p, f) ==
  [i \in Id |-> IF p[i] # Nothing THEN p[i]
                ELSE IF f = Nothing THEN Nothing ELSE f[i]]

Persist(p, f, r) == outbox' = [ops |-> Snapshot(p, f), retrying |-> r]

Session == auth = "authed"
\* schedule(): without a session nothing is scheduled.
Scheduled == IF Session THEN TRUE ELSE timer

\* queueDrawingUpsert / queueDrawingDelete of every id in ops.
Enqueued(ops) == [i \in Id |-> IF ops[i] # Nothing THEN ops[i] ELSE pending[i]]
Enqueue(ops) ==
  /\ pending' = Enqueued(ops)
  /\ Persist(pending', inFlight, retrying)
  /\ timer' = IF Ids(ops) = {} THEN timer ELSE Scheduled
  /\ last' = [i \in Id |-> IF ops[i] # Nothing THEN ops[i] ELSE last[i]]
  /\ settled' = [i \in Id |-> settled[i] /\ ops[i] = Nothing]
  /\ UNCHANGED <<inFlight, retrying>>

\* The timer's callback: flushNow().
FlushNow ==
  /\ timer
  /\ timer' = FALSE
  /\ IF inFlight = Nothing /\ Session /\ Ids(pending) # {}
     THEN /\ inFlight' = pending
          /\ pending' = Empty
          /\ Persist(pending', inFlight', retrying)
          /\ net' = [stage |-> "sent", attempt |-> 1, req |-> pending, revs |-> Nothing]
     ELSE UNCHANGED <<inFlight, pending, outbox, net>>
  /\ UNCHANGED <<retrying, last, settled, late, server, chartVars, loadVars,
                 boundVars>>

\* The backend runs a batch in one transaction (backend/internal/drawings).
Refused(row, op) ==
  /\ op.exp # 0
  /\ row # Nothing => row.rev # op.exp \/ (op.kind = "delete" /\ ~row.live)
  /\ row = Nothing => op.kind = "delete"

Applied(row, op) ==
  CASE op.kind = "upsert" ->
         [rev |-> IF row = Nothing THEN 1 ELSE row.rev + 1, live |-> TRUE,
          val |-> op.val, crev |-> op.crev, sym |-> op.sym, scope |-> op.scope]
    [] op.kind = "delete" /\ row # Nothing /\ row.live ->
         [row EXCEPT !.rev = @ + 1, !.live = FALSE, !.val = 0, !.crev = 0]
    [] OTHER -> row

Batch(req) == [i \in Id |-> IF req[i] = Nothing THEN server[i]
                            ELSE Applied(server[i], req[i])]
Settle(req) ==
  settled' = [i \in Id |-> settled[i] \/ (last[i] # Nothing /\ Same(req[i], last[i]))]

\* A batch reaches the backend: applied as a whole, or refused with 409.
ServerBatch ==
  /\ net # Nothing /\ net.stage = "sent" /\ Session
  /\ IF \E i \in Ids(net.req) : Refused(server[i], net.req[i])
     THEN /\ net' = [net EXCEPT !.stage = "conflict"]
          /\ UNCHANGED <<server, settled>>
     ELSE /\ server' = Batch(net.req)
          /\ net' = [net EXCEPT !.stage = "ok",
                      !.revs = [i \in Id |->
                        IF net.req[i] # Nothing /\ net.req[i].kind = "upsert"
                        THEN server'[i].rev ELSE 0]]
          /\ Settle(net.req)
  /\ UNCHANGED <<late, chartVars, loadVars, boundVars,
                 pending, inFlight, retrying, timer, outbox, last>>

\* syncDrawingBatchWithConflictResolution: after one 409 the live rows of the
\* batch's symbols are listed and every precondition is rebased on them.
Rebased(req) ==
  [i \in Id |->
     IF req[i] = Nothing THEN Nothing
     ELSE [req[i] EXCEPT !.exp =
             IF server[i] # Nothing /\ server[i].live
                /\ \E j \in Ids(req) : server[i].sym = req[j].sym
             THEN server[i].rev ELSE 0]]

ResolveConflict ==
  /\ net # Nothing /\ net.stage = "conflict" /\ net.attempt = 1
  /\ net' = [net EXCEPT !.stage = "sent", !.attempt = 2, !.req = Rebased(net.req)]
  /\ UNCHANGED <<late, server, queueVars, chartVars, loadVars, boundVars>>

\* acknowledgeDrawingBatch: the drawings on screen take the new revisions.
Acknowledged(d, rev) == IF d = Nothing \/ rev = 0 THEN d ELSE [d EXCEPT !.srv = rev]
Acknowledge(revs) ==
  LET next == [i \in Id |-> Acknowledged(view[i], revs[i])]
  IN  /\ view' = next
      /\ IF next # view THEN PersistLocal(symbol, ctx, next) ELSE UNCHANGED registry

\* rebasePendingToAcknowledgedRevisions.
RebasePending(revs) ==
  [i \in Id |-> IF pending[i] = Nothing \/ revs[i] = 0 THEN pending[i]
                ELSE [pending[i] EXCEPT !.exp = revs[i]]]

SendSucceeds ==
  /\ net # Nothing /\ net.stage = "ok"
  /\ net' = Nothing
  /\ inFlight' = Nothing /\ retrying' = FALSE
  /\ pending' = RebasePending(net.revs)
  /\ Persist(pending', Nothing, FALSE)
  /\ timer' = IF Ids(pending) # {} THEN Scheduled ELSE timer
  /\ Acknowledge(net.revs)
  /\ UNCHANGED <<late, server, last, settled, symbol, ctx, trash, saved, auth,
                 loadVars, boundVars>>

\* The catch branch: what no newer mutation replaced goes back to the queue.
PutBackPendingOnly == pending
PutBack == Snapshot(pending, inFlight)
SendFails ==
  /\ net # Nothing
  /\ \/ Move
     \/ ~Session /\ UNCHANGED moves
     \/ net.stage = "conflict" /\ net.attempt = 2 /\ UNCHANGED moves
  /\ late' = IF net.stage = "sent" THEN late \cup {net.req} ELSE late
  /\ net' = Nothing
  /\ inFlight' = Nothing /\ retrying' = TRUE
  /\ pending' = PutBack
  /\ Persist(pending', Nothing, TRUE)
  /\ timer' = Scheduled
  /\ UNCHANGED <<server, last, settled, chartVars, loadVars, edits>>

\* A request the client timed out reaches the backend after all, or never.
LateBatch ==
  \E req \in late :
    /\ late' = late \ {req}
    /\ \/ UNCHANGED <<server, settled>>
       \/ /\ \A i \in Ids(req) : ~Refused(server[i], req[i])
          /\ server' = Batch(req)
          /\ Settle(req)
    /\ UNCHANGED <<net, pending, inFlight, retrying, timer, outbox, last,
                   chartVars, loadVars, boundVars>>
-----------------------------------------------------------------------------
(* Loading a symbol's drawings                                             *)

\* loadDrawingsForSymbolAtom up to its await: it takes a token of the guard
\* and reads the registry.
Load(s, g, reg) == [sym |-> s, gen |-> g, local |-> reg, rows |-> Nothing]
BeginLoad(s) ==
  IF Session THEN /\ gen < MaxGen
                  /\ gen' = gen + 1
                  /\ loads' = loads \cup {Load(s, gen + 1, registry[s])}
  ELSE UNCHANGED loadVars

ServerList ==
  \E l \in loads :
    /\ l.rows = Nothing /\ Session
    /\ loads' = (loads \ {l}) \cup {[l EXCEPT !.rows =
         [i \in Id |-> IF server[i] # Nothing /\ server[i].live /\ server[i].sym = l.sym
                       THEN server[i] ELSE Nothing]]}
    /\ UNCHANGED <<gen, netVars, queueVars, chartVars, boundVars>>

\* backendDrawingToLocal, and the merge: a local drawing the backend does not
\* list, or whose client revision is greater, wins and is queued again.
LocalWins(l, i) ==
  l.local[i] # Nothing /\ (l.rows[i] = Nothing \/ l.local[i].crev > l.rows[i].crev)
LocalDrawing(row) ==
  [val |-> row.val, crev |-> row.crev, srv |-> row.rev, scope |-> row.scope]
Merged(l) ==
  [i \in Id |-> IF LocalWins(l, i) THEN l.local[i]
                ELSE IF l.rows[i] # Nothing THEN LocalDrawing(l.rows[i]) ELSE Nothing]
IsCurrent(l) == l.gen = gen /\ l.sym = symbol
ResumedNever(p) == timer
Resumed(p) == IF Ids(p) # {} THEN Scheduled ELSE timer

LoadReturns ==
  \E l \in loads :
    /\ l.rows # Nothing
    /\ loads' = loads \ {l}
    /\ IF IsCurrent(l)
       THEN LET m == Merged(l)
                ops == [i \in Id |-> IF LocalWins(l, i) THEN Upsert(l.sym, l.local[i])
                                     ELSE Nothing]
            IN  /\ view' = Select(m, <<symbol, ctx>>)
                /\ registry' = [registry EXCEPT ![l.sym] = m]
                /\ pending' = Enqueued(ops)
                /\ Persist(pending', inFlight, retrying)
                /\ last' = [i \in Id |-> IF ops[i] # Nothing THEN ops[i] ELSE last[i]]
                /\ settled' = [i \in Id |-> settled[i] /\ ops[i] = Nothing]
       ELSE UNCHANGED <<view, registry, pending, outbox, last, settled>>
    /\ timer' = Resumed(pending')
    /\ UNCHANGED <<gen, symbol, ctx, trash, saved, auth, inFlight, retrying,
                   netVars, boundVars>>

\* The catch and finally branches: the local cache stays, the queue resumes.
LoadFails ==
  \E l \in loads :
    /\ \/ Move
       \/ l.rows = Nothing /\ ~Session /\ UNCHANGED moves
    /\ loads' = loads \ {l}
    /\ timer' = Resumed(pending)
    /\ UNCHANGED <<gen, pending, inFlight, retrying, outbox, last, settled,
                   netVars, chartVars, edits>>

-----------------------------------------------------------------------------
(* The user's edits                                                        *)

Show(i, d) ==
  LET next == [view EXCEPT ![i] = d]
  IN  /\ view' = next
      /\ PersistLocal(symbol, ctx, next)
      /\ Enqueue([Empty EXCEPT ![i] = Upsert(symbol, d)])

\* addDrawingAtom with a new drawing, bound by the preferred sync mode, and
\* duplicateDrawingAtom, which keeps the binding of its source.
NewScopes == {Binding(mode, symbol, ctx) : mode \in Mode} \cup {view[j].scope : j \in Ids(view)}
AddDrawing(i, scope) ==
  /\ edits < MaxEdits /\ edits' = edits + 1
  /\ last[i] = Nothing
  /\ Show(i, [val |-> edits + 1, crev |-> 1, srv |-> 0, scope |-> scope])
  /\ UNCHANGED <<symbol, ctx, trash, saved, auth, loadVars, netVars, moves>>

\* updateDrawingAtom, batchUpdateDrawingsAtom, bringToFrontAtom, sendToBackAtom
\* and applyTemplateAtom: every id of S on screen takes the patch.
UpdateDrawings(S) ==
  /\ edits < MaxEdits /\ edits' = edits + 1
  /\ S # {} /\ S \subseteq Ids(view)
  /\ LET next == [i \in Id |-> IF i \in S
                    THEN [view[i] EXCEPT !.val = edits + 1, !.crev = @ + 1] ELSE view[i]]
     IN  /\ view' = next
         /\ PersistLocal(symbol, ctx, next)
         /\ Enqueue([i \in Id |-> IF i \in S THEN Upsert(symbol, next[i]) ELSE Nothing])
  /\ UNCHANGED <<symbol, ctx, trash, saved, auth, loadVars, netVars, moves>>

\* removeDrawingAtom: a delete that expects the revision on screen.
RemoveDrawing(i) ==
  /\ view[i] # Nothing
  /\ LET next == [view EXCEPT ![i] = Nothing]
     IN  /\ view' = next
         /\ PersistLocal(symbol, ctx, next)
         /\ Enqueue([Empty EXCEPT ![i] = Delete(symbol, view[i], "user")])
  /\ trash' = [trash EXCEPT ![i] = view[i]]
  /\ UNCHANGED <<symbol, ctx, saved, auth, loadVars, netVars, boundVars>>

\* Undo of a delete: addDrawingAtom with the drawing the command kept.
RestoreDrawing(i) ==
  /\ edits < MaxEdits /\ edits' = edits + 1
  /\ trash[i] # Nothing /\ view[i] = Nothing
  /\ trash' = [trash EXCEPT ![i] = Nothing]
  /\ Show(i, [trash[i] EXCEPT !.val = edits + 1, !.crev = @ + 1])
  /\ UNCHANGED <<symbol, ctx, saved, auth, loadVars, netVars, moves>>

\* Another device of the user writes or deletes a row.
RemoteEdit(i) ==
  /\ edits < MaxEdits /\ edits' = edits + 1
  /\ server[i] # Nothing /\ server[i].live
  /\ \/ server' = [server EXCEPT ![i].rev = @ + 1, ![i].crev = @ + 1, ![i].val = edits + 1]
     \/ server' = [server EXCEPT ![i].rev = @ + 1, ![i].live = FALSE,
                                 ![i].crev = 0, ![i].val = 0]
  /\ UNCHANGED <<net, late, queueVars, chartVars, loadVars, moves>>
-----------------------------------------------------------------------------
(* Navigation, sign-in, sign-out and reload                                *)

\* setSymbolAtom: the load in progress is cancelled, the registry shown.
SetSymbol(s) ==
  /\ Move
  /\ s # symbol
  /\ symbol' = s
  /\ view' = Select(registry[s], <<s, ctx>>)
  /\ IF Session THEN /\ gen + 2 <= MaxGen
                     /\ gen' = gen + 2
                     /\ loads' = loads \cup {Load(s, gen + 2, registry[s])}
     ELSE gen < MaxGen /\ gen' = gen + 1 /\ UNCHANGED loads
  /\ UNCHANGED <<ctx, registry, trash, saved, auth, queueVars, netVars, edits>>

\* setDrawingLayoutContextAtom: the slice of another layout or chart.
SetDrawingLayoutContext(c) ==
  /\ Move
  /\ c # ctx
  /\ ctx' = c
  /\ view' = Select(Merge(registry[symbol], view, <<symbol, ctx>>), <<symbol, c>>)
  /\ BeginLoad(symbol)
  /\ UNCHANGED <<symbol, registry, trash, saved, auth, queueVars, netVars, edits>>

\* adoptDrawingLayoutContextAtom: the layout takes a new identity; every
\* drawing on screen that is not global is rebound and queued.
IsGlobal(d) == \E s \in Symbol : d.scope = Binding("global", s, ctx)
Rebind(d, c) ==
  [d EXCEPT !.crev = @ + 1,
            !.scope = Binding(IF Cardinality(@) > 1 THEN "layout-symbol" ELSE "chart-only",
                              symbol, c)]
AdoptDrawingLayoutContext(c) ==
  /\ Move
  /\ c # ctx
  /\ ctx' = c
  /\ LET moved == {i \in Ids(view) : ~IsGlobal(view[i])}
         next == [i \in Id |-> IF i \in moved THEN Rebind(view[i], c) ELSE view[i]]
     IN  /\ view' = next
         /\ PersistLocal(symbol, c, next)
         /\ Enqueue([i \in Id |-> IF i \in moved THEN Upsert(symbol, next[i]) ELSE Nothing])
  /\ UNCHANGED <<symbol, trash, saved, auth, loadVars, netVars, edits>>

\* A saved layout keeps the drawings on screen.  loadLayoutAtom switches to
\* its context, then applySavedChartLayoutAtom shows its symbol and drawings,
\* with the local version of every global one, without a word to the queue.
SaveLayout ==
  /\ Move
  /\ saved' = [sym |-> symbol, ctx |-> ctx, drawings |-> view]
  /\ UNCHANGED <<symbol, ctx, view, registry, trash, auth, queueVars, loadVars, netVars,
                 edits>>

LoadLayout ==
  /\ Move
  /\ saved # Nothing
  /\ symbol' = saved.sym /\ ctx' = saved.ctx
  /\ BeginLoad(symbol)
  /\ LET local == registry[saved.sym]
         byId == [i \in Id |-> IF local[i] # Nothing /\ IsGlobal(local[i])
                               THEN local[i] ELSE saved.drawings[i]]
     IN  /\ view' = Select(byId, <<saved.sym, ctx'>>)
         /\ PersistLocal(saved.sym, ctx', view')
  /\ UNCHANGED <<trash, saved, auth, queueVars, netVars, edits>>

\* Bootstrap after sign-in: applyRemoteChartSettingsAtom shows symbol s (the
\* account's, or the one a pending local write names) and loads it when it
\* differs; loadActiveSymbolDrawingsAtom then loads the active symbol.
SignIn(s) ==
  /\ Move
  /\ auth # "authed"
  /\ auth' = "authed"
  /\ symbol' = s
  /\ IF s = symbol
     THEN /\ gen < MaxGen /\ gen' = gen + 1
          /\ loads' = loads \cup {Load(s, gen + 1, registry[s])}
          /\ UNCHANGED view
     ELSE /\ gen + 3 <= MaxGen /\ gen' = gen + 3
          /\ loads' = loads \cup {Load(s, gen + 2, registry[s]), Load(s, gen + 3, registry[s])}
          /\ view' = Select(registry[s], <<s, ctx>>)
  /\ UNCHANGED <<ctx, registry, trash, saved, queueVars, netVars, edits>>

\* resetChartWorkspaceToDefaultsAtom, without a session: a delete is queued
\* for every drawing on screen and the timer is cancelled.
QueueReset ==
  LET ops == [i \in Id |-> IF view[i] # Nothing THEN Delete(symbol, view[i], "reset") ELSE Nothing]
  IN  /\ pending' = Enqueued(ops)
      /\ Persist(pending', inFlight, retrying)
      /\ timer' = FALSE
      /\ last' = [i \in Id |-> IF ops[i] # Nothing THEN ops[i] ELSE last[i]]
      /\ settled' = [i \in Id |-> settled[i] /\ ops[i] = Nothing]
      /\ UNCHANGED <<inFlight, retrying>>

\* Sign-out: the reset, with the local registries cleared.
SignOut ==
  /\ Move
  /\ auth = "authed"
  /\ auth' = "anonymous"
  /\ QueueReset
  /\ view' = Empty
  /\ registry' = [s \in Symbol |-> Empty]
  /\ UNCHANGED <<symbol, ctx, trash, saved, loadVars, netVars, edits>>

\* The first report of an anonymous page: the reset keeps the local cache and
\* hydrateAtom shows it again.
AnonymousStart ==
  /\ Move
  /\ auth = "loading"
  /\ auth' = "anonymous"
  /\ QueueReset
  /\ view' = Select(registry[symbol], <<symbol, ctx>>)
  /\ UNCHANGED <<symbol, ctx, registry, trash, saved, loadVars, netVars, edits>>

\* The page is reloaded, with or without pagehide: only local storage remains.
ReloadPage ==
  /\ Move
  /\ auth' = "loading"
  /\ view' = Select(registry[symbol], <<symbol, ctx>>)
  /\ trash' = Empty
  /\ pending' = outbox.ops /\ retrying' = outbox.retrying
  /\ inFlight' = Nothing /\ timer' = FALSE
  /\ gen' = 0 /\ loads' = {}
  /\ late' = IF net # Nothing /\ net.stage = "sent" THEN late \cup {net.req} ELSE late
  /\ net' = Nothing
  /\ UNCHANGED <<symbol, ctx, registry, saved, outbox, last, settled, server,
                 edits>>
-----------------------------------------------------------------------------
Init ==
  /\ symbol = FirstSymbol /\ ctx = <<DefaultLayout, DefaultChart>>
  /\ view = Empty /\ registry = [s \in Symbol |-> Empty] /\ trash = Empty
  /\ saved = Nothing
  /\ auth = "loading"
  /\ pending = Empty /\ inFlight = Nothing /\ retrying = FALSE /\ timer = FALSE
  /\ outbox = [ops |-> Empty, retrying |-> FALSE]
  /\ gen = 0 /\ loads = {}
  /\ net = Nothing /\ late = {} /\ server = Empty
  /\ last = Empty /\ settled = [i \in Id |-> FALSE]
  /\ edits = 0 /\ moves = 0

UserEdit ==
  \/ \E i \in Id : \E scope \in NewScopes : AddDrawing(i, scope)
  \/ \E S \in SUBSET Id : UpdateDrawings(S)
  \/ \E i \in Id : RemoveDrawing(i) \/ RestoreDrawing(i)

Navigate ==
  \/ \E s \in Symbol : SetSymbol(s) \/ SignIn(s)
  \/ \E c \in Context : SetDrawingLayoutContext(c) \/ AdoptDrawingLayoutContext(c)
  \/ SaveLayout \/ LoadLayout
  \/ SignOut \/ AnonymousStart \/ ReloadPage

Sync ==
  \/ FlushNow \/ ServerBatch \/ ResolveConflict \/ SendSucceeds \/ SendFails
  \/ LateBatch \/ ServerList \/ LoadReturns \/ LoadFails

Next == UserEdit \/ (\E i \in Id : RemoteEdit(i)) \/ Navigate \/ Sync

Spec == Init /\ [][Next]_vars

\* Timers fire, and a request is answered or given up within its timeout.
FairSpec ==
  /\ Spec
  /\ WF_vars(FlushNow) /\ WF_vars(ServerBatch) /\ WF_vars(ResolveConflict)
  /\ WF_vars(SendSucceeds) /\ WF_vars(SendFails /\ UNCHANGED moves)
  /\ WF_vars(ServerList) /\ WF_vars(LoadReturns)
-----------------------------------------------------------------------------
Drawing == [val : 1..MaxEdits, crev : Nat, srv : Nat, scope : SUBSET Place]
Drawings == [Id -> Drawing \cup {Nothing}]
Op == [kind : {"upsert", "delete"}, sym : Symbol, val : 1..MaxEdits, crev : Nat,
       exp : Nat, scope : SUBSET Place, for : {"user", "reset"}]
Ops == [Id -> Op \cup {Nothing}]
Row == [rev : Nat, live : BOOLEAN, val : 0..MaxEdits, crev : Nat, sym : Symbol,
        scope : SUBSET Place]
Listed == [Id -> {r \in Row : r.val > 0} \cup {Nothing}]
Started == [sym : Symbol, gen : Nat, local : Drawings, rows : Listed \cup {Nothing}]
Wire == [stage : {"sent", "conflict", "ok"}, attempt : {1, 2}, req : Ops,
         revs : [Id -> Nat] \cup {Nothing}]
Slice == [sym : Symbol, ctx : Context, drawings : Drawings]

ASSUME DrawingConstants ==
  /\ FirstSymbol \in Symbol /\ DefaultLayout \in Layout /\ DefaultChart \in Chart
  /\ MaxEdits \in Nat /\ MaxGen \in Nat
  /\ Nothing \notin Op /\ Nothing \notin Ops /\ Nothing \notin Drawing
  /\ Nothing \notin Row /\ Nothing \notin Listed

\* Every variable has its type, and the outbox in local storage is always the
\* queue's snapshot: no path of DrawingSyncQueue changes one without the other.
QueueTypeOK ==
  /\ pending \in Ops /\ inFlight \in Ops \cup {Nothing}
  /\ retrying \in BOOLEAN /\ timer \in BOOLEAN
  /\ outbox = [ops |-> Snapshot(pending, inFlight), retrying |-> retrying]
  /\ last \in Ops /\ settled \in [Id -> BOOLEAN]
  /\ net \in Wire \cup {Nothing} /\ late \in SUBSET Ops
ChartTypeOK ==
  /\ symbol \in Symbol /\ ctx \in Context /\ auth \in {"loading", "anonymous", "authed"}
  /\ view \in Drawings /\ trash \in Drawings /\ registry \in [Symbol -> Drawings]
  /\ saved \in Slice \cup {Nothing}
RowsTypeOK ==
  /\ gen \in 0..MaxGen /\ loads \in SUBSET Started
  /\ server \in [Id -> Row \cup {Nothing}]
  /\ \A i \in Id : server[i] # Nothing /\ server[i].live => server[i].val > 0
  /\ edits \in 0..MaxEdits
TypeOK == QueueTypeOK /\ ChartTypeOK /\ RowsTypeOK

\* The last operation queued for a drawing is in local storage until the
\* backend has applied it: failed sends, operations queued during a send,
\* symbol changes, sign-outs and reloads drop nothing.
NothingDropped ==
  \A i \in Id : last[i] # Nothing /\ ~settled[i] => Same(outbox.ops[i], last[i])

\* A request carries what the queue calls in flight, rebased or not.
WireCarriesFlight ==
  net # Nothing =>
    /\ inFlight # Nothing
    /\ \A i \in Id : inFlight[i] # Nothing => Same(net.req[i], inFlight[i])
\* What an answered request lets the queue forget the backend has applied.
RepliesAreSettled ==
  net # Nothing /\ net.stage = "ok" =>
    /\ net.revs \in [Id -> Nat]
    /\ \A i \in Id : pending[i] = Nothing /\ inFlight[i] # Nothing /\ last[i] # Nothing
                       /\ Same(inFlight[i], last[i]) => settled[i]

\* What is on screen is what local storage holds for the active symbol, and
\* every drawing stored for the active symbol, layout and chart is on screen,
\* whatever load returns when.
ViewMatchesRegistry ==
  /\ \A i \in Ids(view) : registry[symbol][i] = view[i]
  /\ Ids(Select(registry[symbol], <<symbol, ctx>>)) \subseteq Ids(view)

\* Every delete the outbox holds is one the user asked for: signing out
\* preserves the work in the queue.
LogoutPreservesWork ==
  \A i \in Id :
    outbox.ops[i] # Nothing /\ outbox.ops[i].kind = "delete" => outbox.ops[i].for = "user"

\* While the session lasts, the queue drains: every send that fails, every
\* operation queued during a send and every sign-in leaves a timer or a reply
\* behind that flushes what is pending.
Drains == <>[]Session => []<>(Ids(pending) = {} /\ inFlight = Nothing)
=============================================================================
