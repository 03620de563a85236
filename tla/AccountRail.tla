----------------------------- MODULE AccountRail -----------------------------
(***************************************************************************)
(* The account rail and the copier settings of TradeWorkspace: the order   *)
(* of the accounts with its optimistic saves, drags and polls; the         *)
(* one-shot copy routes; the dialogs that connect and remove a managed     *)
(* MetaTrader account.                                                     *)
(***************************************************************************)
EXTENDS Partial

CONSTANTS
  Item,         \* entries of the rail
  MaxRailSteps  \* bound: saves, edits, dialogs, sign-outs and losses

VARIABLES
  registry,     \* the server: order and its revision, routes, the connections
                \*   made so far, and the managed account ("ready", ...)
  rail,         \* session, order, revision, pending, drag, saves, polls
  routing,      \* hydrated, routes, loads; the panel: mounted, persisted,
                \*   status, saving (what the save under way signs)
  manage,       \* connect dialog: open, id, busy, fresh (ids so far), made;
                \*   account dialog: removing; mode, selected; removed (history)
  railSteps

railVars == <<registry, rail, routing, manage, railSteps>>

Orders == {s \in [1..Cardinality(Item) -> Item] : \A i \in Item : \E k \in DOMAIN s : s[k] = i}
NoRail == [session |-> FALSE, order |-> <<>>, revision |-> 0, pending |-> FALSE,
           drag |-> Nothing, saves |-> {}, polls |-> {}]
NoPanel == [mounted |-> FALSE, persisted |-> Nothing, status |-> "loading", saving |-> Nothing]
NoRoutes == [hydrated |-> FALSE, routes |-> "off", loads |-> {}, panel |-> NoPanel, queue |-> <<>>]
NoDialog == [open |-> FALSE, id |-> 0, busy |-> Nothing]

RailInit ==
  /\ \E s \in Orders :
       registry = [order |-> s, revision |-> 1, routes |-> "off", connections |-> {},
                   account |-> "ready"]
  /\ rail = [NoRail EXCEPT !.session = TRUE]
  /\ routing = NoRoutes
  /\ manage = [connect |-> NoDialog, fresh |-> 0, made |-> {}, excused |-> FALSE,
               removing |-> Nothing, mode |-> "mt5", selected |-> TRUE, removed |-> FALSE]
  /\ railSteps = 0

RailStep == railSteps < MaxRailSteps /\ railSteps' = railSteps + 1

(***************************************************************************)
(* The order of the accounts.                                              *)
(***************************************************************************)
(* mergeExecutionAccountLayout: the saved order, then what it leaves out.  *)
Merged(order) ==
  IF order = <<>> THEN CHOOSE s \in Orders : TRUE ELSE order

(* moveExecutionAccountItem *)
Moved(order, source, target, after) ==
  LET rest == SelectSeq(order, LAMBDA i : i # source)
      at == CHOOSE k \in DOMAIN rest : rest[k] = target
      cut == IF after THEN at ELSE at - 1
  IN  IF source = target THEN order
      ELSE SubSeq(rest, 1, cut) \o <<source>> \o SubSeq(rest, cut + 1, Len(rest))

(* saveLayout, run in the closure of a render: its layout and its pending  *)
(* flag are the ones of that render.                                       *)
Rendered == [order |-> rail.order, revision |-> rail.revision, pending |-> rail.pending]
Saving(r, seen, order) ==
  IF seen.pending THEN r
  ELSE [r EXCEPT !.pending = TRUE, !.order = order, !.revision = seen.revision,
          !.saves = @ \union {[order |-> order, previous |-> seen, reply |-> seen,
                                phase |-> "put"]}]

(* startAccountDrag, onPointerMove, finishDrag, keyboardMove *)
StartDrag(i) ==
  /\ RailStep
  /\ rail.session /\ ~ rail.pending /\ rail.drag = Nothing
  /\ rail' = [rail EXCEPT !.drag = [source |-> i, target |-> Nothing, seen |-> Rendered]]
  /\ UNCHANGED <<registry, routing, manage>>
DragOver(i) ==
  /\ rail.drag # Nothing /\ rail.drag.source # i /\ rail.drag.target # i
  /\ rail' = [rail EXCEPT !.drag.target = i]
  /\ UNCHANGED <<registry, routing, manage, railSteps>>
DropDrag ==
  /\ rail.drag # Nothing
  /\ \E after \in BOOLEAN :
       rail' = [IF rail.drag.target = Nothing THEN rail
                ELSE Saving(rail, rail.drag.seen,
                       Moved(Merged(rail.drag.seen.order), rail.drag.source, rail.drag.target, after))
                EXCEPT !.drag = Nothing]
  /\ UNCHANGED <<registry, routing, manage, railSteps>>
CancelDrag ==
  /\ rail.drag # Nothing
  /\ rail' = [rail EXCEPT !.drag = Nothing]
  /\ UNCHANGED <<registry, routing, manage, railSteps>>
KeyboardMove(i) ==
  /\ RailStep
  /\ rail.session /\ ~ rail.pending
  /\ LET order == Merged(rail.order)
         at == CHOOSE k \in DOMAIN order : order[k] = i
     IN  \E next \in {at - 1, at + 1} \intersect DOMAIN order :
           rail' = Saving(rail, Rendered, Moved(order, i, order[next], next > at))
  /\ UNCHANGED <<registry, routing, manage>>

(* The server accepts a save of the revision it holds; another device may  *)
(* have saved before.                                                      *)
ElsewhereSaves ==
  /\ RailStep
  /\ \E s \in Orders \ {registry.order} :
       registry' = [registry EXCEPT !.order = s, !.revision = @ + 1]
  /\ UNCHANGED <<rail, routing, manage>>
Replied(s, phase, reply) ==
  [rail EXCEPT !.saves = (@ \ {s}) \union {[s EXCEPT !.phase = phase, !.reply = reply]}]
Refused(s) == Replied(s, "refused", s.previous)
ServerSaves(s) ==
  /\ s.phase = "put"
  /\ IF s.previous.revision = registry.revision
     THEN /\ registry' = [registry EXCEPT !.order = s.order, !.revision = @ + 1]
          /\ rail' = Replied(s, "saved", [order |-> s.order, revision |-> registry'.revision])
     ELSE rail' = Refused(s) /\ UNCHANGED registry
  /\ UNCHANGED <<routing, manage, railSteps>>
SaveLost(s) ==
  /\ RailStep
  /\ s.phase # "refused"
  /\ rail' = Refused(s)
  /\ UNCHANGED <<registry, routing, manage>>

Concluding(s, layout) ==
  [rail EXCEPT !.saves = @ \ {s}, !.pending = FALSE, !.order = layout.order,
               !.revision = layout.revision]
(* The layout that came back; after a failure the one the server has, and  *)
(* when it cannot be read the one before the save.                         *)
SaveReturns(s) ==
  /\ s.phase = "saved"
  /\ rail' = Concluding(s, s.reply)
  /\ UNCHANGED <<registry, routing, manage, railSteps>>
RestoreForgetsPending(s) ==
  /\ s.phase = "refused"
  /\ rail' \in {Concluding(s, registry),
                [Concluding(s, s.previous) EXCEPT !.pending = rail.pending]}
  /\ UNCHANGED <<registry, routing, manage, railSteps>>
RestoreLayout(s) ==
  /\ s.phase = "refused"
  /\ rail' \in {Concluding(s, registry), Concluding(s, s.previous)}
  /\ UNCHANGED <<registry, routing, manage, railSteps>>

(* The layout read of the registry poll, and applyExecutionAccountLayoutAtom. *)
PollLayout ==
  /\ rail.session /\ rail.polls = {}
  /\ rail' = [rail EXCEPT !.polls = {[order |-> registry.order, revision |-> registry.revision]}]
  /\ UNCHANGED <<registry, routing, manage, railSteps>>
Polled(p) ==
  IF rail.pending \/ p.revision < rail.revision THEN rail
  ELSE [rail EXCEPT !.order = p.order, !.revision = p.revision]
LayoutArrives ==
  /\ \E p \in rail.polls : rail' = [Polled(p) EXCEPT !.polls = {}]
  /\ UNCHANGED <<registry, routing, manage, railSteps>>

(* resetExecutionRegistryAtom; saves under way are not cancelled. *)
RailSignOut ==
  /\ RailStep
  /\ rail.session
  /\ rail' = [NoRail EXCEPT !.saves = rail.saves]
  /\ routing' = [NoRoutes EXCEPT !.queue = routing.queue]
  /\ UNCHANGED <<registry, manage>>
RailSignIn ==
  /\ ~ rail.session
  /\ rail' = [rail EXCEPT !.session = TRUE]
  /\ UNCHANGED <<registry, routing, manage, railSteps>>

(***************************************************************************)
(* The copy routes of one-shot orders: off, on, or on with a bad size.     *)
(***************************************************************************)
LoadRoutes ==
  /\ rail.session /\ ~ routing.hydrated /\ routing.loads = {}
  /\ routing' = [routing EXCEPT !.loads = {registry.routes}]
  /\ UNCHANGED <<registry, rail, manage, railSteps>>
(* The effect that takes what is on screen as persisted once hydrated.     *)
Settled(q) ==
  IF q.hydrated /\ q.panel.mounted /\ q.panel.persisted = Nothing
  THEN [q EXCEPT !.panel.persisted = q.routes, !.panel.status = "ready"] ELSE q
RoutesArrive ==
  /\ \E r \in routing.loads :
       routing' \in {[routing EXCEPT !.loads = {}],
                     Settled([routing EXCEPT !.loads = {}, !.hydrated = TRUE, !.routes = r])}
  /\ UNCHANGED <<registry, rail, manage, railSteps>>
MountPanel ==
  /\ RailStep
  /\ routing' = Settled([routing EXCEPT !.panel = [NoPanel EXCEPT !.mounted = ~ routing.panel.mounted]])
  /\ UNCHANGED <<registry, rail, manage>>
EditRoutes ==
  /\ RailStep
  /\ routing.panel.mounted
  /\ \E r \in {"off", "on", "bad"} \ {routing.routes} : routing' = [routing EXCEPT !.routes = r]
  /\ UNCHANGED <<registry, rail, manage>>

Dirty == routing.panel.persisted \notin {Nothing, routing.routes}
(* Saves go through the queue of settings mutations, in order; an instance *)
(* of the panel that is gone ignores the answer.                           *)
SaveRoutes ==
  /\ RailStep
  /\ routing.panel.mounted /\ routing.hydrated /\ Dirty
  /\ routing.panel.status # "saving" /\ routing.routes # "bad"
  /\ routing' = [routing EXCEPT !.panel.status = "saving", !.panel.saving = routing.routes,
                                !.queue = Append(@, routing.routes)]
  /\ UNCHANGED <<registry, rail, manage>>
(* What the panel counts as persisted: the routes of the closure. *)
Signed == routing.panel.saving
RoutesStored ==
  /\ routing.queue # <<>>
  /\ registry' = [registry EXCEPT !.routes = Head(routing.queue)]
  /\ routing' = [routing EXCEPT !.queue = Tail(@),
       !.panel = IF routing.panel.saving # Nothing /\ Len(routing.queue) = 1
                 THEN [@ EXCEPT !.saving = Nothing, !.persisted = Signed, !.status = "saved"] ELSE @]
  /\ UNCHANGED <<rail, manage, railSteps>>
RoutesNotStored ==
  /\ RailStep
  /\ routing.queue # <<>>
  /\ routing' = [routing EXCEPT !.queue = Tail(@),
       !.panel = IF routing.panel.saving # Nothing /\ Len(routing.queue) = 1
                 THEN [@ EXCEPT !.saving = Nothing, !.status = "error"] ELSE @]
  /\ UNCHANGED <<registry, rail, manage>>

(***************************************************************************)
(* Connecting a managed account: the request id makes a retry idempotent.  *)
(***************************************************************************)
OpenConnect ==
  /\ RailStep
  /\ ~ manage.connect.open
  /\ manage' = [manage EXCEPT !.fresh = @ + 1, !.made = {}, !.excused = FALSE,
       !.connect = [NoDialog EXCEPT !.open = TRUE, !.id = manage.fresh + 1]]
  /\ UNCHANGED <<registry, rail, routing>>
CloseConnect ==
  /\ manage.connect.open /\ manage.connect.busy = Nothing
  /\ manage' = [manage EXCEPT !.connect = NoDialog]
  /\ UNCHANGED <<registry, rail, routing, railSteps>>
RequestId == IF manage.connect.id = 0 THEN manage.fresh + 1 ELSE manage.connect.id
SubmitConnect ==
  /\ RailStep
  /\ manage.connect.open /\ manage.connect.busy = Nothing
  /\ manage' = [manage EXCEPT !.connect.busy = RequestId, !.fresh = AtLeast(@, RequestId)]
  /\ UNCHANGED <<registry, rail, routing>>
(* The server connects; then the reply is lost, or the accounts are read   *)
(* again, or that read fails when the id is already cleared.               *)
ConnectStored ==
  /\ manage.connect.busy # Nothing
  /\ registry' = [registry EXCEPT !.connections = @ \union {manage.connect.busy}]
  /\ LET m == [manage EXCEPT !.made = @ \union {manage.connect.busy}] IN
     \/ manage' = [m EXCEPT !.connect = NoDialog]
     \/ manage' = [m EXCEPT !.connect.busy = Nothing]
     \/ manage' = [m EXCEPT !.connect.busy = Nothing, !.connect.id = 0, !.excused = TRUE]
  /\ UNCHANGED <<rail, routing, railSteps>>
ConnectFails ==
  /\ manage.connect.busy # Nothing
  /\ manage' = [manage EXCEPT !.connect.busy = Nothing]
  /\ UNCHANGED <<registry, rail, routing, railSteps>>

(***************************************************************************)
(* Removing the account, which the poll may notice before the dialog does. *)
(***************************************************************************)
RemoveAccount ==
  /\ RailStep
  /\ manage.removing = Nothing /\ registry.account = "ready"
  /\ manage' = [manage EXCEPT !.removing = [selected |-> manage.selected]]
  /\ \E s \in {"stopping", "gone"} : registry' = [registry EXCEPT !.account = s]
  /\ UNCHANGED <<rail, routing>>
AccountStops ==
  /\ registry.account = "stopping"
  /\ registry' = [registry EXCEPT !.account = "gone"]
  /\ UNCHANGED <<rail, routing, manage, railSteps>>
(* applyExecutionAccountsAtom of a poll: another account is selected. *)
PollReselects ==
  /\ registry.account = "gone" /\ manage.selected
  /\ manage' = [manage EXCEPT !.selected = FALSE]
  /\ UNCHANGED <<registry, rail, routing, railSteps>>
WasSelected == manage.removing.selected
RemoveReturns ==
  /\ manage.removing # Nothing
  /\ LET m == [manage EXCEPT !.removing = Nothing] IN
     manage' = IF registry.account = "stopping" THEN m
               ELSE [m EXCEPT !.removed = manage.removing.selected, !.selected = FALSE,
                              !.mode = IF WasSelected THEN "simulator" ELSE @]
  /\ UNCHANGED <<registry, rail, routing, railSteps>>
(* select *)
PickAccount ==
  /\ manage.mode = "simulator"
  /\ manage' = [manage EXCEPT !.mode = "mt5", !.removed = FALSE]
  /\ UNCHANGED <<registry, rail, routing, railSteps>>

LayoutNext ==
  \/ \E i \in Item : StartDrag(i) \/ DragOver(i) \/ KeyboardMove(i)
  \/ DropDrag \/ CancelDrag \/ ElsewhereSaves \/ PollLayout \/ LayoutArrives
  \/ \E s \in rail.saves : ServerSaves(s) \/ SaveLost(s) \/ SaveReturns(s) \/ RestoreLayout(s)
  \/ RailSignOut \/ RailSignIn
RoutesNext ==
  \/ LoadRoutes \/ RoutesArrive \/ MountPanel \/ EditRoutes
  \/ SaveRoutes \/ RoutesStored \/ RoutesNotStored \/ RailSignOut \/ RailSignIn
ManageNext ==
  \/ OpenConnect \/ CloseConnect \/ SubmitConnect \/ ConnectStored \/ ConnectFails
  \/ RemoveAccount \/ AccountStops \/ PollReselects \/ RemoveReturns \/ PickAccount

SaveSettles ==
  \E s \in rail.saves : ServerSaves(s) \/ SaveReturns(s) \/ RestoreLayout(s)

(***************************************************************************)
(* Properties.                                                             *)
(***************************************************************************)
(* A poll that was read before a reorder was saved never undoes it         *)
(* (executionRegistryStore.ts:37).                                         *)
PollsNeverUndoOrder ==
  [][rail.polls # {} /\ rail'.polls = {} /\ rail.session /\ rail'.session
       => rail'.revision >= rail.revision]_railVars

(* Whatever fails, the rail ends up in the order the server keeps          *)
(* (TradeWorkspace.tsx:317).                                               *)
RailFollowsServer ==
  <>[](rail.session => rail.order = registry.order /\ ~ rail.pending)

(* Routes reported as saved are the ones the server has                    *)
(* (TradeWorkspace.tsx:1006).                                              *)
SavedRoutesAreStored ==
  routing.panel.status = "saved" /\ ~ Dirty => registry.routes = routing.routes

(* A retried connection is made once, unless the accounts could not be     *)
(* read after it succeeded (Mt5ManagedConnectionDialog.tsx:92).            *)
ConnectedOnce == ~ manage.excused => Cardinality(manage.made) <= 1

(* Once the removal of the traded account is reported, the desk trades the *)
(* simulator until the user selects an account, even when a poll selected  *)
(* another account first (ExecutionAccountManagementDialog.tsx:185).       *)
RemovalLeavesSimulator == manage.removed => manage.mode = "simulator"

(* After a sign-out nothing of the old identity comes back on the rail.    *)
SignedOutIsEmpty == ~ rail.session => rail.order = <<>>
==============================================================================
