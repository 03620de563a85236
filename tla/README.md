# A verification project for MarketLens

TLA+ models of the parts of MarketLens where money, several actors and failure
meet, the TLC configurations that check them, and TLAPS proofs of what matters
most. Source paths are relative to the repository root; `main.rs` is
`backend/execution/crates/execution-gateway/src/main.rs`, *the EA* is
`backend/bridge/mt5_ea/MarketLensExecutionEA.mq5`, and the other files named
without a directory are those of `frontend/src`.

## 1. Inventory

MarketLens is a charting and trading platform: a Next.js front end, a Go API
(`backend/internal`), a Rust execution workspace (`backend/execution`), bridges
to MetaTrader 5 (`backend/bridge`) and PostgreSQL under all of it.

### Execution and back end

| Component | State | Operations | What is hard | What makes it correct |
|---|---|---|---|---|
| **Command queue and delivery** (`main.rs`) | rows of `execution_target_commands`: status, reject code, lease, `first_delivered_at`, `terminal_ack_at`, deadlines | `enqueue`, `defer_order`, `activate_deferred_orders`, `expire_deferred_orders`, `poll_commands`, `accept_events`, `manage_account` | several transactions per request, leases, deadlines, late answers, a user who disconnects in the middle | a row tells the truth about the broker, its outcome is final, every command settles |
| **EA sessions** (`main.rs`) | `execution_ea_sessions`, pairing tokens | pair, authenticate, expire, revoke | a session is revoked while its requests run | one session per account |
| **MT5 EA** | session token and its cache, command journal (file), event buffer, where it stands in a command | timer: poll, execute, flush; restart | dies at any point; journal unavailable; buffer full; HTTP answer lost | submits a command once, reports what happened |
| **Continuous copier** (`main.rs` 4233-7508, `copier.rs`) | portfolio baseline, work rows with leases, outbox, links | stage, process, reconcile, supersede | work planned from a snapshot that is stale when it runs | a source position has one copy per target, and follows it |
| **Order routing** (`execution-engine`) | none | `route_order`: sizing, rounding, checks | rounding at the edges | quantity within limits |
| **Prop risk guard** (`main.rs` 2479-3593) | day start, floor, lock | evaluate, pre-trade check, emergency close | retried emergency actions | no new risk once locked |
| **Managed VM control plane** (`mt5_vm_*.rs`) and **VM agent** | workers, account leases with generations | assign, heartbeat, fence, disconnect | a worker that comes back with an old generation | one worker per account |
| **Trade authorization** (`internal/tradeauth`) | password, lockout, unlock sessions, single-use tokens, recovery codes | configure, authorize, lock, recover, consume | two services on one table | a token is spent once |
| **Auth sessions** (`internal/auth`) | refresh-token families | exchange, rotate, revoke | two tabs refresh at once, answers are lost | a token is used once, nobody changes user |
| **Alerts** (`internal/alerts`, `alertworker`) | arming revision, events | arm, evaluate, fire | evaluation of a rule edited meanwhile | one event per arming |
| **Replay**, **simulated trading** (`internal`) | actor per session, clock, orders, stored runtime | play, pause, seek, trade, recover | commands against a moving clock | deterministic, no order lost |
| **MT5 stream**, **workspace documents**, **Pine runtime**, **credentials**, **infrastructure**, **migrations**, **BFF**, **tools** | | | | section 8 |

### Front end

| Component | State | What is hard | What makes it correct |
|---|---|---|---|
| **Browser alerts** (`store/alertStore`, `hooks/useAlertEngine`, `BrowserAlertTriggerQueue`) and **push evaluator** (`server/pushAlertEvaluator`) | lists, trigger queue, chains of requests; device row, alert state, channels | two engines and a worker fire the same rule; requests are lost, repeated, late; a process dies after it notified | one notification per crossing and channel, none forgotten |
| **Alert lines**, **technical alerts** | native price lines, strips, drags; cursors and last prices | a strip disappears under the finger; alerts share a last price | lines follow the store; an alert fires at the first crossing |
| **Drawing store** (`store/chartStore`, `drawing/persistence`), **drawing interaction**, **drawing settings** | registry, outbox, loads; gestures and history; dialogs and templates | loads that return late, batches that fail, conflicts, sign-out, reload; two pointers | no edit is dropped; what was done can be taken back |
| **Trade password**, **trading desk**, **order entry**, **risk guard card**, **account rail**, **copier panel** (`components/trade`, `hooks/useExecutionRegistry`, `store/mt5Store`) | prompts of several tabs; registry and orders; ticket; drafts against polls | polls that overtake answers, a save beside an edit, accounts that go away | one prompt at a time, outcomes never go back, nothing unseen is overwritten, the risk sent is the risk shown |
| **Browser session**, **journal**, **watchlists**, **chart tabs**, **saved layouts**, **preferences**, **indicators**, **Pine scripts** (`store/*`, `services/*`) | local copies, queues, server documents | debounced and overlapping writes, sign-in and sign-out between them | what is saved is at the server, what was kept offline survives, no text or document changes hands |
| **Candles**, **feeds**, **chart history**, **chart surface**, **time navigation**, **indicator results** (`store/marketDataStore`, `services/market-data`, `components/chart`) | series flat and chunked, sockets, windows, viewport, scopes of results | reconnections, stale windows, cancelled loads, incremental drawing | the chart shows what was asked for, from authoritative data |
| **Replay in the browser**, **replay start and panes**, **simulator** (`replaySocket`, `replayClientStore`, `tradeStore`) | projection of a session, sockets, command queues; positions and their snapshots | gaps, reordered answers, debounced snapshots beside immediate ones | the replay shown is the server's; a closed position stays closed |

How they interact: the browser calls the Go API, which authenticates, mints
trade authorizations and relays to the gateway's admin port. The gateway writes
commands to PostgreSQL. The EA inside an MT5 terminal polls the gateway over
HTTP, executes at the broker, and posts events and portfolio snapshots, which
acknowledge commands, feed the copier and the risk guard, and activate deferred
orders. The VM control plane starts terminals for accounts it manages and gives
them pairing tokens. The stores of the front end hold what the user sees, keep a
copy in the browser's storage, and bring changes to the API through queues of
their own; hooks and components call them, and each has its own rules about what
a late answer may still change.

## 2. Modules

Every module is one component with its own variables, initial state, actions and
next-state relation; its header says what it abstracts from. `Nothing` stands for
null and undefined. Each front-end module has a counter of steps
(`Max...Steps`) that bounds TLC's exploration and nothing else: actions that the
environment or a user starts take a step, answers and effects mostly do not.

| Module | State | Actions and the code they stand for |
|---|---|---|
| `CommandDelivery` | rows, sessions, HTTP exchange, EAs and broker of one account | below |
| `CommandOutcome` | what delivery promises, with no gateway, wire or EA in sight | |
| `ContinuousCopier` | one group and one target: source snapshots, work queue, drains, outbox, links, reconciliation, the user | below |
| `Alerts` | the lists of `alertStore`, the trigger queue, the chains of `queueAlertSync`, the backend's rows and events | `UserChanges` (add, edit, pause, delete, clear, sign-in, sign-out), `Tick` (engine pass), `AlertsSync` (attempts, retries, answers, reconciliation), `RequestFails`, `WorkerTrigger` |
| `PushEvaluator` | the device row, the alert and its events at the backend, each instance's pass, what was sent | `Pass` (read, evaluate, commit, notify, write back, one action each), `WorkerDies`, `SyncReads`, `SyncWrites`, `BrowserEdits`, `BrowserFires`, `MarketTick` |
| `TechnicalAlerts` | ticks received, cursors, the last price of a symbol | `TickReceived`, `WorkerPass`, `Arm` |
| `AlertDrag` | native lines, strips and presses, alerts of a chart | `LinesAreDrawn` (the effect of AlertLines), `PressStrip`, `MoveFinger`, `LiftFinger`, menu, keys, changes from elsewhere |
| `DrawingSync` | drawings on screen, registry, outbox, request in flight, loads, server rows | `UserEdit`, `RemoteEdit`, `Navigate` (symbol, chart, layout, sign-in and -out, reload), `Sync` (flush, batch, conflict, load) |
| `DrawingEditing` | gesture, pointers, text editor, selection, undo and redo stacks | `Press`, `Lift`, `Cancel`, moves, frames, commands, `Undo`, `Redo`, `ChooseTool`, `ShowChart` |
| `SettingsDialog` | a drawing's fields, the dialog's snapshot, palette, templates | every control of the dialogs and the toolbar, `CancelDialog`, `PressEscape`, `Ok`, template requests |
| `TradeSecurity` | approvals of every tab, the Web Lock, the dialog, the security row | `AuthorizeTrade`, `Approve`, prompts, settings and their answers, `UnlockExpires` |
| `TradeDesk` | registry, account state, order atoms, the link of a drawing, the gateway's outcomes | polls and their answers, `PlaceOrder`, `SendLifecycle`, approvals, replies, `BrokerSettles`, `AccountTurns` |
| `OrderEntry` | ticket, default risk and its replies, dialogs of the rows, what was sent | edits, prefills, `AskDefault` and its answers, `Submit`, `ConfirmLive`, row dialogs |
| `RiskGuard` | the card with draft, polls and saves; the badge; assignment and catalog | load, poll, edit, save and answers; `Evaluate`, `NewCatalog` |
| `AccountRail` | order with optimistic saves, one-shot routes, connection dialogs | three next-state relations, `LayoutNext`, `RoutesNext`, `ManageNext` |
| `CopierPanel` | editor, baseline, polls, requests; the group's revision | load, poll, edit, save, actions, `ChangedElsewhere`, `RegistryChanges` |
| `AuthSession` | identity, tabs, cookies, requests and answers on their way, sessions of the backend | `AuthEvent`, `Ask`, `BackendServes`, `ConnectionFails`, answers, `SignIn`, `AccessExpires` |
| `Journal` | entries in memory, IndexedDB, the server's rows; the load, stage by stage | load stages, `AddEntry`, `UpdateEntry`, `AttachScreenshot`, `RemoveEntry`, `OpLands`, `OpFails` |
| `Watchlists` | lists with sections, a queue per list, creations and patches | edits, drag and drop, `LayoutLands`, `LayoutFails`, `PatchLands`, `ListCreated` |
| `ChartTabs` | document, screen, queue with its conflict copies, identity | edits, effects, `Flush`, `PutAnswers`, `RefreshAnswers`, sign-in, reload, bootstrap |
| `ChartTabs`, second part | saved layouts: rows, active layout, requests under way, the log of the server's rows | load, create, overwrite, default, delete, `AskForLayouts`; `ServeCall` commits, `HearAnswer` hears, in any order; `GiveUp`, and what was given up on may commit later |
| `Preferences` | three sections with queues, the server's document, sign-out in stages | setters, `TimerFires`, `SendBatch`, `BatchLands`, bootstrap, sign-out |
| `Indicators` | registry, passes to the server, browser, settings dialog | edits, `ScheduledPass`, `PassSends`, `PassFails`, scopes, saved layouts |
| `PineScripts` | list, editor, operations under way, charts, public store | save, run, publish, load, favorite, delete, each cut at its awaits |
| `CandleCache` | a series flat and in chunks, the forming candle | `SetCandles`, `UpdateCandle`, `ApplyTick`, resets |
| `MarketFeed` | the catalog, references, sockets and what they serve, timers, polls, of one of four providers | `Subscribe`, `Unsubscribe`, `CatalogReplaced`, socket events, `Watchdog`, `ReconnectFires`, `VerifyAnswers`, `PollAnswers` |
| `ChartHistory` | the hook's refs and requests, the store's series, the chart | `SelectChart`, `RunEffects`, answers of loads, refreshes, older pages, gaps and jumps |
| `ChartSurface` | props, drawn series, frames, viewport, an indicator | what the props can do next, the effects that follow, frames, gestures |
| `TimeNavigation` | shortcuts asked and pending, Go to, zone, marker | clicks and answers |
| `IndicatorRuntime` | scopes, running and waiting requests, results, warm-ups | request stages, retries, seeks, series changes |
| `ReplaySession` | the server's log, projection, sockets, requests under way, command queues | events and gaps, hydration, reconnects, commands and conflicts, activation, close |
| `ReplayChoice` | panes, owners, the bar chosen, the session that follows | layout edits, selection, start, replacement |
| `SimTrading` | positions, snapshots waiting and queued, rows of the server | orders, fills, closes, timers, requests (`LateRequest` commits after its timeout), load at sign-in |
| `Partial` | partial functions: the Maps and keyed lists of the front end | |

| Composition and instances | |
|---|---|
| `MCCommandDelivery`, `MCContinuousCopier` | symmetry; a reachable start with a copy |
| `MCAlerts` | `Alerts` and `PushEvaluator`: the open and the closed browser |
| `MCDesk` | `TradeSecurity`, `TradeDesk`, `RiskGuard`, `AccountRail`, `CopierPanel`, `OrderEntry` |
| `MCWorkspace` | `AuthSession`, `Journal`, `Watchlists`, `ChartTabs`, `Preferences`, `Indicators`, `DrawingEditing`, `SettingsDialog`, `PineScripts` |
| `MCMarket` | `CandleCache`, `MarketFeed`, `ChartHistory`, `ChartSurface`, `TimeNavigation`, `IndicatorRuntime`, `AlertDrag`, `TechnicalAlerts`, `ReplaySession`, `ReplayChoice`, `SimTrading` |

The components of one `MC` module share no state in the code either: each talks
to its own endpoints. A behaviour of these modules is therefore about one of them,
named by the variable `focus`, and a run explores each in turn; a property of two
components of one kind is their conjunction (`ChoicesLand`, `SavedIsAtTheServer`,
`EditsCanBeTakenBack`, `ChartShowsWhatWasAsked`, `ReplayStaysTrue`, `CardKeepsUp`).

### How CommandDelivery corresponds to the code

*Rows.* `status`, `rejectCode`, `firstDelivered`, `terminalAck`, `lease`,
`leaseOwner`, `ttl`, `nextAttempt`, `deliverBy` are the columns, per command.
A timestamp is a countdown (ticks until it is reached, 0 once it has been), so
`lease_expires_at <= now()` is `lease = 0`, and `ttl` stands for
`COALESCE(first_delivered_at, next_attempt_at, created_at) + COMMAND_DELIVERY_TTL`:
it is set when the row is queued and again by the first lease. `status = "none"`
is a row that does not exist. The statuses `ready`, `submitted`,
`partially_filled`, `filled` and `cancelled` of the CHECK constraint are written
by no statement of the gateway.

*One SQL transaction is one action*, except where the code itself is several
transactions or where PostgreSQL's read-committed rules make one statement see
two states:

| Action | Code |
|---|---|
| `Admit`, `Enqueue` | `enqueue`. Its first statement reads `connected` by an EXISTS and takes the account's row lock; while it waits for the lock a disconnect can commit, and PostgreSQL re-reads the locked row only. Hence two actions |
| `DeferOrder`, `ExpireDeferredOrders` | `defer_order`; the sweeper |
| `Disconnect(remove)` | `manage_account` |
| `Pair(t, answered)`, `ExpireSession` | `RegisterSession` and `create_database_session`; `expires_at` |
| `Poll`, `PollLost`, `PollUnauthorized` | `PollCommands` and `poll_commands`: expire, lease, stamp, one transaction. `PollLost` is the poll whose answer never arrives; it may commit while the EA already does something else |
| `ReplayOutcome`, `Reconcile`, `RejectLocally`, `JournalSubmitting`, `OrderSend`, `RecordResult` | `ExecutePlaceCommand`, `SubmitDirectCommand`, `ReplayRecordedOutcome`, cut where the terminal can die |
| `Crash`, `DropOldestEvent` | `OnInit` after any stop; `BufferEvent` at its limit |
| `Flush`, `LoseRequest`, `Timeout` | the three flushes; the fate of a request |
| `Authenticate`, `PersistEvents`, `LeaseDeferred`, `Activate`, `FailRequest`, `Respond` | `accept_events`, transaction by transaction. A request outlives the EA's patience (`live = FALSE`) and even its session |
| `Tick` | time |

*The EA* blocks in `WebRequest`, so a terminal has at most one live request;
requests it gave up on go on in the gateway. The journal file and its copy in
memory are one variable: they are written together, and differ only after 4096
commands.

*External.* The broker takes or refuses an order and answers truthfully;
`FindBrokerOutcome` finds nothing that is not there and may miss what is. Two
commands have different 31-character comments (ids made by the gateway are
hashes short enough to fit).

### How ContinuousCopier corresponds to the code

*Identities.* Item `i` is the i-th row of `execution_copy_work_items` in the
claim's order (`created_at`, `id`). It has at most one outbox row
(`execution_copy_command_outbox`), one command and, if it places an order, one
ticket at the target's broker; all of them are called `i`, and 0 is NULL. The
number of a link is its target leg. A lease is `live` or `expired`; the back-off
(`available_at`) needs no clock, since a claim may come at any time after. A
group is `running` (any `runtime_status` the conditions do not name), `paused` or
`error`.

*One SQL transaction is one action.* A drain
(`process_continuous_copier_work`, run after every committed event batch of
either account) is a process with a program counter, because between its
transactions it holds no lock: everything it read may be stale when it writes.

| Action | Code |
|---|---|
| `SourceChange` (`Snapshot`, `Stage`) | the diff of a complete source snapshot, `stage_continuous_copy_changes`, `supersede_unissued_copier_predecessors` |
| `Claim` | the claiming UPDATE of `process_continuous_copier_work` |
| `Plan` | `execute_continuous_copier_work` up to its first write, with what it calls to read: staleness, the link queries, `route_order`, the first half of `reconcile_continuous_copy_target` |
| `Persist`, `Enqueue`, `QueueFull`, `Publish` | `persist_copier_outbox`; `enqueue` behind the copier's gate; its back pressure; `publish_copier_outbox` |
| `Adopt`, `Complete`, `Supersede`, `Fail` | the UPDATE of `reconcile_continuous_copy_target`; `complete_`, `supersede_` and `fail_continuous_copier_work` |
| `Acknowledge`, `AcknowledgeUnknown`, `Resolve` | the terminal's outcome and the copier's part of the event transaction (`OutboxAfter`, `LinksAfter`) |
| `ExpireCommand` | `poll_commands` and `manage_account` ending an undelivered command |
| `TargetFills`, `BrokerCloses`, `TargetSnapshot` | the target's broker (external), and its rows after a complete snapshot |
| `ReconcileRead`, `ReconcileWrite` | `reconcile_continuous_copy_group`: one SELECT, then UPDATEs by link id that do not repeat its conditions. Under read committed, another transaction can commit in between: hence two actions |
| `Pause`, `Resume`, `Archive` | `copy_group_action` |
| `Crash`, `LeaseExpires` | a restart of the gateway; 30 s |

The items of one change are inserted in one transaction, have the same
`created_at` and random ids: `Arrangements` gives them every order. The life of
the command itself (lease, delivery, deadline) is `CommandDelivery`; here it is
queued, unknown, accepted, failed or expired.

*Left out*: quantities, and with them the increase and the partial close;
target-local protection; source filters and copy options (all options on);
enabling and disabling a target; a trade transaction that arrives in another
batch than its acknowledgement; positions at the target that are no copies.

## 3. Runs

| Run | Module | Instance | Shows | States |
|---|---|---|---|---|
| `delivery` | `MCCommandDelivery` | 1 command, 1 terminal, 3 sessions, 2 faults, 1 disconnect | types; a terminal submits once; accepted rows are at the broker; undelivered rows are in no EA's hands; outcomes are final; closed and ambiguous rows are never handed out again | 355,000 |
| `promise` | | 2 commands, 1 terminal, 1 fault | the system implements `CommandOutcome` | 369,000 |
| `liveness` | | 1 command, 1 fault, fairness | every command settles or is flagged | 26,000 |
| `two_terminals` | | 2 terminals, 1 fault | *violated*: a command is at the broker twice | |
| `copier_adopted` | `MCContinuousCopier` | a copy exists or an order was placed, 2 drains, 2 more items, 1 fault, 1 user action | commands leave in queue order; superseded work is never issued; finished work stays finished | 1,087,000 |
| `copier_liveness` | | 1 entity, 1 drain, 2 items, 1 fault, fairness | the head of the queue is always finished | 31,000 |
| `alerts` | `MCAlerts` | open browser: 2 alerts, 2 changes, 1 fault; closed: 1 alert, 2 channels, 1 edit, 1 mishap | one notification per crossing and channel; nothing stays in flight or owed | 383,000 |
| `drawings` | `DrawingSync` | 1 drawing, 2 symbols, 2 edits, 2 moves | no mutation is dropped, the queue drains | 454,000 |
| `desk` | `MCDesk` | 2 tabs, 2 accounts, 1 command, 3 to 5 steps | one prompt; drafts survive polls; the risk sent is the risk meant; outcomes and orders end up shown; only seen revisions are replaced | 513,000 |
| `workspace` | `MCWorkspace` | 2 tabs, 2 users, 3 to 5 steps of each component | tokens are used once; what was kept offline survives; lists, documents and choices end up at the server; edits can be taken back; sources stay with their scripts | 1,232,000 |
| `market` | `MCMarket` | 2 markets, 3 to 5 steps of each component | chunks are never seen; streams follow references; only authoritative windows; the chart shows what was asked for; lines follow alerts; alerts fire at the first crossing; no result from beyond the cutoff | 1,240,000 |
| `replay` | `MCMarket` | 2 sessions, 3 events, 1 simulated position, 3 to 5 steps | the replay is the server's; a closed position stays closed | 1,344,000 |

Runs of `CommandDelivery` check deadlock. The others do not: with an empty queue
and the bounded changes spent, a component rests.

*Bounds of the delivery.* A lease of 1 and a deadline of 2 ticks make redelivery
within the deadline, expiry after delivery and expiry without delivery all
reachable; the deferral window of 2 lets activation and expiry race. Two faults
are what the deepest scenarios need (a lost answer and then a crash; a request
that times out and then another). Three sessions allow two re-pairings while an
old request still runs. Two event batches in flight let a late batch overtake a
newer one. Two commands share a batch and compete for a slot. Every bound is a
constant (`MaxFaults`, `MaxDisconnects`, `MaxInFlight`), and the proofs do not
depend on their values.

*Bounds of the copier.* Two items are the least that have an order, and two drains
the least that can hold one item at once (an expired lease, a late drain).
`MaxAttempts` is 2 instead of 12, so that a retry and a dead letter both occur.
One fault is a crash, a lease that expires under a live drain, an undelivered
command, an unknown outcome or a close at the broker. `AdoptedSpec` starts from
`Adopted`, a copy that was adopted from a filled pending order, or from `Placed`,
an order just placed; TLC finds `Adopted` reachable from `Init` in 21 states.
From an empty group the code never binds a placed order's command to its outbox
row (section 5), so the only copies the program can have are adopted ones, two
items and twenty steps away.

*Bounds of the front end.* Each property speaks of two or three things that
interleave (an edit, its request, and a sign-out or a second edit), and every
component gets at least the steps that its deepest mutant needs, usually one
more: the listed mutants are all found under these bounds. Two users, two tabs,
two markets or two alerts are enough for one to be confused with the other;
channels, workers and sessions are as many as the code tells apart. The simulator
needs five steps and one position: a price, an order, a candle
that marks it (a debounced snapshot), its close, and a request that is given up. Saved layouts have four steps: two calls, one
given up on, and a bootstrap. One reconciliation of an alert waits in its chain
(`MaxReconciles`), and ticks go to three, so that the worker's event, a later one of
the engine and a crossing within the gap of both have their moments. The theorems of section 4 have no bounds.

*Symmetry* is used for the delivery's and the copier's safety only: ids are
compared for equality.

*Fairness.* `GatewayFairness`: time passes, axum serves requests it has read, the
sweeper's tokio task ticks. `TimerFairness`: `OnTimer` polls and then flushes in
every cycle, so neither can starve the other; each may be disabled again and
again by the other, hence strong fairness for both. `PairingFairness`: an EA
without a session gets a token, which managed terminals fetch by themselves.
The copier's `Fairness`: a batch or heartbeat of either account drains the queue,
reconciles the group and drains again (main.rs 4207-4230), so a drain that runs
goes on, a claimable item is claimed, a reconciliation begins and ends; a
terminal reports the commands it was given; target snapshots keep coming; the
lease of a dead drain runs out. Alerts: what the queue of triggers, the chains and
the reconciliation have begun goes on (timers and promises), and the evaluator
keeps passing (its interval). Drawings: the queue's timer fires, requests are
answered or fail, loads return. Desk: the polls of the registry are repeated and
answered, orders are answered, the saves of the rail settle and its poll goes on.
Nothing is assumed of users, the source or the broker, and faults are bounded,
not fair.

## 4. What is proved

TLAPS proves these for every value of the constants: any number of commands,
terminals, tabs, accounts, users, scripts, markets or symbols, and any number of
steps. The assumptions are named in the modules and checked by TLC in the runs:
`ConstantsAssumption`, `CopierAssumption`, `EntryAssumption`, `DragAssumption`,
`ChartedAssumption`, `FeedAssumption`, `TechnicalConstants`, `DrawingConstants`,
`PushConstants`, `SettingsConstants`, `SurfaceConstants`, `RuntimeConstants`,
`SessionConstants`, `ChoiceConstants` and `NavConstants` say that numeric
constants are numbers and sets contain what their names say (an instrument has a
smallest volume and a step above zero); `NothingIsNoTab`, `NothingIsNoToken` and
`NothingIsNoNumber` that null is not a tab, token or number, `DrawingConstants` that
it is no drawing, operation or row, `PushConstants` that it is no definition,
delivery or state and that the evaluator instances are finitely many,
`SettingsConstants` that it is neither a drawing nor a list of points,
`SurfaceConstants` that it is no identity of a Replay run, `ChoiceConstants` that it
is no session.

**Delivery** (`CommandDeliveryProofs`).

| Theorem | States | Along which argument |
|---|---|---|
| `TypeCorrect` | `Spec => []TypeOK` | one lemma per group of actions |
| `SubmittedOnce` | `[]AtMostOncePerTerminal` | `JournalInv`: what is at the broker is in the journal, and a command about to be sent is journalled and not yet sent. The property alone is not inductive: from a state with the order placed and the journal empty, a redelivery would send again |
| `FinalOutcomes` | `OutcomeIsFinal` | `RowInv`: a closed row has a closed status and a waiting row has no code, so that no UPDATE of the sweeper, the activation or a batch matches a closed row; `RowCourse` is what one step may do to a row |
| `NoReplay` | `NeverRedelivered` | `RowCourse`, and that only a poll fills an inbox, from rows that are `Deliverable` |
| `UndeliveredIsUnseen` | `[]UndeliveredNeverExecuted` | the property with "no event of a batch names it" is inductive, since a lease stamps the row in the transaction that hands it out |
| `AcceptedIsTrue` | `[]AcceptedIsExecuted` | `AcceptedInv` follows the word "accepted" from OrderSend through journal, buffer and batch to the row |
| `RefusedIsUnsent` | `[]RejectedNotExecuted`, for one terminal and a journal that can be written | `RefusalInv` follows the word "rejected" in the same way, and says that the journal remembers it, so a redelivery only repeats it |
| `PromiseKept` | `Spec => KeepsPromise`: `Spec` implements `CommandOutcome`, for one terminal, a writable journal and no disconnect | `DeliveryInv` (an inbox holds rows that were delivered in time), `ClosureInv` (why a row is closed), the two invariants above and `Undisturbed` (nothing was stopped by a user). Each action maps to opening, execution, verdict, expiry or a stutter of one command: `PlaceSteps`, `VerdictSteps`, `OpeningSteps` |
| `PendingStaysBounded` | `[]PendingBounded`, for a finite set of commands | cardinalities: a step opens one row at most, behind the count of `enqueue` or of the activation |

The hypotheses of `PromiseKept` are what the code needs, not what the proof needs:
with a second terminal, an unwritable journal or a disconnect the promise is
broken (section 5). `RejectedNotExecuted` and `PendingBounded` are in no run, the
first because it follows from `KeepsPromise` on the instance of `promise`.

**Copier** (`ContinuousCopierProofs`): `CommandsInOrder` (`[]Serialized`),
`SupersededStaysUnissued` (`SupersededNeverIssued`), `FinishedIsFinal`
(`FinishedStaysFinished`). All three rest on `QueueInv`. `Serialized` is not
inductive: the state in which a drain stands before `Enqueue` with an open item
ahead of it satisfies it. What the claim establishes must therefore outlive the
claim: once an item was *ever* claimed, everything before it is finished and
settled for good (`ClaimedInOrder`, over `attempts`, which only grow). That
needs, in turn, that nothing reopens a settled outbox row. `persist` and `fail`
write a row only while its item is open; an unknown outcome sets it back to retry
only if the row is bound and its command had no outcome, and `CommandInv` says
that such a row is published, hence in flight already. `DrainInv` ties each drain
to an item it claimed, a persisted row and an issued command; `UnstagedInv` says
that staging never overwrites an item. `Course` is what one step may do to an
item, and gives the two action properties.

**Desk** (`DeskAndDrawingProofs`).

| Theorem | States | Along which argument |
|---|---|---|
| `OnePrompt` | `SecuritySpec => []OnePromptPerBrowser` | `PromptInv`: the tab whose approval is past the lock holds it, and only a prompt on screen is typed into |
| `CardKeepsUpAlways` | `GuardSpec => []CardKeepsUp` | `CardInv`: a poll under way was started after the last confirmed save, since a save cleans up the polls before it |
| `SavesReplaceSeen` | `CopySpec => SavesReplaceWhatWasSeen` | `SeenInv`: the revision in a request is that of the draft's baseline, and every baseline has been shown |
| `OrdersRiskMeant` | `EntrySpec => []OrdersRiskWhatWasMeant` | `EntryInv`: a reply of an earlier account carries an earlier epoch, and the risk in an order is the ticket's of the moment it was built; volumes that were floored to the step stay below the risk that was read, which is 1% of a field that was emptied. Products of small integers are lemmas of their own |

**Workspace** (`WorkspaceProofs`).

| Theorem | States | Along which argument |
|---|---|---|
| `SingleUse` | `AuthSpec => []TokensAreSingleUse` | `AuthInv`: every token is a session, one call per tab is under recovery, and `Descended`: a session something was rotated from is dead and has one descendant of the same user |
| `IdentityKeptByExchanges` | `AuthSpec => []ExchangesKeepTheIdentity` | the same invariant; the property is in no run |
| `EntriesSurvive` | `JournalSpec => []OfflineEntriesSurvive` | `JournalInv`: while a load is under way, what it has read, what it holds and what is stored cover between them every entry kept (`RowsAreCarried`) |
| `SourcesBelong` | `PineSpec => []SourceBelongs` | `PineInv`: each operation under way carries the identity and the text it was called with, and ends with them |
| `SavedIsKept` | `MCSpec => []SavedIsAtTheServer` | `PartsOfWorkspace` (a step of the workspace is a step of each part or leaves it alone), then for the tabs `TabsInv` (a revision names one document, so a save that is answered at the revision it was based on stored what the tabs hold) and for the layouts `LayoutsInv` (an answer not heard yet tells of one commit in the server's log and of what it did to the rows before it, `TellsOf`; heard in turn, it does the same to the rows of the menu, and heard out of turn it leaves `crossed`) |
| `ChoicesReachTheServer` | `MCSpec => []ChoicesLand` | For the settings `LastWord`: what is pending on a key, else the last batch that has it, else the document, is the choice on screen; each step of the queue keeps it. For the indicators `IndicatorsFollow`: what is queued is what the registry says, and what is not queued is settled once the pass has made its calls |
| `SettingsTakenBack` | `SettingsSpec => []SettingsCanBeTakenBack`, a conjunct of `EditsCanBeTakenBack` | `SettingsInv`: no field of a drawing is kept undefined (`CanvasWhole`), so that the patch back to a snapshot, which sets what changed and clears what was added, gives the snapshot (`RevertGivesSnapshot`); the snapshot is the drawing when its dialog opened; and every command that is or was in the history holds, for each field it sets, what that field was before (`HistoryTakesBack`), through undo and redo. The property alone says this of the newest command only, which an undo would break |

**Chart and market** (`MarketProofs`; the lemmas on partial functions it shares with
`WorkspaceProofs` are in `Partial`).

| Theorem | States | Along which argument |
|---|---|---|
| `LinesFollow` | `DragSpec => []LinesFollowTheStore` | `DragInv`: a line was drawn at the price its key has, a grip that is heard is of an alert that is there, a missing line's alert is gone |
| `OnlyAuthoritative` | `HistorySpec => []OnlyAuthoritativeWindows` | `HistoryInv`: every series in the store is authoritative, and the refresh loop is of an MT5 market unless a selection is yet to be rendered |
| `StreamsFollow` | `FeedSpec => []Mt5StreamsFollowReferences` | `FeedInv`: references, subscriptions and wanted symbols agree; an open socket serves the wanted ones, a connecting one nothing. Symbols that were subscribed or given up while the catalog did not have them are in `missed`, and the property is about the others |
| `FirstCrossingFires` | `TechnicalSpec => []FiredAtTheFirstCrossing`, for an alert alone on its symbol | `TechnicalInv`: the price, the time and the cursor a pass leaves behind stand for all ticks seen since the alert was armed (`PassGoesOn`), so that looking on from there finds what looking through all of them would (`FindContinues`); a state that expired has only ticks past the end to come (`NothingAfterExpiry`). TLC checked `TechnicalInv` first (161,598 states) |
| `RuntimeIsServed` | `RuntimeSpec => []IndicatorsAreServed` | `RuntimeInv`: what a chart needs of a scope (a result, a request, a failure to be retried) is there for every chart that is not about to render. Charts that share a scope are at the same position (`SharedPosition`), so that one's request replaces nothing another waits for; what a chart gives up is cancelled only if no other has it; a request that ends tells its charts. TLC checked `RuntimeInv` for two charts (1,324,405 states) |

The hypothesis `OneAlert` of `FirstCrossingFires` is what the code needs: alerts of one symbol
share a last price, and with two of them the property fails (section 5). The
minima and maxima of its ticks rest on `Least` and `Greatest` of `Partial`, which
follow from the order of the naturals being well founded.

**What a chart shows** (`ChartProofs`).

| Theorem | States | Along which argument |
|---|---|---|
| `SurfaceIsDrawn` | `SurfaceSpec => []SurfaceShowsData`, a conjunct of `ChartShowsWhatWasAsked` | `SurfaceInv`: what was pushed last stands for the candles (`PushedFor`): the same ones, or, when Replay was paused in an animation, those up to the candle that was growing. While one grows the series ends with it (`Grows`); the lookup is empty as mounted and that of the candles from the first change on. In Replay the series may lag behind what was pushed; what makes leaving it draw everything is that candles are compared by identity and the window that comes then has other ones from the first on (`Continues`; `createReplayCandleProjector` makes its own), so that the plan replaces. TLC checked `SurfaceInv` first |
| `JumpsLand` | `NavSpec => []JumpsToTheMomentAsked`, its other conjunct | `NavInv`: the bars at hand are the latest ones of their series, so that the first among them from a time they cover on is the first of the series; and what waits to be jumped to is that first bar, of the moment the four refinements of the zone's offset reach (`ParsedIs`: one of the two offsets stays as it is). `SearchFinds` shows of the binary search that it finds where the bars begin that are late enough, by induction over the width of the window. TLC checked `NavInv` on the run `market` first |
| `ChartIsTrue` | `MCSpec => []ChartShowsWhatWasAsked` | both, since a step of the market is a step of each part or leaves it alone (`PartsOfMarket`) |
| `BarsAreTheLogs` | `ReplaySpec => []BarsFollowTheirEvents` | `ReplayInv`: the bars on screen fit the position on screen (`Fit`), that is, when no reset is left in the log after it, nothing before it is missing and nothing is shown that the log has not revealed; or the refresh or the hydration that will make them fit is under way. A socket handles one message at a time and a session is created once (`OneAtATime`), so no older answer is left behind; the batch a socket applies after a gap keeps `Fit` event by event, or meets a reset and asks for a hydration (`FitNext`) |
| `ReplayIsLaidOut` | `ChoiceSpec => []ReplayFollowsLayout` | `ChoiceInv`: a runtime that is not dirty, has heard of the layout and replaces nothing shows the session the panes ask for, and whatever changes while it is being replaced leaves it dirty or unheard until the effect looks again. That a session has as many tracks as panes are counted needs cardinalities |
| `ReplayIsTrue` | `MCSpec => []ReplayStaysTrue` | both, in the same way |

`ReplayStaysTrue` alone is not inductive: it speaks of the moments when nothing is
left to hear, and says nothing of a gap that is being fetched. TLC checked `ReplayInv`
and `ChoiceInv` on the run `replay` first.

**Drawings** (`DeskAndDrawingProofs`).

| Theorem | States | Along which argument |
|---|---|---|
| `NoMutationLost` | `Spec => []NothingDropped` | `QueueInv`: local storage holds the queue's snapshot in every state; a request under way carries the operations the queue calls in flight, however often it was rebased (`WireCarriesFlight`); and once it is answered, a drawing whose last operation was in it is applied or has a newer one pending (`RepliesAreSettled`), so that the queue may forget it |
| `ScreenIsStored` | `Spec => []ViewMatchesRegistry` (in no run) | `ChartInv`: every path writes the screen back to the registry or reads it from there. A change of context merges the two first; the invariant says that this merge changes nothing |

The proof corrected the model: `Applied`, a row after an operation, was a CASE with
arms that overlap, whose value TLA+ leaves open where TLC takes the first. Such arms
were made disjoint here, in `ChartSurface` and in `Watchlists`.

**Alerts** (`AlertsProofs`).

| Theorem | States | Along which argument |
|---|---|---|
| `OneNotice` | `AlertsSpec => []NotifiedOnce` | `AlertsInv`, below |
| `NoticesAreCommitted` | `AlertsSpec => []NotifiedIsCanonical` (in no run) | the same invariant |
| `ChannelsToldOnce` | `PushSpec => []DeliveredOnce` | `PushInv`, below |

A notice is far from the state that decides it: the crossing was seen by the engine,
waits for a retry, travels in a chain that a sign-out may have forgotten, is
judged by a row that has moved on, and its answer is read by an engine that may
have been disposed. `AlertsInv` says at each of these places how far the crossing
is from what was notified of its arming revision. `BackendInv`: the events of a
revision fit the row at that revision (a one-time alert has one and its row is no
longer active), and a creation leads its chain and finds nothing. `FlightInv`: an
alert is in one list, at most one request of it is *live* (its answer will be
heard), and none is of a later revision than the alert. `LocalInv`: without a
session the one request settles before anything else happens to the alert, so what is
recorded as its firing time is the last notice. `GapInv`: the next crossing of an
enabled alert, the one that waits, those in live requests and every pair of
notices keep `Rearm` apart, or the firing time was lost in between
(`Disturbed`); a reconciliation notifies nothing, and one that moves a firing time
back is itself such a loss. Each step is one of a few kinds (one alert settles, a chain advances,
lists change, nothing but bookkeeping), and each kind keeps each part. Before the proof
TLC checked `AlertsInv` for one alert.

`DeliveredOnce` speaks of one instance that does not die, on canonical listings and an
alert nobody edits. Then only that instance writes the device (`Undisturbed`), and
`PushInv` says what it may still send. What was sent lies at or behind the cursor of
the state kept, so that a match, which is after the cursor, is new. A candidate kept
for a retry (`try`) was not sent at all: the request that failed came before any
channel. A delivery kept has exactly the channels that were not told yet
(`OwesRightly`). What was sent is committed, or the alert is no longer active
(`Recorded`), so that a listing without a kept state starts behind it. The lemmas
`MergeKeeps`, `MergeOwes`, `MergeSame` and `MergeEnds` show that the merge with the
stored device, which is there for other writers, keeps what this writer meant: the
state, the channels that failed, the state as read, and nothing once a kept delivery is
complete. TLC checked `PushInv` before the proof, with three mishaps and three ticks.

Only model-checked: every liveness property (`EventuallySettled`, `HeadFinishes`,
`AlertsSettle`, `OwedDrains`, `Drains`, `CommandsFollowOutcomes`,
`RailEndsAsServer`: fairness is out of the prover's reach), and
these safety properties, which speak of what a fold, a recursive definition or a
whole history computes: `LayoutsConverge`, `HistoryUnwinds` (the other conjunct of
`EditsCanBeTakenBack`), `ChunkingIsInvisible` and `ServerNeverReopens`.
Arguments by a least number are within the prover's reach: `Reaches` is induction
over the naturals stated of a set, and with it the binary search of "Go to" is shown
to find what it should for every series. The same would have to be done for stacks
of commands and for chunks, whose recursions run over more than one number.

## 5. What the checks say about the code

Delivery is sound where its design says so: the journal-before-send rule, the
lease that stamps `first_delivered_at`, and UPDATEs that repeat their conditions
together give at-most-once submission by a terminal and truthful final outcomes
under every interleaving. The copier's queue is sound in the same way: its claim,
its outbox and the gate of `enqueue` keep order and supersession under late
drains. The queues of the front end lose nothing that was handed to them while
their identity lasts; most of what goes wrong does so at a change of identity or
when a request is read before an edit and applied after it.

One statement of the repository is refuted by a run: the journal does not protect
an account that moves to another terminal (`two_terminals`, in "findings").

Statements the modules make and the code does not keep. No run checks them; each
can be put into a configuration as it stands, and TLC shows the behaviour:

| Property | Module | What happens |
|---|---|---|
| `DisconnectedNotExecuted` | `CommandDelivery` | a disconnect closes delivered commands as not executed (main.rs:1476, 1512) |
| `OutcomeReachesOutbox` | `ContinuousCopier` | a placed order is stored under another id than `publish` is given: its item ends as a dead letter and its outcome is recorded neither in the outbox nor in the link |
| `ReductionsWhilePaused` | `ContinuousCopier` | a close in a paused group waits behind an item the pause does not let run |
| `OutboxSettles` | `ContinuousCopier` | an acknowledgement between `enqueue` and `publish` leaves the row published for ever and blocks the target |
| `OwedUntilSent` | `PushEvaluator` | a sync of a newer trigger overwrites an owed delivery |
| `LogoutPreservesWork` | `DrawingSync` | signing out queues deletes of what is on screen, and the next session sends them |
| `CloseAllSplits`, `ClosedLinkStays` | `TradeDesk` | Close All asks for all approvals at once and all but one are refused; a link closed with its position runs again at the next poll |
| `SignedOutIsEmpty` | `AccountRail` | the answer to a reorder that comes after the sign-out puts the old user's order back (`TradeWorkspace.tsx:314`) |
| `PollKeepsNewer` | `CopierPanel` | a poll that started before a mutation and answers after it puts the older view back until the next poll |
| `SignedOutIsRevoked`, `BackendSessionIsTheirs` | `AuthSession` | a sign-out whose recovery fails leaves the session live; a late exchange sets the flag for another identity than the cookies' |
| `FrozenOnlyForTheDrag` | `AlertDrag` | an alert that leaves under the finger leaves the chart frozen and the scale unfitted |
| `NotifiedOnce` without `Disturbed` | `Alerts` | a recurring alert is notified twice within its re-arm gap: switched off and on while its trigger is in flight it keeps no firing time (`alertStore.ts:581`); a reply to a chain that sign-out forgot, or to a disposed engine, writes an earlier firing time over a later one (`alertStore.ts:660`); so does a reconciliation of a worker's event that waited behind the engine's own trigger (`usePushTriggerReconcile.ts:50-74`, `alertStore.ts:608`) |
| `Mt5StreamsFollowReferences` without `missed` | `MarketFeed` | a subscription is dropped while its symbol is out of the catalog and the reference counted; one that is given up then keeps streaming (`MarketDataService.ts:189`, `220`) |
| `SurfaceShowsData` without `AsMounted` | `ChartSurface` | a chart mounted with its candles draws them and finds none under the crosshair until the first change (`PriceChart.tsx:901`, `1244`) |
| `LayoutsFollowServer` without `crossed` | `ChartTabs` | two answers heard in reverse, or a timed-out call that the server commits, leave the menu different until the next bootstrap; so does an overwrite sent before its layout was made the default: the server takes the flag away and the menu keeps it (`layoutStore.ts:129`) |
| `FiredAtTheFirstCrossing` with two alerts | `TechnicalAlerts` | alerts of one symbol share a last price and pair their next tick with another alert's |
| `OnlyActiveSession` | `ReplaySession` | a handler that waits for bars is not stopped with its socket: it puts the old session back, and nobody closes the one started meanwhile (`replaySocket.ts:165`) |
| `TabsStayWithTheirUser` | `ChartTabs` | when the second user's bootstrap fails, or a GET after a conflict fails behind a sign-out, the first user's document is saved for the second |
| `LoadsUntilAuthoritative` | `ChartHistory` | the loading state set for a window that is not authoritative is undone by the mirror effect, which sees an empty series (`useMarketData.ts:209`) |
| `RevealedIsDrawn` | `ChartSurface` | the speed slider restarts a burst and the growing bar keeps half its values |
| `DeletesWhatWasNamed` | `ChartTabs` | the delete dialog names one layout and deletes the one active when it is accepted |
| `ServerNeverReopens` without `behind` | `SimTrading` | a sign-in reads the rows while requests of the earlier session are under way; the position it shows open is closed a second time |
| `ServerNeverReopens` without late requests | `SimTrading` | a snapshot given up after 15 s is committed after the close of its position (`client.ts:69`): upserts carry no version (`simtrading/repo.go:172`) |

Further behaviours met while modelling:

- a rejection the EA could not journal may be overtaken by the execution it
  denies after a redelivery (hence the hypothesis of `RefusedIsUnsent`);
- a delivery deadline is enforced by polls alone, so the commands of a terminal
  that stopped polling stay open; and an outcome that left the EA's full buffer
  is not replayed once the deadline has passed;
- an accepted event for a row that a disconnect stopped is refused with 409 for
  ever, and the batch is all or nothing, so the buffer never drains (`EventsDrain`
  holds without disconnects);
- a reconciliation that finds neither order nor copy ends a pending link whose
  command is still out; the order can then be copied a second time, although
  `docs/MT5_TRADE_COPIER_PLAN.md:750` says "never blindly create a market
  replacement";
- the two items of a replaced order run in a random order, and a replacement that
  is first waits for a cancellation the queue keeps behind it;
- the end of a save of a script shows its own text in the editor, over what was
  typed or loaded meanwhile; the answer of a save or a favorite puts a deleted
  script back into the list; two quick saves of a draft make two scripts;
- a failed pass of the indicators puts everything it took back over what was
  queued since; passes are not serialized;
- a symbol chosen while the final write of a sign-out is awaited loses its marker;
- the answer to a template's save puts back the template that was deleted;
- the guard of a drawing load is not cancelled at sign-out (`chartStore.ts`
  1844-1880), and two `setRemoteActive` calls of the watchlists may land in
  reverse (`watchlistStore.ts:244`);
- the evaluator's cursor of an alert that was edited and not synced starts over in
  every pass, and starts from the browser's clock (`pushAlertEvaluator.ts`
  396-418);
- a new layout takes the chart it belongs to before the await that creates it, and
  making a layout the default sends the state from before (`layoutStore.ts`
  263-296);
- the ticket reads an emptied risk field as 1% while it shows the default of the
  account, which may be smaller, as the placeholder (`OrderTicket.tsx:132`, `154`,
  `502`); `docs/PROP_RISK_GUARD.md:71-73` has 0.1% for accounts without an
  assignment that is known.

## 6. Plan

Done: the delivery with its promise proved, the copier's queue, and the front
end's components with the theorems above. Next, in this order:

1. Proofs: `ShownIsSelected`, then `TypeOK` of the copier.
2. `ManagedLease`: workers, generations, fencing. At most one worker drives an
   account; an old generation changes nothing.
3. `TradeAuthorization`: settings row lock, single use, consumption by the gateway.
4. `PropRiskGuard`: evaluation against enqueue; no new risk once locked.
5. `ReplayActor`: clock, commands and recovery. `StreamFanout`: reconnect with a gap.
6. `Routing`: `route_order` as operators against a reference over bounded inputs.
7. `ContinuousCopier`: quantities, and positions at the target that are no copies;
   then convergence of links and portfolios as a property.

## 7. Running

`tlc -config Delivery.cfg MCCommandDelivery`, `tlc -config Desk.cfg MCDesk` and so
on: a configuration's module is in `PROJECT.json` under "runs", next to the
mutants (for each property a plausible bug it catches), the map from definitions
to source lines, the findings, hazards and theorems. `tlapm` on `Partial` and on each module
whose name ends in `Proofs`.

## 8. Not modelled, and why

*In modelled components*: retry back-off of the EA (it delays a step the model may
take at any time); audit rows; the parent command's status, which is written and
never read; margin and sizing arithmetic of the gateway; snapshots and telemetry;
the in-memory store of the gateway, which production does not use. Formatting,
translation, geometry, layout and animation of the front end; numbers are small
integers where only their order or their rounding matters. A second tab that uploads
its copy of a simulated position (one tab is modelled); the covered preview of a
multi-chart layout and a chart mounted without extent (`PriceChart.tsx:774`).

*Whole components*: order routing, the managed control plane and its agent, the
consumption of trade authorizations, the gateway's risk guard, the replay actor,
the MT5 stream (all in the plan); the interpreter of Pine scripts and rendering
(sequential, pure); credentials and cryptography; the BFF (a relay);
infrastructure packages, migrations, tools and deployment scripts (no state of
their own or pure I/O); generated code.
