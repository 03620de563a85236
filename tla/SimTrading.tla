----------------------------- MODULE SimTrading ------------------------------
(***************************************************************************)
(* tradeStore, tradeEngine and useSimTradingPersistence: the simulator's   *)
(* positions and equity in the browser, and the account and rows that the  *)
(* sim endpoints keep.  Positions reach the server as whole snapshots: a   *)
(* debounced timer per position, and one queue of requests per account.    *)
(*                                                                         *)
(* Prices are 1, 2 or 3 and a position starts with two units.  The server  *)
(* derives the equity of an account from its rows.                         *)
(***************************************************************************)
EXTENDS Partial, Integers, FiniteSetsExt

CONSTANTS
  SimId,         \* identities of positions, each used once
  SimSymbol,     \* the symbols a chart can show
  MaxSimSteps    \* bound: orders, closes, candles, resets, sign-ins, failures

VARIABLES
  sim,           \* the browser: user, owner (activeSimOwner and account),
                 \*   positions, equity, price, symbol, used (ids), journal
  simDb,         \* the server: rows, buried (ids a reset deleted; history)
  simSync,       \* timers, queue, late (requests given up that the server may
                 \*   still commit), load (loadSimTrading); history: faulty, and
                 \*   behind, loaded while its requests were under way
  simSteps

simVars == <<sim, simDb, simSync, simSteps>>

SimStep == simSteps < MaxSimSteps /\ simSteps' = simSteps + 1
Prices == 1..3
SimCandles == {[low |-> l, close |-> c, high |-> h] : l, c, h \in Prices}
ProperCandles == {k \in SimCandles : k.low <= k.close /\ k.close <= k.high}

(***************************************************************************)
(* tradeEngine.                                                            *)
(***************************************************************************)
RealizedFor(p, price, units) == (price - p.entry) * units * p.side   \* realizedFor
(* checkPendingTrigger: a limit waits for a better price, a stop for a     *)
(* worse one.                                                              *)
PendingTriggered(p, k) ==
  /\ p.status = "pending"
  /\ IF (p.kind = "limit") = (p.side = 1) THEN k.low <= p.entry ELSE k.high >= p.entry
(* checkExit: the stop is looked at before the target. *)
Reached(p, level, k) ==
  level # Nothing /\ IF (level = p.stop) = (p.side = 1) THEN k.low <= level ELSE k.high >= level
ExitAt(p, k) ==
  IF Reached(p, p.stop, k) THEN p.stop
  ELSE IF Reached(p, p.target, k) THEN p.target ELSE Nothing

Equity(positions) == SumFunction([i \in DOMAIN positions |-> positions[i].realized])

SimInit ==
  /\ sim = [user |-> TRUE, owner |-> FALSE, positions |-> None, equity |-> 0,
            price |-> 0, symbol |-> Nothing, used |-> {}, journal |-> {}]
  /\ simDb = [rows |-> None, buried |-> {}]
  /\ simSync = [timers |-> None, queue |-> <<>>, late |-> {}, load |-> Nothing, faulty |-> FALSE,
                behind |-> FALSE]
  /\ simSteps = 0

(***************************************************************************)
(* syncPosition: a timer replaces the one of the same position; an         *)
(* immediate write clears it and joins the queue.                          *)
(***************************************************************************)
Write(p, i) == [op |-> "upsert", id |-> i, position |-> p]
SyncedKeepingTimer(s, i, p, immediate) ==
  IF ~ sim.owner THEN s
  ELSE IF immediate THEN [s EXCEPT !.queue = Append(@, Write(p, i))]
       ELSE [s EXCEPT !.timers = Put(@, i, p)]
Synced(s, i, p, immediate) ==
  IF ~ sim.owner THEN s
  ELSE IF immediate THEN [s EXCEPT !.timers = Drop(@, {i}), !.queue = Append(@, Write(p, i))]
       ELSE [s EXCEPT !.timers = Put(@, i, p)]
TimerFires(i) ==
  /\ i \in DOMAIN simSync.timers
  /\ simSync' = [simSync EXCEPT !.timers = Drop(@, {i}),
                                !.queue = Append(@, Write(simSync.timers[i], i))]
  /\ UNCHANGED <<sim, simDb, simSteps>>

(* journalize: a closed position becomes an entry of the journal. *)
Journalize(i, p) == [id |-> i, pnl |-> p.realized]

(***************************************************************************)
(* setTradeMarket: a candle of the charted symbol fills pending orders,    *)
(* closes positions at their levels, and marks the others.  It is applied  *)
(* to every position, whatever its symbol.                                 *)
(***************************************************************************)
Exited(p, price) == [p EXCEPT !.realized = @ + RealizedFor(p, price, p.left), !.left = 0,
                              !.status = "closed"]
Filled(p, k) == IF PendingTriggered(p, k) THEN [p EXCEPT !.status = "open"] ELSE p
Marked(p, k) ==
  LET f == Filled(p, k)
  IN  IF f.status = "open" /\ ExitAt(f, k) # Nothing THEN Exited(f, ExitAt(f, k)) ELSE f
ChosenOf(S) == CHOOSE i \in S : TRUE
EachSynced(s, changed, positions) ==
  FoldSet(LAMBDA i, acc : Synced(acc, i, positions[i], positions[i].status = "closed"), s, changed)
SetMarket(symbol, k) ==
  /\ SimStep
  /\ LET after == [i \in DOMAIN sim.positions |-> Marked(sim.positions[i], k)]
         live == {i \in DOMAIN after : sim.positions[i].status \in {"pending", "open"}}
         closed == {i \in live : after[i].status = "closed"}
     IN  /\ sim' = [sim EXCEPT !.positions = after, !.price = k.close, !.symbol = symbol,
                      !.equity = @ + Equity(after) - Equity(sim.positions),
                      !.journal = @ \union {Journalize(i, after[i]) : i \in closed}]
         /\ simSync' = EachSynced(simSync, live, after)
  /\ UNCHANGED simDb

(***************************************************************************)
(* Orders and closes.                                                      *)
(***************************************************************************)
NewPosition(kind, side, entry, stopped, aimed) ==
  [symbol |-> sim.symbol, kind |-> kind, side |-> side, entry |-> entry,
   status |-> IF kind = "market" THEN "open" ELSE "pending",
   stop |-> IF stopped THEN entry - side ELSE Nothing,
   target |-> IF aimed THEN entry + side ELSE Nothing, left |-> 2, realized |-> 0]
PlacePaper(kind, side, stopped, aimed) ==
  /\ SimStep
  /\ sim.price # 0
  /\ LET p == NewPosition(kind, side, IF kind = "market" THEN sim.price ELSE 2, stopped, aimed)
         i == ChosenOf(SimId \ sim.used)
     IN  /\ sim.used # SimId
         /\ sim' = [sim EXCEPT !.positions = Put(@, i, p), !.used = @ \union {i}]
         /\ simSync' = Synced(simSync, i, p, TRUE)
  /\ UNCHANGED simDb

(* closePosition, of a part or of all; closeAll is one after the other. *)
PartlyClosed(p, units) ==
  [p EXCEPT !.realized = @ + RealizedFor(p, sim.price, units), !.left = @ - units,
            !.status = IF p.left = units THEN "closed" ELSE @]
ClosedIn(state, i, units) ==
  LET p == PartlyClosed(state.positions[i], units)
  IN  [state EXCEPT !.positions[i] = p,
                    !.equity = @ + RealizedFor(state.positions[i], sim.price, units),
                    !.journal = IF p.status = "closed" THEN @ \union {Journalize(i, p)} ELSE @]
ClosePosition(i, units) ==
  /\ SimStep
  /\ i \in DOMAIN sim.positions /\ sim.positions[i].status = "open"
  /\ units <= sim.positions[i].left
  /\ sim' = ClosedIn(sim, i, units)
  /\ simSync' = Synced(simSync, i, PartlyClosed(sim.positions[i], units), TRUE)
  /\ UNCHANGED simDb
OpenPositions == {i \in DOMAIN sim.positions : sim.positions[i].status = "open"}
CloseAll ==
  /\ SimStep
  /\ OpenPositions # {}
  /\ sim' = FoldSet(LAMBDA i, state : ClosedIn(state, i, sim.positions[i].left), sim, OpenPositions)
  /\ simSync' = EachSynced(simSync, OpenPositions,
                  [i \in OpenPositions |-> PartlyClosed(sim.positions[i], sim.positions[i].left)])
  /\ UNCHANGED simDb
CancelPending(i) ==
  /\ SimStep
  /\ i \in DOMAIN sim.positions /\ sim.positions[i].status = "pending"
  /\ LET p == [sim.positions[i] EXCEPT !.status = "cancelled"]
     IN  /\ sim' = [sim EXCEPT !.positions[i] = p]
         /\ simSync' = Synced(simSync, i, p, TRUE)
  /\ UNCHANGED simDb

(***************************************************************************)
(* Reset and sign-out clear the browser and the timers of the account.     *)
(***************************************************************************)
AccountEmptied == [sim EXCEPT !.positions = None, !.equity = 0, !.price = 0, !.symbol = Nothing]
TimersCancelled(s) == [s EXCEPT !.timers = None]     \* cancelDebouncedSync
ResetPersisted ==
  /\ SimStep
  /\ sim' = AccountEmptied
  /\ simSync' = IF sim.owner
                THEN LET s == TimersCancelled(simSync)
                     IN  [s EXCEPT !.queue = Append(@, [op |-> "reset"])]
                ELSE simSync
  /\ UNCHANGED simDb
TraderSignsOut ==
  /\ SimStep
  /\ sim.user
  /\ sim' = IF sim.owner THEN [AccountEmptied EXCEPT !.user = FALSE, !.owner = FALSE]
            ELSE [sim EXCEPT !.user = FALSE]
  /\ simSync' = [TimersCancelled(simSync) EXCEPT
                   !.load = IF @ = Nothing THEN @ ELSE [@ EXCEPT !.cancelled = TRUE],
                   !.faulty = @ \/ DOMAIN simSync.timers # {}]
  /\ UNCHANGED simDb
TraderSignsIn ==
  /\ SimStep
  /\ ~ sim.user
  /\ sim' = [sim EXCEPT !.user = TRUE]
  /\ UNCHANGED <<simDb, simSync>>

(***************************************************************************)
(* loadSimTrading: the account, then its positions; one load per user.     *)
(***************************************************************************)
LoadAccount ==
  /\ sim.user /\ ~ sim.owner
  /\ simSync' = [simSync EXCEPT !.load =
       IF @ = Nothing THEN [equity |-> Equity(simDb.rows), rows |-> Nothing, cancelled |-> FALSE]
       ELSE [@ EXCEPT !.cancelled = FALSE]]
  /\ simSync' # simSync
  /\ UNCHANGED <<sim, simDb, simSteps>>
LoadPositions ==
  /\ simSync.load # Nothing /\ simSync.load.rows = Nothing
  /\ simSync' = [simSync EXCEPT !.load.rows = simDb.rows]
  /\ UNCHANGED <<sim, simDb, simSteps>>
ApplyRemote ==
  /\ simSync.load # Nothing /\ simSync.load.rows # Nothing
  /\ sim' = IF simSync.load.cancelled THEN sim
            ELSE [sim EXCEPT !.owner = TRUE, !.equity = simSync.load.equity,
                             !.positions = simSync.load.rows]
  /\ LET missed == simSync.queue # <<>> \/ simSync.late # {} \/ simDb.rows # simSync.load.rows
     IN  simSync' = [simSync EXCEPT !.load = Nothing,
           !.behind = IF simSync.load.cancelled THEN @ ELSE missed,
           !.faulty = missed \/ simSync.load.equity # Equity(simDb.rows)]
  /\ UNCHANGED <<simDb, simSteps>>
LoadFails ==
  /\ SimStep
  /\ simSync.load # Nothing
  /\ simSync' = [simSync EXCEPT !.load = Nothing]
  /\ UNCHANGED <<sim, simDb>>

(***************************************************************************)
(* The queue: one request at a time; a failed one is reported and dropped. *)
(* One that is given up after its timeout may be committed later: upserts  *)
(* carry no revision.                                                      *)
(***************************************************************************)
Applied(db, r) ==
  IF r.op = "upsert" THEN [db EXCEPT !.rows = Put(@, r.id, r.position)]
  ELSE [rows |-> None, buried |-> db.buried \union DOMAIN db.rows]
RequestLands ==
  /\ simSync.queue # <<>>
  /\ simDb' = Applied(simDb, Head(simSync.queue))
  /\ simSync' = [simSync EXCEPT !.queue = Tail(@)]
  /\ UNCHANGED <<sim, simSteps>>
RequestDropped ==
  /\ SimStep
  /\ simSync.queue # <<>>
  /\ simSync' = [simSync EXCEPT !.queue = Tail(@), !.faulty = TRUE]
  /\ UNCHANGED <<sim, simDb>>
RequestTimesOut ==
  /\ SimStep
  /\ simSync.queue # <<>>
  /\ simSync' = [simSync EXCEPT !.queue = Tail(@), !.late = @ \union {Head(simSync.queue)}, !.faulty = TRUE]
  /\ UNCHANGED <<sim, simDb>>
LateRequest(q) ==
  /\ q \in simSync.late
  /\ simDb' = Applied(simDb, q)
  /\ simSync' = [simSync EXCEPT !.late = @ \ {q}, !.faulty = TRUE]
  /\ UNCHANGED <<sim, simSteps>>

SimNext ==
  \/ \E s \in SimSymbol, k \in ProperCandles : SetMarket(s, k)
  \/ \E kind \in {"market", "limit", "stop"}, side \in {1, -1}, stopped, aimed \in BOOLEAN :
       PlacePaper(kind, side, stopped, aimed)
  \/ \E i \in SimId : (\E units \in 1..2 : ClosePosition(i, units)) \/ CancelPending(i) \/ TimerFires(i)
  \/ CloseAll \/ ResetPersisted \/ TraderSignsOut \/ TraderSignsIn
  \/ LoadAccount \/ LoadPositions \/ ApplyRemote \/ LoadFails
  \/ RequestLands \/ RequestDropped \/ RequestTimesOut
  \/ \E q \in simSync.late : LateRequest(q)

(***************************************************************************)
(* Properties.                                                             *)
(***************************************************************************)
Final == {"closed", "cancelled"}

(* Among the requests that are answered, a position that the server has as *)
(* closed or cancelled is never written over by an older snapshot of it:   *)
(* the timer of a position is cleared before its last state is sent        *)
(* (tradeStore.ts:68), and one request waits for the other (45-54).  What  *)
(* undoes a close is a snapshot of that very position whose request was    *)
(* given up at its timeout and committed later (client.ts:69).  Nor does   *)
(* this hold after a sign-in that read the rows while requests of the      *)
(* session before were still under way: the browser then has an open       *)
(* position that those requests close, and closes it once more.            *)
ServerNeverReopens ==
  [][\A i \in DOMAIN simDb.rows \intersect DOMAIN simDb'.rows :
       simDb.rows[i].status \in Final /\ ~ simSync.behind
         => \/ simDb'.rows[i] = simDb.rows[i]
            \/ \E q \in simSync.late \ simSync'.late : q = Write(simDb'.rows[i], i)]_simVars

(* Once everything is sent and nothing failed since the account was        *)
(* loaded, the server has the positions and the equity that are shown      *)
(* (tradeStore.ts:151, 235).                                               *)
SettledMeansSaved ==
  sim.owner /\ ~ simSync.faulty /\ simSync.queue = <<>> /\ simSync.timers = None
    => sim.positions = simDb.rows /\ sim.equity = Equity(simDb.rows)
==============================================================================
