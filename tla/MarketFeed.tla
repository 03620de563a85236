----------------------------- MODULE MarketFeed -----------------------------
(***************************************************************************)
(* marketDataStore's references, MarketDataService and its providers: what *)
(* charts, watchlist and alerts subscribe to, the socket (or, for OANDA,   *)
(* the poll) that streams it, and how it is opened again when it is lost.  *)
(*                                                                         *)
(* A behaviour has one provider (feed.kind).  A key is a symbol with its   *)
(* channel: the ticker or the candles of a timeframe.                      *)
(***************************************************************************)
EXTENDS Partial

CONSTANTS
  FeedKind,        \* providers: of "mt5", "binance", "twelvedata", "oanda"
  Quoted,          \* symbols
  Channel,         \* "ticker" and timeframes
  LastStamp,       \* bound: time stamps are 0..LastStamp
  MaxSockets,      \* bound
  MaxFeedSteps     \* bound: everything that is not an answer

ASSUME FeedAssumption ==
  /\ FeedKind \subseteq {"mt5", "binance", "twelvedata", "oanda"}
  /\ LastStamp \in Nat

VARIABLES
  feed,            \* the store, the service and the provider
  sockets,         \* every socket that was opened: its state and what the server streams on it
  feedSteps

feedVars == <<feed, sockets, feedSteps>>
FeedStep == feedSteps < MaxFeedSteps /\ feedSteps' = feedSteps + 1

FeedKey == [symbol : Quoted, channel : Channel]
All(x) == [symbol |-> x, channel |-> "all"]
SymbolsOf(S) == {k.symbol : k \in S}

(* MT5 registers every key (SymbolSubscriptionRegistry), Binance has one   *)
(* stream for each; Twelve Data and OANDA know only symbols.               *)
Registered(f, k) == IF f.kind \in {"mt5", "binance"} THEN k ELSE All(k.symbol)
(* What unsubscribe removes: Binance, without a timeframe, every stream of *)
(* the symbol.                                                             *)
Removed(f, k) ==
  IF f.kind = "binance" /\ k.channel = "ticker" THEN {e \in f.wanted : e.symbol = k.symbol}
  ELSE {Registered(f, k)}
(* What the wanted entries are on the wire: MT5 streams symbols. *)
OnWire(f, entries) == IF f.kind = "mt5" THEN {All(e.symbol) : e \in entries} ELSE entries

StateOf(S, i) == IF i = Nothing THEN "none" ELSE S[i].state
IsLive(S, i) == StateOf(S, i) \in {"connecting", "open"}

FeedInit ==
  /\ feed \in [kind : FeedKind, catalog : {{}, Quoted}, missed : {{}}, refs : {None}, subs : {{}}, wanted : {{}}, ws : {Nothing},
               manual : {FALSE}, retried : {FALSE}, timer : {FALSE}, verifying : {0},
               polling : {FALSE}, fetching : {FALSE}, status : {"disconnected"},
               shown : {"disconnected"}, stamps : {None}, quotes : {None}, sessions : {None}]
  /\ sockets = <<>>
  /\ feedSteps = 0

(* emitStatus, handleEvent and aggregateStatus: a broken MT5 stream takes  *)
(* what was known of the market sessions with it.                          *)
WithStatus(f, status) ==
  [f EXCEPT !.status = status,
            !.shown = IF f.subs = {} THEN "disconnected" ELSE status,
            !.sessions = IF f.kind = "mt5" /\ status # "connected" THEN None ELSE @]
Connecting(f) == WithStatus([f EXCEPT !.manual = FALSE], IF f.retried THEN "reconnecting" ELSE "connecting")
(* scheduleReconnect; the delays are left out. *)
Rescheduled(f) ==
  IF f.kind \in {"mt5", "oanda"} /\ f.manual THEN f
  ELSE WithStatus([f EXCEPT !.timer = TRUE, !.retried = IF f.kind = "mt5" /\ f.timer THEN @ ELSE TRUE],
                  "reconnecting")

(***************************************************************************)
(* The providers' methods, on the pair of provider and sockets.            *)
(***************************************************************************)
Pair(f, S) == [feed |-> f, sockets |-> S]
ThenSends(p, adds, removes) ==
  IF StateOf(p.sockets, p.feed.ws) # "open" THEN p
  ELSE [p EXCEPT !.sockets[p.feed.ws].serving = (@ \ removes) \union adds]
Connect(f, S) ==
  CASE f.kind = "oanda" ->
         Pair(IF f.polling THEN f ELSE [Connecting(f) EXCEPT !.verifying = @ + 1], S)
    [] f.kind = "mt5" /\ f.wanted = {} -> Pair(f, S)
    [] f.kind # "oanda" /\ (f.kind = "mt5" => f.wanted # {}) ->
         IF IsLive(S, f.ws) THEN Pair(f, S)
         ELSE Pair([Connecting(f) EXCEPT !.ws = Len(S) + 1],
                   Append(S, [state |-> "connecting", serving |-> {}]))
(* close(): the event follows later. *)
Closing(S, i) == IF IsLive(S, i) THEN [S EXCEPT ![i].state = "closing"] ELSE S
Disconnect(f, S) ==
  Pair(WithStatus([f EXCEPT !.manual = TRUE, !.timer = FALSE, !.retried = FALSE,
                            !.ws = Nothing, !.polling = FALSE], "disconnected"),
       Closing(S, f.ws))
ProviderSubscribe(f, S, k) ==
  LET fresh == Registered(f, k) \notin f.wanted
      added == [f EXCEPT !.wanted = @ \union {Registered(f, k)}]
  IN  CASE f.kind = "oanda" -> IF f.polling \/ f.manual THEN Pair(added, S) ELSE Connect(added, S)
        [] f.kind # "oanda" /\ ~ fresh -> Pair(f, S)
        [] f.kind = "mt5" /\ fresh ->
             IF StateOf(S, f.ws) = "open"
             THEN ThenSends(Pair([added EXCEPT !.manual = FALSE], S), OnWire(f, {k}), {})
             ELSE Connect([added EXCEPT !.manual = FALSE], S)
        [] f.kind \in {"binance", "twelvedata"} /\ fresh ->
             IF f.ws = Nothing THEN Connect(added, S)
             ELSE ThenSends(Pair(added, S), {Registered(f, k)}, {})
(* Mt5Provider.unsubscribe: the symbol goes with its last key, the socket  *)
(* with the last symbol.                                                   *)
Mt5Unsubscribe(f, S, k) ==
  LET left == [f EXCEPT !.wanted = @ \ {k}]
      gone == [left EXCEPT !.stamps = Drop(@, {k.symbol})]
      sent == ThenSends(Pair(gone, S), {}, {All(k.symbol)})
  IN  IF k.symbol \in SymbolsOf(left.wanted) THEN Pair(left, S)
      ELSE IF left.wanted # {} THEN sent
      ELSE Pair(WithStatus([gone EXCEPT !.manual = TRUE, !.ws = Nothing], "disconnected"),
                Closing(S, f.ws))
ProviderUnsubscribe(f, S, k) ==
  LET rest == f.wanted \ Removed(f, k)
  IN  CASE f.kind = "mt5" -> IF k.symbol \in SymbolsOf(f.wanted) THEN Mt5Unsubscribe(f, S, k) ELSE Pair(f, S)
        [] f.kind = "oanda" -> Pair([f EXCEPT !.wanted = rest, !.polling = @ /\ rest # {}], S)
        [] f.kind \in {"binance", "twelvedata"} ->
             ThenSends(Pair([f EXCEPT !.wanted = rest], S), {}, Removed(f, k))

Becomes(p) == feed' = p.feed /\ sockets' = p.sockets
RoomForSocket == Len(sockets) < MaxSockets

(***************************************************************************)
(* The store and the service.                                              *)
(***************************************************************************)
RefsTo(k) == IF k \in DOMAIN feed.refs THEN feed.refs[k] ELSE 0
(* route: a symbol that is not in the catalog has no provider.             *)
Routes(k) == k.symbol \in feed.catalog
(* History: the keys whose first or last reference changed while their     *)
(* symbol was not in the catalog, until one changes that is routed again.  *)
Noted(k) == IF Routes(k) THEN feed.missed \ {k} ELSE feed.missed \union {k}
(* subscribeAtom and MarketDataService.subscribe: the first reference      *)
(* opens the stream, and is counted also when it is dropped.               *)
Subscribe(k) ==
  /\ FeedStep /\ RoomForSocket
  /\ LET counted == [feed EXCEPT !.refs = Put(@, k, RefsTo(k) + 1),
                                 !.missed = IF RefsTo(k) > 0 THEN @ ELSE Noted(k)]
     IN  IF RefsTo(k) > 0 \/ ~ Routes(k) \/ k \in feed.subs THEN Becomes(Pair(counted, sockets))
         ELSE Becomes(ProviderSubscribe([counted EXCEPT !.subs = @ \union {k}], sockets, k))
(* unsubscribeAtom and MarketDataService.unsubscribe: the last reference   *)
(* closes it, unless the symbol has left the catalog; the last of a symbol *)
(* drops its session.                                                      *)
Unsubscribe(k) ==
  /\ FeedStep /\ RefsTo(k) > 0
  /\ LET subs == feed.subs \ {k}
         last == k.symbol \notin SymbolsOf(subs)
         forgotten == [feed EXCEPT !.refs = Drop(@, {k}), !.missed = Noted(k)]
     IN  IF RefsTo(k) > 1 THEN Becomes(Pair([feed EXCEPT !.refs[k] = @ - 1], sockets))
         ELSE IF ~ Routes(k) THEN Becomes(Pair(forgotten, sockets))
         ELSE Becomes(ProviderUnsubscribe(
                [forgotten EXCEPT !.subs = subs,
                             !.sessions = IF last /\ feed.kind = "mt5" THEN Drop(@, {k.symbol}) ELSE @],
                sockets, k))
(* refreshMt5SymbolCatalogAtom and replaceMarketSymbols: an answer without *)
(* symbols leaves the catalog as it is.                                    *)
CatalogReplaced(known) ==
  /\ FeedStep /\ known # {} /\ known # feed.catalog
  /\ feed' = [feed EXCEPT !.catalog = known]
  /\ UNCHANGED sockets
(* connectAtom; only providers with symbols are connected. *)
ConnectAll ==
  /\ FeedStep /\ RoomForSocket
  /\ LET f == [feed EXCEPT !.shown = "connecting"]
     IN  Becomes(IF f.subs = {} THEN Pair(f, sockets) ELSE Connect(f, sockets))
(* disconnectAtom *)
DisconnectAll ==
  /\ FeedStep
  /\ LET p == Disconnect(feed, sockets) IN Becomes([p EXCEPT !.feed.shown = "disconnected"])

(***************************************************************************)
(* The sockets.  Only MT5 asks whether the event is of its current socket. *)
(***************************************************************************)
Ignores(i) == feed.kind = "mt5" /\ feed.ws # i
(* onopen: everything that is wanted is asked for. *)
ForgetsToAsk(f, S) == Pair(f, S)
Resubscribed(f, S) == ThenSends(Pair(f, S), OnWire(f, f.wanted), {})
SocketOpens(i) ==
  /\ sockets[i].state = "connecting"
  /\ LET S == [sockets EXCEPT ![i].state = "open"]
     IN  Becomes(IF Ignores(i) THEN Pair(feed, S)
                 ELSE Resubscribed(WithStatus([feed EXCEPT !.retried = FALSE], "connected"), S))
  /\ UNCHANGED feedSteps
(* onclose, of a socket that was closed here, by the server or the net *)
SocketCloses(i) ==
  /\ sockets[i].state # "closed"
  /\ sockets[i].state # "closing" => FeedStep
  /\ sockets[i].state = "closing" => UNCHANGED feedSteps
  /\ LET S == [sockets EXCEPT ![i].state = "closed", ![i].serving = {}]
         f == [feed EXCEPT !.ws = IF Ignores(i) THEN @ ELSE Nothing]
         idle == f.manual \/ (f.kind = "mt5" /\ f.wanted = {})
     IN  Becomes(Pair(IF idle THEN WithStatus(f, "disconnected") ELSE Rescheduled(f), S))
(* onerror *)
SocketErrors(i) ==
  /\ FeedStep /\ IsLive(sockets, i) /\ ~ Ignores(i) /\ (feed.kind = "mt5" => ~ feed.manual)
  /\ Becomes(Pair(WithStatus(feed, "error"), sockets))
ReconnectFires ==
  /\ feed.timer /\ RoomForSocket
  /\ Becomes(Connect([feed EXCEPT !.timer = FALSE], sockets))
  /\ UNCHANGED feedSteps
(* checkStale: a socket without data is closed. *)
Watchdog ==
  /\ FeedStep /\ feed.kind \in {"binance", "twelvedata"}
  /\ ~ feed.manual /\ feed.wanted # {} /\ StateOf(sockets, feed.ws) = "open"
  /\ Becomes(Pair(WithStatus(feed, "reconnecting"), Closing(sockets, feed.ws)))
(* handleOnline *)
Online ==
  /\ FeedStep /\ feed.kind \in {"binance", "twelvedata"} /\ RoomForSocket
  /\ sockets # <<>> /\ ~ feed.manual /\ ~ IsLive(sockets, feed.ws)
  /\ Becomes(Connect([feed EXCEPT !.timer = FALSE, !.retried = FALSE], sockets))

(***************************************************************************)
(* OandaProvider: verified, then polled.                                   *)
(***************************************************************************)
VerifyAnswers(answer) ==
  /\ feed.verifying > 0
  /\ LET f == [feed EXCEPT !.verifying = @ - 1]
         started == WithStatus([f EXCEPT !.retried = FALSE, !.polling = TRUE], "connected")
     IN  feed' = CASE answer = "ok" -> started
                   [] answer = "refused" -> f
                   [] answer = "throws" -> Rescheduled(f)
  /\ UNCHANGED <<sockets, feedSteps>>
PollStarts ==
  /\ FeedStep /\ feed.polling /\ feed.wanted # {} /\ ~ feed.fetching
  /\ feed' = [feed EXCEPT !.fetching = TRUE] /\ UNCHANGED sockets
PollAnswers(answer, t) ==
  /\ feed.fetching
  /\ LET f == [feed EXCEPT !.fetching = FALSE]
     IN  feed' = CASE answer = "ok" ->
                        [f EXCEPT !.quotes = [x \in DOMAIN @ \union SymbolsOf(f.wanted) |->
                                                IF x \in SymbolsOf(f.wanted) THEN t ELSE @[x]]]
                   [] answer = "refused" -> WithStatus(f, "error")
                   [] answer = "throws" -> f
                   [] answer = "stale" -> Rescheduled([f EXCEPT !.polling = FALSE])
  /\ UNCHANGED <<sockets, feedSteps>>

(***************************************************************************)
(* What the sockets bring.                                                 *)
(***************************************************************************)
(* normalizeTick and isOrderedMt5Tick: an older tick is dropped. *)
InOrder(x, t) == x \in DOMAIN feed.stamps => t >= feed.stamps[x]
TickArrives(i, x, t) ==
  /\ FeedStep /\ sockets[i].state = "open" /\ ~ Ignores(i)
  /\ LET alive == WithStatus([feed EXCEPT !.retried = FALSE], "connected")
         quoted(f) == [f EXCEPT !.quotes = Put(@, x, t)]
     IN  feed' = IF feed.kind # "mt5" THEN quoted(feed)
                 ELSE IF InOrder(x, t) THEN [quoted(alive) EXCEPT !.stamps = Put(@, x, t)]
                 ELSE alive
  /\ UNCHANGED sockets
(* handleMessage: a status, an error, or the connected flag of a snapshot *)
StatusArrives(i, status) ==
  /\ FeedStep /\ sockets[i].state = "open" /\ ~ Ignores(i) /\ feed.kind # "binance"
  /\ feed.kind = "twelvedata" => status = "error"
  /\ Becomes(Pair(WithStatus(feed, status), sockets))
(* mt5SessionStatus: an open or closed session without its clock is        *)
(* dropped, an older one too; an unknown without a clock invalidates.      *)
Session == {s \in [state : {"open", "closed", "unknown"}, at : 0..LastStamp] :
              s.at = 0 => s.state = "unknown"}
IsOlder(s, t) == s.at # 0 /\ s.at < t.at
SessionArrives(i, x, s) ==
  /\ FeedStep /\ feed.kind = "mt5" /\ feed.ws = i /\ sockets[i].state = "open"
  /\ ~ (x \in DOMAIN feed.sessions /\ IsOlder(s, feed.sessions[x]))
  /\ feed' = [feed EXCEPT !.sessions = Put(@, x, s)]
  /\ UNCHANGED sockets

FeedNext ==
  \/ \E k \in FeedKey : Subscribe(k) \/ Unsubscribe(k)
  \/ \E known \in SUBSET Quoted : CatalogReplaced(known)
  \/ ConnectAll \/ DisconnectAll \/ ReconnectFires \/ Watchdog \/ Online \/ PollStarts
  \/ \E i \in DOMAIN sockets :
       \/ SocketOpens(i) \/ SocketCloses(i) \/ SocketErrors(i)
       \/ \E status \in {"connected", "reconnecting", "error"} : StatusArrives(i, status)
       \/ \E x \in Quoted :
            \/ \E t \in 1..LastStamp : TickArrives(i, x, t)
            \/ \E s \in Session : SessionArrives(i, x, s)
  \/ \E answer \in {"ok", "refused", "throws"} : VerifyAnswers(answer)
  \/ \E answer \in {"ok", "refused", "throws", "stale"}, t \in 1..LastStamp : PollAnswers(answer, t)

FeedSpec == FeedInit /\ [][FeedNext]_feedVars

(***************************************************************************)
(* Properties.                                                             *)
(***************************************************************************)
(* The MT5 stream carries every symbol that something in the browser still *)
(* refers to, and no other, whatever came and went while the socket was    *)
(* being opened, lost or closed (Mt5Provider, SymbolSubscriptionRegistry). *)
(* Not a symbol that was out of the catalog when its first reference came  *)
(* or its last one went: the first is counted and not streamed, the second *)
(* streams on (MarketDataService.ts:189, 222).                             *)
Mt5StreamsFollowReferences ==
  feed.kind = "mt5" /\ StateOf(sockets, feed.ws) = "open"
    => \A x \in Quoted \ SymbolsOf(feed.missed) :
         All(x) \in sockets[feed.ws].serving <=> x \in SymbolsOf(DOMAIN feed.refs)
=============================================================================
