------------------------------ MODULE TradeDesk ------------------------------
(***************************************************************************)
(* The trading desk of the browser against the execution gateway: the      *)
(* registry and account polls of useExecutionRegistry, the order atoms of  *)
(* mt5Store, the send handler with its trade approval, and the link from a *)
(* position drawing to the order placed from it (positionDrawingLink).     *)
(*                                                                         *)
(* A command is a number, its wire commands are <<command, ticket>> for    *)
(* the parts of a Close All and <<command, Nothing>> otherwise; an order   *)
(* that fills opens the position whose ticket is the command itself.       *)
(***************************************************************************)
EXTENDS Partial

CONSTANTS
  Account, Ticket, \* accounts; tickets of positions opened elsewhere
  Drawn,           \* the commands placed from the one position drawing
  MaxCommands,     \* bound: commands the user sends
  MaxTurns         \* bound: account changes, sign-outs and lost replies

VARIABLES
  gateway,         \* status, positions, pending of every account; outcome of
                   \*   every wire command; clock of the outcomes
  desk,            \* session, accounts (last registry), selected, instance of
                   \*   the account effects, positions, pending, commands,
                   \*   link, log, cutoff, seen, catalog; cleared: the
                   \*   log entries cleared so far (history)
  flight,          \* registry and state replies under way; orders: the
                   \*   submissions; approving: the pending authorization
  turns            \* account changes, sign-outs and losses so far

deskVars == <<gateway, desk, flight, turns>>

NoLink == [cmd |-> 0, account |-> Nothing, status |-> "none", position |-> 0]
Unselected ==
  [session |-> FALSE, accounts |-> None, selected |-> Nothing, instance |-> 0,
   positions |-> {}, pending |-> {}, commands |-> None, link |-> NoLink, log |-> {},
   cutoff |-> [a \in Account |-> 0], seen |-> {}, catalog |-> FALSE, cleared |-> {}]

DeskInit ==
  /\ \E home \in Account :
       gateway = [status |-> [a \in Account |-> "ready"], outcome |-> None, clock |-> 0,
                  positions |-> [a \in Account |-> IF a = home THEN Ticket ELSE {}],
                  pending |-> [a \in Account |-> {}]]
  /\ desk = [Unselected EXCEPT !.session = TRUE]
  /\ flight = [registry |-> Nothing, state |-> {}, orders |-> None, approving |-> Nothing]
  /\ turns = 0

Turn == turns < MaxTurns /\ turns' = turns + 1

(***************************************************************************)
(* The gateway and the broker behind it.                                   *)
(***************************************************************************)
AccountTurns(a) ==
  /\ Turn
  /\ \E s \in {"ready", "stale", "offline", "gone"} \ {gateway.status[a]} :
       gateway' = [gateway EXCEPT !.status[a] = s]
  /\ UNCHANGED <<desk, flight>>

Verdicts(op) ==
  CASE op = "place" -> {"filled", "accepted", "failed", "unknown"}
    [] op = "close" -> {"filled", "failed"}
    [] op = "modify" -> {"accepted", "failed"}
    [] op = "cancel" -> {"cancelled", "failed"}

(* The terminal answers the wire command w. *)
BrokerSettles(w) ==
  LET o == gateway.outcome[w] IN
  /\ o.status = "queued"
  /\ \E v \in Verdicts(o.op) :
       gateway' = [gateway EXCEPT
         !.clock = @ + 1,
         !.outcome[w] = [@ EXCEPT !.status = v, !.at = gateway.clock + 1],
         !.positions[o.account] =
           IF v = "filled" THEN IF o.op = "place" THEN @ \union {w[1]} ELSE @ \ {o.target} ELSE @,
         !.pending[o.account] =
           IF o.op = "place" /\ v = "accepted" THEN @ \union {w[1]}
           ELSE IF v = "cancelled" THEN @ \ {o.target} ELSE @]
  /\ UNCHANGED <<desk, flight, turns>>

(* A stop is hit; a pending order is triggered. *)
PositionEnds(a) ==
  /\ \E t \in gateway.positions[a] \intersect Drawn :
       gateway' = [gateway EXCEPT !.positions[a] = @ \ {t}]
  /\ UNCHANGED <<desk, flight, turns>>
PendingFills(a) ==
  /\ \E t \in gateway.pending[a] :
       gateway' = [gateway EXCEPT !.pending[a] = @ \ {t}, !.positions[a] = @ \union {t}]
  /\ UNCHANGED <<desk, flight, turns>>

(***************************************************************************)
(* The session, the registry poll and the selected account.                *)
(***************************************************************************)
(* The account effects restart: positions, orders and catalog are emptied, *)
(* what they asked for is cancelled and the outcomes count as new.         *)
Restarted(d) ==
  [d EXCEPT !.instance = @ + 1, !.positions = {}, !.pending = {}, !.seen = {},
            !.catalog = FALSE]

Chosen(d, a) == IF d.selected = a THEN d ELSE Restarted([d EXCEPT !.selected = a])

(* resetExecutionRegistryAtom, resetMt5SessionAtom; the drawing and the    *)
(* cutoffs in localStorage stay.                                           *)
SignOut ==
  /\ Turn
  /\ desk.session
  /\ desk' = [Restarted(Unselected) EXCEPT !.instance = desk.instance + 1,
                                           !.link = desk.link, !.cutoff = desk.cutoff,
                                           !.cleared = desk.cleared]
  /\ flight' = [flight EXCEPT !.registry = Nothing]
  /\ UNCHANGED gateway
SignIn ==
  /\ ~ desk.session
  /\ desk' = [desk EXCEPT !.session = TRUE]
  /\ UNCHANGED <<gateway, flight, turns>>

(* A registry equal to the one on screen changes nothing: it is not read. *)
Registry == [a \in {b \in Account : gateway.status[b] # "gone"} |-> gateway.status[a]]
ReadRegistry ==
  /\ desk.session
  /\ flight.registry = Nothing
  /\ Registry # desk.accounts
  /\ flight' = [flight EXCEPT !.registry = Registry]
  /\ UNCHANGED <<gateway, desk, turns>>

(* applyExecutionAccountsAtom: a selection that vanished falls to an       *)
(* account that is ready, then to any.                                     *)
Preferred(accounts) ==
  IF accounts = None THEN {Nothing}
  ELSE LET ready == {a \in DOMAIN accounts : accounts[a] # "offline"}
       IN  IF ready # {} THEN ready ELSE DOMAIN accounts
RegistryArrives ==
  /\ flight.registry # Nothing
  /\ LET d == [desk EXCEPT !.accounts = flight.registry] IN
     \E a \in IF desk.selected \in DOMAIN d.accounts THEN {desk.selected}
              ELSE Preferred(d.accounts) :
       desk' = Chosen(d, a)
  /\ flight' = [flight EXCEPT !.registry = Nothing]
  /\ UNCHANGED <<gateway, turns>>
RegistryFails ==
  /\ Turn
  /\ flight.registry # Nothing
  /\ flight' = [flight EXCEPT !.registry = Nothing]
  /\ UNCHANGED <<gateway, desk>>

SelectAccount(a) ==
  /\ Turn
  /\ a \in DOMAIN desk.accounts
  /\ a # desk.selected
  /\ desk' = Chosen(desk, a)
  /\ UNCHANGED <<gateway, flight>>

(* The status effect: fresh and ready is connected. *)
Connected == desk.selected # Nothing /\ At(desk.accounts, desk.selected) = "ready"

(***************************************************************************)
(* The instrument and the account state polls of the selected account.     *)
(***************************************************************************)
Request == [account |-> desk.selected, instance |-> desk.instance]
Idle(polls) == desk.selected # Nothing /\ \A p \in polls : p.request # Request

(* The catalog of instruments; a reply for another account is dropped.     *)
CatalogArrives ==
  /\ desk.selected # Nothing
  /\ ~ desk.catalog
  /\ desk' = [desk EXCEPT !.catalog = TRUE]
  /\ UNCHANGED <<gateway, flight, turns>>

Snapshot(a) ==
  [positions |-> gateway.positions[a], pending |-> gateway.pending[a],
   outcome |-> [w \in {v \in DOMAIN gateway.outcome : gateway.outcome[v].account = a}
                  |-> gateway.outcome[w]]]
ReadState ==
  /\ Idle(flight.state)
  /\ flight' = [flight EXCEPT !.state =
       @ \union {[request |-> Request, reply |-> Snapshot(desk.selected)]}]
  /\ UNCHANGED <<gateway, desk, turns>>

Related(reply, c) == {reply.outcome[w] : w \in {v \in DOMAIN reply.outcome : v[1] = c}}

(* The status of a pending command after a poll. *)
CommandStatus(reply, c, was) ==
  LET related == {o.status : o \in Related(reply, c)}
      successful == related \intersect {"accepted", "filled", "cancelled"} # {}
      failed == "failed" \in related
  IN  CASE related = {} -> was
        [] failed /\ successful -> "partial"
        [] failed /\ ~ successful -> "rejected"
        [] ~ failed /\ "unknown" \in related -> "unknown"
        [] OTHER -> IF successful /\ "queued" \notin related THEN "acked" ELSE "sent"

(* reconcilePositionDrawingExecution: the broker's position, its pending   *)
(* order, and only then the outcome of the command.                        *)
LinkStatus(link, reply) ==
  LET related == Related(reply, link.cmd)
      latest == IF related = {} THEN "none" ELSE (CHOOSE o \in related : TRUE).status
      owned == related # {} \/ link.position = link.cmd
  IN  CASE owned /\ link.cmd \in reply.positions -> "running"
        [] related # {} /\ link.cmd \in reply.pending \ reply.positions -> "pending"
        [] OTHER ->
           IF latest \in {"failed", "unknown"} THEN "rejected"
           ELSE IF link.status = "running" /\ link.position # 0 THEN "closed"
           ELSE IF latest = "filled" THEN "running"
           ELSE IF latest = "accepted" THEN "pending" ELSE link.status
Reconciled(link, a, reply) ==
  IF link.account # a THEN link
  ELSE [link EXCEPT !.status = LinkStatus(link, reply),
          !.position = IF link.cmd \in reply.positions /\
                          (Related(reply, link.cmd) # {} \/ @ = link.cmd)
                       THEN link.cmd ELSE @]

(* addMt5LogAtom: once per key, never behind the account's cutoff. *)
Logged(d, a, reply) ==
  LET terminal == {w \in DOMAIN reply.outcome : reply.outcome[w].status # "queued"}
      keys == {[account |-> a, key |-> w, at |-> reply.outcome[w].at] : w \in terminal}
  IN  [d EXCEPT !.seen = @ \union keys,
                !.log = @ \union {e \in keys \ d.seen : e.at > d.cutoff[a]}]

ShowingOnce(d, a, reply) ==
  Logged([d EXCEPT !.positions = reply.positions, !.pending = reply.pending,
            !.commands = [c \in DOMAIN @ |->
               IF @[c] = "sent" THEN CommandStatus(reply, c, @[c]) ELSE @[c]],
            !.link = Reconciled(@, a, reply)], a, reply)
Showing(d, a, reply) ==
  Logged([d EXCEPT !.positions = reply.positions, !.pending = reply.pending,
            !.commands = [c \in DOMAIN @ |-> CommandStatus(reply, c, @[c])],
            !.link = Reconciled(@, a, reply)], a, reply)
StateArrives(p) ==
  /\ flight' = [flight EXCEPT !.state = @ \ {p}]
  /\ desk' = IF p.request = Request THEN Showing(desk, p.request.account, p.reply) ELSE desk
  /\ UNCHANGED <<gateway, turns>>
StateFails(p) ==
  /\ Turn
  /\ flight' = [flight EXCEPT !.state = @ \ {p}]
  /\ UNCHANGED <<gateway, desk>>

(* clearMt5LogAtom: the cutoff is the newest entry or the browser's clock, *)
(* which may be behind the gateway's.                                      *)
Cutoff(now) ==
  LET at == {e.at : e \in {l \in desk.log : l.account = desk.selected}} \union {now}
  IN  CHOOSE m \in at : \A n \in at : n <= m
ClearLog ==
  /\ \E e \in desk.log : e.account = desk.selected
  /\ \E now \in {0, gateway.clock} :
       desk' = [desk EXCEPT !.cutoff[desk.selected] = Cutoff(now),
                            !.cleared = @ \union {e \in desk.log : e.account = desk.selected},
                            !.log = {e \in @ : e.account # desk.selected}]
  /\ UNCHANGED <<gateway, flight, turns>>

(***************************************************************************)
(* Commands: placeMt5OrderAtom and its four siblings, and send.            *)
(***************************************************************************)
NewCommand == Cardinality(DOMAIN flight.orders) + 1
Wire(c, op) ==
  IF op = "closeAll" THEN {[id |-> <<c, t>>, op |-> "close", target |-> t] : t \in desk.positions}
  ELSE IF op = "place" THEN {[id |-> <<c, Nothing>>, op |-> op, target |-> Nothing]}
  ELSE {[id |-> <<c, Nothing>>, op |-> op, target |-> t] :
          t \in IF op = "cancel" THEN desk.pending ELSE desk.positions}

(* authorizeTradeTransaction: while one authorization is pending, every    *)
(* other request is refused on the spot.                                   *)
Approving(wires) ==
  IF flight.approving # Nothing \/ wires = {} THEN {} ELSE {CHOOSE w \in wires : TRUE}

(* send: the wire commands of one request, all handed to the authorization *)
(* at once.                                                                *)
Submitted(c, wires) ==
  [flight EXCEPT
     !.approving = IF Approving(wires) # {} THEN c ELSE @,
     !.orders = Put(@, c, [account |-> desk.selected, wires |-> {w.id : w \in wires},
                           asking |-> Approving(wires), queued |-> {}, refused |-> FALSE,
                           answered |-> FALSE])]

(* A command of the selected account is sent and shown as sent; an order   *)
(* from the drawing is linked to it.                                       *)
Sent(op, wires) ==
  LET c == NewCommand IN
  /\ c <= MaxCommands
  /\ wires # {}
  /\ flight' = Submitted(c, wires)
  /\ desk' = [desk EXCEPT !.commands = Put(@, c, "sent"),
        !.link = IF op = "place" /\ c \in Drawn
                 THEN [cmd |-> c, account |-> desk.selected, status |-> "submitting",
                       position |-> 0] ELSE @]
  /\ UNCHANGED <<gateway, turns>>

(* validateMt5OrderState: connected, and the symbol is in the catalog. *)
Placeable == Connected /\ desk.catalog
PlaceOrder == Placeable /\ Sent("place", Wire(NewCommand, "place"))
SendLifecycle(op) ==
  /\ Connected
  /\ \E wires \in IF op = "closeAll" THEN {Wire(NewCommand, op)}
                  ELSE {{w} : w \in Wire(NewCommand, op)} : Sent(op, wires)

(* The approval is granted and the gateway queues the command, or refuses. *)
GatewayQueues(c) ==
  LET order == flight.orders[c] IN
  /\ \E w \in order.asking :
       /\ flight' = [flight EXCEPT !.approving = Nothing,
                       !.orders[c] = [order EXCEPT !.asking = {}, !.queued = {w.id}]]
       /\ gateway' = [gateway EXCEPT !.clock = @ + 1, !.outcome =
            Put(@, w.id, [account |-> order.account, op |-> w.op, target |-> w.target,
                          status |-> "queued", at |-> gateway.clock + 1])]
  /\ UNCHANGED <<desk, turns>>
ApprovalRefused(c) ==
  /\ Turn
  /\ flight.orders[c].asking # {}
  /\ flight' = [flight EXCEPT !.approving = Nothing,
       !.orders[c] = [@ EXCEPT !.asking = {}, !.refused = TRUE]]
  /\ UNCHANGED <<gateway, desk>>

(* The reply, or its loss after the gateway queued the command: whatever   *)
(* it says overwrites the status of the command and of its link.           *)
Answered(d, c, ok) ==
  [d EXCEPT
     !.commands = IF c \in DOMAIN @ THEN [@ EXCEPT ![c] = IF ok THEN "acked" ELSE "rejected"] ELSE @,
     !.link.status = IF d.link.cmd = c THEN IF ok THEN "pending" ELSE "rejected" ELSE @]
Answer(c, ok) ==
  /\ flight.orders[c].asking = {}
  /\ ~ flight.orders[c].answered
  /\ flight' = [flight EXCEPT !.orders[c].answered = TRUE]
  /\ desk' = Answered(desk, c, ok)
  /\ UNCHANGED gateway
ReplyArrives(c) == Answer(c, flight.orders[c].queued # {}) /\ UNCHANGED turns
ReplyLost(c) == Turn /\ Answer(c, FALSE)

DeskNext ==
  \/ \E a \in Account : AccountTurns(a) \/ SelectAccount(a) \/ PositionEnds(a) \/ PendingFills(a)
  \/ \E w \in DOMAIN gateway.outcome : BrokerSettles(w)
  \/ SignOut \/ SignIn \/ ReadRegistry \/ RegistryArrives \/ RegistryFails
  \/ CatalogArrives \/ ReadState \/ ClearLog
  \/ \E p \in flight.state : StateArrives(p) \/ StateFails(p)
  \/ PlaceOrder
  \/ \E op \in {"close", "modify", "cancel", "closeAll"} : SendLifecycle(op)
  \/ \E c \in DOMAIN flight.orders : GatewayQueues(c) \/ ApprovalRefused(c) \/ ReplyArrives(c) \/ ReplyLost(c)

(* Polls go on while the account is selected, and requests are answered.   *)
StateReply == \E p \in flight.state : StateArrives(p)
OrderReply == \E c \in DOMAIN flight.orders : ReplyArrives(c)

(***************************************************************************)
(* Properties.                                                             *)
(***************************************************************************)
(* What the desk shows as open belongs to the selected account: a reply    *)
(* for the account that was selected before is dropped                     *)
(* (useExecutionRegistry.ts:285), or Close All would close its tickets.    *)
ShownOnSelected ==
  \A t \in desk.positions \intersect DOMAIN flight.orders :
    flight.orders[t].account = desk.selected

(* An outcome the user cleared from the activity log never comes back,     *)
(* whatever effect restarts, signs out or fetches it again                 *)
(* (mt5Store.ts:102, activityLog.ts:15).                                   *)
ClearedStaysCleared == desk.cleared \intersect desk.log = {}

(* Whatever order replies, losses and polls arrive in, the status shown    *)
(* for a command of the selected account ends up the one its outcomes say. *)
Watched(c) ==
  /\ c \in DOMAIN desk.commands
  /\ flight.orders[c].account = desk.selected
CommandsFollowOutcomes ==
  \A c \in 1..MaxCommands :
    <>[](Watched(c) => desk.commands[c] =
           CommandStatus(Snapshot(desk.selected), c, desk.commands[c]))

(* The drawing an order was placed from ends up running when its position  *)
(* is open at the broker, a late or lost submission reply notwithstanding. *)
LinkIsOpen ==
  /\ desk.selected # Nothing
  /\ desk.link.account = desk.selected
  /\ desk.link.cmd \in gateway.positions[desk.selected]
LinkFollowsPosition == <>[](LinkIsOpen => desk.link.status = "running")

(* Close All sends one command per position it observed, unless one was    *)
(* refused.                                                                *)
CloseAllSplits ==
  \A c \in DOMAIN flight.orders :
    LET order == flight.orders[c]
    IN  order.answered /\ ~ order.refused => order.queued = order.wires

(* A link that is closed stays closed until an order is placed again.      *)
ClosedLinkStays ==
  [][desk.link.status = "closed" /\ desk'.link.cmd = desk.link.cmd
       => desk'.link.status = "closed"]_deskVars
==============================================================================
