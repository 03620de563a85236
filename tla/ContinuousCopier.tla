--------------------------- MODULE ContinuousCopier ---------------------------
(***************************************************************************)
(* The continuous trade copier of the execution gateway (main.rs): a source *)
(* account's portfolio snapshots become durable work items, workers lease   *)
(* them and turn them into commands for ONE target account, links remember  *)
(* which target ticket copies which source position or pending order, and a *)
(* periodic reconciliation compares the links with both portfolios.         *)
(*                                                                         *)
(* One group with one target: work is serialized per group and target, and  *)
(* every statement filters on both.  Every copy option is switched on and    *)
(* no source filter is set.  Quantities are left out, and with them the      *)
(* increase, the partial close and target-local protection.                 *)
(*                                                                         *)
(* Item i is the i-th work item in (created_at, id) order; it has at most    *)
(* one outbox row, one command and, if it places, one broker ticket: all     *)
(* are called i.  Tickets of the target broker are thus item numbers, and 0  *)
(* is SQL's NULL.  The command row's own life (lease, delivery, deadline)    *)
(* is module CommandDelivery.                                               *)
(***************************************************************************)
EXTENDS Integers, Sequences

CONSTANTS
  Order,        \* broker ids of the source's pending orders
  Position,     \* broker ids of the source's positions
  NoEntity,     \* no such id
  Worker,       \* concurrent drains of process_continuous_copier_work
  MaxWork,      \* bound: work items of one behaviour
  MaxAttempts,  \* 12 in the code: attempts before a dead letter
  MaxFaults,    \* bound: crashes, expired leases, expiries, broker closes
  MaxActions    \* bound: pause, resume and archive by the user

ASSUME CopierAssumption ==
  /\ Order \cap Position = {}
  /\ NoEntity \notin Order \cup Position
  /\ MaxWork \in Nat /\ MaxAttempts \in Nat
  /\ MaxFaults \in Nat /\ MaxActions \in Nat

VARIABLES
  \* The source account's rows in execution_positions/execution_pending_orders
  source, spent,
  \* execution_copy_work_items
  staged,       \* how many items exist
  item,         \* operation, change and source entity
  status, attempts, lease,
  \* execution_copy_command_outbox, one row per item
  outbox,       \* status; "none" while there is no row
  bound,        \* target_command_id IS NOT NULL
  payload,      \* the ticket its command acts on
  \* execution_target_commands
  cmd,
  broker,       \* what the target's broker holds of each placed order
  rows,         \* ... and what the target's last persisted snapshot showed
  links,        \* execution_copy_links
  worker,       \* each drain: where it stands and what it read
  recon,        \* a reconciliation between its SELECT and its UPDATEs
  repaired,     \* links repaired on the evidence of the current target rows
  group,        \* runtime_status: every one but paused and error is "running",
  enabled,      \* since no condition of the copier tells the others apart
  faults, actions

sourceVars == <<source, spent>>
queueVars == <<staged, item, status, attempts, lease>>
outboxVars == <<outbox, bound, payload>>
targetVars == <<broker, rows>>
groupVars == <<group, enabled>>
boundVars == <<faults, actions>>
vars == <<sourceVars, queueVars, outboxVars, cmd, targetVars, links, worker,
          recon, repaired, groupVars, boundVars>>

Item == 1 .. MaxWork
Entity == Order \cup Position
Change == {"opened", "closed", "protection", "created", "modified",
           "replaced", "cancelled", "filled"}
Operation == {"open_market", "place_pending", "modify_position",
              "modify_pending", "close_position", "cancel_pending",
              "reconcile"}
OpenStatus == {"pending", "leased", "retry"}
WorkStatus == {"none", "succeeded", "dead_letter", "superseded"} \cup OpenStatus
InFlight == {"pending", "published", "retry"}
OutboxStatus == {"none", "acknowledged", "dead_letter"} \cup InFlight
\* "unknown_done" is "unknown" to the gateway; the broker did execute it.
CommandStatus == {"none", "queued", "unknown", "unknown_done", "accepted",
                  "failed", "expired"}
Ended == {"closed", "cancelled"}
LinkStatus == {"pending", "active", "closing", "orphaned", "error"} \cup Ended
Kind == {"position", "pending_order"}
NoKind == "NULL"
Exposure == {"none", "pending_order", "position", "gone"}
Step == {"idle", "plan", "persist", "enqueue", "publish", "complete",
         "supersede", "adopt", "retry", "dead"}

NoItem == [op |-> "reconcile", change |-> "filled", entity |-> NoEntity,
           position |-> NoEntity, leg |-> 0]
Idle == [pc |-> "idle", item |-> 0, attempt |-> 0, link |-> 0, ticket |-> 0]
NoRecon == [on |-> FALSE, next |-> <<>>]

Init ==
  /\ source = {} /\ spent = {}
  /\ staged = 0
  /\ item = [i \in Item |-> NoItem]
  /\ status = [i \in Item |-> "none"]
  /\ attempts = [i \in Item |-> 0]
  /\ lease = [i \in Item |-> "none"]
  /\ outbox = [i \in Item |-> "none"]
  /\ bound = [i \in Item |-> FALSE]
  /\ payload = [i \in Item |-> 0]
  /\ cmd = [i \in Item |-> "none"]
  /\ broker = [i \in Item |-> "none"]
  /\ rows = [i \in Item |-> "none"]
  /\ links = <<>>
  /\ worker = [w \in Worker |-> Idle]
  /\ recon = NoRecon
  /\ repaired = {}
  /\ group = "running" /\ enabled = TRUE
  /\ faults = 0 /\ actions = 0

-----------------------------------------------------------------------------
(* What an item is about.                                                  *)

Places(i) == item[i].op \in {"open_market", "place_pending"}
FillsMarket(i) == item[i].op = "open_market" /\ item[i].change = "filled"

\* The kind of target entity an operation creates or needs.
TargetKind(i) == IF item[i].op \in {"open_market", "modify_position",
                                    "close_position"}
                   THEN "position" ELSE "pending_order"

\* copier_link_source_identity: the market copy of a filled pending order is a
\* copy of the position it became.
LinkSource(i) == IF FillsMarket(i) THEN item[i].position ELSE item[i].entity

\* copier_operation_allowed_while_paused.
ReducesRisk(i) == item[i].op \in {"close_position", "cancel_pending",
                                  "reconcile"}

\* copier_work_target_command_exists: the command in the outbox payload has a row
\* in the target-command ledger.
Issued(i) == outbox[i] # "none" /\ cmd[i] # "none"

-----------------------------------------------------------------------------
(* Links.                                                                  *)

Live(l) == links[l].status \notin Ended
Usable(l) == Live(l) /\ links[l].status # "orphaned"

\* source_entity_id = $5 AND ($7 IS NULL OR target_leg = $7).  A leg is known by
\* its link's number.
Matches(i, l) == /\ links[l].src = item[i].entity
                 /\ item[i].leg \in {0, l}

\* copier_target_entity_id: the links whose ticket an operation may act on.
Addressable(i) == {l \in DOMAIN links : /\ Matches(i, l) /\ Usable(l)
                                         /\ links[l].kind = TargetKind(i)}

\* copier_target_link_exists.
LinkExists(i, kind) ==
  \E l \in DOMAIN links : /\ Matches(i, l) /\ Live(l)
                          /\ \/ links[l].kind = kind
                             \/ links[l].kind = NoKind
                                  /\ links[l].expected = kind

\* copier_pending_fill_link_status: the pending order's link was adopted already.
FillLinks(i) == {l \in DOMAIN links : /\ links[l].src = item[i].position
                                      /\ links[l].origin = item[i].entity
                                      /\ Live(l)}

First(S) == CHOOSE l \in S : \A m \in S : l <= m

\* copier_work_target_legs: one leg per distinct target entity, or NULL.
Legs(e) ==
  LET usable == {l \in DOMAIN links : links[l].src = e /\ Usable(l)}
      Same(l, m) == /\ links[l].ticket # 0
                    /\ links[l].kind = links[m].kind
                    /\ links[l].ticket = links[m].ticket
      first == {l \in usable : \A m \in usable : Same(l, m) => l <= m}
  IN IF first = {} THEN {0} ELSE first

-----------------------------------------------------------------------------
(* A complete snapshot of the source account.                              *)

\* copy_work_operations_for_runtime.
OperationsOf(c) ==
  CASE c = "opened"     -> {"open_market"}
    [] c = "closed"     -> {"close_position"}
    [] c = "protection" -> {"modify_position"}
    [] c = "created"    -> {"place_pending"}
    [] c = "modified"   -> {"modify_pending"}
    [] c = "replaced"   -> {"cancel_pending", "place_pending"}
    [] c = "cancelled"  -> {"cancel_pending"}
    [] c = "filled"     -> {IF group = "paused" THEN "reconcile"
                                                ELSE "open_market"}

\* copy_change_allowed_while_paused.
AllowedNow(c) == group = "paused" => c \in {"closed", "cancelled", "filled"}

\* supersede_unissued_copier_predecessors: the risk the source no longer has and
\* whose command was not issued yet.
Obsolete(c, e) ==
  LET op == CASE c = "closed" -> "open_market"
              [] c \in {"replaced", "cancelled", "filled"} -> "place_pending"
              [] OTHER -> "none"
  IN {i \in 1 .. staged : /\ item[i].entity = e /\ item[i].op = op
                          /\ status[i] \in OpenStatus /\ ~Issued(i)}

\* Every order of a set of new items.
Arrangements(S) ==
  UNION {{f \in [1 .. n -> S] : /\ \A x \in S : \E k \in 1 .. n : f[k] = x
                               /\ \A j, k \in 1 .. n : f[j] = f[k] => j = k} :
         n \in 0 .. MaxWork}

\* The new items of one change: every leg of every operation.  They share one
\* created_at (now() is the transaction's time) and have random ids, so their
\* place in the queue's order is any.
NewItems(c, e, p) ==
  LET legs(op) == IF op \in {"open_market", "place_pending"} THEN {0} ELSE Legs(e)
      new == UNION {{[op |-> op, change |-> c, entity |-> e, position |-> p,
                      leg |-> l] : l \in legs(op)} : op \in OperationsOf(c)}
  IN Arrangements(new)

Superseded(S) ==
  [l \in DOMAIN links |->
     IF /\ links[l].work \in S /\ links[l].status = "pending"
        /\ links[l].ticket = 0
       THEN [links[l] EXCEPT !.status = "cancelled"] ELSE links[l]]

\* stage_continuous_copy_changes for one change of the snapshot.
Stage(c, e, p) ==
  LET gone == Obsolete(c, e) IN
  \E f \in NewItems(c, e, p) :
    LET new == staged + 1 .. staged + Len(f) IN
    /\ staged + Len(f) <= MaxWork
    /\ staged' = staged + Len(f)
    /\ item' = [i \in Item |-> IF i \in new THEN f[i - staged] ELSE item[i]]
    /\ status' = [i \in Item |-> IF i \in gone THEN "superseded"
                                 ELSE IF i \in new THEN "pending"
                                 ELSE status[i]]
    /\ lease' = [i \in Item |-> IF i \in gone THEN "none" ELSE lease[i]]
    /\ outbox' = [i \in Item |->
                    IF i \in gone /\ outbox[i] \notin {"none", "acknowledged"}
                      THEN "dead_letter" ELSE outbox[i]]
    /\ links' = Superseded(gone)
    /\ group' = IF group = "paused" THEN "paused" ELSE "running"
    /\ UNCHANGED <<attempts, bound, payload>>

\* The source moved and its snapshot arrives.  diff_portfolio reads the change
\* off the two row sets; a group in error is not told of it.
Snapshot(c, e, p, after) ==
  /\ source' = after
  /\ spent' = spent \cup after
  /\ IF enabled /\ group # "error" /\ AllowedNow(c)
       THEN Stage(c, e, p)
       ELSE UNCHANGED <<queueVars, outboxVars, links, group>>
  /\ UNCHANGED <<cmd, targetVars, worker, recon, repaired, enabled, boundVars>>

SourceChange ==
  \/ \E p \in Position \ spent : Snapshot("opened", p, NoEntity, source \cup {p})
  \/ \E o \in Order \ spent : Snapshot("created", o, NoEntity, source \cup {o})
  \/ \E p \in Position \cap source :
       \/ Snapshot("closed", p, NoEntity, source \ {p})
       \/ Snapshot("protection", p, NoEntity, source)
  \/ \E o \in Order \cap source :
       \/ Snapshot("modified", o, NoEntity, source)
       \/ Snapshot("replaced", o, NoEntity, source)
       \/ Snapshot("cancelled", o, NoEntity, source \ {o})
       \/ \E p \in Position \ spent :
            Snapshot("filled", o, p, (source \ {o}) \cup {p})

-----------------------------------------------------------------------------
(* Workers: process_continuous_copier_work and what it calls.              *)

At(w, pc) == worker[w].pc = pc
Goto(w, pc) == worker' = [worker EXCEPT ![w].pc = pc]
Return(w) == worker' = [worker EXCEPT ![w] = Idle]

BlockedByWork(i) == \E h \in 1 .. i - 1 : status[h] \in OpenStatus
\* An earlier item of the target that is open, or whose command is in flight.
Blocked(i) == \E h \in 1 .. i - 1 : status[h] \in OpenStatus
                                      \/ outbox[h] \in InFlight

\* The claim.  No lease holds the item, the group may run the operation, and the
\* item is the target's oldest unfinished one.  The claim may come at any time, so
\* the backoff (available_at) needs no clock.
Claim(w, i) ==
  /\ At(w, "idle")
  /\ i <= staged
  /\ status[i] \in OpenStatus /\ lease[i] # "live"
  /\ enabled
  /\ group = "running" \/ (group = "paused" /\ ReducesRisk(i))
  /\ ~Blocked(i)
  /\ status' = [status EXCEPT ![i] = "leased"]
  /\ lease' = [lease EXCEPT ![i] = "live"]
  /\ attempts' = [attempts EXCEPT ![i] = @ + 1]
  /\ worker' = [worker EXCEPT ![w] = [pc |-> "plan", item |-> i, link |-> 0,
                                      ticket |-> 0, attempt |-> attempts[i] + 1]]
  /\ UNCHANGED <<sourceVars, staged, item, outboxVars, cmd,
                 targetVars, links, recon, repaired, groupVars, boundVars>>

\* The position that became of the target's pending order: the one of its own trade
\* transaction if the ticket is known and it filled, else any position of that
\* symbol and side that no other link holds.
Candidates(l) ==
  LET t == links[l].ticket
      held == {links[m].ticket : m \in {m \in DOMAIN links :
                 m # l /\ Usable(m) /\ links[m].kind = "position"}}
  IN IF t # 0 /\ broker[t] = "position" THEN {t}
       ELSE {i \in Item : rows[i] = "position" /\ i \notin held}

\* reconcile_continuous_copy_target, up to its UPDATE.
PlanAdoption(w, i) ==
  LET L == {l \in DOMAIN links : Matches(i, l) /\ Live(l)}
      l == First(L)
      waits == \/ links[l].status \in {"error", "orphaned"}
               \/ links[l].ticket # 0
                    /\ rows[links[l].ticket] = "pending_order"
               \/ Candidates(l) = {}
  IN \/ L = {} /\ Goto(w, "complete")
     \/ L # {} /\ waits /\ Goto(w, "retry")
     \/ /\ L # {} /\ ~waits
        /\ \E t \in Candidates(l) :
             worker' = [worker EXCEPT ![w].pc = "adopt", ![w].link = l,
                                      ![w].ticket = t]

\* The routed order: the target may be offline or without fresh instrument data
\* (retried), or the route or the risk guard may reject it (permanent).
PlanOrder(w, i) ==
  IF /\ item[i].op = "place_pending" /\ item[i].change = "replaced"
     /\ LinkExists(i, "pending_order")
    THEN Goto(w, "retry")
    ELSE \E pc \in {"persist", "retry", "dead"} : Goto(w, pc)

\* copier_work_is_stale: by the time of the plan the change may have outlived
\* staleAfterMs; it then adds no risk, unless its command is out.
PlanFresh(w, i) == \/ ~Issued(i) /\ Goto(w, "supersede")
                   \/ PlanOrder(w, i)

PlanFill(w, i) ==
  \/ \E l \in FillLinks(i) :
       Goto(w, IF links[l].status \in {"error", "orphaned"} THEN "retry"
                                                            ELSE "complete")
  \/ /\ FillLinks(i) = {}
     /\ LinkExists(i, "pending_order")
     /\ PlanAdoption(w, i)
  \/ /\ FillLinks(i) = {}
     /\ ~LinkExists(i, "pending_order")
     /\ PlanFresh(w, i)

PlanLifecycle(w, i) ==
  IF Addressable(i) # {}
    THEN worker' = [worker EXCEPT ![w].pc = "persist",
                      ![w].ticket = links[First(Addressable(i))].ticket]
    ELSE Goto(w, IF LinkExists(i, TargetKind(i)) THEN "retry" ELSE "complete")

\* execute_continuous_copier_work up to persist_copier_outbox: reads only.
Plan(w) ==
  LET i == worker[w].item IN
  /\ At(w, "plan")
  /\ \/ item[i].op = "reconcile" /\ PlanAdoption(w, i)
     \/ FillsMarket(i) /\ PlanFill(w, i)
     \/ /\ Places(i) /\ ~FillsMarket(i)
        /\ PlanFresh(w, i)
     \/ ~Places(i) /\ item[i].op # "reconcile" /\ PlanLifecycle(w, i)
  /\ UNCHANGED <<sourceVars, queueVars, outboxVars, cmd, targetVars, links,
                 recon, repaired, groupVars, boundVars>>

\* The link of a placed order: a retry finds its own, a first attempt adds one.
PlacedLinks(i) ==
  LET own == {l \in DOMAIN links : links[l].work = i
                                     /\ links[l].src = LinkSource(i)}
      new == [src |-> LinkSource(i), status |-> "pending", kind |-> NoKind,
              ticket |-> 0, expected |-> TargetKind(i), work |-> i,
              last |-> 0, origin |-> NoEntity]
  IN IF own = {} THEN Append(links, new)
     ELSE [l \in DOMAIN links |->
             IF l \in own /\ links[l].status \notin {"active", "closing"}
               THEN [links[l] EXCEPT !.status = "pending"] ELSE links[l]]

ActedOnLinks(i) ==
  [l \in DOMAIN links |-> IF Matches(i, l) /\ Usable(l)
                            THEN [links[l] EXCEPT !.last = i] ELSE links[l]]

\* Does a retry compute the payload the outbox already holds?  A placed quantity
\* follows the accounts' equity; any other command names its ticket.
SamePayload(w, i) == IF outbox[i] = "none" THEN {TRUE}
                     ELSE IF Places(i) THEN BOOLEAN
                     ELSE {payload[i] = worker[w].ticket}

\* persist_copier_outbox.
Persist(w) ==
  LET i == worker[w].item IN
  /\ At(w, "persist")
  /\ \E same \in SamePayload(w, i) :
          IF enabled /\ (group = "paused" => ReducesRisk(i))
               /\ status[i] = "leased" /\ same
            THEN /\ Goto(w, "enqueue")
                 /\ outbox' = [outbox EXCEPT ![i] = IF @ = "none" THEN "pending"
                                                                  ELSE @]
                 /\ payload' = [payload EXCEPT ![i] = worker[w].ticket]
                 /\ links' = IF Places(i) THEN PlacedLinks(i) ELSE ActedOnLinks(i)
            ELSE /\ Goto(w, IF enabled /\ group = "paused" /\ ~ReducesRisk(i)
                              THEN "retry" ELSE "dead")
                 /\ UNCHANGED <<outbox, payload, links>>
  /\ UNCHANGED <<sourceVars, queueVars, bound, cmd, targetVars, recon,
                 repaired, groupVars, boundVars>>

\* enqueue with the copier's gate: under the target's advisory lock the item must
\* still be leased and the group must still run it.
Current(i) == enabled /\ status[i] = "leased"

EnqueueUngated(w) ==
  LET i == worker[w].item IN
  /\ At(w, "enqueue")
  /\ cmd' = [cmd EXCEPT ![i] = IF @ = "none" THEN "queued" ELSE @]
  /\ Goto(w, "publish")
  /\ UNCHANGED <<sourceVars, queueVars, outboxVars, targetVars, links, recon,
                 repaired, groupVars, boundVars>>

Enqueue(w) ==
  LET i == worker[w].item IN
  /\ At(w, "enqueue")
  /\ IF Current(i) /\ (group = "running" \/ ReducesRisk(i))
       THEN /\ cmd' = [cmd EXCEPT ![i] = IF @ = "none" THEN "queued" ELSE @]
            /\ Goto(w, "publish")
       ELSE /\ Goto(w, IF Current(i) THEN "retry" ELSE "dead")
            /\ UNCHANGED cmd
  /\ UNCHANGED <<sourceVars, queueVars, outboxVars, targetVars, links, recon,
                 repaired, groupVars, boundVars>>

\* enqueue's Backpressure when the account already has its limit of commands.
QueueFull(w) ==
  /\ At(w, "enqueue") /\ cmd[worker[w].item] = "none"
  /\ Goto(w, "retry")
  /\ UNCHANGED <<sourceVars, queueVars, outboxVars, cmd, targetVars, links,
                 recon, repaired, groupVars, boundVars>>

\* The id of item i's row in the command ledger, and the id publish_copier_outbox
\* is given: route_order appends the account to the id of an order it routes.
CommandId(i) == <<i, IF Places(i) THEN "account" ELSE "">>
PublishedId(i) == <<i, "">>

ClosesLinks(i) == item[i].change \in {"closed", "cancelled", "replaced"}

\* publish_copier_outbox.  target_command_id references the ledger; an id that is
\* not there fails the transaction, a server error that is retried.
Publish(w) ==
  LET i == worker[w].item IN
  /\ At(w, "publish")
  /\ IF PublishedId(i) # CommandId(i)
       THEN /\ Goto(w, "retry")
            /\ UNCHANGED <<outbox, bound, status, lease, links>>
       ELSE /\ Return(w)
            /\ outbox' = [outbox EXCEPT ![i] = IF @ \in InFlight
                                                 THEN "published" ELSE @]
            /\ bound' = [bound EXCEPT ![i] = @ \/ outbox[i] \in InFlight]
            /\ status' = [status EXCEPT ![i] = IF @ = "leased" THEN "succeeded"
                                                               ELSE @]
            /\ lease' = [lease EXCEPT ![i] = IF status[i] = "leased" THEN "none"
                                                                     ELSE @]
            /\ links' = [l \in DOMAIN links |->
                 IF /\ ClosesLinks(i) /\ Live(l)
                    /\ links[l].src = item[i].entity
                    /\ i \in {links[l].work, links[l].last}
                   THEN [links[l] EXCEPT !.status = "closing"] ELSE links[l]]
  /\ UNCHANGED <<sourceVars, staged, item, attempts, payload, cmd,
                 targetVars, recon, repaired, groupVars, boundVars>>

\* complete_continuous_copier_work: the item alone; an outbox row it may have
\* stays as it is.
Complete(w) ==
  LET i == worker[w].item IN
  /\ At(w, "complete")
  /\ Return(w)
  /\ status' = [status EXCEPT ![i] = IF @ \in OpenStatus THEN "succeeded" ELSE @]
  /\ lease' = [lease EXCEPT ![i] = "none"]
  /\ UNCHANGED <<sourceVars, staged, item, attempts, outboxVars,
                 cmd, targetVars, links, recon, repaired, groupVars, boundVars>>

\* The UPDATE of reconcile_continuous_copy_target: the pending order's link becomes
\* the position's.
Adopt(w) ==
  LET i == worker[w].item IN
  /\ At(w, "adopt")
  /\ Goto(w, "complete")
  /\ links' = [links EXCEPT ![worker[w].link] =
                 [@ EXCEPT !.src = item[i].position, !.kind = "position",
                           !.ticket = worker[w].ticket,
                           !.origin = item[i].entity, !.status = "active"]]
  /\ UNCHANGED <<sourceVars, queueVars, outboxVars, cmd, targetVars, recon,
                 repaired, groupVars, boundVars>>

\* supersede_continuous_copier_work, under the target's advisory lock.
Supersede(w) ==
  LET i == worker[w].item IN
  /\ At(w, "supersede")
  /\ IF Issued(i)
       THEN Goto(w, "retry") /\ UNCHANGED <<status, lease, outbox, links>>
       ELSE /\ Return(w)
            /\ status' = [status EXCEPT ![i] = IF @ \in OpenStatus
                                                 THEN "superseded" ELSE @]
            /\ lease' = [lease EXCEPT ![i] = "none"]
            /\ outbox' = [outbox EXCEPT ![i] = IF @ \in {"pending", "retry"}
                                                 THEN "dead_letter" ELSE @]
            /\ links' = [l \in DOMAIN links |->
                 IF /\ links[l].work = i /\ links[l].src = item[i].entity
                    /\ links[l].status = "pending"
                   THEN [links[l] EXCEPT !.status = "cancelled"] ELSE links[l]]
  /\ UNCHANGED <<sourceVars, staged, item, attempts, bound,
                 payload, cmd, targetVars, recon, repaired, groupVars,
                 boundVars>>

FailableAny == WorkStatus
\* status IN ('pending', 'leased', 'retry') of the failure's UPDATE.
Failable == OpenStatus

\* fail_continuous_copier_work.  It does not ask who holds the lease.
Fail(w) ==
  LET i == worker[w].item
      again == At(w, "retry") /\ worker[w].attempt < MaxAttempts
  IN
  /\ At(w, "retry") \/ At(w, "dead")
  /\ Return(w)
  /\ IF status[i] \in Failable
       THEN /\ status' = [status EXCEPT ![i] = IF again THEN "retry"
                                                        ELSE "dead_letter"]
            /\ lease' = [lease EXCEPT ![i] = "none"]
            /\ outbox' = [outbox EXCEPT ![i] =
                            IF @ \in {"none", "published", "acknowledged"} THEN @
                            ELSE IF again THEN "retry" ELSE "dead_letter"]
            /\ group' = IF group = "paused" THEN "paused"
                        ELSE IF again THEN "running" ELSE "error"
       ELSE UNCHANGED <<status, lease, outbox, group>>
  /\ UNCHANGED <<sourceVars, staged, item, attempts, bound, payload, cmd,
                 targetVars, links, recon, repaired, enabled, boundVars>>

-----------------------------------------------------------------------------
(* Crashes and time.                                                       *)

Fault == faults < MaxFaults /\ faults' = faults + 1 /\ UNCHANGED actions

\* The gateway restarts while a drain runs.
Crash(w) ==
  /\ ~At(w, "idle")
  /\ Fault
  /\ Return(w)
  /\ UNCHANGED <<sourceVars, queueVars, outboxVars, cmd, targetVars, links,
                 recon, repaired, groupVars>>

\* The 30 s of a lease pass: of a drain that died, or of one that is still at it.
LeaseExpires(i) ==
  LET held == \E w \in Worker : worker[w].item = i IN
  /\ lease[i] = "live"
  /\ IF held THEN Fault ELSE UNCHANGED boundVars
  /\ lease' = [lease EXCEPT ![i] = "expired"]
  /\ UNCHANGED <<sourceVars, staged, item, status, attempts,
                 outboxVars, cmd, targetVars, links, worker, recon, repaired,
                 groupVars>>

-----------------------------------------------------------------------------
(* The target: its terminal executes commands and reports, its broker moves. *)

\* What the broker holds once item i's command was executed.
Executed(i) ==
  CASE Places(i) -> [broker EXCEPT ![i] = TargetKind(i)]
    [] item[i].op \in {"close_position", "cancel_pending"} ->
         [broker EXCEPT ![payload[i]] = "gone"]
    [] OTHER -> broker

Executable(i) == ~Places(i) => broker[payload[i]] = TargetKind(i)

\* The outbox and link updates of an acknowledgement find their row by
\* target_command_id.  The trade transaction that names a market order's position is
\* in the same batch.
OutboxAfter(i, outcome) ==
  IF ~bound[i] THEN outbox
  ELSE [outbox EXCEPT ![i] = CASE outcome = "accepted" -> "acknowledged"
                               [] outcome = "unknown" -> "retry"
                               [] outcome = "failed" -> "dead_letter"]

LinksAfter(i, outcome) ==
  LET After(l) ==
        LET kind == IF links[l].kind = NoKind THEN links[l].expected
                                              ELSE links[l].kind
            ticket == IF links[l].ticket # 0 THEN links[l].ticket
                      ELSE IF outcome = "accepted" THEN i ELSE 0
        IN [links[l] EXCEPT
              !.kind = IF outcome = "accepted" /\ Places(i) /\ ticket # 0
                         THEN kind ELSE @,
              !.ticket = ticket,
              !.status = CASE outcome # "accepted" -> "error"
                           [] outcome = "accepted" /\ Places(i) /\ ticket # 0
                                -> "active"
                           [] outcome = "accepted" /\ item[i].op = "close_position"
                                -> "closed"
                           [] outcome = "accepted" /\ item[i].op = "cancel_pending"
                                -> "cancelled"
                           [] OTHER -> @]
  IN [l \in DOMAIN links |->
        IF bound[i] /\ i \in {links[l].work, links[l].last}
          THEN After(l) ELSE links[l]]

Report(i, outcome, state) ==
  /\ cmd' = [cmd EXCEPT ![i] = state]
  /\ outbox' = OutboxAfter(i, outcome)
  /\ links' = LinksAfter(i, outcome)
  /\ UNCHANGED <<sourceVars, queueVars, bound, payload, rows, worker,
                 recon, repaired, groupVars>>

\* The terminal executes the command and the gateway learns how it ended.
Acknowledge(i) ==
  /\ cmd[i] = "queued"
  /\ \/ Executable(i) /\ broker' = Executed(i) /\ Report(i, "accepted", "accepted")
     \/ UNCHANGED broker /\ Report(i, "failed", "failed")
  /\ UNCHANGED boundVars

\* ... or that the terminal does not know.
AcknowledgeUnknown(i) ==
  /\ cmd[i] = "queued"
  /\ Fault
  /\ \/ /\ Executable(i) /\ broker' = Executed(i)
        /\ Report(i, "unknown", "unknown_done")
     \/ UNCHANGED broker /\ Report(i, "unknown", "unknown")

\* The command is offered again and the terminal finds out.
Resolve(i) ==
  /\ \/ cmd[i] = "unknown_done" /\ Report(i, "accepted", "accepted")
     \/ cmd[i] = "unknown" /\ Report(i, "failed", "failed")
  /\ UNCHANGED <<broker, boundVars>>

\* poll_commands and manage_account end a command that was not delivered; neither
\* touches the copier's tables.
ExpireCommand(i) ==
  /\ cmd[i] = "queued"
  /\ Fault
  /\ cmd' = [cmd EXCEPT ![i] = "expired"]
  /\ UNCHANGED <<sourceVars, queueVars, outboxVars, targetVars, links, worker,
                 recon, repaired, groupVars>>

\* The target's pending order fills.
TargetFills(i) ==
  /\ broker[i] = "pending_order"
  /\ broker' = [broker EXCEPT ![i] = "position"]
  /\ UNCHANGED <<sourceVars, queueVars, outboxVars, cmd, rows, links,
                 worker, recon, repaired, groupVars, boundVars>>

\* A stop, or a hand at the terminal, closes the copy.
BrokerCloses(i) ==
  /\ broker[i] \in Kind
  /\ Fault
  /\ broker' = [broker EXCEPT ![i] = "gone"]
  /\ UNCHANGED <<sourceVars, queueVars, outboxVars, cmd, rows, links,
                 worker, recon, repaired, groupVars>>

\* A complete snapshot of the target replaces its rows.
TargetSnapshot ==
  /\ rows # broker \/ repaired # {}
  /\ rows' = broker
  /\ repaired' = {}
  /\ UNCHANGED <<sourceVars, queueVars, outboxVars, cmd, broker, links,
                 worker, recon, groupVars, boundVars>>

-----------------------------------------------------------------------------
(* Reconciliation: reconcile_continuous_copy_group.                        *)

\* lifecycle_work_pending.
ClosePending(l) == \E i \in 1 .. staged :
                      /\ status[i] \in OpenStatus
                      /\ item[i].op \in {"close_position", "cancel_pending"}
                      /\ item[i].entity = links[l].src

EndOf(l) == IF links[l].src \in Position THEN "closed" ELSE "cancelled"

\* What the rows of one SELECT make of link l.
Verdict(l) ==
  LET here == links[l].src \in source
      there == links[l].ticket # 0 /\ rows[links[l].ticket] = links[l].kind
  IN CASE ~Live(l) -> "skip"
       [] Live(l) /\ here /\ there -> "confirm"
       [] Live(l) /\ ~here /\ there ->
            IF links[l].status # "closing" /\ ~ClosePending(l)
              THEN "repair" ELSE "skip"
       [] Live(l) /\ here /\ ~there ->
            IF links[l].status = "closing" THEN EndOf(l)
            ELSE IF links[l].ticket = 0 THEN "pending" ELSE "orphaned"
       [] Live(l) /\ ~here /\ ~there -> EndOf(l)

ReconcileRead ==
  /\ ~recon.on
  /\ recon' = [on |-> TRUE, next |-> [l \in DOMAIN links |-> Verdict(l)]]
  /\ UNCHANGED <<sourceVars, queueVars, outboxVars, cmd, targetVars, links,
                 worker, repaired, groupVars, boundVars>>

\* stage_generated_copier_work: the item that closes what the source closed.
Repair(l) == LET closes == links[l].kind = "position" IN
  [op |-> IF closes THEN "close_position" ELSE "cancel_pending",
   change |-> IF closes THEN "closed" ELSE "cancelled",
   entity |-> links[l].src, position |-> NoEntity, leg |-> l]

GroupKeepingError == group
\* The group's status after a reconciliation: an error does not outlive it.
GroupAfter == IF enabled /\ group # "paused" THEN "running" ELSE group

\* The UPDATEs, by link id alone.
ReconcileWrite ==
  LET read == DOMAIN recon.next
      repairs == {l \in read : recon.next[l] = "repair"}
  IN
  /\ recon.on
  /\ recon' = NoRecon
  /\ \E f \in Arrangements({Repair(l) : l \in repairs \ repaired}) :
       LET new == staged + 1 .. staged + Len(f) IN
       /\ staged + Len(f) <= MaxWork
       /\ staged' = staged + Len(f)
       /\ item' = [i \in Item |-> IF i \in new THEN f[i - staged] ELSE item[i]]
       /\ status' = [i \in Item |-> IF i \in new THEN "pending" ELSE status[i]]
  /\ repaired' = repaired \cup repairs
  /\ links' = [l \in DOMAIN links |->
       IF l \notin read \/ recon.next[l] = "skip" THEN links[l]
       ELSE [links[l] EXCEPT !.status =
               CASE recon.next[l] = "confirm" -> IF @ = "closing" THEN @ ELSE "active"
                 [] recon.next[l] = "repair" -> "closing"
                 [] OTHER -> recon.next[l]]]
  /\ group' = GroupAfter
  /\ UNCHANGED <<sourceVars, attempts, lease, outboxVars, cmd,
                 targetVars, worker, enabled, boundVars>>

-----------------------------------------------------------------------------
(* The user: copy_group_action.                                            *)

Act == actions < MaxActions /\ actions' = actions + 1 /\ UNCHANGED faults

Pause ==
  /\ Act
  /\ group' = "paused"
  /\ UNCHANGED <<sourceVars, queueVars, outboxVars, cmd, targetVars, links,
                 worker, recon, repaired, enabled>>

Resume ==
  /\ Act
  /\ group' = "running" /\ enabled' = TRUE
  /\ UNCHANGED <<sourceVars, queueVars, outboxVars, cmd, targetVars, links,
                 worker, recon, repaired>>

Archive ==
  LET open == {i \in 1 .. staged : status[i] \in OpenStatus} IN
  /\ Act
  /\ \A l \in DOMAIN links : ~Live(l)
  /\ group' = "running" /\ enabled' = FALSE
  /\ status' = [i \in Item |-> IF i \in open THEN "superseded" ELSE status[i]]
  /\ lease' = [i \in Item |-> IF i \in open THEN "none" ELSE lease[i]]
  /\ outbox' = [i \in Item |-> IF i \in open /\ outbox[i] \in {"pending", "retry"}
                                 THEN "dead_letter" ELSE outbox[i]]
  /\ UNCHANGED <<sourceVars, staged, item, attempts, bound,
                 payload, cmd, targetVars, links, worker, recon, repaired>>

-----------------------------------------------------------------------------
Work(w) == \/ Plan(w) \/ Persist(w) \/ Enqueue(w) \/ QueueFull(w) \/ Publish(w)
           \/ Complete(w) \/ Adopt(w) \/ Supersede(w) \/ Fail(w)

Next ==
  \/ SourceChange
  \/ \E w \in Worker : Work(w) \/ Crash(w) \/ \E i \in Item : Claim(w, i)
  \/ \E i \in Item : \/ LeaseExpires(i) \/ Acknowledge(i)
                     \/ AcknowledgeUnknown(i) \/ Resolve(i) \/ ExpireCommand(i)
                     \/ TargetFills(i) \/ BrokerCloses(i)
  \/ TargetSnapshot \/ ReconcileRead \/ ReconcileWrite
  \/ Pause \/ Resume \/ Archive

Spec == Init /\ [][Next]_vars

\* Every heartbeat of either account drains the queue, reconciles and drains again;
\* terminals go on reporting and leases and backoffs are short.
Fairness ==
  /\ \A w \in Worker : WF_vars(Work(w)) /\ WF_vars(\E i \in Item : Claim(w, i))
  /\ \A i \in Item : /\ WF_vars(Acknowledge(i) \/ Resolve(i))
                     /\ WF_vars(LeaseExpires(i) /\ UNCHANGED boundVars)
  /\ WF_vars(TargetSnapshot) /\ WF_vars(ReconcileRead) /\ WF_vars(ReconcileWrite)

FairSpec == Spec /\ Fairness

-----------------------------------------------------------------------------
(* Properties.                                                             *)

LinkRecord == [src : Entity, status : LinkStatus, kind : Kind \cup {NoKind},
               ticket : 0 .. MaxWork, expected : Kind, work : Item,
               last : 0 .. MaxWork, origin : Order \cup {NoEntity}]

\* Every variable is in its domain, and a link has a target kind if and only if it
\* has a target ticket (the CHECK of execution_copy_links).
TypeOK ==
  /\ source \subseteq spent /\ spent \subseteq Entity
  /\ staged \in 0 .. MaxWork
  /\ item \in [Item -> [op : Operation, change : Change,
                        entity : Entity \cup {NoEntity},
                        position : Position \cup {NoEntity},
                        leg : 0 .. MaxWork]]
  /\ status \in [Item -> WorkStatus]
  /\ attempts \in [Item -> Nat]
  /\ lease \in [Item -> {"none", "live", "expired"}]
  /\ outbox \in [Item -> OutboxStatus] /\ bound \in [Item -> BOOLEAN]
  /\ payload \in [Item -> 0 .. MaxWork]
  /\ cmd \in [Item -> CommandStatus]
  /\ broker \in [Item -> Exposure] /\ rows \in [Item -> Exposure]
  /\ links \in Seq(LinkRecord)
  /\ \A l \in DOMAIN links : (links[l].ticket = 0) <=> (links[l].kind = NoKind)
  /\ worker \in [Worker -> [pc : Step, item : 0 .. MaxWork, attempt : Nat,
                            link : 0 .. MaxWork, ticket : 0 .. MaxWork]]
  /\ recon.on \in BOOLEAN
  /\ repaired \subseteq DOMAIN links
  /\ group \in {"running", "paused", "error"} /\ enabled \in BOOLEAN
  /\ faults \in Nat /\ actions \in Nat

\* Commands of the target leave in queue order: once an item has a command, every
\* earlier item is finished for good and none of their commands is in flight,
\* whatever leases expired and whatever late drain came back (the claim's NOT
\* EXISTS prior, with the gate of enqueue).
Serialized ==
  \A i \in Item, h \in Item :
    h < i /\ cmd[i] # "none"
      => status[h] \notin OpenStatus /\ outbox[h] \notin InFlight

\* A later close, cancel or fill supersedes a predecessor only while its command is
\* not issued, and from then on no drain that planned it earlier can issue it.
SupersededNeverIssued ==
  [][\A i \in Item :
       /\ status[i] = "superseded" /\ cmd[i] = "none" => cmd'[i] = "none"
       /\ status[i] # "superseded" /\ status'[i] = "superseded" /\ enabled'
            => cmd[i] = "none"]_vars

\* A finished item stays as it ended: no late drain, failure or publication reopens
\* it or turns its outcome.
FinishedStaysFinished ==
  [][\A i \in Item : status[i] \in WorkStatus \ (OpenStatus \cup {"none"})
                       => status'[i] = status[i]]_vars

\* The head of the target's queue is finished in the end, though drains crash and
\* leases expire: an expired lease is claimed again, attempts are bounded, and the
\* error a dead letter leaves the group in is lifted by the next reconciliation.
\* (What an unsettled command behind the head does to the rest: OutboxSettles.)
HeadFinishes == \A i \in Item : status[i] \in OpenStatus /\ ~Blocked(i)
                                  ~> status[i] \notin OpenStatus

\* An outcome the terminal reported is in the outbox row of its command, and the
\* queue behind it goes on (the event transaction's two copier updates).
OutcomeReachesOutbox ==
  \A i \in Item : cmd[i] \in {"accepted", "failed"}
                    => outbox[i] \in {"acknowledged", "dead_letter"}

\* A close or cancellation goes through while the group is paused, once no earlier
\* command is in flight.
ReductionsWhilePaused ==
  \A i \in Item :
    /\ group = "paused" /\ status[i] \in OpenStatus /\ ReducesRisk(i)
    /\ \A h \in 1 .. i - 1 : outbox[h] \notin InFlight
    ~> group # "paused" \/ status[i] \notin OpenStatus

\* A command that was persisted is settled, whatever the broker did meanwhile.
OutboxSettles == \A i \in Item : outbox[i] \in InFlight ~> outbox[i] \notin InFlight
=============================================================================
