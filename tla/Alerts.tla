------------------------------- MODULE Alerts --------------------------------
(***************************************************************************)
(* Price alerts of the open browser: the three lists of store/alertStore,  *)
(* the live engine (hooks/useAlertEngine with BrowserAlertTriggerQueue),   *)
(* the per-alert chains of requests to the backend (queueAlertSync), the   *)
(* backend's rows and events, the closed-browser worker that fires the     *)
(* same rows, and usePushTriggerReconcile.                                 *)
(*                                                                         *)
(* An alert is its arming key (condition, target, recurring) and the arming*)
(* revision that the browser and the backend count independently; notes,   *)
(* channels and drawing provenance never influence the control.            *)
(***************************************************************************)
EXTENDS Partial

CONSTANTS
  AlertId, Price,
  Kind,          \* what the dialogs create: condition, target, recurring, technical
  Rearm,         \* RECURRING_REARM_MS, in ticks
  MaxTick,       \* bound: ticks of the market
  MaxMutations,  \* bound: changes by the user, sign-ins and sign-outs
  MaxReconciles, \* bound: reconciliations of one alert that wait in its chain
  MaxFaults      \* bound: requests that fail or whose reply is lost
Condition == {"above", "below", "crossUp", "crossDown"}
ASSUME AlertConstants ==
  /\ Kind \subseteq [condition : Condition, target : Price,
                     recurring : BOOLEAN, technical : BOOLEAN]
  /\ Rearm \in Nat \ {0}

VARIABLES
  active, triggered, expired,  \* alertsAtom, triggeredAlertsAtom, expiredAlertsAtom
  history,       \* historyAtom
  signedIn,      \* backendSessionAtom; the workspace is ready either way
  seen,          \* revisionByAlertRef
  prevPrice, tick, price,      \* previousPriceRef; the market
  waiting,       \* BrowserAlertTriggerQueue.pending: candidate and its number
  flying,        \* BrowserAlertTriggerQueue.inFlight
  retryTimer,    \* BrowserAlertTriggerQueue.timers
  disposed,      \* the last candidate of the queues that were disposed
  chain,         \* alertSyncQueues: the requests of one alert, in order
  orphan,        \* a chain that resetAlertsToDefaultsAtom forgot
  clearing,      \* historySyncQueue: requests that settle before the clear
  rows, events, cleared,       \* the backend: alerts, alert_events
  notices,       \* history: notifications delivered, in order
  disturbed,     \* history: alerts whose firing time was lost, with the tick
  candidates, mutations, faults

listVars == <<active, triggered, expired, history>>
engineVars == <<seen, prevPrice, waiting, flying, retryTimer, disposed, candidates>>
syncVars == <<chain, orphan, clearing>>
marketVars == <<tick, price>>
historyVars == <<notices, disturbed>>
backendVars == <<rows, events, cleared>>
alertsVars == <<listVars, engineVars, syncVars, marketVars, backendVars,
                signedIn, historyVars, mutations, faults>>

(* Attempts without a session settle in microtasks, before the next task. *)
Idle == \A id \in AlertId : \A i \in DOMAIN chain[id] : chain[id][i].op # "local"
Mutation == Idle /\ mutations < MaxMutations /\ mutations' = mutations + 1
Lists == DOMAIN active \union DOMAIN triggered \union DOMAIN expired
Find(id) == IF id \in DOMAIN active THEN active[id]
            ELSE IF id \in DOMAIN triggered THEN triggered[id] ELSE expired[id]

(***************************************************************************)
(* services/alertConditions.                                               *)
(***************************************************************************)
IsPriceConditionMet(c, target, before, now) ==
  CASE c = "above" -> now >= target
    [] c = "below" -> now <= target
    [] c = "crossUp" -> before # Nothing /\ before < target /\ now >= target
    [] c = "crossDown" -> before # Nothing /\ before > target /\ now <= target

IsTriggerPriceValid(c, target, now) ==
  IF c \in {"above", "crossUp"} THEN now >= target ELSE now <= target

HasAlertArmingChange(a, patch) ==
  \/ a.condition # patch.condition
  \/ a.target # patch.target
  \/ a.recurring # patch.recurring

(***************************************************************************)
(* queueAlertSync: without a session nothing is sent.                      *)
(***************************************************************************)
Request(op, a) == [op |-> op, alert |-> a, entry |-> Nothing, at |-> 0,
                   before |-> Nothing, now |-> 0]
QueueAlertSync(id, reqs) ==
  chain' = IF signedIn THEN [chain EXCEPT ![id] = @ \o reqs] ELSE chain

(***************************************************************************)
(* createAlertAtom and duplicateAlertAtom.                                 *)
(***************************************************************************)
NewAlert(k) ==
  [condition |-> k.condition, target |-> k.target, recurring |-> k.recurring,
   technical |-> k.technical, enabled |-> TRUE, rev |-> 1, firedAt |-> 0, evidence |-> <<>>]

(* An identity that was used is not used again. *)
Free(id) == /\ id \notin Lists /\ rows[id] = Nothing
            /\ chain[id] = <<>> /\ orphan[id] = <<>>
            /\ id \notin DOMAIN waiting /\ id \notin flying
            /\ \A e \in events : e.id # id
            /\ \A i \in DOMAIN notices : notices[i].id # id

CreateAlert(id, k) ==
  LET a == NewAlert(k) IN
  /\ Mutation
  /\ Free(id)
  /\ active' = Put(active, id, a)
  /\ QueueAlertSync(id, <<Request("create", a)>>)
  /\ UNCHANGED <<triggered, expired, history, engineVars, orphan, clearing,
                 marketVars, backendVars, signedIn, historyVars, faults>>

DuplicateAlert(id, copy) ==
  LET a == [Find(id) EXCEPT !.rev = 1, !.firedAt = 0, !.evidence = <<>>] IN
  /\ Mutation
  /\ id \in Lists
  /\ Free(copy)
  /\ active' = Put(active, copy, a)
  /\ QueueAlertSync(copy, <<Request("create", a)>>)
  /\ UNCHANGED <<triggered, expired, history, engineVars, orphan, clearing,
                 marketVars, backendVars, signedIn, historyVars, faults>>

(***************************************************************************)
(* updateAlertAtom: an arming change moves the alert to the active list    *)
(* under the next revision; any other patch leaves it where it is.         *)
(***************************************************************************)
Rearmed(a) == [a EXCEPT !.rev = @ + 1, !.firedAt = 0, !.evidence = <<>>]
Everywhere(list, id, a) == IF id \in DOMAIN list THEN Put(list, id, a) ELSE list

Patches(a) == {[a EXCEPT !.target = t] : t \in Price \ {a.target}}
              \union {[a EXCEPT !.recurring = ~ @], [a EXCEPT !.enabled = ~ @]}

UpdateAlert(id, patch) ==
  LET old == Find(id)
      rearm == HasAlertArmingChange(old, patch)
      new == IF rearm THEN Rearmed(patch) ELSE patch
  IN
  /\ Mutation
  /\ IF rearm
     THEN /\ active' = Put(active, id, new)
          /\ triggered' = Drop(triggered, {id})
          /\ expired' = Drop(expired, {id})
     ELSE /\ active' = Everywhere(active, id, new)
          /\ triggered' = Everywhere(triggered, id, new)
          /\ expired' = Everywhere(expired, id, new)
  /\ QueueAlertSync(id, <<Request(IF rearm THEN "arm" ELSE "patch", new)>>)
  /\ disturbed' = IF new.enabled /\ ~ old.enabled
                  THEN disturbed \union {<<id, tick>>} ELSE disturbed
  /\ UNCHANGED <<history, engineVars, orphan, clearing, marketVars,
                 backendVars, signedIn, notices, faults>>

(* resetAlertAtom: a fired or expired alert is armed again. *)
ResetAlert(id) ==
  LET new == Rearmed(Find(id)) IN
  /\ Mutation
  /\ id \in DOMAIN triggered \union DOMAIN expired
  /\ active' = Put(active, id, new)
  /\ triggered' = Drop(triggered, {id})
  /\ expired' = Drop(expired, {id})
  /\ QueueAlertSync(id, <<Request("arm", new)>>)
  /\ UNCHANGED <<history, engineVars, orphan, clearing, marketVars,
                 backendVars, signedIn, historyVars, faults>>

(***************************************************************************)
(* deleteAlertAtom, clearAlertsAtom, clearTriggeredAtom, clearExpiredAtom. *)
(***************************************************************************)
Remove(ids) ==
  /\ Mutation
  /\ ids # {}
  /\ active' = Drop(active, ids)
  /\ triggered' = Drop(triggered, ids)
  /\ expired' = Drop(expired, ids)
  /\ chain' = [id \in AlertId |->
       IF signedIn /\ id \in ids
       THEN Append(chain[id], Request("delete", Find(id))) ELSE chain[id]]
  /\ UNCHANGED <<history, engineVars, orphan, clearing, marketVars,
                 backendVars, signedIn, historyVars, faults>>

DeleteAlert(id) == id \in Lists /\ Remove({id})
ClearLists ==
  \/ Remove(DOMAIN active)
  \/ Remove(DOMAIN triggered)
  \/ Remove(DOMAIN expired)

(* clearHistoryAtom and queueHistoryClear: behind everything queued now. *)
ClearHistory ==
  /\ Mutation
  /\ history # {}
  /\ clearing = Nothing
  /\ history' = {}
  /\ clearing' = IF signedIn THEN [id \in AlertId |-> Len(chain[id])] ELSE Nothing
  /\ UNCHANGED <<active, triggered, expired, engineVars, chain, orphan,
                 marketVars, backendVars, signedIn, historyVars, faults>>

ClearRemoteHistory ==
  /\ clearing # Nothing
  /\ \A id \in AlertId : clearing[id] = 0
  /\ clearing' = Nothing
  /\ \/ cleared' = events /\ UNCHANGED faults
     \/ /\ faults < MaxFaults
        /\ faults' = faults + 1
        /\ UNCHANGED cleared
  /\ UNCHANGED <<listVars, engineVars, chain, orphan, marketVars, rows,
                 events, signedIn, historyVars, mutations>>

(***************************************************************************)
(* The local lifecycle once a trigger is settled (triggerAlertAtom 549-    *)
(* 687).  It applies only to the arming revision that was sent.            *)
(***************************************************************************)
StillArmed(id, rev) == /\ id \in DOMAIN active
                       /\ active[id].enabled
                       /\ active[id].rev = rev

Fire(id, e) ==
  LET fired == [active[id] EXCEPT !.firedAt = e.at, !.evidence = <<e.before, e.now>>]
  IN
  /\ history' = history \union {e}
  /\ IF active[id].recurring
     THEN active' = Put(active, id, fired) /\ UNCHANGED triggered
     ELSE /\ active' = Drop(active, {id})
          /\ triggered' = Put(triggered, id, fired)

(***************************************************************************)
(* BrowserAlertTriggerQueue.  "waiting" holds a candidate by alert; its    *)
(* number tells the entry an attempt was started for from a later one.     *)
(* Without a session an attempt is settled without the backend ("local").  *)
(***************************************************************************)
IsCurrent(id, c) == StillArmed(id, c.rev)

TriggerRequest(a, c) ==
  [op |-> IF signedIn THEN "trigger" ELSE "local", alert |-> a, entry |-> c.n,
   at |-> c.at, before |-> c.before, now |-> c.now]

(***************************************************************************)
(* One observation of the market: useAlertEngine's evaluate.  Each enabled *)
(* alert that is met becomes a candidate; run starts at once when no       *)
(* attempt for it is in flight.                                            *)
(***************************************************************************)
Before(id) ==
  IF At(seen, id) = active[id].rev THEN prevPrice ELSE Nothing
NeverBlocked(a, now) == FALSE
RearmBlocked(a, now) == a.recurring /\ a.firedAt > 0 /\ now - a.firedAt < Rearm
Met(id, p, now) ==
  LET a == active[id] IN
  /\ a.enabled
  /\ IsPriceConditionMet(a.condition, a.target, Before(id), p)
  /\ ~ RearmBlocked(a, now)

Evaluate(now, p, dead, held, inAir, timers) ==
  LET live == DOMAIN active \ dead
      new == {id \in live : Met(id, p, now)
                 /\ ~ (id \in DOMAIN held /\ held[id].rev = active[id].rev)}
      Candidate(id) == [rev |-> active[id].rev, n |-> candidates + 1, at |-> now,
                        before |-> Before(id), now |-> p]
      w == [id \in DOMAIN held \union new |->
              IF id \in new THEN Candidate(id) ELSE held[id]]
      started == new \ inAir
      Sent(id) == IF id \in started THEN <<TriggerRequest(active[id], w[id])>>
                  ELSE IF id \in dead /\ signedIn THEN <<Request("expire", active[id])>>
                  ELSE <<>>
  IN
  /\ dead \subseteq {id \in DOMAIN active : active[id].technical /\ active[id].enabled}
  /\ waiting' = w
  /\ candidates' = IF new = {} THEN candidates ELSE candidates + 1
  /\ retryTimer' = timers \ new
  /\ flying' = inAir \union started
  /\ chain' = [id \in AlertId |-> chain[id] \o Sent(id)]
  /\ active' = Drop(active, dead)
  /\ expired' = [id \in DOMAIN expired \union dead |->
                   IF id \in dead THEN active[id] ELSE expired[id]]
  /\ seen' = IF active = None THEN seen
             ELSE [id \in live |-> IF active[id].enabled THEN active[id].rev
                                   ELSE At(seen, id)]
  /\ prevPrice' = IF active = None THEN prevPrice ELSE p
  /\ UNCHANGED <<triggered, history, orphan, clearing, backendVars, signedIn,
                 historyVars, faults>>

Tick(p, dead) ==
  /\ Idle
  /\ tick < MaxTick
  /\ tick' = tick + 1 /\ price' = p
  /\ Evaluate(tick + 1, p, dead, waiting, flying, retryTimer)
  /\ UNCHANGED <<disposed, mutations>>

(* The symbol catalogue changes: the effect disposes its queue and starts   *)
(* again with an evaluation of the price it knows.                          *)
EngineRestarts ==
  /\ Mutation
  /\ tick > 0
  /\ disposed' = candidates
  /\ Evaluate(tick, price, {}, None, {}, {})
  /\ UNCHANGED marketVars

(* The timer of scheduleRetry: run again, or drop a candidate that is stale. *)
RetryDue(id) ==
  /\ id \in retryTimer
  /\ retryTimer' = retryTimer \ {id}
  /\ IF id \notin flying /\ IsCurrent(id, waiting[id])
     THEN /\ flying' = flying \union {id}
          /\ chain' = [chain EXCEPT
               ![id] = Append(@, TriggerRequest(active[id], waiting[id]))]
          /\ UNCHANGED waiting
     ELSE /\ waiting' = IF id \in flying THEN waiting ELSE Drop(waiting, {id})
          /\ UNCHANGED <<flying, chain>>
  /\ UNCHANGED <<listVars, seen, prevPrice, disposed, candidates, orphan, clearing,
                 marketVars, backendVars, signedIn, historyVars, mutations, faults>>

(***************************************************************************)
(* usePushTriggerReconcile: events the worker committed are run through    *)
(* triggerAlertAtom, behind whatever the chain holds (a trigger of the     *)
(* engine for a later crossing, too); the reply says alreadyTriggered.     *)
(***************************************************************************)
Reconciles(q) == q.op = "trigger" /\ q.entry = Nothing
MayReconcile(id) == Len(SelectSeq(chain[id], Reconciles)) < MaxReconciles
Reconcile(id) ==
  /\ signedIn /\ MayReconcile(id)
  /\ id \in DOMAIN active
  /\ \E e \in events :
       /\ e.id = id /\ e.rev = active[id].rev
       /\ e.at > active[id].firedAt
       /\ active[id].enabled
       /\ IsTriggerPriceValid(active[id].condition, active[id].target, e.now)
       /\ chain' = [chain EXCEPT ![id] = Append(@,
            [op |-> "trigger", alert |-> active[id], entry |-> Nothing, at |-> e.at,
             before |-> e.before, now |-> e.now])]
  /\ UNCHANGED <<listVars, engineVars, orphan, clearing, marketVars,
                 backendVars, signedIn, historyVars, mutations, faults>>

(***************************************************************************)
(* The backend's statements (internal/alerts/repo.go).  A reply is ok,     *)
(* already or rejected.                                                    *)
(***************************************************************************)
Row(a, status, rev) ==
  [condition |-> a.condition, target |-> a.target, recurring |-> a.recurring,
   enabled |-> a.enabled, technical |-> a.technical, rev |-> rev,
   status |-> status, firedAt |-> 0]

(* The CASE that counts arming_revision up, on the columns of the row. *)
ArmingColumnsChange(r, a) ==
  <<r.condition, r.target, r.recurring>> # <<a.condition, a.target, a.recurring>>

Upserted(id, a) ==
  LET r == rows[id] IN
  IF r = Nothing THEN Row(a, "active", 1)
  ELSE [Row(a, r.status, r.rev + IF ArmingColumnsChange(r, a) THEN 1 ELSE 0)
        EXCEPT !.firedAt = r.firedAt]

Patched(id, a, status) ==
  LET r == rows[id]
      bump == ArmingColumnsChange(r, a) \/ (status = "active" /\ r.status # "active")
  IN [Row(a, IF status = Nothing THEN r.status ELSE status,
          r.rev + IF bump THEN 1 ELSE 0)
      EXCEPT !.firedAt = IF status = Nothing THEN r.firedAt ELSE 0]

Event(id, q) == [id |-> id, rev |-> q.alert.rev, at |-> q.at,
                 before |-> q.before, now |-> q.now, local |-> q.op = "local",
                 recurring |-> IF q.op = "local" THEN q.alert.recurring
                               ELSE rows[id].recurring]
KnownEvents(id, rev) == {e \in events \ cleared : e.id = id /\ e.rev = rev}

TriggerReply(id, q) ==
  LET r == rows[id] IN
  IF r = Nothing \/ r.rev # q.alert.rev THEN "rejected"
  ELSE IF r.status = "triggered"
  THEN IF KnownEvents(id, r.rev) # {} THEN "already" ELSE "rejected"
  ELSE IF ~ IsPriceConditionMet(r.condition, r.target, q.before, q.now)
  THEN "rejected"
  ELSE IF \E e \in KnownEvents(id, r.rev) : e.at = q.at THEN "already"
  ELSE IF ~ r.enabled \/ r.status # "active" THEN "rejected"
  ELSE "ok"

Triggered(r, at) ==
  [r EXCEPT !.status = IF r.recurring THEN "active" ELSE "triggered", !.firedAt = at]

Reply(id, q) ==
  IF q.op = "local" THEN "ok"
  ELSE IF q.op \in {"trigger", "migrate"} THEN TriggerReply(id, q)
  ELSE IF q.op = "create" \/ rows[id] # Nothing THEN "ok" ELSE "rejected"

(* What the request does to the rows and events when it arrives. *)
Arrives(id, q) ==
  /\ rows' = IF Reply(id, q) # "ok" \/ q.op = "local" THEN rows
             ELSE [rows EXCEPT ![id] =
               CASE q.op = "create" -> Upserted(id, q.alert)
                 [] q.op = "patch" -> Patched(id, q.alert, Nothing)
                 [] q.op = "arm" -> Patched(id, q.alert, "active")
                 [] q.op = "expire" -> [@ EXCEPT !.status = "expired", !.firedAt = 0]
                 [] q.op = "delete" -> Nothing
                 [] q.op \in {"trigger", "migrate"} -> Triggered(@, q.at)]
  /\ events' = IF q.op \in {"trigger", "migrate"} /\ Reply(id, q) = "ok"
               THEN events \union {Event(id, q)} ELSE events

(***************************************************************************)
(* A request settles: the continuation of triggerAlertAtom, then the       *)
(* outcome in BrowserAlertTriggerQueue.run and its finally block, which    *)
(* starts the newer candidate that arrived meanwhile.                      *)
(***************************************************************************)
Applies(id, q, reply) ==
  /\ q.op \in {"trigger", "local"}
  /\ reply \in {"ok", "already"}
  /\ StillArmed(id, q.alert.rev)

(* The last event of a row that has fired, else the one at the same time. *)
EventOf(id, q, reply) ==
  LET known == KnownEvents(id, q.alert.rev) IN
  IF reply = "ok" THEN Event(id, q)
  ELSE IF rows[id].status = "triggered"
  THEN CHOOSE e \in known : \A f \in known : f.at <= e.at
  ELSE CHOOSE e \in known : e.at = q.at

(* Only the attempt that committed the event notifies. *)
Notifies(reply) == reply = "ok"

(* The finally block: a newer candidate has taken the place of this one. *)
NeverReruns(id, mine) == FALSE
Reruns(id, mine) == id \in DOMAIN waiting /\ ~ mine /\ id \notin retryTimer

Outcome(id, q, reply, rest) ==
  LET mine == id \in DOMAIN waiting /\ waiting[id].n = q.entry
      retryable == reply = "lost" /\ IsCurrent(id, waiting[id])
      again == Reruns(id, mine)
      restart == /\ again
                 /\ id \in DOMAIN active'
                 /\ active'[id].enabled /\ active'[id].rev = waiting[id].rev
  IN
  /\ waiting' = IF (mine /\ ~ retryable) \/ (again /\ ~ restart)
                THEN Drop(waiting, {id}) ELSE waiting
  /\ retryTimer' = IF mine /\ retryable THEN retryTimer \union {id}
                   ELSE IF mine THEN retryTimer \ {id} ELSE retryTimer
  /\ flying' = IF restart THEN flying ELSE flying \ {id}
  /\ notices' = IF mine /\ Notifies(reply) THEN Append(notices, Event(id, q)) ELSE notices
  /\ chain' = [chain EXCEPT ![id] =
       IF restart THEN Append(rest, TriggerRequest(active'[id], waiting[id])) ELSE rest]

(* q is the head of a chain and rest what alertSyncQueues is left with.  It *)
(* is late if sign-out forgot the chain or its engine was disposed.  A late  *)
(* request or a reconciliation may write a firing time over a later one.     *)
Late(q) == q.entry # Nothing /\ q.entry <= disposed
MovesBack(id, e) == e.at < active[id].firedAt

Settles(id, q, reply, rest, late) ==
  /\ IF Applies(id, q, reply)
     THEN Fire(id, EventOf(id, q, reply)) /\ UNCHANGED expired
     ELSE UNCHANGED listVars
  /\ disturbed' = IF /\ late \/ Reconciles(q)
                     /\ Applies(id, q, reply) /\ MovesBack(id, EventOf(id, q, reply))
                  THEN disturbed \union {<<id, tick>>} ELSE disturbed
  /\ IF q.entry # Nothing /\ q.entry > disposed
     THEN Outcome(id, q, reply, rest)
     ELSE /\ chain' = [chain EXCEPT ![id] = rest]
          /\ UNCHANGED <<waiting, retryTimer, flying, notices>>
  /\ UNCHANGED <<seen, prevPrice, disposed, candidates, marketVars, cleared,
                 signedIn, mutations>>

Passed(id) == clearing' = IF clearing = Nothing \/ clearing[id] = 0 THEN clearing
                          ELSE [clearing EXCEPT ![id] = @ - 1]

RequestSucceeds(id) ==
  LET q == Head(chain[id]) IN
  /\ chain[id] # <<>>
  /\ Arrives(id, q)
  /\ Settles(id, q, Reply(id, q), Tail(chain[id]), Late(q))
  /\ Passed(id)
  /\ UNCHANGED <<orphan, faults>>

(* The request never arrives, or it does and its reply is lost. *)
RequestFails(id) ==
  LET q == Head(chain[id]) IN
  /\ chain[id] # <<>>
  /\ q.op # "local"
  /\ faults < MaxFaults
  /\ faults' = faults + 1
  /\ \/ Arrives(id, q)
     \/ UNCHANGED <<rows, events>>
  /\ Settles(id, q, "lost", Tail(chain[id]), Late(q))
  /\ Passed(id)
  /\ UNCHANGED orphan

(* A chain that sign-out forgot runs on, with or without its session. *)
OrphanSettles(id) ==
  LET q == Head(orphan[id]) IN
  /\ orphan[id] # <<>>
  /\ \/ Arrives(id, q) /\ Settles(id, q, Reply(id, q), chain[id], TRUE)
     \/ UNCHANGED <<rows, events>> /\ Settles(id, q, "rejected", chain[id], TRUE)
  /\ orphan' = [orphan EXCEPT ![id] = Tail(@)]
  /\ UNCHANGED <<clearing, faults>>

(* The closed-browser worker commits a crossing of an active row. *)
WorkerTrigger(id, before) ==
  LET q == [op |-> "trigger", alert |-> rows[id], at |-> tick,
            before |-> before, now |-> price] IN
  /\ tick > 0
  /\ rows[id] # Nothing
  /\ TriggerReply(id, q) = "ok"
  /\ rows[id].firedAt = 0 \/ tick - rows[id].firedAt >= Rearm
  /\ rows' = [rows EXCEPT ![id] = Triggered(@, tick)]
  /\ events' = events \union {Event(id, q)}
  /\ UNCHANGED <<listVars, engineVars, syncVars, marketVars, cleared,
                 signedIn, historyVars, mutations, faults>>

(***************************************************************************)
(* Sign-in: applyRemoteAlertsAtom takes the snapshot, or uploads what the  *)
(* browser has to an empty backend.  Sign-out: resetAlertsToDefaultsAtom.  *)
(***************************************************************************)
FromRows(status) ==
  [id \in {i \in AlertId : rows[i] # Nothing /\ rows[i].status = status} |->
     LET r == rows[id] IN
     [condition |-> r.condition, target |-> r.target, recurring |-> r.recurring,
      enabled |-> r.enabled, technical |-> r.technical, rev |-> r.rev,
      firedAt |-> r.firedAt, evidence |-> <<>>]]

First(list) == [id \in DOMAIN list |-> [list[id] EXCEPT !.rev = 1]]
Migration(id) ==
  IF id \in DOMAIN active THEN <<Request("create", First(active)[id])>>
  ELSE IF id \in DOMAIN expired
  THEN <<Request("create", First(expired)[id]), Request("expire", First(expired)[id])>>
  ELSE IF id \in DOMAIN triggered /\ triggered[id].evidence # <<>>
  THEN LET a == First(triggered)[id] IN
       <<Request("create", a),
         [Request("migrate", a) EXCEPT !.at = a.firedAt, !.before = a.evidence[1],
                                       !.now = a.evidence[2]]>>
  ELSE <<>>

(* The row was stamped with a firing time before its last event. *)
Behind(id) == /\ rows[id] # Nothing
              /\ \E e \in events : /\ e.id = id /\ e.rev = rows[id].rev
                                   /\ e.at > rows[id].firedAt

SignIn ==
  LET empty == events = cleared /\ \A id \in AlertId : rows[id] = Nothing
      upload == empty /\ Lists # {}
  IN
  /\ Mutation
  /\ ~ signedIn
  /\ signedIn' = TRUE
  /\ IF upload
     THEN /\ active' = First(active)
          /\ expired' = First(expired)
          /\ chain' = [id \in AlertId |-> chain[id] \o Migration(id)]
          /\ triggered' = First(triggered)
          /\ UNCHANGED history
     ELSE /\ active' = FromRows("active")
          /\ triggered' = FromRows("triggered")
          /\ expired' = FromRows("expired")
          /\ history' = events \ cleared
          /\ UNCHANGED chain
  /\ waiting' = None /\ flying' = {} /\ retryTimer' = {} /\ disposed' = candidates
  /\ seen' = None /\ prevPrice' = Nothing
  /\ disturbed' = IF upload THEN disturbed
                  ELSE disturbed \union {<<id, tick>> : id \in {i \in AlertId : Behind(i)}}
  /\ UNCHANGED <<candidates, orphan, clearing, marketVars, backendVars,
                 notices, faults>>

SignOut ==
  /\ Mutation
  /\ signedIn
  /\ \A id \in AlertId : orphan[id] = <<>>
  /\ signedIn' = FALSE
  /\ active' = None /\ triggered' = None /\ expired' = None
  /\ history' = {}
  /\ orphan' = chain
  /\ chain' = [id \in AlertId |-> <<>>]
  /\ clearing' = Nothing
  /\ UNCHANGED <<engineVars, marketVars, backendVars, historyVars, faults>>

AlertsInit ==
  /\ active = None /\ triggered = None /\ expired = None /\ history = {}
  /\ signedIn \in BOOLEAN
  /\ seen = None /\ prevPrice = Nothing /\ tick = 0 /\ price = Nothing
  /\ waiting = None /\ flying = {} /\ retryTimer = {} /\ disposed = 0
  /\ chain = [id \in AlertId |-> <<>>] /\ orphan = chain /\ clearing = Nothing
  /\ rows = [id \in AlertId |-> Nothing] /\ events = {} /\ cleared = {}
  /\ notices = <<>> /\ disturbed = {} /\ candidates = 0 /\ mutations = 0 /\ faults = 0

UserChanges ==
  \/ \E id \in AlertId :
       \/ \E k \in Kind : CreateAlert(id, k)
       \/ \E copy \in AlertId : DuplicateAlert(id, copy)
       \/ id \in Lists /\ \E patch \in Patches(Find(id)) : UpdateAlert(id, patch)
       \/ ResetAlert(id)
       \/ DeleteAlert(id)
  \/ ClearLists
  \/ ClearHistory
  \/ EngineRestarts
  \/ SignIn
  \/ SignOut

AlertsSync ==
  \/ ClearRemoteHistory
  \/ \E id \in AlertId :
       RequestSucceeds(id) \/ RetryDue(id) \/ Reconcile(id) \/ OrphanSettles(id)

AlertsNext ==
  \/ UserChanges
  \/ AlertsSync
  \/ \E p \in Price, dead \in SUBSET DOMAIN active : Tick(p, dead)
  \/ \E id \in AlertId :
       \/ RequestFails(id)
       \/ \E before \in Price \union {Nothing} : WorkerTrigger(id, before)

-----------------------------------------------------------------------------
(* An alert is in one list at a time, whatever order triggers, edits,       *)
(* deletions, sign-ins and replies take, and every alert the engine has in  *)
(* flight or waiting for a retry has its candidate.                         *)
AlertsTypeOK ==
  /\ DOMAIN active \intersect DOMAIN triggered = {}
  /\ DOMAIN active \intersect DOMAIN expired = {}
  /\ DOMAIN triggered \intersect DOMAIN expired = {}
  /\ \A e \in history \union events : e.rev >= 1 /\ e.now \in Price
  /\ retryTimer \subseteq DOMAIN waiting
  /\ cleared \subseteq events

(* browserAlertTriggerQueue.ts 35-40, alertStore.ts 595-598: one accepted   *)
(* crossing is notified once.  Under one arming revision a one-time alert is *)
(* notified at most once, whatever retries, restarts of the engine, worker   *)
(* commits, sign-outs and lost replies do; a recurring one is notified twice *)
(* of one crossing only if the first event was cleared, and no sooner than   *)
(* the re-arm gap, unless its firing time was lost in between: the user      *)
(* switched it on again (off, a commit leaves no time: alertStore.ts 581),   *)
(* a request wrote an earlier time over a later one (alertStore.ts 608-620,  *)
(* 660) or sign-in read such a time back.  A request can only do that when   *)
(* its chain was forgotten, its engine disposed, or when it reconciles an    *)
(* event of the worker behind a later trigger of the engine itself           *)
(* (usePushTriggerReconcile.ts 50-74); the engine's own triggers never do.   *)
Disturbed(id, from, to) == \E t \in from..to : <<id, t>> \in disturbed
SameArming(m, n) == m.id = n.id /\ m.rev = n.rev /\ m.local = n.local
NotifiedOnce ==
  \A i, j \in DOMAIN notices :
    LET m == notices[i]
        n == notices[j]
    IN
    (i < j /\ SameArming(m, n)) =>
       /\ m.recurring
       /\ m.at = n.at => ~ m.local /\ m \in cleared
       /\ \/ n.at - m.at >= Rearm
          \/ ~ m.local /\ Disturbed(m.id, m.at, n.at)

(* persist before notify: what the browser notified with a session is an    *)
(* event the backend committed.                                             *)
NotifiedIsCanonical ==
  \A i \in DOMAIN notices : notices[i].local \/ notices[i] \in events

(* alertStore.ts 902-904: the browser and the backend count arming          *)
(* revisions on their own and must arrive at the same number, or the        *)
(* backend refuses every trigger of the alert as stale.  When nothing is in *)
(* flight and no request failed, they agree on the revision and the key.    *)
RevisionsAgree ==
  (faults = 0 /\ signedIn) =>
    \A id \in DOMAIN active :
      (chain[id] = <<>> /\ orphan[id] = <<>> /\ rows[id] # Nothing) =>
         /\ active[id].rev = rows[id].rev
         /\ ~ ArmingColumnsChange(rows[id], active[id])

(* No candidate and no request is stranded: once the market and the user    *)
(* rest, the chains drain and every candidate is committed or given up.     *)
AlertsSettle ==
  []<>(waiting = None /\ flying = {} /\ clearing = Nothing
       /\ \A id \in AlertId : chain[id] = <<>> /\ orphan[id] = <<>>)

AlertsFairness == WF_alertsVars(AlertsSync)
AlertsSpec == AlertsInit /\ [][AlertsNext]_alertsVars /\ AlertsFairness
=============================================================================
