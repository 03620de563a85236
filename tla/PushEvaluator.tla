---------------------------- MODULE PushEvaluator ----------------------------
(***************************************************************************)
(* The closed-browser evaluator (frontend server/pushAlertEvaluator): it   *)
(* lists the push devices, evaluates the alerts of each, commits a crossing*)
(* in the backend before it notifies, retries what was not delivered, and  *)
(* writes the device back under an optimistic version, merging with what   *)
(* the browser's sync (pushAlertStore) or another instance wrote.          *)
(*                                                                         *)
(* One device with one alert id; that the alerts of a device share its     *)
(* last prices is in TechnicalAlerts.  A definition is its arming revision *)
(* and whether it recurs; the signature of a state is that revision.       *)
(***************************************************************************)
EXTENDS Partial, TLC

CONSTANTS
  Worker,        \* evaluator instances
  Channel,       \* push, telegram, discord
  RearmTicks,    \* RECURRING_REARM_MS, in ticks
  MaxTime,       \* bound: market ticks
  MaxEditions,   \* bound: edits, removals and browser triggers
  MaxMishaps,    \* bound: failed sends and requests, lost replies, crashes
  MaxWriteAttempts

(* What is kept of an alert: its definition, a delivery owed, its state; and *)
(* the state a finished delivery removes.                                    *)
Definitions == [rev : Nat, recurring : BOOLEAN, since : Nat, firedAt : Nat]
Deliveries == [rev : Nat, at : Nat, recurring : BOOLEAN, chans : SUBSET Channel]
States == [sig : Nat, cursor : Nat, firedAt : Nat, once : BOOLEAN, try : Nat,
           owed : {Nothing} \union Deliveries, refused : BOOLEAN]
Removals == [sig : Nat, rev : Nat, at : Nat, cursor : Nat]
ASSUME PushConstants ==
  /\ IsFiniteSet(Worker)
  /\ Nothing \notin Definitions \union Deliveries \union States \union Removals

VARIABLES
  device,        \* the push device row: synced definition, alert state
  current,       \* who read the device at the version it still has
  row, committed, \* the backend: the alert and its events
  local,         \* the browser's active definition
  syncing,       \* a sync that read the device: what it read and its attempts
  doing,         \* each instance: what it listed and how far it is
  time, hits,    \* ticks so far and those at which the condition holds
  sent,          \* history: notifications sent, per event and channel
  due,           \* history: committed by an evaluator and not sent yet
  editions, mishaps

pushVars == <<device, current, row, committed, local, syncing, doing, time, hits, sent,
              due, editions, mishaps>>

(* Each kind of mishap at most once, and MaxMishaps of them. *)
Mishap(kind) ==
  /\ kind \notin mishaps /\ Cardinality(mishaps) < MaxMishaps
  /\ mishaps' = mishaps \union {kind}
Edition == editions < MaxEditions /\ editions' = editions + 1
Largest(S) == CHOOSE n \in S : \A m \in S : m <= n

Fresh(sig) == [sig |-> sig, cursor |-> 0, firedAt |-> 0, once |-> FALSE,
               try |-> 0, owed |-> Nothing, refused |-> FALSE]
Owed(s) == IF s = Nothing THEN Nothing ELSE s.owed

(***************************************************************************)
(* pushAlertStateMerge.                                                    *)
(***************************************************************************)
PushAlertStateCursor(s) ==
  IF s = Nothing THEN 0
  ELSE Largest({s.cursor, s.firedAt, s.try,
                IF s.owed = Nothing THEN 0 ELSE s.owed.at})

SameEvent(o, p) == o # Nothing /\ p # Nothing /\ o.rev = p.rev /\ o.at = p.at
MergeMatchingDeliveryProgress(o, p) ==
  [p EXCEPT !.chans = o.chans \intersect p.chans]

Expected(d) == IF d.def # Nothing THEN d.def.rev
               ELSE IF Owed(d.state) # Nothing THEN d.state.owed.rev ELSE 0

(* The state of the alert after an evaluator's patch [state, sig, canonical, *)
(* removed] meets the stored device.                                         *)
MergeIncoming(d, patch) ==
  LET in == patch.state
      cur == d.state
      expected == Expected(d)
      both == SameEvent(Owed(cur), Owed(in))
      shared == MergeMatchingDeliveryProgress(cur.owed, in.owed)
      wins == PushAlertStateCursor(in) >= PushAlertStateCursor(cur)
  IN
  IF in = Nothing \/ in.sig # patch.sig THEN cur
  ELSE IF expected = 0 /\ cur = Nothing /\ in.owed = Nothing /\ ~ patch.canonical
  THEN cur
  ELSE IF expected # 0 /\ in.sig # expected
  THEN IF in.owed = Nothing THEN cur
       ELSE IF both THEN [in EXCEPT !.owed = shared]
       ELSE IF Owed(cur) # Nothing /\ cur.owed.at >= in.owed.at THEN cur
       ELSE in
  ELSE IF cur = Nothing \/ (expected # 0 /\ cur.sig # expected) THEN in
  ELSE [IF wins THEN in ELSE cur EXCEPT
          !.owed = IF both THEN shared ELSE IF wins THEN in.owed ELSE cur.owed]

MergeEvaluatorState(d, patch) ==
  LET s == MergeIncoming(d, patch)
      r == patch.removed
  IN
  IF r = Nothing \/ s = Nothing THEN s
  ELSE IF s.sig # r.sig THEN s
  ELSE IF s.owed # Nothing
  THEN IF s.owed.rev = r.rev /\ s.owed.at = r.at THEN Nothing ELSE s
  ELSE IF PushAlertStateCursor(s) <= r.cursor THEN Nothing ELSE s

(***************************************************************************)
(* The browser edits, removes or fires its alert (the backend's row        *)
(* follows), and syncs its snapshot (usePushAlertSync, syncPushAlerts).    *)
(***************************************************************************)
BrowserEdits ==
  /\ Edition
  /\ row # Nothing
  /\ \E r \in BOOLEAN :
       /\ local' = [rev |-> row.rev + 1, recurring |-> r, since |-> time, firedAt |-> 0]
       /\ row' = [rev |-> row.rev + 1, recurring |-> r, since |-> time, active |-> TRUE]
  /\ UNCHANGED <<current, device, committed, syncing, doing, time, hits, sent, due, mishaps>>

BrowserRemoves ==
  /\ Edition
  /\ local # Nothing
  /\ local' = Nothing /\ row' = Nothing
  /\ UNCHANGED <<current, device, committed, syncing, doing, time, hits, sent, due, mishaps>>

(* The open browser commits the crossing first, or learns of it. *)
BrowserFires ==
  /\ Edition
  /\ local # Nothing /\ row # Nothing /\ local.rev = row.rev
  /\ time \in hits
  /\ row.active
  /\ ~ local.recurring \/ local.firedAt = 0 \/ time - local.firedAt >= RearmTicks
  /\ committed' = committed \union {[rev |-> row.rev, at |-> time]}
  /\ row' = [row EXCEPT !.active = row.recurring]
  /\ local' = IF local.recurring THEN [local EXCEPT !.firedAt = time] ELSE Nothing
  /\ UNCHANGED <<current, device, syncing, doing, time, hits, sent, due, mishaps>>

(* mergeClientTriggerState and pruneState. *)
MergeClientTriggerState(def, s) ==
  LET cleared == IF s # Nothing /\ s.sig = def.rev /\ s.refused
                 THEN [s EXCEPT !.refused = FALSE, !.try = 0] ELSE s
      known == IF s = Nothing THEN 0 ELSE s.firedAt
  IN
  IF def.firedAt = 0 \/ known > def.firedAt
       \/ (known = def.firedAt /\ s # Nothing /\ s.sig = def.rev)
  THEN cleared
  ELSE [Fresh(def.rev) EXCEPT !.firedAt = def.firedAt, !.cursor = def.firedAt,
                              !.once = ~ def.recurring]

Synced(d, def) ==
  LET s == IF def = Nothing THEN d.state ELSE MergeClientTriggerState(def, d.state) IN
  [def |-> def,
   state |-> IF def # Nothing \/ Owed(s) # Nothing THEN s ELSE Nothing]

SyncReads ==
  /\ syncing = Nothing
  /\ device.def # local
  /\ syncing' = [read |-> device, def |-> local, attempts |-> 0]
  /\ current' = current \union {"sync"}
  /\ UNCHANGED <<device, row, committed, local, doing, time, hits, sent, due,
                 editions, mishaps>>

SyncWrites ==
  /\ syncing # Nothing
  /\ IF "sync" \in current
     THEN /\ device' = Synced(syncing.read, syncing.def)
          /\ syncing' = Nothing /\ current' = {}
     ELSE /\ IF syncing.attempts + 1 >= MaxWriteAttempts
             THEN syncing' = Nothing /\ UNCHANGED current
             ELSE /\ syncing' = [syncing EXCEPT !.read = device, !.attempts = @ + 1]
                  /\ current' = current \union {"sync"}
          /\ UNCHANGED device
  /\ UNCHANGED <<row, committed, local, doing, time, hits, sent, due, editions, mishaps>>

(***************************************************************************)
(* The market.                                                             *)
(***************************************************************************)
MarketTick ==
  /\ time < MaxTime
  /\ time' = time + 1
  /\ hits' \in {hits, hits \union {time + 1}}
  /\ UNCHANGED <<current, device, row, committed, local, syncing, doing, sent, due,
                 editions, mishaps>>

(***************************************************************************)
(* One pass of an instance.  List: the device, and the canonical active    *)
(* alert or, when that request fails, the definition of the last sync.     *)
(***************************************************************************)
(* The last_triggered_at of the canonical row. *)
LastEvent(rev) == Largest({0} \union {e.at : e \in {x \in committed : x.rev = rev}})

WorthIfListed(snap, def) == def # Nothing
Worth(snap, def) == def # Nothing \/ Owed(snap.state) # Nothing
Resting == [at |-> "idle"]

List(w) ==
  /\ doing[w].at = "idle"
  /\ \E canonical \in BOOLEAN :
       LET def == IF ~ canonical THEN device.def
                  ELSE IF row # Nothing /\ row.active
                  THEN [rev |-> row.rev, recurring |-> row.recurring, since |-> row.since,
                        firedAt |-> LastEvent(row.rev)]
                  ELSE Nothing
       IN
       /\ IF canonical THEN UNCHANGED mishaps ELSE Mishap("listing")
       /\ Worth(device, def)
       /\ doing' = [doing EXCEPT ![w] =
            [at |-> "judge", snap |-> device, def |-> def, canonical |-> canonical,
             through |-> time]]
  /\ current' = current \union {w}
  /\ UNCHANGED <<device, row, committed, local, syncing, time, hits, sent, due, editions>>

(* The alert evaluated: the listed definition, or the frozen one that is owed. *)
Judged(v) == IF v.def # Nothing THEN v.def
             ELSE [rev |-> v.snap.state.owed.rev,
                   recurring |-> v.snap.state.owed.recurring,
                   since |-> v.snap.state.owed.at, firedAt |-> 0]

(* shouldEvaluate. *)
KnownState(v) ==
  LET s == v.snap.state
      a == Judged(v)
  IN
  IF s # Nothing /\ (s.sig = a.rev \/ s.owed # Nothing) THEN s
  ELSE IF a.firedAt = 0 THEN Nothing
  ELSE [Fresh(a.rev) EXCEPT !.firedAt = a.firedAt, !.once = ~ a.recurring,
                            !.cursor = AtLeast(a.firedAt, a.since)]

(* The first tick that meets the alert behind its cursor, 0 if none. *)
MatchInclusive(v) ==
  LET s == KnownState(v)
      since == IF s = Nothing \/ s.sig # Judged(v).rev THEN Judged(v).since ELSE s.cursor
      new == {t \in hits : t >= since /\ t <= v.through}
  IN IF new = {} THEN 0 ELSE CHOOSE t \in new : \A u \in new : t <= u
Match(v) ==
  LET s == KnownState(v)
      since == IF s = Nothing \/ s.sig # Judged(v).rev THEN Judged(v).since ELSE s.cursor
      new == {t \in hits : t > since /\ t <= v.through}
  IN IF new = {} THEN 0 ELSE CHOOSE t \in new : \A u \in new : t <= u

OnceOrRearming(v) ==
  LET s == KnownState(v) IN
  s # Nothing /\ \/ s.once /\ ~ Judged(v).recurring
                 \/ /\ Judged(v).recurring /\ s.firedAt > 0
                    /\ v.through - s.firedAt < RearmTicks

Patch(v, state, removed) ==
  [state |-> state, sig |-> Judged(v).rev, canonical |-> v.canonical /\ v.def # Nothing,
   removed |-> removed]
Writing(v, state, removed) ==
  [at |-> "write", base |-> v.snap, patch |-> Patch(v, state, removed), attempts |-> 0]
Advanced(v) ==
  LET s == KnownState(v) IN
  [Fresh(Judged(v).rev) EXCEPT !.cursor = v.through,
     !.firedAt = IF s = Nothing THEN 0 ELSE s.firedAt,
     !.once = s # Nothing /\ s.once]
(* On the way to the backend with a crossing, to the channels with a delivery. *)
ToTheBackend(v, at, base) ==
  [at |-> "commit", snap |-> v.snap, def |-> v.def, canonical |-> v.canonical,
   candidate |-> at, base |-> base]
ToTheChannels(v, owed, base, kept) ==
  [at |-> "deliver", snap |-> v.snap, def |-> v.def, canonical |-> v.canonical,
   candidate |-> owed.at, base |-> base, owed |-> owed, kept |-> kept]

Judge(w) ==
  LET v == doing[w]
      s == KnownState(v)
      Goes(step) == doing' = [doing EXCEPT ![w] = step]
      Commit(at, base) == Goes(ToTheBackend(v, at, base))
  IN
  /\ v.at = "judge"
  /\ \/ UNCHANGED mishaps
     \/ Mishap("price")    \* no price of the symbol: as if nothing had matched
  /\ IF s # Nothing /\ s.sig = Judged(v).rev /\ s.refused
     THEN Goes(Writing(v, v.snap.state, Nothing))
     ELSE IF s # Nothing /\ s.try > 0 THEN Commit(s.try, s)
     ELSE IF Owed(s) # Nothing
     THEN Goes(ToTheChannels(v, s.owed, s, TRUE))
     ELSE IF mishaps' # mishaps THEN Goes(Writing(v, v.snap.state, Nothing))
     ELSE IF Match(v) > 0 /\ ~ OnceOrRearming(v) THEN Commit(Match(v), Advanced(v))
     ELSE Goes(Writing(v, Advanced(v), Nothing))
  /\ UNCHANGED <<current, device, row, committed, local, syncing, time, hits, sent, due,
                 editions>>

(***************************************************************************)
(* persistBeforeNotification: the backend accepts the crossing, knows it   *)
(* already, refuses it (a stale revision), or cannot be reached.           *)
(***************************************************************************)
TriggerAnswer(rev, at) ==
  IF row = Nothing THEN "retry"
  ELSE IF row.rev # rev THEN "refused"
  ELSE IF \E e \in committed : e.rev = rev /\ (e.at = at \/ ~ row.active) THEN "known"
  ELSE IF row.active THEN "ok" ELSE "refused"

Delivery(v, at) == [rev |-> Judged(v).rev, at |-> at, chans |-> Channel,
                    recurring |-> Judged(v).recurring]
CommittedState(v, owed) ==
  [v.base EXCEPT !.sig = Judged(v).rev, !.firedAt = v.candidate, !.once = ~ Judged(v).recurring,
                 !.cursor = Largest({v.base.cursor, v.candidate}), !.try = 0,
                 !.owed = owed, !.refused = FALSE]

Commits(v) ==
  /\ TriggerAnswer(Judged(v).rev, v.candidate) = "ok"
  /\ committed' = committed \union {[rev |-> Judged(v).rev, at |-> v.candidate]}
  /\ row' = [row EXCEPT !.active = row.recurring]
  /\ due' = due \union
       {[rev |-> Judged(v).rev, at |-> v.candidate, chan |-> c] : c \in Channel}

Persist(w) ==
  LET v == doing[w]
      answer == TriggerAnswer(Judged(v).rev, v.candidate)
      Failed(retry) == Writing(v, [v.base EXCEPT !.sig = Judged(v).rev,
                         !.try = IF retry THEN v.candidate ELSE 0, !.refused = ~ retry],
                         Nothing)
  IN
  /\ v.at = "commit"
  /\ \/ /\ answer \in {"ok", "known"}
        /\ doing' = [doing EXCEPT ![w] = ToTheChannels(v, Delivery(v, v.candidate), v.base, FALSE)]
        /\ Commits(v) \/ (answer = "known" /\ UNCHANGED <<committed, row, due>>)
        /\ UNCHANGED mishaps
     \/ /\ answer = "refused"
        /\ doing' = [doing EXCEPT ![w] = Failed(FALSE)]
        /\ UNCHANGED <<committed, row, due, mishaps>>
     \/ /\ Mishap("request")
        /\ doing' = [doing EXCEPT ![w] = Failed(TRUE)]
        /\ Commits(v) \/ UNCHANGED <<committed, row, due>>
     \/ /\ answer = "retry"
        /\ doing' = [doing EXCEPT ![w] = Failed(TRUE)]
        /\ UNCHANGED <<committed, row, due, mishaps>>
  /\ UNCHANGED <<current, device, local, syncing, time, hits, sent, editions>>

(***************************************************************************)
(* deliverTriggerNotifications: the channels that fail stay owed.  A       *)
(* delivery that was kept and is now complete removes its state.           *)
(***************************************************************************)
Delivered(v, left) ==
  LET rest == IF left = {} THEN Nothing ELSE [v.owed EXCEPT !.chans = left]
      done == [sig |-> v.base.sig, rev |-> v.owed.rev, at |-> v.owed.at,
               cursor |-> PushAlertStateCursor(v.base)]
  IN
  IF ~ v.kept THEN Writing(v, CommittedState(v, rest), Nothing)
  ELSE IF rest # Nothing THEN Writing(v, [v.base EXCEPT !.owed = rest], Nothing)
  ELSE IF v.def = Nothing THEN Writing(v, Nothing, done)
  ELSE IF v.base.sig # Judged(v).rev THEN Writing(v, Fresh(Judged(v).rev), done)
  ELSE Writing(v, [v.base EXCEPT !.owed = Nothing], done)

Deliver(w) ==
  LET v == doing[w] IN
  /\ v.at = "deliver"
  /\ \E left \in SUBSET v.owed.chans :
       LET went == {[rev |-> v.owed.rev, at |-> v.owed.at, chan |-> c] :
                      c \in v.owed.chans \ left} IN
       /\ IF left = {} THEN UNCHANGED mishaps ELSE Mishap("send")
       /\ doing' = [doing EXCEPT ![w] = Delivered(v, left)]
       /\ sent' = [k \in DOMAIN sent \union went |->
                     AtMost((IF k \in DOMAIN sent THEN sent[k] ELSE 0)
                            + (IF k \in went THEN 1 ELSE 0), 2)]
       /\ due' = due \ went
  /\ UNCHANGED <<current, device, row, committed, local, syncing, time, hits, editions>>

(***************************************************************************)
(* updatePushDevice: a conflict reads the device again and merges anew.    *)
(***************************************************************************)
Write(w) ==
  LET v == doing[w] IN
  /\ v.at = "write"
  /\ IF w \in current
     THEN /\ device' = [device EXCEPT !.state = MergeEvaluatorState(v.base, v.patch)]
          /\ doing' = [doing EXCEPT ![w] = Resting]
          /\ current' = {}
     ELSE /\ IF v.attempts + 1 >= MaxWriteAttempts
             THEN doing' = [doing EXCEPT ![w] = Resting] /\ UNCHANGED current
             ELSE /\ doing' = [doing EXCEPT ![w] = [v EXCEPT !.base = device,
                                                           !.attempts = @ + 1]]
                  /\ current' = current \union {w}
          /\ UNCHANGED device
  /\ UNCHANGED <<row, committed, local, syncing, time, hits, sent, due, editions, mishaps>>

(* The instance dies; nothing it held survives. *)
WorkerDies(w) ==
  /\ Mishap("crash")
  /\ doing[w].at # "idle"
  /\ doing' = [doing EXCEPT ![w] = Resting]
  /\ current' = current \ {w}
  /\ UNCHANGED <<device, row, committed, local, syncing, time, hits, sent, due, editions>>

PushInit ==
  /\ local \in [rev : {1}, recurring : BOOLEAN, since : {0}, firedAt : {0}]
  /\ row = [rev |-> 1, recurring |-> local.recurring, since |-> 0, active |-> TRUE]
  /\ device = [def |-> local, state |-> Nothing]
  /\ current = {}
  /\ committed = {} /\ syncing = Nothing
  /\ doing = [w \in Worker |-> Resting]
  /\ time = 0 /\ hits = {} /\ sent = None /\ due = {}
  /\ editions = 0 /\ mishaps = {}

Pass(w) == List(w) \/ Judge(w) \/ Persist(w) \/ Deliver(w) \/ Write(w)

PushNext ==
  \/ BrowserEdits \/ BrowserRemoves \/ BrowserFires
  \/ SyncReads \/ SyncWrites
  \/ MarketTick
  \/ \E w \in Worker : Pass(w) \/ WorkerDies(w)

PushFairness == \A w \in Worker : WF_pushVars(Pass(w))
PushSpec == PushInit /\ [][PushNext]_pushVars /\ PushFairness

(***************************************************************************)
(* Properties.                                                             *)
(***************************************************************************)
AlertStates ==
  [sig : Nat, cursor : 0..MaxTime, firedAt : 0..MaxTime, once : BOOLEAN,
   try : 0..MaxTime, refused : BOOLEAN,
   owed : {Nothing} \union [rev : Nat, at : 1..MaxTime, recurring : BOOLEAN,
                           chans : (SUBSET Channel) \ {{}}]]

(* The device row keeps the shape decodePushDevice accepts: an owed delivery *)
(* still owes something, and a state without a definition is kept only for   *)
(* such a delivery or for a canonical alert the browser never synced.        *)
PushTypeOK ==
  /\ device.state \in {Nothing} \union AlertStates
  /\ current \subseteq Worker \union {"sync"}
  /\ \A w \in Worker : doing[w].at \in {"idle", "judge", "commit", "deliver", "write"}
  /\ due \intersect DOMAIN sent = {}

(* Nothing is sent on any channel about a crossing the backend has not       *)
(* committed for that revision (persistBeforeNotification), through stale    *)
(* listings, retries after lost replies, crashes and edits in between.       *)
NotifiedIsCommitted ==
  \A k \in DOMAIN sent : \E e \in committed : e.rev = k.rev

(* One instance that does not die, canonical listings that answer and a     *)
(* definition the browser has synced: every channel is notified of a        *)
(* crossing once.  A retry of the channels that failed or of a lost reply   *)
(* repeats none of them.                                                    *)
DeliveredOnce ==
  (Cardinality(Worker) = 1 /\ editions = 0 /\ mishaps \subseteq {"send", "request", "price"})
    => \A k \in DOMAIN sent : sent[k] <= 1

(* A delivery that is owed leaves the device only by being sent: edits,      *)
(* re-arming, syncs and merges keep it (shouldEvaluate: it must be drained   *)
(* even when the browser has already edited or re-armed the same id).        *)
OwedUntilSent ==
  [][LET o == Owed(device.state) IN
     o # Nothing =>
       \A c \in o.chans :
         \/ /\ SameEvent(Owed(device'.state), o)
            /\ c \in device'.state.owed.chans
         \/ [rev |-> o.rev, at |-> o.at, chan |-> c] \in DOMAIN sent']_pushVars

(* What is owed drains: the passes go on, failures are finite.               *)
OwedDrains == <>[](Owed(device.state) = Nothing)
=============================================================================
