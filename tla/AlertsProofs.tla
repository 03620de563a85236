----------------------------- MODULE AlertsProofs -----------------------------
(***************************************************************************)
(* Of the open browser (Alerts): one accepted crossing is notified once,   *)
(* for every set of alerts and whatever edits, failures, sign-ins and      *)
(* worker commits do.  Of the closed browser (PushEvaluator, in the second *)
(* half): an instance alone with an alert tells each channel once.         *)
(*                                                                         *)
(* AlertsInv has four parts.  BackendInv:     a creation leads its chain   *)
(* and finds no row and no event, and the events of a revision fit the row *)
(* at that revision.  FlightInv: at most one request of an alert is live,  *)
(* whatever was forgotten or disposed, and none is of a later revision     *)
(* than the alert.  LocalInv: without a session the request of an alert    *)
(* settles before anything else happens to it.  GapInv: every crossing at  *)
(* hand (yet to be seen, waiting, in flight) keeps its distance from what  *)
(* was notified of its revision.                                           *)
(***************************************************************************)
EXTENDS Alerts, PushEvaluator, FiniteSetTheorems

-----------------------------------------------------------------------------
(* Types. *)
Quote == Price \union {Nothing, 0}
Evidence == {<<>>} \union (Quote \X Quote)
Alert == [condition : Condition, target : Price, recurring : BOOLEAN, technical : BOOLEAN,
          enabled : BOOLEAN, rev : Nat, firedAt : Nat,
          evidence : Evidence]
AlertRow == [condition : Condition, target : Price, recurring : BOOLEAN,
             enabled : BOOLEAN, technical : BOOLEAN, rev : Nat,
             status : {"active", "triggered", "expired"}, firedAt : Nat]
Op == {"create", "patch", "arm", "expire", "delete", "trigger", "migrate", "local"}
AnyRequest == [op : Op, alert : Alert, entry : Nat \union {Nothing}, at : Nat,
               before : Quote, now : Quote]
AlertRequest == {q \in AnyRequest : q.entry # Nothing => q.op \in {"trigger", "local"}}
Crossing == [rev : Nat, n : Nat, at : Nat, before : Quote, now : Quote]
AlertEvent == [id : AlertId, rev : Nat, at : Nat, before : Quote, now : Quote,
               local : BOOLEAN, recurring : BOOLEAN]

ListsTypeOK ==
  /\ active \in Partially(AlertId, Alert)
  /\ triggered \in Partially(AlertId, Alert)
  /\ expired \in Partially(AlertId, Alert)
EngineTypeOK ==
  /\ waiting \in Partially(AlertId, Crossing)
  /\ flying \subseteq AlertId /\ retryTimer \subseteq DOMAIN waiting
  /\ candidates \in Nat /\ disposed \in 0..candidates
ChainsTypeOK ==
  /\ chain \in [AlertId -> Seq(AlertRequest)]
  /\ orphan \in [AlertId -> Seq(AlertRequest)]
MarketTypeOK ==
  /\ tick \in Nat /\ signedIn \in BOOLEAN
  /\ price \in Quote /\ prevPrice \in Quote
  /\ tick > 0 => price \in Price
BackendTypeOK ==
  /\ rows \in [AlertId -> AlertRow \union {Nothing}]
  /\ events \subseteq AlertEvent /\ cleared \subseteq events
  /\ notices \in Seq(AlertEvent)
TypeInv == ListsTypeOK /\ EngineTypeOK /\ ChainsTypeOK /\ MarketTypeOK /\ BackendTypeOK

-----------------------------------------------------------------------------
(* The backend. *)
Unborn(id) == rows[id] = Nothing /\ \A e \in events : e.id # id
CreationsLead ==
  \A id \in AlertId :
    /\ \A i \in DOMAIN chain[id] : chain[id][i].op = "create" =>
         /\ i = 1 /\ Unborn(id)
         /\ \A k \in DOMAIN orphan[id] : orphan[id][k].op # "create"
    /\ \A i \in DOMAIN orphan[id] : orphan[id][i].op = "create" => i = 1 /\ Unborn(id)
Sessions ==
  \A id \in AlertId :
    /\ \A i \in DOMAIN chain[id] : chain[id][i].op = "local" <=> ~ signedIn
    /\ \A i \in DOMAIN orphan[id] : orphan[id][i].op # "local"
    /\ (~ signedIn /\ id \in Lists) => Unborn(id) /\ orphan[id] = <<>>
EventsFit ==
  \A e \in events :
    /\ ~ e.local
    /\ rows[e.id] # Nothing => e.rev <= rows[e.id].rev
    /\ (rows[e.id] # Nothing /\ e.rev = rows[e.id].rev) =>
         /\ e.recurring = rows[e.id].recurring
         /\ e.recurring => rows[e.id].status # "triggered"
         /\ ~ e.recurring => rows[e.id].status # "active"
OneTimeOnce ==
  \A e, f \in events : (e.id = f.id /\ e.rev = f.rev) => e = f \/ e.recurring
CrossingsOnce ==
  \A i, j \in DOMAIN notices :
    (i < j /\ SameArming(notices[i], notices[j]) /\ ~ notices[i].local) =>
       /\ notices[i].recurring
       /\ notices[i].at = notices[j].at => notices[i] \in cleared
BackendInv == /\ CreationsLead /\ Sessions /\ EventsFit /\ OneTimeOnce
              /\ NotifiedIsCanonical /\ CrossingsOnce

-----------------------------------------------------------------------------
(* The lists and what is in flight. *)
Live(q) == q.entry # Nothing /\ q.entry > disposed
Disjoint ==
  /\ DOMAIN active \intersect DOMAIN triggered = {}
  /\ DOMAIN active \intersect DOMAIN expired = {}
  /\ DOMAIN triggered \intersect DOMAIN expired = {}
AtMostRev(id, rev) == id \in Lists => rev <= Find(id).rev
RevisionsGrow ==
  /\ \A i \in DOMAIN notices :
       (notices[i].local => ~ signedIn) => AtMostRev(notices[i].id, notices[i].rev)
  /\ \A id \in AlertId : \A i \in DOMAIN chain[id] :
       Live(chain[id][i]) => AtMostRev(id, chain[id][i].alert.rev)
OneLive ==
  \A id \in AlertId :
    /\ \A i \in DOMAIN chain[id] : Live(chain[id][i]) =>
         /\ id \in flying
         /\ \A j \in DOMAIN chain[id] : Live(chain[id][j]) => i = j
         /\ \A j \in DOMAIN orphan[id] : ~ Live(orphan[id][j])
    /\ \A i \in DOMAIN orphan[id] : Live(orphan[id][i]) =>
         /\ id \in flying /\ ~ signedIn
         /\ \A j \in DOMAIN orphan[id] : Live(orphan[id][j]) => i = j
InTime ==
  /\ \A id \in DOMAIN waiting :
       waiting[id].at \in 1..tick /\ waiting[id].n \in 1..candidates
  /\ \A i \in DOMAIN notices : notices[i].at \in 1..tick
  /\ \A id \in AlertId :
       /\ \A i \in DOMAIN chain[id] : chain[id][i].entry # Nothing =>
            chain[id][i].at \in 1..tick /\ chain[id][i].entry \in 1..candidates
       /\ \A i \in DOMAIN orphan[id] : orphan[id][i].entry # Nothing =>
            orphan[id][i].at \in 1..tick /\ orphan[id][i].entry \in 1..candidates
FlightInv == Disjoint /\ RevisionsGrow /\ OneLive /\ InTime

-----------------------------------------------------------------------------
(* Without a session. *)
Settled(id) == chain[id] = <<>> /\ id \notin DOMAIN waiting /\ id \notin flying
Settling(id) ==
  LET q == chain[id][1] IN
  /\ Len(chain[id]) = 1
  /\ Live(q)
  /\ id \in flying /\ id \in DOMAIN waiting /\ waiting[id].n = q.entry
  /\ id \in DOMAIN active /\ q.alert = active[id] /\ active[id].enabled
  /\ ~ RearmBlocked(active[id], q.at)
LocalFlights ==
  ~ signedIn => \A id \in AlertId : IF id \in Lists THEN Settled(id) \/ Settling(id)
                                    ELSE chain[id] = <<>>
LocalNotices ==
  ~ signedIn =>
    \A i \in DOMAIN notices :
      LET m == notices[i] IN
      (m.local /\ m.id \in DOMAIN active /\ active[m.id].rev = m.rev) =>
         m.recurring /\ active[m.id].recurring /\ m.at <= active[m.id].firedAt
LocalPairs ==
  \A i, j \in DOMAIN notices :
    (i < j /\ SameArming(notices[i], notices[j]) /\ notices[i].local) =>
       notices[i].recurring /\ notices[j].at - notices[i].at >= Rearm
LocalInv == LocalFlights /\ LocalNotices /\ LocalPairs

-----------------------------------------------------------------------------
(* With a session: what was notified is behind every crossing at hand. *)
Apart(m, id, at) == at - m.at >= Rearm \/ Disturbed(id, m.at, at)
Of(m, id, rev) == ~ m.local /\ m.id = id /\ m.rev = rev
Behindhand(m, id) ==
  \/ active[id].recurring /\ m.at <= active[id].firedAt
  \/ Disturbed(id, m.at, tick)
NextApart ==
  \A i \in DOMAIN notices : \A id \in DOMAIN active :
    (Of(notices[i], id, active[id].rev) /\ active[id].enabled) => Behindhand(notices[i], id)
WaitingApart ==
  \A i \in DOMAIN notices : \A id \in DOMAIN waiting :
    Of(notices[i], id, waiting[id].rev) => Apart(notices[i], id, waiting[id].at)
FlyingApart ==
  \A i \in DOMAIN notices : \A id \in AlertId :
    /\ \A k \in DOMAIN chain[id] :
         LET q == chain[id][k] IN
         (Live(q) /\ Of(notices[i], id, q.alert.rev)) => Apart(notices[i], id, q.at)
    /\ \A k \in DOMAIN orphan[id] :
         LET q == orphan[id][k] IN
         (Live(q) /\ Of(notices[i], id, q.alert.rev)) => Apart(notices[i], id, q.at)
PairsApart ==
  \A i, j \in DOMAIN notices :
    (i < j /\ SameArming(notices[i], notices[j]) /\ ~ notices[i].local) =>
       Apart(notices[i], notices[i].id, notices[j].at)
GapInv == NextApart /\ WaitingApart /\ FlyingApart /\ PairsApart

AlertsInv == TypeInv /\ BackendInv /\ FlightInv /\ LocalInv /\ GapInv
-----------------------------------------------------------------------------
(* Sequences and records.                                                  *)

LEMMA Appended ==
  ASSUME NEW S, NEW s \in Seq(S), NEW x \in S
  PROVE  /\ Append(s, x) \in Seq(S)
         /\ Append(s, x) # <<>>
         /\ Len(Append(s, x)) = Len(s) + 1
         /\ DOMAIN Append(s, x) = 1..(Len(s) + 1)
         /\ Append(s, x)[Len(s) + 1] = x
         /\ DOMAIN s = 1..Len(s) /\ Len(s) \in Nat
         /\ \A i \in DOMAIN s : i # Len(s) + 1 /\ Append(s, x)[i] = s[i]
OBVIOUS

LEMMA Beheaded ==
  ASSUME NEW S, NEW s \in Seq(S), s # <<>>
  PROVE  /\ Tail(s) \in Seq(S)
         /\ Len(Tail(s)) = Len(s) - 1
         /\ DOMAIN Tail(s) = 1..(Len(s) - 1)
         /\ DOMAIN s = 1..Len(s) /\ Len(s) \in Nat \ {0}
         /\ Head(s) = s[1] /\ Head(s) \in S /\ 1 \in DOMAIN s
         /\ \A i \in DOMAIN Tail(s) : i + 1 \in DOMAIN s /\ Tail(s)[i] = s[i + 1]
OBVIOUS

LEMMA Listed ==
  ASSUME ListsTypeOK
  PROVE  /\ DOMAIN active \subseteq AlertId
         /\ DOMAIN triggered \subseteq AlertId
         /\ DOMAIN expired \subseteq AlertId
         /\ \A id \in DOMAIN active : active[id] \in Alert
         /\ \A id \in DOMAIN triggered : triggered[id] \in Alert
         /\ \A id \in DOMAIN expired : expired[id] \in Alert
         /\ \A id \in Lists : Find(id) \in Alert
<1>1. /\ DOMAIN active \subseteq AlertId /\ \A id \in DOMAIN active : active[id] \in Alert
      /\ DOMAIN triggered \subseteq AlertId /\ \A id \in DOMAIN triggered : triggered[id] \in Alert
      /\ DOMAIN expired \subseteq AlertId /\ \A id \in DOMAIN expired : expired[id] \in Alert
  BY PartialIs DEF ListsTypeOK
<1> QED BY <1>1 DEF Lists, Find

LEMMA NewAlertTyped ==
  ASSUME NEW k \in Kind
  PROVE  NewAlert(k) \in Alert
BY AlertConstants DEF NewAlert, Alert, Evidence

LEMMA RequestTyped ==
  ASSUME NEW op \in Op, NEW a \in Alert
  PROVE  Request(op, a) \in AlertRequest /\ Request(op, a).entry = Nothing
         /\ Request(op, a).op = op /\ Request(op, a).alert = a
BY DEF Request, AlertRequest, AnyRequest, Quote

LEMMA RearmedTyped ==
  ASSUME NEW a \in Alert
  PROVE  Rearmed(a) \in Alert /\ Rearmed(a).rev = a.rev + 1
<1>1. a.rev + 1 \in Nat /\ <<>> \in Evidence
  BY DEF Alert, Evidence
<1>2. SUFFICES ASSUME NEW r \in Nat, NEW e \in Evidence,
                      NEW b, b = [a EXCEPT !.rev = r, !.firedAt = 0, !.evidence = e]
               PROVE  b \in Alert /\ b.rev = r
  BY <1>1 DEF Rearmed
<1> QED BY <1>2 DEF Alert

LEMMA PatchTyped ==
  ASSUME NEW a \in Alert, NEW p \in Patches(a)
  PROVE  /\ p \in Alert
         /\ p.rev = a.rev /\ p.firedAt = a.firedAt
         /\ Rearmed(p) \in Alert
         /\ Rearmed(p).rev = a.rev + 1
         /\ ~ HasAlertArmingChange(a, p) => p.recurring = a.recurring
<1>1. p \in Alert /\ p.rev = a.rev /\ p.firedAt = a.firedAt
  BY DEF Patches, Alert
<1>2. Rearmed(p) \in Alert /\ Rearmed(p).rev = a.rev + 1
  BY <1>1, RearmedTyped
<1> QED BY <1>1, <1>2 DEF HasAlertArmingChange

LEMMA QueuedTyped ==
  ASSUME ChainsTypeOK, NEW id \in AlertId, NEW r \in AlertRequest, QueueAlertSync(id, <<r>>)
  PROVE  /\ chain' \in [AlertId -> Seq(AlertRequest)]
         /\ chain'[id] = IF signedIn THEN Append(chain[id], r) ELSE chain[id]
         /\ \A x \in AlertId : x # id => chain'[x] = chain[x]
<1>1. chain[id] \in Seq(AlertRequest) /\ chain[id] \o <<r>> = Append(chain[id], r)
  BY DEF ChainsTypeOK
<1>2. Append(chain[id], r) \in Seq(AlertRequest)
  BY <1>1, Appended
<1> QED BY <1>1, <1>2 DEF QueueAlertSync, ChainsTypeOK

-----------------------------------------------------------------------------
(* Types are kept.                                                         *)

LEMMA CreateTyped ==
  ASSUME TypeInv, NEW id \in AlertId, NEW k \in Kind, CreateAlert(id, k)
  PROVE  TypeInv'
<1> USE DEF TypeInv
<1>1. NewAlert(k) \in Alert
  BY NewAlertTyped
<1>2. Request("create", NewAlert(k)) \in AlertRequest
  BY <1>1, RequestTyped DEF Op
<1>3. ListsTypeOK'
  BY <1>1, PutPartial DEF CreateAlert, ListsTypeOK
<1>4. ChainsTypeOK'
 <2>1. QueueAlertSync(id, <<Request("create", NewAlert(k))>>) /\ orphan' = orphan
   BY DEF CreateAlert
 <2>2. ChainsTypeOK
   BY DEF TypeInv
 <2>3. chain' \in [AlertId -> Seq(AlertRequest)]
   BY <1>2, <2>1, <2>2, QueuedTyped
 <2> QED BY <2>1, <2>2, <2>3 DEF ChainsTypeOK
<1>5. EngineTypeOK' /\ MarketTypeOK' /\ BackendTypeOK'
  BY DEF CreateAlert, EngineTypeOK, MarketTypeOK, BackendTypeOK, engineVars, marketVars,
         backendVars, historyVars
<1> QED BY <1>3, <1>4, <1>5

LEMMA DuplicateTyped ==
  ASSUME TypeInv, NEW id \in AlertId, NEW copy \in AlertId, DuplicateAlert(id, copy)
  PROVE  /\ TypeInv'
         /\ \E a \in Alert :
              /\ a.rev = 1
              /\ active' = Put(active, copy, a)
              /\ QueueAlertSync(copy, <<Request("create", a)>>)
<1> USE DEF TypeInv
<1>1. Find(id) \in Alert
  BY Listed DEF DuplicateAlert
<1>2. PICK a \in Alert : /\ a.rev = 1
                         /\ active' = Put(active, copy, a)
                         /\ QueueAlertSync(copy, <<Request("create", a)>>)
 <2>1. <<>> \in Evidence
   BY DEF Evidence
 <2>2. SUFFICES ASSUME NEW a, NEW e \in Evidence,
                       a = [Find(id) EXCEPT !.rev = 1, !.firedAt = 0, !.evidence = e]
                PROVE  a \in Alert /\ a.rev = 1
   BY <2>1 DEF DuplicateAlert
 <2> QED BY <1>1, <2>2 DEF Alert
<1>3. Request("create", a) \in AlertRequest
  BY RequestTyped DEF Op
<1>4. ListsTypeOK'
  BY <1>2, PutPartial DEF DuplicateAlert, ListsTypeOK
<1>5. ChainsTypeOK'
 <2>1. QueueAlertSync(copy, <<Request("create", a)>>) /\ orphan' = orphan
   BY <1>2 DEF DuplicateAlert
 <2>2. ChainsTypeOK
   BY DEF TypeInv
 <2>3. chain' \in [AlertId -> Seq(AlertRequest)]
   BY <1>3, <2>1, <2>2, QueuedTyped
 <2> QED BY <2>1, <2>2, <2>3 DEF ChainsTypeOK
<1>6. EngineTypeOK' /\ MarketTypeOK' /\ BackendTypeOK'
  BY DEF DuplicateAlert, EngineTypeOK, MarketTypeOK, BackendTypeOK, engineVars, marketVars,
         backendVars, historyVars
<1> QED BY <1>2, <1>4, <1>5, <1>6

LEMMA UpdateTyped ==
  ASSUME TypeInv, NEW id \in Lists, NEW patch \in Patches(Find(id)), UpdateAlert(id, patch)
  PROVE  TypeInv'
<1> USE DEF TypeInv
<1>1. id \in AlertId /\ Find(id) \in Alert
  BY Listed DEF Lists
<1>2. /\ patch \in Alert /\ Rearmed(patch) \in Alert
  BY <1>1, PatchTyped
<1> DEFINE rearm == HasAlertArmingChange(Find(id), patch)
           new == IF rearm THEN Rearmed(patch) ELSE patch
           op == IF rearm THEN "arm" ELSE "patch"
<1>3. new \in Alert /\ op \in Op
  BY <1>2 DEF Op
<1>4. QueueAlertSync(id, <<Request(op, new)>>)
  BY DEF UpdateAlert
<1>5. ListsTypeOK'
 <2> USE <1>1, <1>3
 <2>1. CASE rearm
   BY <2>1, PutPartial, DropPartial DEF UpdateAlert, ListsTypeOK
 <2>2. CASE ~ rearm
   BY <2>2, PutPartial DEF UpdateAlert, ListsTypeOK, Everywhere
 <2> QED BY <2>1, <2>2
<1> HIDE DEF rearm, new, op
<1>6. ChainsTypeOK'
 <2>1. Request(op, new) \in AlertRequest
   BY <1>3, RequestTyped
 <2> QED BY <1>1, <1>4, <2>1, QueuedTyped DEF UpdateAlert, ChainsTypeOK
<1>7. EngineTypeOK' /\ MarketTypeOK' /\ BackendTypeOK'
  BY DEF UpdateAlert, EngineTypeOK, MarketTypeOK, BackendTypeOK, engineVars, marketVars,
         backendVars, historyVars
<1> QED BY <1>5, <1>6, <1>7

LEMMA ResetTyped ==
  ASSUME TypeInv, NEW id \in AlertId, ResetAlert(id)
  PROVE  TypeInv'
<1> USE DEF TypeInv
<1>1. Rearmed(Find(id)) \in Alert
  BY Listed, RearmedTyped DEF Lists, ResetAlert
<1>2. Request("arm", Rearmed(Find(id))) \in AlertRequest
  BY <1>1, RequestTyped DEF Op
<1>3. ListsTypeOK'
  BY <1>1, PutPartial, DropPartial DEF ResetAlert, ListsTypeOK
<1>4. ChainsTypeOK'
 <2>1. QueueAlertSync(id, <<Request("arm", Rearmed(Find(id)))>>) /\ orphan' = orphan
   BY DEF ResetAlert
 <2>2. ChainsTypeOK
   BY DEF TypeInv
 <2>3. chain' \in [AlertId -> Seq(AlertRequest)]
   BY <1>2, <2>1, <2>2, QueuedTyped
 <2> QED BY <2>1, <2>2, <2>3 DEF ChainsTypeOK
<1>5. EngineTypeOK' /\ MarketTypeOK' /\ BackendTypeOK'
  BY DEF ResetAlert, EngineTypeOK, MarketTypeOK, BackendTypeOK, engineVars, marketVars,
         backendVars, historyVars
<1> QED BY <1>3, <1>4, <1>5

LEMMA RemoveTyped ==
  ASSUME TypeInv, NEW ids \in SUBSET Lists, Remove(ids)
  PROVE  /\ TypeInv'
         /\ \A id \in AlertId :
              IF signedIn /\ id \in ids
              THEN /\ Request("delete", Find(id)) \in AlertRequest
                   /\ chain'[id] = Append(chain[id], Request("delete", Find(id)))
              ELSE chain'[id] = chain[id]
<1> USE DEF TypeInv
<1>1. \A id \in ids : Request("delete", Find(id)) \in AlertRequest
  BY Listed, RequestTyped DEF Op
<1>2. \A id \in ids : Append(chain[id], Request("delete", Find(id))) \in Seq(AlertRequest)
 <2>1. ids \subseteq AlertId
   BY Listed DEF Lists
 <2> QED BY <1>1, <2>1, Appended DEF ChainsTypeOK
<1>3. ChainsTypeOK'
  BY <1>2 DEF Remove, ChainsTypeOK
<1>4. ListsTypeOK'
 <2>1. /\ Drop(active, ids) \in Partially(AlertId, Alert)
       /\ Drop(triggered, ids) \in Partially(AlertId, Alert)
       /\ Drop(expired, ids) \in Partially(AlertId, Alert)
   BY DropPartial DEF ListsTypeOK
 <2>2. /\ active' = Drop(active, ids)
       /\ triggered' = Drop(triggered, ids)
       /\ expired' = Drop(expired, ids)
   BY DEF Remove
 <2> QED BY <2>1, <2>2 DEF ListsTypeOK
<1>5. EngineTypeOK' /\ MarketTypeOK' /\ BackendTypeOK'
  BY DEF Remove, EngineTypeOK, MarketTypeOK, BackendTypeOK, engineVars, marketVars,
         backendVars, historyVars
<1> QED BY <1>1, <1>3, <1>4, <1>5 DEF Remove

LEMMA TriggerRequestTyped ==
  ASSUME MarketTypeOK, NEW a \in Alert, NEW c \in Crossing
  PROVE  LET q == TriggerRequest(a, c) IN
         /\ q \in AlertRequest
         /\ q.op = IF signedIn THEN "trigger" ELSE "local"
         /\ q.alert = a /\ q.entry = c.n /\ q.at = c.at
BY DEF TriggerRequest, AlertRequest, AnyRequest, Op, Crossing, MarketTypeOK

(* What an evaluation does: new candidates, some of them sent at once, and  *)
(* the alerts whose technical target has expired.                           *)
Candidate(id, now, p) ==
  [rev |-> active[id].rev, n |-> candidates + 1, at |-> now, before |-> Before(id), now |-> p]
Sends(id, dead, started) ==
  chain'[id] = IF id \in started
               THEN Append(chain[id], TriggerRequest(active[id], waiting'[id]))
               ELSE IF id \in dead /\ signedIn
               THEN Append(chain[id], Request("expire", active[id]))
               ELSE chain[id]
Evaluated(now, p, dead, held, inAir, new) ==
  /\ dead \subseteq DOMAIN active
  /\ new \subseteq DOMAIN active \ dead
  /\ \A id \in new : Met(id, p, now)
  /\ DOMAIN waiting' = DOMAIN held \union new
  /\ \A id \in DOMAIN held \ new : waiting'[id] = held[id]
  /\ \A id \in new : waiting'[id] = Candidate(id, now, p)
  /\ flying' = inAir \union new
  /\ \A id \in AlertId : Sends(id, dead, new \ inAir)
  /\ active' = Drop(active, dead)
  /\ DOMAIN expired' = DOMAIN expired \union dead
  /\ \A id \in dead : expired'[id] = active[id]
  /\ \A id \in DOMAIN expired \ dead : expired'[id] = expired[id]
  /\ candidates' \in {candidates, candidates + 1}
  /\ new # {} => candidates' = candidates + 1

LEMMA CandidateTyped ==
  ASSUME TypeInv, NEW id \in DOMAIN active, NEW now \in Nat, NEW p \in Price
  PROVE  Candidate(id, now, p) \in Crossing
<1>1. active[id].rev \in Nat
  BY Listed DEF TypeInv, Alert
<1>2. Before(id) \in Quote
  BY DEF Before, TypeInv, MarketTypeOK, Quote
<1>3. candidates + 1 \in Nat
  BY DEF TypeInv, EngineTypeOK
<1> QED BY <1>1, <1>2, <1>3 DEF Candidate, Crossing, Quote

LEMMA EvaluateDoes ==
  ASSUME TypeInv, NEW now \in Nat, NEW p \in Price, NEW dead,
         NEW held \in Partially(AlertId, Crossing),
         NEW inAir \in SUBSET AlertId, NEW timers \in SUBSET DOMAIN held,
         Evaluate(now, p, dead, held, inAir, timers)
  PROVE  /\ ListsTypeOK' /\ chain' \in [AlertId -> Seq(AlertRequest)]
         /\ waiting' \in Partially(AlertId, Crossing)
         /\ flying' \subseteq AlertId /\ retryTimer' \subseteq DOMAIN waiting'
         /\ prevPrice' \in Quote
         /\ \E new : Evaluated(now, p, dead, held, inAir, new)
         /\ UNCHANGED <<triggered, history, orphan, clearing, backendVars, signedIn,
                        historyVars, faults>>
<1> USE DEF TypeInv
<1> DEFINE live == DOMAIN active \ dead
           new == {id \in live : Met(id, p, now)
                     /\ ~ (id \in DOMAIN held /\ held[id].rev = active[id].rev)}
           w == [id \in DOMAIN held \union new |->
                   IF id \in new THEN Candidate(id, now, p) ELSE held[id]]
           started == new \ inAir
           Sent(id) == IF id \in started THEN <<TriggerRequest(active[id], w[id])>>
                       ELSE IF id \in dead /\ signedIn THEN <<Request("expire", active[id])>>
                       ELSE <<>>
<1>1. /\ dead \subseteq {id \in DOMAIN active : active[id].technical /\ active[id].enabled}
      /\ waiting' = w
      /\ candidates' = IF new = {} THEN candidates ELSE candidates + 1
      /\ retryTimer' = timers \ new
      /\ flying' = inAir \union started
      /\ chain' = [id \in AlertId |-> chain[id] \o Sent(id)]
      /\ active' = Drop(active, dead)
      /\ expired' = [id \in DOMAIN expired \union dead |->
                       IF id \in dead THEN active[id] ELSE expired[id]]
      /\ prevPrice' = IF active = None THEN prevPrice ELSE p
      /\ UNCHANGED <<triggered, history, orphan, clearing, backendVars, signedIn,
                     historyVars, faults>>
  BY DEF Evaluate, Candidate
<1>2. new \subseteq DOMAIN active \ dead /\ \A id \in new : Met(id, p, now)
  OBVIOUS
<1> HIDE DEF new
<1>3. dead \subseteq DOMAIN active /\ DOMAIN active \subseteq AlertId
  BY <1>1, Listed
<1>4. DOMAIN held \subseteq AlertId /\ \A id \in DOMAIN held : held[id] \in Crossing
  BY PartialIs
<1>5. \A id \in new : Candidate(id, now, p) \in Crossing
  BY <1>2, CandidateTyped
<1>6. /\ w = [id \in DOMAIN w |-> w[id]]
      /\ DOMAIN w \subseteq AlertId /\ DOMAIN w = DOMAIN held \union new
      /\ \A id \in new : w[id] = Candidate(id, now, p)
      /\ \A id \in DOMAIN held \ new : w[id] = held[id]
  BY <1>2, <1>3, <1>4
<1>7. w \in Partially(AlertId, Crossing) /\ \A id \in new : w[id] \in Crossing
 <2> HIDE DEF w
 <2>1. \A id \in DOMAIN w : w[id] \in Crossing
   BY <1>4, <1>5, <1>6
 <2> QED BY <1>6, <2>1, PartialIs
<1> HIDE DEF w
<1>8. \A id \in AlertId : Sends(id, dead, started) /\ chain'[id] \in Seq(AlertRequest)
 <2>1. SUFFICES ASSUME NEW id \in AlertId
                PROVE  Sends(id, dead, started) /\ chain'[id] \in Seq(AlertRequest)
   OBVIOUS
 <2>2. chain[id] \in Seq(AlertRequest) /\ chain'[id] = chain[id] \o Sent(id)
   BY <1>1 DEF ChainsTypeOK
 <2>3. CASE id \in started
  <3>1. TriggerRequest(active[id], w[id]) \in AlertRequest
    BY <1>2, <1>7, <2>3, TriggerRequestTyped, Listed
  <3>2. chain'[id] = Append(chain[id], TriggerRequest(active[id], w[id]))
    BY <2>2, <2>3, <3>1
  <3> QED BY <1>1, <2>2, <2>3, <3>1, <3>2, Appended DEF Sends
 <2>4. CASE id \notin started /\ id \in dead /\ signedIn
  <3>1. Request("expire", active[id]) \in AlertRequest
    BY <1>3, <2>4, RequestTyped, Listed DEF Op
  <3>2. chain'[id] = Append(chain[id], Request("expire", active[id]))
    BY <2>2, <2>4, <3>1
  <3> QED BY <2>2, <2>4, <3>1, <3>2, Appended DEF Sends
 <2>5. CASE id \notin started /\ ~ (id \in dead /\ signedIn)
  <3>1. Sent(id) = <<>>
    BY <2>5
  <3>2. chain[id] \o <<>> = chain[id]
    BY <2>2
  <3> QED BY <2>2, <2>5, <3>1, <3>2 DEF Sends
 <2> QED BY <2>3, <2>4, <2>5
<1>9. ListsTypeOK'
 <2>1. Drop(active, dead) \in Partially(AlertId, Alert)
   BY DropPartial DEF ListsTypeOK
 <2> DEFINE x == [id \in DOMAIN expired \union dead |->
                      IF id \in dead THEN active[id] ELSE expired[id]]
 <2>2. /\ x = [id \in DOMAIN x |-> x[id]]
       /\ DOMAIN x = DOMAIN expired \union dead
       /\ \A id \in dead : x[id] = active[id]
       /\ \A id \in DOMAIN expired \ dead : x[id] = expired[id]
   OBVIOUS
 <2> HIDE DEF x
 <2>3. DOMAIN x \subseteq AlertId /\ \A id \in DOMAIN x : x[id] \in Alert
   BY <1>3, <2>2, Listed
 <2>4. x \in Partially(AlertId, Alert)
   BY <2>2, <2>3, PartialIs
 <2> QED BY <1>1, <2>1, <2>4 DEF ListsTypeOK, x
<1>10. Evaluated(now, p, dead, held, inAir, new)
 <2>1. /\ DOMAIN expired' = DOMAIN expired \union dead
       /\ \A id \in dead : expired'[id] = active[id]
       /\ \A id \in DOMAIN expired \ dead : expired'[id] = expired[id]
   BY <1>1
 <2> QED BY <1>1, <1>2, <1>3, <1>6, <1>8, <2>1 DEF Evaluated, EngineTypeOK
<1>11. chain' \in [AlertId -> Seq(AlertRequest)]
  BY <1>1, <1>8
<1>12. flying' \subseteq AlertId /\ retryTimer' \subseteq DOMAIN waiting' /\ prevPrice' \in Quote
  BY <1>1, <1>2, <1>3, <1>6 DEF MarketTypeOK, Quote
<1> QED BY <1>1, <1>7, <1>9, <1>10, <1>11, <1>12

LEMMA TickTyped ==
  ASSUME TypeInv, NEW p \in Price, NEW dead, Tick(p, dead)
  PROVE  /\ TypeInv'
         /\ tick' = tick + 1
         /\ \E new : Evaluated(tick + 1, p, dead, waiting, flying, new)
         /\ UNCHANGED <<triggered, orphan, backendVars, signedIn, historyVars, disposed>>
<1> USE DEF TypeInv
<1>1. /\ tick + 1 \in Nat
      /\ waiting \in Partially(AlertId, Crossing)
      /\ flying \in SUBSET AlertId /\ retryTimer \in SUBSET DOMAIN waiting
  BY DEF MarketTypeOK, EngineTypeOK
<1>2. /\ Evaluate(tick + 1, p, dead, waiting, flying, retryTimer)
      /\ tick' = tick + 1 /\ price' = p /\ disposed' = disposed
  BY DEF Tick
<1>3. PICK new : Evaluated(tick + 1, p, dead, waiting, flying, new)
  BY <1>1, <1>2, EvaluateDoes
<1>4. /\ ListsTypeOK' /\ chain' \in [AlertId -> Seq(AlertRequest)]
      /\ waiting' \in Partially(AlertId, Crossing)
      /\ flying' \subseteq AlertId /\ retryTimer' \subseteq DOMAIN waiting'
      /\ prevPrice' \in Quote
      /\ UNCHANGED <<triggered, orphan, backendVars, signedIn, historyVars>>
  BY <1>1, <1>2, EvaluateDoes
<1>5. candidates' \in {candidates, candidates + 1}
  BY <1>3 DEF Evaluated
<1>6. EngineTypeOK'
  BY <1>2, <1>4, <1>5 DEF EngineTypeOK
<1>7. ChainsTypeOK' /\ MarketTypeOK' /\ BackendTypeOK'
  BY <1>1, <1>2, <1>4 DEF ChainsTypeOK, MarketTypeOK, BackendTypeOK, backendVars,
                          historyVars, Quote
<1> QED BY <1>2, <1>3, <1>4, <1>6, <1>7

LEMMA EngineRestartsTyped ==
  ASSUME TypeInv, EngineRestarts
  PROVE  /\ TypeInv'
         /\ \E new : Evaluated(tick, price, {}, None, {}, new)
         /\ disposed' = candidates
         /\ UNCHANGED <<triggered, orphan, backendVars, signedIn, historyVars, tick, price>>
<1> USE DEF TypeInv
<1>1. /\ tick \in Nat
      /\ None \in Partially(AlertId, Crossing)
      /\ {} \in SUBSET AlertId /\ {} \in SUBSET DOMAIN None
      /\ price \in Price
  BY NonePartial DEF MarketTypeOK, EngineRestarts
<1>2. /\ Evaluate(tick, price, {}, None, {}, {})
      /\ tick' = tick /\ price' = price /\ disposed' = candidates
  BY DEF EngineRestarts, marketVars
<1>3. PICK new : Evaluated(tick, price, {}, None, {}, new)
  BY <1>1, <1>2, EvaluateDoes
<1>4. /\ ListsTypeOK' /\ chain' \in [AlertId -> Seq(AlertRequest)]
      /\ waiting' \in Partially(AlertId, Crossing)
      /\ flying' \subseteq AlertId /\ retryTimer' \subseteq DOMAIN waiting'
      /\ prevPrice' \in Quote
      /\ UNCHANGED <<triggered, orphan, backendVars, signedIn, historyVars>>
  BY <1>1, <1>2, EvaluateDoes
<1>5. candidates' \in {candidates, candidates + 1}
  BY <1>3 DEF Evaluated
<1>6. EngineTypeOK'
  BY <1>2, <1>4, <1>5 DEF EngineTypeOK
<1>7. ChainsTypeOK' /\ MarketTypeOK' /\ BackendTypeOK'
  BY <1>1, <1>2, <1>4 DEF ChainsTypeOK, MarketTypeOK, BackendTypeOK, backendVars, historyVars
<1> QED BY <1>2, <1>3, <1>4, <1>6, <1>7

LEMMA RetryTyped ==
  ASSUME TypeInv, NEW id \in AlertId, RetryDue(id)
  PROVE  /\ TypeInv'
         /\ \/ /\ UNCHANGED <<flying, chain>>
               /\ waiting' \in {waiting, Drop(waiting, {id})}
               /\ id \in flying => waiting' = waiting
            \/ /\ id \notin flying /\ flying' = flying \union {id}
               /\ id \in DOMAIN waiting
               /\ StillArmed(id, waiting[id].rev)
               /\ chain'[id] = Append(chain[id], TriggerRequest(active[id], waiting[id]))
               /\ \A x \in AlertId \ {id} : chain'[x] = chain[x]
               /\ waiting' = waiting
<1> USE DEF TypeInv
<1>1. id \in DOMAIN waiting /\ waiting[id] \in Crossing
  BY PartialIs DEF RetryDue, EngineTypeOK
<1>2. CASE id \notin flying /\ IsCurrent(id, waiting[id])
 <2>1. StillArmed(id, waiting[id].rev) /\ active[id] \in Alert
   BY <1>2, Listed DEF IsCurrent, StillArmed
 <2>2. TriggerRequest(active[id], waiting[id]) \in AlertRequest
   BY <1>1, <2>1, TriggerRequestTyped
 <2>3. Append(chain[id], TriggerRequest(active[id], waiting[id])) \in Seq(AlertRequest)
   BY <2>2, Appended DEF ChainsTypeOK
 <2>4. /\ chain' = [chain EXCEPT ![id] = Append(@, TriggerRequest(active[id], waiting[id]))]
       /\ flying' = flying \union {id} /\ waiting' = waiting
       /\ retryTimer' = retryTimer \ {id}
   BY <1>2 DEF RetryDue
 <2>5. ChainsTypeOK'
   BY <2>3, <2>4 DEF ChainsTypeOK, RetryDue
 <2>6. ListsTypeOK' /\ EngineTypeOK' /\ MarketTypeOK' /\ BackendTypeOK'
   BY <2>4 DEF RetryDue, ListsTypeOK, EngineTypeOK, MarketTypeOK, BackendTypeOK, listVars,
               marketVars, backendVars, historyVars
 <2> QED BY <1>1, <1>2, <2>1, <2>4, <2>5, <2>6 DEF ChainsTypeOK
<1>3. CASE ~ (id \notin flying /\ IsCurrent(id, waiting[id]))
 <2>1. /\ UNCHANGED <<flying, chain>>
       /\ waiting' = IF id \in flying THEN waiting ELSE Drop(waiting, {id})
       /\ retryTimer' = retryTimer \ {id}
   BY <1>3 DEF RetryDue
 <2>2. Drop(waiting, {id}) \in Partially(AlertId, Crossing)
   BY DropPartial DEF EngineTypeOK
 <2>3. DOMAIN Drop(waiting, {id}) = DOMAIN waiting \ {id}
   BY DEF Drop
 <2>4. TypeInv'
   BY <2>1, <2>2, <2>3 DEF RetryDue, ListsTypeOK, EngineTypeOK, ChainsTypeOK, MarketTypeOK,
                     BackendTypeOK, listVars, marketVars, backendVars, historyVars
 <2> QED BY <2>1, <2>3, <2>4
<1> QED BY <1>2, <1>3

-----------------------------------------------------------------------------
(* What settling a request does.                                           *)

LEMMA TriggerReplyOk ==
  ASSUME NEW id, NEW q, TriggerReply(id, q) = "ok"
  PROVE  /\ rows[id] # Nothing
         /\ rows[id].rev = q.alert.rev
         /\ rows[id].status = "active"
         /\ \A e \in KnownEvents(id, q.alert.rev) : e.at # q.at
BY DEF TriggerReply

LEMMA TriggerReplyAlready ==
  ASSUME NEW id, NEW q, TriggerReply(id, q) = "already"
  PROVE  /\ rows[id] # Nothing
         /\ rows[id].rev = q.alert.rev
         /\ rows[id].status = "triggered" => KnownEvents(id, q.alert.rev) # {}
         /\ rows[id].status # "triggered" =>
              \E e \in KnownEvents(id, q.alert.rev) : e.at = q.at
BY DEF TriggerReply

LEMMA EventTyped ==
  ASSUME TypeInv, NEW id \in AlertId, NEW q \in AlertRequest,
         q.op # "local" => rows[id] # Nothing
  PROVE  LET e == Event(id, q) IN
         /\ e \in AlertEvent
         /\ e.id = id /\ e.rev = q.alert.rev /\ e.at = q.at
         /\ e.local = (q.op = "local")
         /\ e.recurring = IF q.op = "local" THEN q.alert.recurring ELSE rows[id].recurring
<1>1. q.alert.rev \in Nat /\ q.at \in Nat /\ q.before \in Quote /\ q.now \in Quote
  BY DEF AlertRequest, AnyRequest, Alert
<1>2. q.alert.recurring \in BOOLEAN
  BY DEF AlertRequest, AnyRequest, Alert
<1>3. q.op # "local" => rows[id].recurring \in BOOLEAN
  BY DEF TypeInv, BackendTypeOK, AlertRow
<1> QED BY <1>1, <1>2, <1>3 DEF Event, AlertEvent

(* The event a reply names: the new one, the one of a one-time row that has *)
(* fired, or the one at the same time.                                      *)
LEMMA EventOfIs ==
  ASSUME TypeInv, EventsFit, OneTimeOnce, NEW id \in AlertId, NEW q \in AlertRequest,
         Applies(id, q, Reply(id, q))
  PROVE  LET r == Reply(id, q)
             e == EventOf(id, q, r)
         IN
         /\ e \in AlertEvent
         /\ r = "ok" => e = Event(id, q) /\ e.at = q.at
         /\ r # "ok" => /\ r = "already" /\ q.op = "trigger"
                        /\ e \in events /\ e.id = id /\ e.rev = q.alert.rev
                        /\ e.at # q.at => rows[id].status = "triggered"
                        /\ rows[id] # Nothing /\ rows[id].rev = q.alert.rev
<1> USE DEF TypeInv
<1> DEFINE r == Reply(id, q)
           e == EventOf(id, q, r)
           known == KnownEvents(id, q.alert.rev)
<1>1. q.op \in {"trigger", "local"} /\ r \in {"ok", "already"}
  BY DEF Applies
<1>2. CASE r = "ok"
 <2>1. q.op # "local" => rows[id] # Nothing
   BY <1>1, <1>2, TriggerReplyOk DEF Reply
 <2>2. e = Event(id, q)
   BY <1>2 DEF EventOf
 <2> QED BY <1>2, <2>1, <2>2, EventTyped
<1>3. CASE r = "already"
 <2>1. q.op = "trigger" /\ TriggerReply(id, q) = "already"
   BY <1>1, <1>3 DEF Reply
 <2>2. \A x \in known : x \in events /\ x.id = id /\ x.rev = q.alert.rev /\ x.at \in Nat
   BY DEF KnownEvents, BackendTypeOK, AlertEvent
 <2>3. rows[id] # Nothing /\ rows[id].rev = q.alert.rev
   BY <2>1, TriggerReplyAlready
 <2>4. CASE rows[id].status = "triggered"
  <3>1. e = CHOOSE x \in known : \A f \in known : f.at <= x.at
    BY <1>3, <2>4 DEF EventOf
  <3>2. PICK x \in known : TRUE
    BY <2>1, <2>4, TriggerReplyAlready
  <3>3. \A f \in known : ~ f.recurring
    BY <2>2, <2>3, <2>4 DEF EventsFit
  <3>4. \A f \in known : f = x
    BY <2>2, <3>3 DEF OneTimeOnce
  <3>5. \A f \in known : f.at <= x.at
    BY <2>2, <3>4
  <3>6. e \in known
    BY <3>1, <3>5
  <3> QED BY <1>3, <2>1, <2>2, <2>3, <2>4, <3>6 DEF BackendTypeOK
 <2>5. CASE rows[id].status # "triggered"
  <3>1. e = CHOOSE x \in known : x.at = q.at
    BY <1>3, <2>5 DEF EventOf
  <3>2. e \in known /\ e.at = q.at
    BY <2>1, <2>5, <3>1, TriggerReplyAlready
  <3> QED BY <1>3, <2>1, <2>2, <2>3, <3>2 DEF BackendTypeOK
 <2> QED BY <2>4, <2>5
<1> QED BY <1>1, <1>2, <1>3

(* What firing does to the lists. *)
Fires(id, at) ==
  /\ active[id].recurring =>
       /\ DOMAIN active' = DOMAIN active /\ triggered' = triggered
       /\ active'[id].rev = active[id].rev /\ active'[id].firedAt = at
       /\ active'[id].recurring /\ active'[id].enabled = active[id].enabled
  /\ ~ active[id].recurring =>
       /\ DOMAIN active' = DOMAIN active \ {id}
       /\ DOMAIN triggered' = DOMAIN triggered \union {id}
       /\ triggered'[id].rev = active[id].rev
       /\ \A x \in DOMAIN triggered \ {id} : triggered'[x] = triggered[x]
  /\ \A x \in DOMAIN active \ {id} : active'[x] = active[x]
  /\ expired' = expired

LEMMA FireDoes ==
  ASSUME ListsTypeOK, NEW id \in DOMAIN active, NEW e \in AlertEvent,
         Fire(id, e), expired' = expired
  PROVE  ListsTypeOK' /\ Fires(id, e.at)
<1>1. active[id] \in Alert /\ id \in AlertId
  BY Listed
<1>2. PICK fired \in Alert :
        /\ fired = [active[id] EXCEPT !.firedAt = e.at, !.evidence = <<e.before, e.now>>]
        /\ fired.rev = active[id].rev /\ fired.firedAt = e.at
        /\ fired.recurring = active[id].recurring /\ fired.enabled = active[id].enabled
 <2>1. e.at \in Nat /\ <<e.before, e.now>> \in Evidence
   BY DEF AlertEvent, Evidence
 <2> DEFINE v == <<e.before, e.now>>
            at == e.at
            f == [active[id] EXCEPT !.firedAt = at, !.evidence = v]
 <2>2. v \in Evidence /\ at \in Nat
   BY <2>1
 <2> HIDE DEF v, at
 <2>3. /\ f \in Alert
       /\ f.rev = active[id].rev /\ f.firedAt = at
       /\ f.recurring = active[id].recurring /\ f.enabled = active[id].enabled
   BY <1>1, <2>2 DEF Alert
 <2>4. f = [active[id] EXCEPT !.firedAt = e.at, !.evidence = <<e.before, e.now>>]
   BY DEF v, at
 <2> HIDE DEF f
 <2> QED BY <2>3, <2>4 DEF at
<1>3. CASE active[id].recurring
 <2>1. active' = Put(active, id, fired) /\ triggered' = triggered
   BY <1>2, <1>3 DEF Fire
 <2>2. ListsTypeOK'
   BY <1>1, <2>1, PutPartial DEF ListsTypeOK
 <2> QED BY <1>2, <1>3, <2>1, <2>2 DEF Fires, Put
<1>4. CASE ~ active[id].recurring
 <2>1. active' = Drop(active, {id}) /\ triggered' = Put(triggered, id, fired)
   BY <1>2, <1>4 DEF Fire
 <2>2. ListsTypeOK'
   BY <1>1, <2>1, PutPartial, DropPartial DEF ListsTypeOK
 <2> QED BY <1>2, <1>4, <2>1, <2>2 DEF Fires, Put, Drop
<1> QED BY <1>3, <1>4

(* What the outcome of a live request does to the engine: the candidate it  *)
(* was sent for goes or waits for its timer, or a newer one is sent.        *)
Ends(id, q, rest) ==
  /\ chain'[id] = rest /\ flying' = flying \ {id}
  /\ waiting' = waiting \/ (waiting' = Drop(waiting, {id}))
Restarts(id, q, rest) ==
  /\ chain'[id] = Append(rest, TriggerRequest(active'[id], waiting[id]))
  /\ flying' = flying /\ waiting' = waiting
  /\ id \in DOMAIN waiting /\ waiting[id].n # q.entry
  /\ id \in DOMAIN active' /\ active'[id].enabled /\ active'[id].rev = waiting[id].rev
  /\ notices' = notices
Concludes(id, q, reply, rest) ==
  /\ Ends(id, q, rest) \/ Restarts(id, q, rest)
  /\ \A x \in AlertId \ {id} : chain'[x] = chain[x]
  /\ \/ notices' = notices
     \/ /\ notices' = Append(notices, Event(id, q))
        /\ reply = "ok" /\ Ends(id, q, rest)
        /\ id \in DOMAIN waiting /\ waiting[id].n = q.entry
        /\ waiting' = Drop(waiting, {id})
  /\ (reply = "ok" /\ id \in DOMAIN waiting /\ waiting[id].n = q.entry) =>
       /\ waiting' = Drop(waiting, {id})
       /\ notices' = Append(notices, Event(id, q))

LEMMA OutcomeDoes ==
  ASSUME TypeInv, ListsTypeOK', NEW id \in AlertId, NEW q \in AlertRequest,
         NEW rest \in Seq(AlertRequest), NEW reply,
         reply = "ok" => Event(id, q) \in AlertEvent,
         Outcome(id, q, reply, rest)
  PROVE  /\ Concludes(id, q, reply, rest)
         /\ chain' \in [AlertId -> Seq(AlertRequest)]
         /\ waiting' \in Partially(AlertId, Crossing)
         /\ flying' \subseteq AlertId /\ retryTimer' \subseteq DOMAIN waiting'
         /\ notices' \in Seq(AlertEvent)
<1> USE DEF TypeInv
<1> DEFINE mine == id \in DOMAIN waiting /\ waiting[id].n = q.entry
           retryable == reply = "lost" /\ IsCurrent(id, waiting[id])
           again == Reruns(id, mine)
           restart == /\ again
                      /\ id \in DOMAIN active'
                      /\ active'[id].enabled /\ active'[id].rev = waiting[id].rev
           next == IF restart THEN Append(rest, TriggerRequest(active'[id], waiting[id]))
                   ELSE rest
<1>1. /\ waiting' = IF (mine /\ ~ retryable) \/ (again /\ ~ restart)
                    THEN Drop(waiting, {id}) ELSE waiting
      /\ retryTimer' = IF mine /\ retryable THEN retryTimer \union {id}
                       ELSE IF mine THEN retryTimer \ {id} ELSE retryTimer
      /\ flying' = IF restart THEN flying ELSE flying \ {id}
      /\ notices' = IF mine /\ reply = "ok" THEN Append(notices, Event(id, q)) ELSE notices
      /\ chain' = [chain EXCEPT ![id] = next]
  BY DEF Outcome, Notifies
<1>2. again => id \in DOMAIN waiting /\ ~ mine /\ id \notin retryTimer
  BY DEF Reruns
<1>3. retryable => reply = "lost"
  OBVIOUS
<1>4. restart => again
  OBVIOUS
<1>5. restart => /\ id \in DOMAIN active'
                 /\ active'[id].enabled /\ active'[id].rev = waiting[id].rev
  OBVIOUS
<1>6. id \in DOMAIN waiting => waiting[id] \in Crossing
  BY PartialIs DEF EngineTypeOK
<1>7. restart => TriggerRequest(active'[id], waiting[id]) \in AlertRequest
 <2>1. restart => active'[id] \in Alert
   BY <1>5, PartialIs DEF ListsTypeOK
 <2> QED BY <1>2, <1>4, <1>6, <2>1, TriggerRequestTyped
<1>8. next \in Seq(AlertRequest)
  BY <1>7, Appended
<1>9. next = IF restart THEN Append(rest, TriggerRequest(active'[id], waiting[id])) ELSE rest
  OBVIOUS
<1>10. Drop(waiting, {id}) \in Partially(AlertId, Crossing)
       /\ DOMAIN Drop(waiting, {id}) = DOMAIN waiting \ {id}
  BY DropPartial DEF EngineTypeOK, Drop
<1>11. mine => id \in DOMAIN waiting /\ waiting[id].n = q.entry
  OBVIOUS
<1>12. (id \in DOMAIN waiting /\ waiting[id].n = q.entry) => mine
  OBVIOUS
<1> HIDE DEF mine, retryable, again, restart, next
<1>13. /\ chain' \in [AlertId -> Seq(AlertRequest)] /\ chain'[id] = next
       /\ \A x \in AlertId \ {id} : chain'[x] = chain[x]
  BY <1>1, <1>8 DEF ChainsTypeOK
<1>14. waiting' \in Partially(AlertId, Crossing) /\ flying' \subseteq AlertId
  BY <1>1, <1>10 DEF EngineTypeOK
<1>15. retryTimer' \subseteq DOMAIN waiting'
  BY <1>1, <1>2, <1>4, <1>10, <1>11 DEF EngineTypeOK
<1>16. notices' \in Seq(AlertEvent)
  BY <1>1, Appended DEF BackendTypeOK
<1>17. Ends(id, q, rest) \/ Restarts(id, q, rest)
 <2>1. CASE restart
  <3>1. waiting' = waiting /\ flying' = flying /\ notices' = notices
    BY <1>1, <1>2, <1>4, <2>1
  <3> QED BY <1>2, <1>4, <1>5, <1>9, <1>12, <1>13, <2>1, <3>1 DEF Restarts
 <2>2. CASE ~ restart
   BY <1>1, <1>9, <1>13, <2>2 DEF Ends
 <2> QED BY <2>1, <2>2
<1>18. (reply = "ok" /\ mine) => waiting' = Drop(waiting, {id}) /\ Ends(id, q, rest)
  BY <1>1, <1>2, <1>3, <1>4, <1>9, <1>13 DEF Ends
<1> QED BY <1>1, <1>11, <1>12, <1>13, <1>14, <1>15, <1>16, <1>17, <1>18 DEF Concludes

(* What a request does to its row when it arrives: nothing, a birth, a      *)
(* move under the next revision or within it, or a commit.                  *)
Moves(r, s) ==
  s # Nothing =>
    /\ r # Nothing
    /\ r.rev <= s.rev
    /\ r.rev = s.rev => /\ s.recurring = r.recurring
                        /\ s.status = "active" => r.status = "active"
                        /\ s.status = "triggered" => r.status = "triggered"
Committing(id, q) ==
  /\ q.op \in {"trigger", "migrate"} /\ TriggerReply(id, q) = "ok"
  /\ rows'[id].rev = rows[id].rev /\ rows'[id].recurring = rows[id].recurring
  /\ rows'[id].status = IF rows[id].recurring THEN "active" ELSE "triggered"
  /\ events' = events \union {Event(id, q)}
RowSettles(id, q) ==
  /\ \A x \in AlertId \ {id} : rows'[x] = rows[x]
  /\ \/ events' = events /\ Moves(rows[id], rows'[id])
     \/ events' = events /\ q.op = "create"
     \/ Committing(id, q)

LEMMA TriggeredTyped ==
  ASSUME NEW r \in AlertRow, NEW at \in Nat
  PROVE  /\ Triggered(r, at) \in AlertRow
         /\ Triggered(r, at).rev = r.rev /\ Triggered(r, at).recurring = r.recurring
         /\ Triggered(r, at).status = IF r.recurring THEN "active" ELSE "triggered"
<1> DEFINE s == IF r.recurring THEN "active" ELSE "triggered"
<1>1. s \in {"active", "triggered", "expired"}
  OBVIOUS
<1>2. Triggered(r, at) = [r EXCEPT !.status = s, !.firedAt = at]
  BY DEF Triggered
<1> HIDE DEF s
<1>3. /\ Triggered(r, at) \in AlertRow
      /\ Triggered(r, at).rev = r.rev /\ Triggered(r, at).recurring = r.recurring
      /\ Triggered(r, at).status = s
  BY <1>1, <1>2 DEF AlertRow
<1> QED BY <1>3 DEF s

LEMMA RowTyped ==
  ASSUME NEW a \in Alert, NEW s \in {"active", "triggered", "expired"}, NEW n \in Nat,
         NEW at \in Nat
  PROVE  LET r == [Row(a, s, n) EXCEPT !.firedAt = at] IN
         /\ r \in AlertRow /\ Row(a, s, n) \in AlertRow
         /\ r.rev = n /\ r.status = s /\ r.recurring = a.recurring
         /\ Row(a, s, n).rev = n /\ Row(a, s, n).status = s
         /\ Row(a, s, n).recurring = a.recurring
BY DEF Row, AlertRow, Alert

LEMMA UpsertedMoves ==
  ASSUME TypeInv, NEW id \in AlertId, NEW a \in Alert
  PROVE  /\ Upserted(id, a) \in AlertRow
         /\ rows[id] # Nothing => Moves(rows[id], Upserted(id, a))
<1> DEFINE r == rows[id]
           n == r.rev + IF ArmingColumnsChange(r, a) THEN 1 ELSE 0
<1>1. CASE r = Nothing
 <2>1. Row(a, "active", 1) \in AlertRow
   BY RowTyped
 <2> QED BY <1>1, <2>1 DEF Upserted
<1>2. CASE r # Nothing
 <2>1. r \in AlertRow
   BY <1>2 DEF TypeInv, BackendTypeOK
 <2>2. /\ r.rev \in Nat /\ r.firedAt \in Nat
       /\ r.status \in {"active", "triggered", "expired"}
   BY <2>1 DEF AlertRow
 <2>3. n \in Nat /\ r.rev <= n /\ (r.rev = n => a.recurring = r.recurring)
   BY <2>2 DEF ArmingColumnsChange
 <2>4. Upserted(id, a) = [Row(a, r.status, n) EXCEPT !.firedAt = r.firedAt]
   BY <1>2 DEF Upserted
 <2> HIDE DEF n
 <2>5. /\ Upserted(id, a) \in AlertRow /\ Upserted(id, a).rev = n
       /\ Upserted(id, a).status = r.status /\ Upserted(id, a).recurring = a.recurring
   BY <2>2, <2>3, <2>4, RowTyped
 <2> QED BY <1>2, <2>3, <2>5 DEF Moves
<1> QED BY <1>1, <1>2

LEMMA PatchedMoves ==
  ASSUME TypeInv, NEW id \in AlertId, rows[id] # Nothing, NEW a \in Alert,
         NEW status \in {"active", Nothing}
  PROVE  Patched(id, a, status) \in AlertRow /\ Moves(rows[id], Patched(id, a, status))
<1> DEFINE r == rows[id]
           s == IF status = Nothing THEN r.status ELSE status
           bump == ArmingColumnsChange(r, a) \/ (status = "active" /\ r.status # "active")
           n == r.rev + IF bump THEN 1 ELSE 0
           at == IF status = Nothing THEN r.firedAt ELSE 0
<1>1. r \in AlertRow
  BY DEF TypeInv, BackendTypeOK
<1>2. /\ r.rev \in Nat /\ r.firedAt \in Nat
      /\ r.status \in {"active", "triggered", "expired"}
  BY <1>1 DEF AlertRow
<1>3. n \in Nat /\ r.rev <= n /\ (r.rev = n => a.recurring = r.recurring)
  BY <1>2 DEF ArmingColumnsChange
<1>4. s \in {"active", "triggered", "expired"} /\ at \in Nat
  BY <1>2
<1>5. r.rev = n => (s = r.status \/ (s = "active" /\ r.status = "active"))
  BY <1>2
<1>6. Patched(id, a, status) = [Row(a, s, n) EXCEPT !.firedAt = at]
  BY DEF Patched
<1> HIDE DEF n, s, at
<1>7. /\ Patched(id, a, status) \in AlertRow /\ Patched(id, a, status).rev = n
      /\ Patched(id, a, status).status = s /\ Patched(id, a, status).recurring = a.recurring
  BY <1>3, <1>4, <1>6, RowTyped
<1> QED BY <1>3, <1>5, <1>7 DEF Moves

LEMMA ArrivesDoes ==
  ASSUME TypeInv, NEW id \in AlertId, NEW q \in AlertRequest, Arrives(id, q)
  PROVE  /\ RowSettles(id, q)
         /\ rows' \in [AlertId -> AlertRow \union {Nothing}]
         /\ events' \subseteq AlertEvent
<1> USE DEF TypeInv
<1>1. q.op \in Op /\ q.alert \in Alert /\ q.at \in Nat
  BY DEF AlertRequest, AnyRequest
<1>2. rows \in [AlertId -> AlertRow \union {Nothing}]
  BY DEF BackendTypeOK
<1>3. ASSUME NEW s \in AlertRow \union {Nothing}, rows' = [rows EXCEPT ![id] = s]
      PROVE  /\ rows' \in [AlertId -> AlertRow \union {Nothing}] /\ rows'[id] = s
             /\ \A x \in AlertId \ {id} : rows'[x] = rows[x]
  BY <1>2, <1>3
<1>4. Moves(rows[id], rows[id])
  BY DEF Moves, TypeInv, BackendTypeOK, AlertRow
<1>5. CASE Reply(id, q) # "ok" \/ q.op = "local"
 <2>1. rows' = rows /\ events' = events
   BY <1>5 DEF Arrives
 <2> QED BY <1>2, <1>4, <2>1 DEF RowSettles, BackendTypeOK
<1>6. CASE Reply(id, q) = "ok" /\ q.op \in {"trigger", "migrate"}
 <2>1. TriggerReply(id, q) = "ok"
   BY <1>6 DEF Reply
 <2>2. rows[id] \in AlertRow /\ rows[id] # Nothing
   BY <1>2, <2>1, TriggerReplyOk
 <2>3. rows' = [rows EXCEPT ![id] = Triggered(rows[id], q.at)]
   BY <1>6 DEF Arrives
 <2>4. /\ Triggered(rows[id], q.at) \in AlertRow
       /\ Triggered(rows[id], q.at).rev = rows[id].rev
       /\ Triggered(rows[id], q.at).recurring = rows[id].recurring
       /\ Triggered(rows[id], q.at).status = IF rows[id].recurring THEN "active" ELSE "triggered"
   BY <1>1, <2>2, TriggeredTyped
 <2>5. /\ events' = events \union {Event(id, q)} /\ Event(id, q) \in AlertEvent
   BY <1>6, <2>2, EventTyped DEF Arrives
 <2> QED BY <1>3, <1>6, <2>1, <2>3, <2>4, <2>5 DEF RowSettles, Committing, BackendTypeOK
<1>7. CASE Reply(id, q) = "ok" /\ q.op = "create"
 <2>1. rows' = [rows EXCEPT ![id] = Upserted(id, q.alert)] /\ events' = events
   BY <1>7 DEF Arrives
 <2> QED BY <1>1, <1>3, <1>7, <2>1, UpsertedMoves DEF RowSettles, BackendTypeOK
<1>8. CASE Reply(id, q) = "ok" /\ q.op \in {"patch", "arm", "expire", "delete"}
 <2>1. rows[id] # Nothing /\ rows[id] \in AlertRow
   BY <1>2, <1>8 DEF Reply
 <2>2. events' = events
   BY <1>8 DEF Arrives
 <2>3. CASE q.op = "patch"
  <3>1. rows' = [rows EXCEPT ![id] = Patched(id, q.alert, Nothing)]
    BY <1>8, <2>3 DEF Arrives
  <3> QED BY <1>1, <1>3, <2>1, <2>2, <3>1, PatchedMoves DEF RowSettles, BackendTypeOK
 <2>4. CASE q.op = "arm"
  <3>1. rows' = [rows EXCEPT ![id] = Patched(id, q.alert, "active")]
    BY <1>8, <2>4 DEF Arrives
  <3> QED BY <1>1, <1>3, <2>1, <2>2, <3>1, PatchedMoves DEF RowSettles, BackendTypeOK
 <2>5. CASE q.op = "expire"
  <3> DEFINE s == [rows[id] EXCEPT !.status = "expired", !.firedAt = 0]
  <3>1. rows' = [rows EXCEPT ![id] = s]
    BY <1>8, <2>5 DEF Arrives
  <3>2. /\ s \in AlertRow
        /\ s.rev = rows[id].rev /\ s.recurring = rows[id].recurring
        /\ s.status = "expired" /\ rows[id].rev \in Nat
    BY <2>1 DEF AlertRow
  <3> HIDE DEF s
  <3>3. Moves(rows[id], s)
    BY <2>1, <3>2 DEF Moves
  <3> QED BY <1>3, <2>2, <3>1, <3>2, <3>3 DEF RowSettles, BackendTypeOK
 <2>6. CASE q.op = "delete"
  <3>1. rows' = [rows EXCEPT ![id] = Nothing]
    BY <1>8, <2>6 DEF Arrives
  <3> QED BY <1>3, <2>2, <3>1 DEF RowSettles, BackendTypeOK, Moves
 <2> QED BY <1>8, <2>3, <2>4, <2>5, <2>6
<1> QED BY <1>1, <1>5, <1>6, <1>7, <1>8 DEF Op

(* The whole of settling: the lists, the engine, the history.               *)
Applied(id, q, e) ==
  /\ id \in DOMAIN active /\ StillArmed(id, q.alert.rev)
  /\ q.op \in {"trigger", "local"}
  /\ e \in AlertEvent /\ Fires(id, e.at)
  /\ \/ e = Event(id, q) /\ Reply(id, q) = "ok" /\ e.at = q.at
     \/ /\ q.op = "trigger" /\ Reply(id, q) = "already"
        /\ e \in events /\ e.id = id /\ e.rev = q.alert.rev
        /\ rows[id] # Nothing /\ rows[id].rev = q.alert.rev
        /\ e.at # q.at => rows[id].status = "triggered"
ListsSettle(id, q, reply, late) ==
  \/ /\ UNCHANGED <<active, triggered, expired>> /\ disturbed' = disturbed
     /\ ~ Applies(id, q, reply)
  \/ \E e : /\ Applied(id, q, e)
            /\ disturbed' = IF (late \/ Reconciles(q)) /\ MovesBack(id, e)
                            THEN disturbed \union {<<id, tick>>} ELSE disturbed
Finishes(id, q, reply, rest) ==
  \/ Live(q) /\ Concludes(id, q, reply, rest)
  \/ /\ ~ Live(q) /\ chain'[id] = rest
     /\ \A x \in AlertId \ {id} : chain'[x] = chain[x]
     /\ UNCHANGED <<waiting, flying, notices>>
Replied(id, q, reply) ==
  \/ reply = Reply(id, q) /\ Arrives(id, q)
  \/ reply \in {"lost", "rejected"} /\ UNCHANGED <<rows, events>>
  \/ reply = "lost" /\ Arrives(id, q)

LEMMA SettlesDoes ==
  ASSUME TypeInv, EventsFit, OneTimeOnce, NEW id \in AlertId, NEW q \in AlertRequest,
         NEW rest \in Seq(AlertRequest), NEW late, NEW reply, Replied(id, q, reply),
         Settles(id, q, reply, rest, late), orphan' \in [AlertId -> Seq(AlertRequest)]
  PROVE  /\ TypeInv'
         /\ ListsSettle(id, q, reply, late)
         /\ Finishes(id, q, reply, rest)
         /\ RowSettles(id, q)
         /\ UNCHANGED <<disposed, candidates, tick, cleared, signedIn>>
<1> USE DEF TypeInv
<1>1. Applies(id, q, reply) => reply = Reply(id, q)
  BY DEF Applies, Replied
<1>2. ListsTypeOK' /\ ListsSettle(id, q, reply, late)
 <2>1. CASE Applies(id, q, reply)
  <3> DEFINE e == EventOf(id, q, reply)
  <3>1. /\ e \in AlertEvent
        /\ \/ e = Event(id, q) /\ Reply(id, q) = "ok" /\ e.at = q.at
           \/ /\ q.op = "trigger" /\ Reply(id, q) = "already"
              /\ e \in events /\ e.id = id /\ e.rev = q.alert.rev
              /\ rows[id] # Nothing /\ rows[id].rev = q.alert.rev
              /\ e.at # q.at => rows[id].status = "triggered"
    BY <1>1, <2>1, EventOfIs
  <3>2. /\ Fire(id, e) /\ expired' = expired
        /\ disturbed' = IF (late \/ Reconciles(q)) /\ MovesBack(id, e)
                        THEN disturbed \union {<<id, tick>>} ELSE disturbed
    BY <2>1 DEF Settles
  <3>3. /\ q.op \in {"trigger", "local"} /\ id \in DOMAIN active
        /\ StillArmed(id, q.alert.rev)
    BY <2>1 DEF Applies, StillArmed
  <3> HIDE DEF e
  <3>4. ListsTypeOK' /\ Fires(id, e.at)
    BY <3>1, <3>2, <3>3, FireDoes
  <3>5. Applied(id, q, e)
    BY <3>1, <3>3, <3>4 DEF Applied
  <3> QED BY <3>2, <3>4, <3>5 DEF ListsSettle
 <2>2. CASE ~ Applies(id, q, reply)
   BY <2>2 DEF Settles, ListsSettle, listVars, ListsTypeOK
 <2> QED BY <2>1, <2>2
<1>3. /\ RowSettles(id, q)
      /\ rows' \in [AlertId -> AlertRow \union {Nothing}]
      /\ events' \subseteq AlertEvent /\ events \subseteq events'
 <2>1. CASE Arrives(id, q)
  <3>1. events \subseteq events'
    BY <2>1 DEF Arrives
  <3> QED BY <2>1, <3>1, ArrivesDoes
 <2>2. CASE UNCHANGED <<rows, events>>
  <3>1. Moves(rows[id], rows[id])
    BY DEF Moves, BackendTypeOK, AlertRow
  <3> QED BY <2>2, <3>1 DEF RowSettles, BackendTypeOK
 <2> QED BY <2>1, <2>2 DEF Replied
<1>4. /\ Finishes(id, q, reply, rest)
      /\ chain' \in [AlertId -> Seq(AlertRequest)]
      /\ waiting' \in Partially(AlertId, Crossing)
      /\ flying' \subseteq AlertId /\ retryTimer' \subseteq DOMAIN waiting'
      /\ notices' \in Seq(AlertEvent)
 <2>1. CASE Live(q)
  <3>1. Outcome(id, q, reply, rest)
    BY <2>1 DEF Settles, Live
  <3>2. reply = "ok" => Event(id, q) \in AlertEvent
   <4>1. ASSUME reply = "ok", q.op # "local"
         PROVE  rows[id] # Nothing
    <5>1. q.op = "trigger"
      BY <2>1, <4>1 DEF Live, AlertRequest
    <5>2. Reply(id, q) = "ok"
      BY <4>1 DEF Replied
    <5> QED BY <5>1, <5>2, TriggerReplyOk DEF Reply
   <4> QED BY <4>1, EventTyped
  <3> QED BY <1>2, <2>1, <3>1, <3>2, OutcomeDoes DEF Finishes
 <2>2. CASE ~ Live(q)
  <3>1. chain' = [chain EXCEPT ![id] = rest] /\ UNCHANGED <<waiting, retryTimer, flying, notices>>
    BY <2>2 DEF Settles, Live
  <3> QED BY <2>2, <3>1 DEF Finishes, ChainsTypeOK, EngineTypeOK, BackendTypeOK
 <2> QED BY <2>1, <2>2
<1>5. UNCHANGED <<disposed, candidates, tick, price, prevPrice, cleared, signedIn>>
  BY DEF Settles, marketVars
<1>6. EngineTypeOK' /\ ChainsTypeOK' /\ MarketTypeOK' /\ BackendTypeOK'
  BY <1>3, <1>4, <1>5 DEF EngineTypeOK, ChainsTypeOK, MarketTypeOK, BackendTypeOK
<1> QED BY <1>2, <1>3, <1>4, <1>5, <1>6

(* The three ways a request settles: of a chain, answered or lost, and of a *)
(* chain that sign-out forgot.                                              *)
OfChain(id, q, reply, rest, late) ==
  /\ chain[id] # <<>> /\ q = Head(chain[id]) /\ rest = Tail(chain[id])
  /\ orphan' = orphan /\ late = Late(q)
  /\ q.op = "local" => reply = "ok"
OfOrphan(id, q, rest, late) ==
  /\ orphan[id] # <<>> /\ q = Head(orphan[id]) /\ rest = chain[id]
  /\ orphan'[id] = Tail(orphan[id])
  /\ \A x \in AlertId \ {id} : orphan'[x] = orphan[x]
  /\ late
RequestSettles(id, q, reply, rest, late) ==
  /\ OfChain(id, q, reply, rest, late) \/ OfOrphan(id, q, rest, late)
  /\ q \in AlertRequest /\ rest \in Seq(AlertRequest)
  /\ ListsSettle(id, q, reply, late)
  /\ Finishes(id, q, reply, rest)
  /\ Replied(id, q, reply)
  /\ RowSettles(id, q)
  /\ UNCHANGED <<disposed, candidates, tick, cleared, signedIn>>

LEMMA RequestSettlesTyped ==
  ASSUME TypeInv, EventsFit, OneTimeOnce, NEW id \in AlertId,
         RequestSucceeds(id) \/ RequestFails(id) \/ OrphanSettles(id)
  PROVE  /\ TypeInv'
         /\ \E q, reply, rest, late : RequestSettles(id, q, reply, rest, late)
<1> USE DEF TypeInv
<1>1. chain[id] \in Seq(AlertRequest) /\ orphan[id] \in Seq(AlertRequest)
  BY DEF ChainsTypeOK
<1>2. ASSUME NEW q \in AlertRequest, NEW rest \in Seq(AlertRequest), NEW late, NEW reply,
             Replied(id, q, reply), Settles(id, q, reply, rest, late),
             OfChain(id, q, reply, rest, late) \/ OfOrphan(id, q, rest, late),
             orphan' \in [AlertId -> Seq(AlertRequest)]
      PROVE  /\ TypeInv'
             /\ \E q1, reply1, rest1, late1 : RequestSettles(id, q1, reply1, rest1, late1)
 <2>1. RequestSettles(id, q, reply, rest, late) /\ TypeInv'
   BY <1>2, SettlesDoes DEF RequestSettles
 <2> QED BY <2>1
<1>3. CASE RequestSucceeds(id)
 <2> DEFINE q == Head(chain[id])
 <2>1. /\ chain[id] # <<>> /\ orphan' = orphan
       /\ Arrives(id, q)
       /\ Settles(id, q, Reply(id, q), Tail(chain[id]), Late(q))
   BY <1>3 DEF RequestSucceeds
 <2>2. q \in AlertRequest /\ Tail(chain[id]) \in Seq(AlertRequest)
   BY <1>1, <2>1, Beheaded
 <2>3. Replied(id, q, Reply(id, q)) /\ OfChain(id, q, Reply(id, q), Tail(chain[id]), Late(q))
   BY <2>1 DEF Replied, OfChain, Reply
 <2>4. orphan' \in [AlertId -> Seq(AlertRequest)]
   BY <2>1 DEF ChainsTypeOK
 <2> HIDE DEF q
 <2> QED BY <1>2, <2>1, <2>2, <2>3, <2>4
<1>4. CASE RequestFails(id)
 <2> DEFINE q == Head(chain[id])
 <2>1. /\ chain[id] # <<>> /\ orphan' = orphan
       /\ Arrives(id, q) \/ UNCHANGED <<rows, events>>
       /\ q.op # "local"
       /\ Settles(id, q, "lost", Tail(chain[id]), Late(q))
   BY <1>4 DEF RequestFails
 <2>2. q \in AlertRequest /\ Tail(chain[id]) \in Seq(AlertRequest)
   BY <1>1, <2>1, Beheaded
 <2>3. Replied(id, q, "lost") /\ OfChain(id, q, "lost", Tail(chain[id]), Late(q))
   BY <2>1 DEF Replied, OfChain
 <2>4. orphan' \in [AlertId -> Seq(AlertRequest)]
   BY <2>1 DEF ChainsTypeOK
 <2> HIDE DEF q
 <2> QED BY <1>2, <2>1, <2>2, <2>3, <2>4
<1>5. CASE OrphanSettles(id)
 <2> DEFINE q == Head(orphan[id])
 <2>1. /\ orphan[id] # <<>>
       /\ \/ Arrives(id, q) /\ Settles(id, q, Reply(id, q), chain[id], TRUE)
          \/ UNCHANGED <<rows, events>> /\ Settles(id, q, "rejected", chain[id], TRUE)
       /\ orphan' = [orphan EXCEPT ![id] = Tail(@)]
   BY <1>5 DEF OrphanSettles
 <2>2. q \in AlertRequest /\ Tail(orphan[id]) \in Seq(AlertRequest)
   BY <1>1, <2>1, Beheaded
 <2>3. /\ orphan' \in [AlertId -> Seq(AlertRequest)]
       /\ OfOrphan(id, q, chain[id], TRUE)
   BY <2>1, <2>2 DEF ChainsTypeOK, OfOrphan
 <2> HIDE DEF q
 <2>4. CASE Arrives(id, q) /\ Settles(id, q, Reply(id, q), chain[id], TRUE)
   BY <1>1, <1>2, <2>2, <2>3, <2>4 DEF Replied
 <2>5. CASE UNCHANGED <<rows, events>> /\ Settles(id, q, "rejected", chain[id], TRUE)
   BY <1>1, <1>2, <2>2, <2>3, <2>5 DEF Replied
 <2> QED BY <2>1, <2>4, <2>5
<1> QED BY <1>3, <1>4, <1>5

LEMMA ReconcileTyped ==
  ASSUME TypeInv, NEW id \in AlertId, Reconcile(id)
  PROVE  /\ TypeInv'
         /\ \E q \in AlertRequest :
              Reconciles(q) /\ q.alert = active[id] /\ chain'[id] = Append(chain[id], q)
         /\ \A x \in AlertId \ {id} : chain'[x] = chain[x]
         /\ signedIn /\ id \in DOMAIN active
<1> USE DEF TypeInv
<1>1. PICK e \in events :
        chain' = [chain EXCEPT ![id] = Append(@,
             [op |-> "trigger", alert |-> active[id], entry |-> Nothing, at |-> e.at,
              before |-> e.before, now |-> e.now])]
  BY DEF Reconcile
<1> DEFINE q == [op |-> "trigger", alert |-> active[id], entry |-> Nothing, at |-> e.at,
                 before |-> e.before, now |-> e.now]
<1>2. active[id] \in Alert
  BY Listed DEF Reconcile
<1>3. e.at \in Nat /\ e.before \in Quote /\ e.now \in Quote
  BY DEF BackendTypeOK, AlertEvent
<1>4. q \in AlertRequest /\ Reconciles(q) /\ q.alert = active[id]
  BY <1>1, <1>2, <1>3 DEF AlertRequest, AnyRequest, Op, Reconciles
<1>5. chain' = [chain EXCEPT ![id] = Append(@, q)]
  BY <1>1
<1> HIDE DEF q
<1>6. Append(chain[id], q) \in Seq(AlertRequest)
  BY <1>4, Appended DEF ChainsTypeOK
<1>7. /\ chain' \in [AlertId -> Seq(AlertRequest)]
      /\ chain'[id] = Append(chain[id], q)
      /\ \A x \in AlertId \ {id} : chain'[x] = chain[x]
  BY <1>5, <1>6 DEF ChainsTypeOK
<1>8. TypeInv'
  BY <1>7 DEF Reconcile, ListsTypeOK, EngineTypeOK, ChainsTypeOK, MarketTypeOK, BackendTypeOK,
              listVars, engineVars, marketVars, backendVars, historyVars
<1> QED BY <1>4, <1>7, <1>8 DEF Reconcile

LEMMA WorkerTyped ==
  ASSUME TypeInv, NEW id \in AlertId, NEW before \in Price \union {Nothing},
         WorkerTrigger(id, before)
  PROVE  /\ TypeInv'
         /\ rows[id] # Nothing /\ rows[id].status = "active"
         /\ \A x \in AlertId \ {id} : rows'[x] = rows[x]
         /\ rows'[id].rev = rows[id].rev /\ rows'[id].recurring = rows[id].recurring
         /\ rows'[id].status = IF rows[id].recurring THEN "active" ELSE "triggered"
         /\ \E e \in AlertEvent :
              /\ e.id = id /\ e.rev = rows[id].rev /\ ~ e.local
              /\ e.recurring = rows[id].recurring
              /\ events' = events \union {e}
<1> USE DEF TypeInv
<1> DEFINE q == [op |-> "trigger", alert |-> rows[id], at |-> tick,
                 before |-> before, now |-> price]
           e == Event(id, q)
<1>1. /\ rows[id] # Nothing /\ TriggerReply(id, q) = "ok"
      /\ rows' = [rows EXCEPT ![id] = Triggered(@, tick)]
      /\ events' = events \union {e}
  BY DEF WorkerTrigger
<1>2. rows[id] \in AlertRow /\ rows[id].status = "active"
  BY <1>1, TriggerReplyOk DEF BackendTypeOK
<1>3. tick \in Nat /\ price \in Quote /\ before \in Quote
  BY DEF MarketTypeOK, Quote
<1>4. /\ Triggered(rows[id], tick) \in AlertRow
      /\ Triggered(rows[id], tick).rev = rows[id].rev
      /\ Triggered(rows[id], tick).recurring = rows[id].recurring
      /\ Triggered(rows[id], tick).status = IF rows[id].recurring THEN "active" ELSE "triggered"
  BY <1>2, <1>3, TriggeredTyped
<1>5. /\ e \in AlertEvent /\ e.id = id /\ e.rev = rows[id].rev /\ ~ e.local
      /\ e.recurring = rows[id].recurring
  BY <1>2, <1>3 DEF Event, AlertEvent, AlertRow
<1> HIDE DEF e
<1>6. /\ rows' \in [AlertId -> AlertRow \union {Nothing}]
      /\ rows'[id] = Triggered(rows[id], tick)
      /\ \A x \in AlertId \ {id} : rows'[x] = rows[x]
  BY <1>1, <1>4 DEF BackendTypeOK
<1>7. BackendTypeOK'
  BY <1>1, <1>5, <1>6 DEF WorkerTrigger, BackendTypeOK, historyVars
<1>8. ListsTypeOK' /\ EngineTypeOK' /\ ChainsTypeOK' /\ MarketTypeOK'
  BY DEF WorkerTrigger, ListsTypeOK, EngineTypeOK, ChainsTypeOK, MarketTypeOK,
         listVars, engineVars, syncVars, marketVars, historyVars
<1> QED BY <1>1, <1>2, <1>4, <1>5, <1>6, <1>7, <1>8

LEMMA FirstTyped ==
  ASSUME NEW f \in Partially(AlertId, Alert)
  PROVE  /\ First(f) \in Partially(AlertId, Alert)
         /\ DOMAIN First(f) = DOMAIN f
         /\ \A id \in DOMAIN f : First(f)[id] \in Alert /\ First(f)[id].rev = 1
<1>1. DOMAIN f \subseteq AlertId /\ \A id \in DOMAIN f : f[id] \in Alert
  BY PartialIs
<1>2. /\ First(f) = [id \in DOMAIN First(f) |-> First(f)[id]]
      /\ DOMAIN First(f) = DOMAIN f
      /\ \A id \in DOMAIN f : First(f)[id] = [f[id] EXCEPT !.rev = 1]
  BY DEF First
<1>3. \A id \in DOMAIN f : First(f)[id] \in Alert /\ First(f)[id].rev = 1
 <2>1. ASSUME NEW a \in Alert, NEW b, b = [a EXCEPT !.rev = 1]
       PROVE  b \in Alert /\ b.rev = 1
   BY <2>1 DEF Alert
 <2> QED BY <1>1, <1>2, <2>1
<1> QED BY <1>1, <1>2, <1>3, PartialIs

LEMMA FromRowsTyped ==
  ASSUME TypeInv, NEW status
  PROVE  /\ FromRows(status) \in Partially(AlertId, Alert)
         /\ DOMAIN FromRows(status) = {i \in AlertId : rows[i] # Nothing /\ rows[i].status = status}
         /\ \A id \in DOMAIN FromRows(status) :
              /\ FromRows(status)[id].rev = rows[id].rev
              /\ FromRows(status)[id].recurring = rows[id].recurring
              /\ FromRows(status)[id].firedAt = rows[id].firedAt
<1> DEFINE v == <<>>
           f == [id \in {i \in AlertId : rows[i] # Nothing /\ rows[i].status = status} |->
                  [condition |-> rows[id].condition, target |-> rows[id].target,
                   recurring |-> rows[id].recurring, enabled |-> rows[id].enabled,
                   technical |-> rows[id].technical, rev |-> rows[id].rev,
                   firedAt |-> rows[id].firedAt, evidence |-> v]]
<1>1. FromRows(status) = f
  BY DEF FromRows
<1>2. v \in Evidence
  BY DEF Evidence
<1> HIDE DEF v
<1>3. DOMAIN f = {i \in AlertId : rows[i] # Nothing /\ rows[i].status = status}
  OBVIOUS
<1>4. \A id \in DOMAIN f : rows[id] \in AlertRow
  BY <1>3 DEF TypeInv, BackendTypeOK
<1>5. \A id \in DOMAIN f : /\ f[id] \in Alert /\ f[id].rev = rows[id].rev
                           /\ f[id].recurring = rows[id].recurring
                           /\ f[id].firedAt = rows[id].firedAt
  BY <1>2, <1>4 DEF Alert, AlertRow
<1>6. f = [id \in DOMAIN f |-> f[id]]
  OBVIOUS
<1> HIDE DEF f
<1>7. DOMAIN f \subseteq AlertId
  BY <1>3
<1> QED BY <1>1, <1>3, <1>5, <1>6, <1>7, PartialIs

(* The requests that upload one alert to an empty backend.                  *)
Uploads(id, s) ==
  /\ s \in Seq(AlertRequest)
  /\ s # <<>> => id \in Lists
  /\ \A i \in DOMAIN s : /\ s[i].entry = Nothing
                         /\ s[i].op \in {"create", "expire", "migrate"}
                         /\ s[i].op = "create" => i = 1

LEMMA MigrationTyped ==
  ASSUME TypeInv, NEW id \in AlertId
  PROVE  Uploads(id, Migration(id))
<1> USE DEF TypeInv
<1>1. ASSUME NEW q \in AlertRequest, q.op = "create", q.entry = Nothing, id \in Lists
      PROVE  Uploads(id, <<q>>)
  BY <1>1 DEF Uploads
<1>2. ASSUME NEW q \in AlertRequest, q.op = "create", q.entry = Nothing, id \in Lists,
             NEW r \in AlertRequest, r.op \in {"expire", "migrate"}, r.entry = Nothing
      PROVE  Uploads(id, <<q, r>>)
  BY <1>2 DEF Uploads
<1>3. CASE id \in DOMAIN active
 <2>1. Migration(id) = <<Request("create", First(active)[id])>>
   BY <1>3 DEF Migration
 <2>2. First(active)[id] \in Alert
   BY <1>3, FirstTyped DEF ListsTypeOK
 <2> DEFINE q == Request("create", First(active)[id])
 <2>3. q \in AlertRequest /\ q.op = "create" /\ q.entry = Nothing
   BY <2>2, RequestTyped DEF Op
 <2> HIDE DEF q
 <2>4. Uploads(id, <<q>>)
   BY <1>1, <1>3, <2>3 DEF Lists
 <2> QED BY <2>1, <2>4 DEF q
<1>4. CASE id \notin DOMAIN active /\ id \in DOMAIN expired
 <2> DEFINE q == Request("create", First(expired)[id])
            r == Request("expire", First(expired)[id])
 <2>1. Migration(id) = <<q, r>>
   BY <1>4 DEF Migration
 <2>2. First(expired)[id] \in Alert
   BY <1>4, FirstTyped DEF ListsTypeOK
 <2>3. /\ q \in AlertRequest /\ q.op = "create" /\ q.entry = Nothing
       /\ r \in AlertRequest /\ r.op = "expire" /\ r.entry = Nothing
   BY <2>2, RequestTyped DEF Op
 <2> HIDE DEF q, r
 <2>4. Uploads(id, <<q, r>>)
   BY <1>2, <1>4, <2>3 DEF Lists
 <2> QED BY <2>1, <2>4
<1>5. CASE /\ id \notin DOMAIN active /\ id \notin DOMAIN expired
           /\ id \in DOMAIN triggered /\ triggered[id].evidence # <<>>
 <2> DEFINE a == First(triggered)[id]
            q == Request("create", a)
            r == [Request("migrate", a) EXCEPT !.at = a.firedAt, !.before = a.evidence[1],
                                               !.now = a.evidence[2]]
 <2>1. Migration(id) = <<q, r>>
   BY <1>5 DEF Migration
 <2>2. a \in Alert /\ triggered[id] \in Alert /\ a.evidence = triggered[id].evidence
  <3>1. First(triggered)[id] = [triggered[id] EXCEPT !.rev = 1]
    BY <1>5 DEF First
  <3> QED BY <1>5, <3>1, FirstTyped, Listed DEF ListsTypeOK, Alert
 <2>3. a.evidence[1] \in Quote /\ a.evidence[2] \in Quote /\ a.firedAt \in Nat
   BY <1>5, <2>2 DEF Alert, Evidence
 <2> HIDE DEF a
 <2>4. Request("migrate", a) \in AlertRequest /\ Request("migrate", a).entry = Nothing
       /\ Request("migrate", a).op = "migrate"
   BY <2>2, RequestTyped DEF Op
 <2> DEFINE t == a.firedAt
            x == a.evidence[1]
            y == a.evidence[2]
 <2>5. r = [Request("migrate", a) EXCEPT !.at = t, !.before = x, !.now = y]
   OBVIOUS
 <2>6. t \in Nat /\ x \in Quote /\ y \in Quote
   BY <2>3
 <2> HIDE DEF t, x, y, r
 <2>7. r \in AlertRequest /\ r.op = "migrate" /\ r.entry = Nothing
   BY <2>4, <2>5, <2>6 DEF AlertRequest, AnyRequest
 <2>8. q \in AlertRequest /\ q.op = "create" /\ q.entry = Nothing
   BY <2>2, RequestTyped DEF Op
 <2> HIDE DEF q
 <2>9. Uploads(id, <<q, r>>)
   BY <1>2, <1>5, <2>7, <2>8 DEF Lists
 <2> QED BY <2>1, <2>9
<1>6. CASE /\ id \notin DOMAIN active /\ id \notin DOMAIN expired
           /\ ~ (id \in DOMAIN triggered /\ triggered[id].evidence # <<>>)
 <2>1. Migration(id) = <<>>
   BY <1>6 DEF Migration
 <2> QED BY <2>1 DEF Uploads
<1> QED BY <1>3, <1>4, <1>5, <1>6

(* Without a session every request is settled before the user's next change. *)
LEMMA IdleUnsigned ==
  ASSUME TypeInv, Sessions, Idle, ~ signedIn, NEW id \in AlertId
  PROVE  chain[id] = <<>>
<1>1. chain[id] \in Seq(AlertRequest)
  BY DEF TypeInv, ChainsTypeOK
<1>2. SUFFICES ASSUME chain[id] # <<>>
               PROVE  FALSE
  OBVIOUS
<1>3. 1 \in DOMAIN chain[id]
  BY <1>1, <1>2, Beheaded
<1> QED BY <1>3 DEF Sessions, Idle

(* Sign-in: the upload to an empty backend, or the download of its rows.    *)
Uploaded ==
  /\ events = cleared /\ \A id \in AlertId : rows[id] = Nothing
  /\ DOMAIN active' = DOMAIN active /\ DOMAIN triggered' = DOMAIN triggered
  /\ DOMAIN expired' = DOMAIN expired
  /\ \A id \in AlertId : Uploads(id, chain'[id])
  /\ disturbed' = disturbed
FromBackend(list, status) ==
  /\ DOMAIN list = {i \in AlertId : rows[i] # Nothing /\ rows[i].status = status}
  /\ \A id \in DOMAIN list : /\ list[id].rev = rows[id].rev
                             /\ list[id].recurring = rows[id].recurring
                             /\ list[id].firedAt = rows[id].firedAt
Downloaded ==
  /\ FromBackend(active', "active") /\ FromBackend(triggered', "triggered")
  /\ FromBackend(expired', "expired")
  /\ chain' = chain
  /\ disturbed' = disturbed \union {<<id, tick>> : id \in {i \in AlertId : Behind(i)}}

LEMMA SignInTyped ==
  ASSUME TypeInv, Sessions, SignIn
  PROVE  /\ TypeInv'
         /\ \A id \in AlertId : chain[id] = <<>>
         /\ Uploaded \/ Downloaded
         /\ ~ signedIn /\ signedIn' /\ flying' = {} /\ DOMAIN waiting' = {}
         /\ disposed' = candidates
         /\ UNCHANGED <<candidates, orphan, rows, events, cleared, tick, notices>>
<1> USE DEF TypeInv
<1> DEFINE empty == events = cleared /\ \A id \in AlertId : rows[id] = Nothing
           upload == empty /\ Lists # {}
<1>1. /\ ~ signedIn /\ signedIn' /\ signedIn' \in BOOLEAN /\ Idle
      /\ waiting' = None /\ flying' = {} /\ retryTimer' = {} /\ disposed' = candidates
      /\ prevPrice' = Nothing
      /\ UNCHANGED <<candidates, orphan, tick, price, rows, events, cleared, notices>>
  BY DEF SignIn, Mutation, marketVars, backendVars
<1>2. \A id \in AlertId : chain[id] = <<>>
  BY <1>1, IdleUnsigned
<1>3. /\ None \in Partially(AlertId, Crossing) /\ DOMAIN waiting' = {}
  BY <1>1, NonePartial
<1>4. CASE upload
 <2>1. /\ active' = First(active) /\ expired' = First(expired) /\ triggered' = First(triggered)
       /\ chain' = [id \in AlertId |-> chain[id] \o Migration(id)]
       /\ disturbed' = disturbed
   BY <1>4 DEF SignIn
 <2>2. /\ ListsTypeOK' /\ DOMAIN active' = DOMAIN active
       /\ DOMAIN triggered' = DOMAIN triggered /\ DOMAIN expired' = DOMAIN expired
   BY <2>1, FirstTyped DEF ListsTypeOK
 <2>3. \A id \in AlertId : chain'[id] = Migration(id) /\ Uploads(id, Migration(id))
  <3>1. SUFFICES ASSUME NEW id \in AlertId
                 PROVE  chain'[id] = Migration(id) /\ Uploads(id, Migration(id))
    OBVIOUS
  <3>2. Uploads(id, Migration(id)) /\ Migration(id) \in Seq(AlertRequest)
    BY MigrationTyped DEF Uploads
  <3>3. <<>> \o Migration(id) = Migration(id)
    BY <3>2
  <3> QED BY <1>2, <2>1, <3>2, <3>3
 <2>4. chain' \in [AlertId -> Seq(AlertRequest)]
   BY <2>1, <2>3 DEF Uploads
 <2>5. Uploaded
   BY <1>4, <2>1, <2>2, <2>3 DEF Uploaded
 <2>6. TypeInv'
   BY <1>1, <1>3, <2>2, <2>4 DEF EngineTypeOK, ChainsTypeOK, MarketTypeOK, BackendTypeOK, Quote
 <2> QED BY <1>1, <1>2, <1>3, <2>5, <2>6
<1>5. CASE ~ upload
 <2>1. /\ active' = FromRows("active") /\ triggered' = FromRows("triggered")
       /\ expired' = FromRows("expired") /\ chain' = chain
       /\ disturbed' = disturbed \union {<<id, tick>> : id \in {i \in AlertId : Behind(i)}}
   BY <1>5 DEF SignIn
 <2>2. ListsTypeOK' /\ Downloaded
   BY <2>1, FromRowsTyped DEF ListsTypeOK, Downloaded, FromBackend
 <2>3. TypeInv'
   BY <1>1, <1>3, <2>1, <2>2 DEF EngineTypeOK, ChainsTypeOK, MarketTypeOK, BackendTypeOK, Quote
 <2> QED BY <1>1, <1>2, <1>3, <2>2, <2>3
<1> QED BY <1>4, <1>5

LEMMA SignOutTyped ==
  ASSUME TypeInv, SignOut
  PROVE  /\ TypeInv'
         /\ signedIn /\ ~ signedIn'
         /\ DOMAIN active' = {} /\ DOMAIN triggered' = {} /\ DOMAIN expired' = {}
         /\ orphan' = chain /\ \A id \in AlertId : chain'[id] = <<>> /\ orphan[id] = <<>>
         /\ UNCHANGED <<engineVars, tick, backendVars, historyVars>>
<1> USE DEF TypeInv
<1>1. /\ signedIn /\ signedIn' = FALSE
      /\ active' = None /\ triggered' = None /\ expired' = None
      /\ orphan' = chain /\ chain' = [id \in AlertId |-> <<>>]
      /\ \A id \in AlertId : orphan[id] = <<>>
      /\ UNCHANGED <<engineVars, marketVars, backendVars, historyVars>>
  BY DEF SignOut
<1>2. /\ None \in Partially(AlertId, Alert) /\ DOMAIN None = {}
  BY NonePartial
<1>3. <<>> \in Seq(AlertRequest)
  OBVIOUS
<1>4. TypeInv'
  BY <1>1, <1>2, <1>3 DEF ListsTypeOK, EngineTypeOK, ChainsTypeOK, MarketTypeOK, BackendTypeOK,
                          engineVars, marketVars, backendVars, historyVars
<1> QED BY <1>1, <1>2, <1>4 DEF marketVars

LEMMA ClearsTyped ==
  ASSUME TypeInv, ClearHistory \/ ClearRemoteHistory
  PROVE  /\ TypeInv'
         /\ cleared' \in {cleared, events}
         /\ UNCHANGED <<active, triggered, expired, engineVars, chain, orphan, marketVars,
                        rows, events, signedIn, historyVars>>
BY DEF ClearHistory, ClearRemoteHistory, TypeInv, ListsTypeOK, EngineTypeOK, ChainsTypeOK,
       MarketTypeOK, BackendTypeOK, listVars, engineVars, marketVars, backendVars, historyVars

-----------------------------------------------------------------------------
(* The backend's part.                                                     *)

LEMMA RowsSettle ==
  ASSUME TypeInv, TypeInv', EventsFit, OneTimeOnce, NEW id \in AlertId, NEW q \in AlertRequest,
         RowSettles(id, q), q.op = "create" => Unborn(id)
  PROVE  /\ EventsFit' /\ OneTimeOnce'
         /\ \A x \in AlertId : (Unborn(x) /\ ~ (x = id /\ q.op = "create")) => Unborn(x)'
         /\ events \subseteq events'
<1> USE DEF TypeInv, BackendTypeOK
<1>1. \A e \in events : e.id \in AlertId /\ e.rev \in Nat
  BY DEF AlertEvent
<1>2. \A x \in AlertId : rows[x] # Nothing => (rows[x].rev \in Nat /\ rows'[x] = rows[x]) \/ x = id
  BY DEF RowSettles, AlertRow
<1>3. CASE events' = events /\ Moves(rows[id], rows'[id])
 <2>1. ASSUME NEW e \in events'
       PROVE  /\ ~ e.local
              /\ rows'[e.id] # Nothing => e.rev <= rows'[e.id].rev
              /\ (rows'[e.id] # Nothing /\ e.rev = rows'[e.id].rev) =>
                   /\ e.recurring = rows'[e.id].recurring
                   /\ e.recurring => rows'[e.id].status # "triggered"
                   /\ ~ e.recurring => rows'[e.id].status # "active"
  <3>1. CASE e.id = id /\ rows'[id] # Nothing
   <4>1. /\ rows[id] # Nothing /\ rows[id].rev \in Nat
         /\ rows[id].rev <= rows'[id].rev /\ rows'[id].rev \in Nat
     BY <1>3, <3>1 DEF Moves, AlertRow
   <4>2. /\ ~ e.local /\ e.rev <= rows[id].rev /\ e.rev \in Nat
         /\ e.rev = rows[id].rev =>
              /\ e.recurring = rows[id].recurring
              /\ e.recurring => rows[id].status # "triggered"
              /\ ~ e.recurring => rows[id].status # "active"
     BY <1>1, <1>3, <3>1, <4>1 DEF EventsFit
   <4> QED BY <1>3, <3>1, <4>1, <4>2 DEF Moves
  <3>2. CASE ~ (e.id = id /\ rows'[id] # Nothing)
    BY <1>1, <1>3, <3>2 DEF EventsFit, RowSettles
  <3> QED BY <3>1, <3>2
 <2>2. EventsFit'
   BY <2>1 DEF EventsFit
 <2>3. \A x \in AlertId : Unborn(x) => Unborn(x)'
   BY <1>3 DEF Unborn, Moves, RowSettles
 <2> QED BY <1>3, <2>2, <2>3 DEF OneTimeOnce
<1>4. CASE events' = events /\ q.op = "create"
 <2>1. \A e \in events : e.id # id /\ rows'[e.id] = rows[e.id]
   BY <1>1, <1>4 DEF Unborn, RowSettles
 <2>2. EventsFit'
   BY <1>4, <2>1 DEF EventsFit
 <2>3. \A x \in AlertId \ {id} : Unborn(x) => Unborn(x)'
   BY <1>4 DEF Unborn, RowSettles
 <2> QED BY <1>4, <2>2, <2>3 DEF OneTimeOnce
<1>5. CASE Committing(id, q)
 <2>1. /\ rows[id] # Nothing /\ rows[id].rev = q.alert.rev /\ rows[id].status = "active"
   BY <1>5, TriggerReplyOk DEF Committing
 <2> QED
  <3> DEFINE n == Event(id, q)
  <3>1. /\ n \in AlertEvent /\ n.id = id /\ n.rev = rows[id].rev /\ ~ n.local
        /\ n.recurring = rows[id].recurring
    BY <1>5, <2>1, EventTyped DEF Committing
  <3>2. events' = events \union {n}
    BY <1>5 DEF Committing
  <3>3. /\ rows'[id].rev = rows[id].rev /\ rows'[id].recurring = rows[id].recurring
        /\ rows'[id].status = IF rows[id].recurring THEN "active" ELSE "triggered"
        /\ rows[id].rev \in Nat /\ rows[id].recurring \in BOOLEAN
    BY <1>5, <2>1 DEF Committing, AlertRow
  <3> HIDE DEF n
  <3>4. \A e \in events : (e.id = id /\ e.rev = rows[id].rev) =>
                             e.recurring /\ rows[id].recurring
    BY <2>1 DEF EventsFit
  <3>5. ASSUME NEW e \in events'
        PROVE  /\ ~ e.local
               /\ rows'[e.id] # Nothing => e.rev <= rows'[e.id].rev
               /\ (rows'[e.id] # Nothing /\ e.rev = rows'[e.id].rev) =>
                    /\ e.recurring = rows'[e.id].recurring
                    /\ e.recurring => rows'[e.id].status # "triggered"
                    /\ ~ e.recurring => rows'[e.id].status # "active"
   <4>1. CASE e = n
     BY <3>1, <3>3, <4>1
   <4>2. CASE e \in events /\ e.id = id
    <5>1. ~ e.local /\ e.rev <= rows[id].rev
      BY <2>1, <4>2 DEF EventsFit
    <5> QED BY <3>3, <3>4, <4>2, <5>1
   <4>3. CASE e \in events /\ e.id # id
    <5>1. rows'[e.id] = rows[e.id]
      BY <1>1, <4>3 DEF RowSettles
    <5> QED BY <4>3, <5>1 DEF EventsFit
   <4> QED BY <3>2, <4>1, <4>2, <4>3
  <3>6. EventsFit'
    BY <3>5 DEF EventsFit
  <3>7. OneTimeOnce'
    BY <3>1, <3>2, <3>4 DEF OneTimeOnce
  <3>8. \A x \in AlertId : Unborn(x) => Unborn(x)'
    BY <2>1, <3>1, <3>2 DEF Unborn, RowSettles
  <3> QED BY <3>2, <3>6, <3>7, <3>8
<1> QED BY <1>3, <1>4, <1>5 DEF RowSettles

Grows(id) ==
  \/ chain'[id] = chain[id]
  \/ \E r \in AlertRequest : /\ chain'[id] = Append(chain[id], r)
                             /\ r.op # "create" /\ (r.op = "local" <=> ~ signedIn)

LEMMA EventsStay ==
  ASSUME EventsFit, OneTimeOnce, NotifiedIsCanonical, CrossingsOnce,
         UNCHANGED <<rows, events, notices>>, cleared' \in {cleared, events},
         cleared \subseteq events
  PROVE  /\ EventsFit' /\ OneTimeOnce' /\ NotifiedIsCanonical' /\ CrossingsOnce'
         /\ \A x \in AlertId : Unborn(x)' = Unborn(x)
BY DEF EventsFit, OneTimeOnce, NotifiedIsCanonical, CrossingsOnce, SameArming, Unborn

LEMMA GrowsKeepsBackend ==
  ASSUME TypeInv, BackendInv, UNCHANGED <<rows, events, notices, orphan, signedIn>>,
         cleared' \in {cleared, events}, Lists' \subseteq Lists,
         \A id \in AlertId : Grows(id)
  PROVE  BackendInv'
<1>1. /\ EventsFit' /\ OneTimeOnce' /\ NotifiedIsCanonical' /\ CrossingsOnce'
      /\ \A x \in AlertId : Unborn(x)' = Unborn(x)
  BY EventsStay DEF BackendInv, TypeInv, BackendTypeOK
<1>2. \A id \in AlertId : chain[id] \in Seq(AlertRequest)
  BY DEF TypeInv, ChainsTypeOK
<1>3. ASSUME NEW id \in AlertId, NEW i \in DOMAIN chain'[id]
      PROVE  \/ i \in DOMAIN chain[id] /\ chain'[id][i] = chain[id][i]
             \/ chain'[id][i].op # "create" /\ (chain'[id][i].op = "local" <=> ~ signedIn)
 <2>1. CASE chain'[id] = chain[id]
   BY <1>3, <2>1
 <2>2. CASE chain'[id] # chain[id]
  <3>1. PICK r \in AlertRequest : /\ chain'[id] = Append(chain[id], r)
                                  /\ r.op # "create" /\ (r.op = "local" <=> ~ signedIn)
    BY <2>2 DEF Grows
  <3> QED BY <1>2, <1>3, <3>1, Appended
 <2> QED BY <2>1, <2>2
<1>4. CreationsLead'
 <2>1. SUFFICES ASSUME NEW id \in AlertId
                PROVE  /\ \A i \in DOMAIN chain'[id] : chain'[id][i].op = "create" =>
                            /\ i = 1 /\ Unborn(id)'
                            /\ \A k \in DOMAIN orphan'[id] : orphan'[id][k].op # "create"
                       /\ \A i \in DOMAIN orphan'[id] :
                            orphan'[id][i].op = "create" => i = 1 /\ Unborn(id)'
   BY DEF CreationsLead
 <2> QED BY <1>1, <1>3 DEF BackendInv, CreationsLead
<1>5. Sessions'
 <2>1. SUFFICES ASSUME NEW id \in AlertId
                PROVE  /\ \A i \in DOMAIN chain'[id] : chain'[id][i].op = "local" <=> ~ signedIn'
                       /\ \A i \in DOMAIN orphan'[id] : orphan'[id][i].op # "local"
                       /\ (~ signedIn' /\ id \in Lists') => Unborn(id)' /\ orphan'[id] = <<>>
   BY DEF Sessions
 <2> QED BY <1>1, <1>3 DEF BackendInv, Sessions
<1> QED BY <1>1, <1>4, <1>5 DEF BackendInv

LEMMA BirthKeepsBackend ==
  ASSUME TypeInv, BackendInv, NEW id \in AlertId, Free(id), NEW r \in AlertRequest,
         r.op = "create", QueueAlertSync(id, <<r>>), Lists' \subseteq Lists \union {id},
         UNCHANGED <<rows, events, cleared, notices, orphan, signedIn>>
  PROVE  BackendInv'
<1>1. /\ EventsFit' /\ OneTimeOnce' /\ NotifiedIsCanonical' /\ CrossingsOnce'
      /\ \A x \in AlertId : Unborn(x)' = Unborn(x)
  BY EventsStay DEF BackendInv, TypeInv, BackendTypeOK
<1>2. ChainsTypeOK /\ chain[id] = <<>> /\ orphan[id] = <<>> /\ Unborn(id)
  BY DEF TypeInv, Free, Unborn
<1>3. /\ chain'[id] = IF signedIn THEN Append(chain[id], r) ELSE chain[id]
      /\ \A x \in AlertId : x # id => chain'[x] = chain[x]
  BY <1>2, QueuedTyped
<1>4. \A i \in DOMAIN chain'[id] : signedIn /\ i = 1 /\ chain'[id][i] = r
 <2>1. CASE signedIn
  <3>1. Append(<<>>, r) = <<r>>
    OBVIOUS
  <3> QED BY <1>2, <1>3, <2>1, <3>1
 <2>2. CASE ~ signedIn
   BY <1>2, <1>3, <2>2
 <2> QED BY <2>1, <2>2
<1>5. CreationsLead'
 <2>1. SUFFICES ASSUME NEW x \in AlertId
                PROVE  /\ \A i \in DOMAIN chain'[x] : chain'[x][i].op = "create" =>
                            /\ i = 1 /\ Unborn(x)'
                            /\ \A k \in DOMAIN orphan'[x] : orphan'[x][k].op # "create"
                       /\ \A i \in DOMAIN orphan'[x] :
                            orphan'[x][i].op = "create" => i = 1 /\ Unborn(x)'
   BY DEF CreationsLead
 <2> QED BY <1>1, <1>2, <1>3, <1>4 DEF BackendInv, CreationsLead
<1>6. Sessions'
 <2>1. SUFFICES ASSUME NEW x \in AlertId
                PROVE  /\ \A i \in DOMAIN chain'[x] : chain'[x][i].op = "local" <=> ~ signedIn'
                       /\ \A i \in DOMAIN orphan'[x] : orphan'[x][i].op # "local"
                       /\ (~ signedIn' /\ x \in Lists') => Unborn(x)' /\ orphan'[x] = <<>>
   BY DEF Sessions
 <2> QED BY <1>1, <1>2, <1>3, <1>4 DEF BackendInv, Sessions
<1> QED BY <1>1, <1>5, <1>6 DEF BackendInv

LEMMA SignInKeepsBackend ==
  ASSUME TypeInv, BackendInv, SignIn
  PROVE  BackendInv'
<1>1. /\ \A id \in AlertId : chain[id] = <<>>
      /\ Uploaded \/ Downloaded
      /\ ~ signedIn /\ signedIn'
      /\ UNCHANGED <<orphan, rows, events, cleared, notices>>
  BY SignInTyped DEF BackendInv
<1>2. /\ EventsFit' /\ OneTimeOnce' /\ NotifiedIsCanonical' /\ CrossingsOnce'
      /\ \A x \in AlertId : Unborn(x)' = Unborn(x)
  BY <1>1, EventsStay DEF BackendInv, TypeInv, BackendTypeOK
<1>3. ASSUME NEW id \in AlertId, NEW i \in DOMAIN chain'[id]
      PROVE  /\ chain'[id][i].op # "local"
             /\ chain'[id][i].op = "create" => i = 1 /\ id \in Lists
  BY <1>1, <1>3 DEF Uploaded, Downloaded, Uploads
<1>4. CreationsLead'
 <2>1. SUFFICES ASSUME NEW x \in AlertId
                PROVE  /\ \A i \in DOMAIN chain'[x] : chain'[x][i].op = "create" =>
                            /\ i = 1 /\ Unborn(x)'
                            /\ \A k \in DOMAIN orphan'[x] : orphan'[x][k].op # "create"
                       /\ \A i \in DOMAIN orphan'[x] :
                            orphan'[x][i].op = "create" => i = 1 /\ Unborn(x)'
   BY DEF CreationsLead
 <2>2. x \in Lists => Unborn(x) /\ orphan[x] = <<>>
   BY <1>1 DEF BackendInv, Sessions
 <2> QED BY <1>1, <1>2, <1>3, <2>2 DEF BackendInv, CreationsLead
<1>5. Sessions'
  BY <1>1, <1>3 DEF BackendInv, Sessions
<1> QED BY <1>2, <1>4, <1>5 DEF BackendInv

LEMMA SignOutKeepsBackend ==
  ASSUME TypeInv, BackendInv, SignOut
  PROVE  BackendInv'
<1>1. /\ signedIn /\ ~ signedIn' /\ Lists' = {}
      /\ orphan' = chain /\ \A id \in AlertId : chain'[id] = <<>>
      /\ UNCHANGED <<rows, events, cleared, notices>>
  BY SignOutTyped DEF Lists, backendVars, historyVars
<1>2. /\ EventsFit' /\ OneTimeOnce' /\ NotifiedIsCanonical' /\ CrossingsOnce'
      /\ \A x \in AlertId : Unborn(x)' = Unborn(x)
  BY <1>1, EventsStay DEF BackendInv, TypeInv, BackendTypeOK
<1>3. CreationsLead'
  BY <1>1, <1>2 DEF BackendInv, CreationsLead
<1>4. Sessions'
  BY <1>1 DEF BackendInv, Sessions
<1> QED BY <1>2, <1>3, <1>4 DEF BackendInv

LEMMA WorkerKeepsBackend ==
  ASSUME TypeInv, BackendInv, NEW id \in AlertId, NEW before \in Price \union {Nothing},
         WorkerTrigger(id, before)
  PROVE  BackendInv'
<1>1. /\ rows[id] # Nothing /\ rows[id].status = "active"
      /\ \A x \in AlertId \ {id} : rows'[x] = rows[x]
      /\ rows'[id].rev = rows[id].rev /\ rows'[id].recurring = rows[id].recurring
      /\ rows'[id].status = IF rows[id].recurring THEN "active" ELSE "triggered"
  BY WorkerTyped
<1>2. PICK n \in AlertEvent :
        /\ n.id = id /\ n.rev = rows[id].rev /\ ~ n.local
        /\ n.recurring = rows[id].recurring /\ events' = events \union {n}
  BY WorkerTyped
<1>3. /\ UNCHANGED <<active, triggered, expired, chain, orphan, cleared, signedIn, notices>>
      /\ Lists' = Lists
  BY DEF WorkerTrigger, listVars, syncVars, historyVars, Lists
<1>4. \A e \in events : (e.id = id /\ e.rev = rows[id].rev) => e.recurring /\ rows[id].recurring
  BY <1>1 DEF BackendInv, EventsFit
<1>5. rows[id].rev \in Nat /\ rows[id].recurring \in BOOLEAN /\ \A e \in events : e.id \in AlertId
  BY <1>1 DEF TypeInv, BackendTypeOK, AlertRow, AlertEvent
<1>6. ASSUME NEW e \in events'
      PROVE  /\ ~ e.local
             /\ rows'[e.id] # Nothing => e.rev <= rows'[e.id].rev
             /\ (rows'[e.id] # Nothing /\ e.rev = rows'[e.id].rev) =>
                  /\ e.recurring = rows'[e.id].recurring
                  /\ e.recurring => rows'[e.id].status # "triggered"
                  /\ ~ e.recurring => rows'[e.id].status # "active"
 <2>1. CASE e = n
   BY <1>1, <1>2, <1>5, <2>1
 <2>2. CASE e \in events /\ e.id = id
  <3>1. ~ e.local /\ e.rev <= rows[id].rev
    BY <1>1, <2>2 DEF BackendInv, EventsFit
  <3> QED BY <1>1, <1>4, <1>5, <2>2, <3>1
 <2>3. CASE e \in events /\ e.id # id
  <3>1. rows'[e.id] = rows[e.id]
    BY <1>1, <1>5, <2>3
  <3> QED BY <2>3, <3>1 DEF BackendInv, EventsFit
 <2> QED BY <1>2, <2>1, <2>2, <2>3
<1>7. EventsFit'
  BY <1>6 DEF EventsFit
<1>8. OneTimeOnce'
  BY <1>2, <1>4 DEF BackendInv, OneTimeOnce
<1>9. \A x \in AlertId : Unborn(x) => Unborn(x)'
  BY <1>1, <1>2 DEF Unborn
<1>10. CreationsLead'
  BY <1>3, <1>9 DEF BackendInv, CreationsLead
<1>11. Sessions'
  BY <1>3, <1>9 DEF BackendInv, Sessions
<1>12. NotifiedIsCanonical' /\ CrossingsOnce'
  BY <1>2, <1>3 DEF BackendInv, NotifiedIsCanonical, CrossingsOnce
<1> QED BY <1>7, <1>8, <1>10, <1>11, <1>12 DEF BackendInv

(* What a settled request adds to the notices and leaves of the chain.      *)
LEMMA SettlesNotices ==
  ASSUME TypeInv, NEW id \in AlertId, NEW q, NEW reply, NEW rest, NEW late,
         RequestSettles(id, q, reply, rest, late)
  PROVE  \/ notices' = notices
         \/ /\ notices' = Append(notices, Event(id, q)) /\ Event(id, q) \in AlertEvent
            /\ Event(id, q).id = id /\ Event(id, q).rev = q.alert.rev
            /\ Event(id, q).at = q.at /\ Event(id, q).local = (q.op = "local")
            /\ Live(q) /\ reply = "ok" /\ Reply(id, q) = "ok"
            /\ q.op \in {"trigger", "local"}
            /\ q.op = "local" => Event(id, q).recurring = q.alert.recurring
            /\ q.op = "trigger" =>
                 /\ TriggerReply(id, q) = "ok" /\ events' = events \union {Event(id, q)}
                 /\ Event(id, q).recurring = rows[id].recurring
<1>1. CASE notices' = notices
  BY <1>1
<1>2. CASE notices' # notices
 <2>1. /\ Live(q) /\ notices' = Append(notices, Event(id, q)) /\ reply = "ok"
   BY <1>2 DEF RequestSettles, Finishes, Concludes
 <2>2. q.op \in {"trigger", "local"}
   BY <2>1 DEF Live, RequestSettles, AlertRequest
 <2>3. Reply(id, q) = "ok" /\ Arrives(id, q)
   BY <2>1 DEF RequestSettles, Replied
 <2>4. q.op = "trigger" =>
         /\ TriggerReply(id, q) = "ok" /\ events' = events \union {Event(id, q)}
   BY <2>3 DEF Reply, Arrives
 <2>5. q.op # "local" => rows[id] # Nothing
   BY <2>2, <2>4, TriggerReplyOk
 <2> QED BY <2>1, <2>2, <2>3, <2>4, <2>5, EventTyped DEF RequestSettles
<1> QED BY <1>1, <1>2

LEMMA SettlesChain ==
  ASSUME TypeInv, NEW id \in AlertId, NEW q, NEW reply, NEW rest, NEW late,
         RequestSettles(id, q, reply, rest, late)
  PROVE  /\ \A x \in AlertId \ {id} : chain'[x] = chain[x] /\ orphan'[x] = orphan[x]
         /\ \A i \in DOMAIN chain'[id] :
              \/ i \in DOMAIN rest /\ chain'[id][i] = rest[i]
              \/ /\ Live(q) /\ Restarts(id, q, rest) /\ i = Len(rest) + 1
                 /\ chain'[id][i] = TriggerRequest(active'[id], waiting[id])
         /\ \A i \in DOMAIN rest :
              IF OfChain(id, q, reply, rest, late)
              THEN i + 1 \in DOMAIN chain[id] /\ rest[i] = chain[id][i + 1]
              ELSE i \in DOMAIN chain[id] /\ rest[i] = chain[id][i]
         /\ \A i \in DOMAIN orphan'[id] :
              IF OfChain(id, q, reply, rest, late)
              THEN i \in DOMAIN orphan[id] /\ orphan'[id][i] = orphan[id][i]
              ELSE i + 1 \in DOMAIN orphan[id] /\ orphan'[id][i] = orphan[id][i + 1]
         /\ IF OfChain(id, q, reply, rest, late)
            THEN 1 \in DOMAIN chain[id] /\ q = chain[id][1]
            ELSE OfOrphan(id, q, rest, late) /\ 1 \in DOMAIN orphan[id] /\ q = orphan[id][1]
<1>1. chain[id] \in Seq(AlertRequest) /\ orphan[id] \in Seq(AlertRequest)
  BY DEF TypeInv, ChainsTypeOK
<1>2. \A x \in AlertId \ {id} : chain'[x] = chain[x] /\ orphan'[x] = orphan[x]
  BY DEF RequestSettles, Finishes, Concludes, OfChain, OfOrphan
<1>3. ASSUME NEW i \in DOMAIN chain'[id]
      PROVE  \/ i \in DOMAIN rest /\ chain'[id][i] = rest[i]
             \/ /\ Live(q) /\ Restarts(id, q, rest) /\ i = Len(rest) + 1
                /\ chain'[id][i] = TriggerRequest(active'[id], waiting[id])
 <2>1. CASE chain'[id] = rest
   BY <1>3, <2>1
 <2>2. CASE Live(q) /\ Restarts(id, q, rest)
  <3>1. chain'[id] = Append(rest, TriggerRequest(active'[id], waiting[id]))
    BY <2>2 DEF Restarts
  <3>2. rest \in Seq(AlertRequest)
    BY DEF RequestSettles
  <3> DEFINE r == TriggerRequest(active'[id], waiting[id])
  <3>3. rest \in Seq(AlertRequest \union {r}) /\ r \in AlertRequest \union {r}
    BY <3>2
  <3> HIDE DEF r
  <3>4. /\ DOMAIN Append(rest, r) = 1..(Len(rest) + 1) /\ DOMAIN rest = 1..Len(rest)
        /\ Append(rest, r)[Len(rest) + 1] = r
        /\ \A k \in DOMAIN rest : Append(rest, r)[k] = rest[k]
        /\ Len(rest) \in Nat
    BY <3>3, Appended
  <3> QED BY <1>3, <2>2, <3>1, <3>4 DEF r
 <2> QED BY <2>1, <2>2 DEF RequestSettles, Finishes, Concludes, Ends
<1>4. CASE OfChain(id, q, reply, rest, late)
  BY <1>1, <1>2, <1>3, <1>4, Beheaded DEF OfChain
<1>5. CASE ~ OfChain(id, q, reply, rest, late)
 <2>1. OfOrphan(id, q, rest, late)
   BY <1>5 DEF RequestSettles
 <2> QED BY <1>1, <1>2, <1>3, <1>5, <2>1, Beheaded DEF OfOrphan
<1> QED BY <1>4, <1>5

LEMMA SettlesLists ==
  ASSUME NEW id \in AlertId, NEW q, NEW reply, NEW rest, NEW late,
         RequestSettles(id, q, reply, rest, late)
  PROVE  Lists' = Lists
BY DEF RequestSettles, ListsSettle, Applied, Fires, Lists, StillArmed

LEMMA SettleKeepsBackend ==
  ASSUME TypeInv, TypeInv', BackendInv, NEW id \in AlertId, NEW q, NEW reply, NEW rest,
         NEW late, RequestSettles(id, q, reply, rest, late)
  PROVE  BackendInv'
<1>1. /\ q \in AlertRequest /\ RowSettles(id, q)
      /\ cleared' = cleared /\ signedIn' = signedIn
  BY DEF RequestSettles
<1>2. q.op = "create" => Unborn(id)
  BY SettlesChain DEF BackendInv, CreationsLead
<1>3. /\ EventsFit' /\ OneTimeOnce' /\ events \subseteq events'
      /\ \A x \in AlertId : (Unborn(x) /\ ~ (x = id /\ q.op = "create")) => Unborn(x)'
  BY <1>1, <1>2, RowsSettle DEF BackendInv
<1>4. NotifiedIsCanonical' /\ CrossingsOnce'
 <2>1. CASE notices' = notices
   BY <1>1, <1>3, <2>1 DEF BackendInv, NotifiedIsCanonical, CrossingsOnce
 <2>2. CASE notices' # notices
  <3> DEFINE n == Event(id, q)
  <3>1. /\ notices' = Append(notices, n) /\ n \in AlertEvent
        /\ n.id = id /\ n.rev = q.alert.rev /\ n.at = q.at /\ n.local = (q.op = "local")
        /\ q.op \in {"trigger", "local"}
        /\ q.op = "trigger" => TriggerReply(id, q) = "ok" /\ n \in events'
    BY <2>2, SettlesNotices
  <3> HIDE DEF n
  <3>2. /\ DOMAIN notices' = 1..(Len(notices) + 1) /\ DOMAIN notices = 1..Len(notices)
        /\ notices'[Len(notices) + 1] = n /\ Len(notices) \in Nat
        /\ \A k \in DOMAIN notices : notices'[k] = notices[k]
    BY <3>1, Appended DEF TypeInv, BackendTypeOK
  <3>3. NotifiedIsCanonical'
   <4>1. n.local \/ n \in events'
     BY <3>1
   <4>2. \A i \in DOMAIN notices : notices[i].local \/ notices[i] \in events'
     BY <1>3 DEF BackendInv, NotifiedIsCanonical
   <4>3. \A i \in DOMAIN notices' : i \in DOMAIN notices \/ i = Len(notices) + 1
     BY <3>2
   <4>4. \A i \in DOMAIN notices' : notices'[i].local \/ notices'[i] \in events'
     BY <3>2, <4>1, <4>2, <4>3
   <4> QED BY <4>4 DEF NotifiedIsCanonical
  <3>4. ASSUME NEW i \in DOMAIN notices, SameArming(notices[i], n), ~ notices[i].local
        PROVE  notices[i].recurring /\ (notices[i].at = n.at => notices[i] \in cleared)
   <4>1. q.op = "trigger" /\ notices[i] \in events
     BY <3>1, <3>4 DEF SameArming, BackendInv, NotifiedIsCanonical
   <4>2. /\ rows[id] # Nothing /\ rows[id].rev = q.alert.rev /\ rows[id].status = "active"
         /\ \A e \in KnownEvents(id, q.alert.rev) : e.at # q.at
     BY <3>1, <4>1, TriggerReplyOk
   <4>3. notices[i].id = id /\ notices[i].rev = q.alert.rev
     BY <3>1, <3>4 DEF SameArming
   <4>4. notices[i].recurring \in BOOLEAN
     BY <4>1 DEF TypeInv, BackendTypeOK, AlertEvent
   <4>5. notices[i].recurring
     BY <4>1, <4>2, <4>3, <4>4 DEF BackendInv, EventsFit
   <4>6. notices[i].at = n.at => notices[i] \in cleared
     BY <3>1, <4>1, <4>2, <4>3 DEF KnownEvents
   <4> QED BY <4>5, <4>6
  <3>5. CrossingsOnce'
   <4>1. SUFFICES ASSUME NEW i \in DOMAIN notices', NEW j \in DOMAIN notices', i < j,
                         SameArming(notices'[i], notices'[j]), ~ notices'[i].local
                  PROVE  /\ notices'[i].recurring
                         /\ notices'[i].at = notices'[j].at => notices'[i] \in cleared
     BY <1>1 DEF CrossingsOnce, SameArming
   <4>2. CASE j \in DOMAIN notices
     BY <3>2, <4>1, <4>2 DEF BackendInv, CrossingsOnce
   <4>3. CASE j = Len(notices) + 1
     BY <3>2, <3>4, <4>1, <4>3
   <4> QED BY <3>2, <4>2, <4>3
  <3> QED BY <3>3, <3>5
 <2> QED BY <2>1, <2>2
<1>5. ASSUME NEW i \in DOMAIN chain'[id]
      PROVE  \/ i \in DOMAIN rest /\ chain'[id][i] = rest[i]
             \/ chain'[id][i].op = IF signedIn THEN "trigger" ELSE "local"
 <2>1. \A a, c : TriggerRequest(a, c).op = IF signedIn THEN "trigger" ELSE "local"
   BY DEF TriggerRequest
 <2> QED BY <2>1, SettlesChain
<1>6. CreationsLead'
 <2>1. SUFFICES ASSUME NEW x \in AlertId
                PROVE  /\ \A i \in DOMAIN chain'[x] : chain'[x][i].op = "create" =>
                            /\ i = 1 /\ Unborn(x)'
                            /\ \A k \in DOMAIN orphan'[x] : orphan'[x][k].op # "create"
                       /\ \A i \in DOMAIN orphan'[x] :
                            orphan'[x][i].op = "create" => i = 1 /\ Unborn(x)'
   BY DEF CreationsLead
 <2>2. CASE x # id
  <3>1. chain'[x] = chain[x] /\ orphan'[x] = orphan[x]
    BY <2>2, SettlesChain
  <3> QED BY <1>3, <2>2, <3>1 DEF BackendInv, CreationsLead
 <2>3. CASE x = id /\ OfChain(id, q, reply, rest, late)
  <3>1. \A i \in DOMAIN rest : rest[i].op # "create"
   <4>1. SUFFICES ASSUME NEW i \in DOMAIN rest
                  PROVE  rest[i].op # "create"
     OBVIOUS
   <4>2. rest \in Seq(AlertRequest)
     BY DEF RequestSettles
   <4>3. i \in Nat \ {0}
     BY <4>2
   <4>4. i + 1 \in DOMAIN chain[id] /\ rest[i] = chain[id][i + 1] /\ i + 1 # 1
     BY <2>3, <4>3, SettlesChain
   <4> QED BY <4>4 DEF BackendInv, CreationsLead
  <3>2. /\ 1 \in DOMAIN chain[id] /\ q = chain[id][1]
        /\ \A i \in DOMAIN orphan'[id] :
             i \in DOMAIN orphan[id] /\ orphan'[id][i] = orphan[id][i]
    BY <2>3, SettlesChain
  <3> QED BY <1>3, <1>5, <2>3, <3>1, <3>2 DEF BackendInv, CreationsLead
 <2>4. CASE x = id /\ ~ OfChain(id, q, reply, rest, late)
  <3>1. \A i \in DOMAIN orphan'[id] : orphan'[id][i].op # "create"
   <4>1. SUFFICES ASSUME NEW i \in DOMAIN orphan'[id]
                  PROVE  orphan'[id][i].op # "create"
     OBVIOUS
   <4>2. orphan'[id] \in Seq(AlertRequest)
     BY DEF TypeInv, ChainsTypeOK
   <4>3. i \in Nat \ {0}
     BY <4>2
   <4>4. i + 1 \in DOMAIN orphan[id] /\ orphan'[id][i] = orphan[id][i + 1] /\ i + 1 # 1
     BY <2>4, <4>3, SettlesChain
   <4> QED BY <4>4 DEF BackendInv, CreationsLead
  <3>2. /\ 1 \in DOMAIN orphan[id] /\ q = orphan[id][1]
        /\ \A i \in DOMAIN rest : i \in DOMAIN chain[id] /\ rest[i] = chain[id][i]
    BY <2>4, SettlesChain
  <3> QED BY <1>3, <1>5, <2>4, <3>1, <3>2 DEF BackendInv, CreationsLead
 <2> QED BY <2>2, <2>3, <2>4
<1>7. Sessions'
 <2>1. SUFFICES ASSUME NEW x \in AlertId
                PROVE  /\ \A i \in DOMAIN chain'[x] : chain'[x][i].op = "local" <=> ~ signedIn'
                       /\ \A i \in DOMAIN orphan'[x] : orphan'[x][i].op # "local"
                       /\ (~ signedIn' /\ x \in Lists') => Unborn(x)' /\ orphan'[x] = <<>>
   BY DEF Sessions
 <2>2. CASE x # id
  <3>1. chain'[x] = chain[x] /\ orphan'[x] = orphan[x]
    BY <2>2, SettlesChain
  <3> QED BY <1>1, <1>3, <2>2, <3>1, SettlesLists DEF BackendInv, Sessions
 <2>3. CASE x = id
  <3>1. \A i \in DOMAIN chain'[id] : chain'[id][i].op = "local" <=> ~ signedIn'
   <4>1. \A i \in DOMAIN rest : rest[i].op = "local" <=> ~ signedIn
     BY SettlesChain DEF BackendInv, Sessions
   <4> QED BY <1>1, <1>5, <4>1
  <3>2. \A i \in DOMAIN orphan'[id] : orphan'[id][i].op # "local"
    BY SettlesChain DEF BackendInv, Sessions
  <3>3. ASSUME ~ signedIn, id \in Lists
        PROVE  Unborn(id)' /\ orphan'[id] = <<>>
   <4>1. Unborn(id) /\ orphan[id] = <<>>
     BY <3>3 DEF BackendInv, Sessions
   <4>2. OfChain(id, q, reply, rest, late) /\ orphan' = orphan
     BY <4>1 DEF RequestSettles, OfChain, OfOrphan
   <4>3. q.op = "local"
     BY <3>3, <4>2, SettlesChain DEF BackendInv, Sessions
   <4> QED BY <1>3, <4>1, <4>2, <4>3
  <3> QED BY <1>1, <2>3, <3>1, <3>2, <3>3, SettlesLists
 <2> QED BY <2>2, <2>3
<1> QED BY <1>3, <1>4, <1>6, <1>7 DEF BackendInv

-----------------------------------------------------------------------------
(* Steps that leave the engine alone: an alert listed afterwards is new,    *)
(* is armed under a later revision, or is where it was.                     *)

Raised(id) == id \in Lists /\ Find(id)'.rev = Find(id).rev + 1
Kept(id) ==
  /\ id \in Lists /\ Find(id)'.rev = Find(id).rev
  /\ id \in DOMAIN active' =>
       /\ id \in DOMAIN active
       /\ active'[id].rev = active[id].rev
       /\ active'[id].recurring = active[id].recurring
       /\ active'[id].firedAt = active[id].firedAt
       /\ active'[id].enabled => active[id].enabled \/ <<id, tick>> \in disturbed'
Queues(id) ==
  \/ chain'[id] = chain[id]
  \/ \E r \in AlertRequest : signedIn /\ r.entry = Nothing /\ chain'[id] = Append(chain[id], r)
Quiet ==
  /\ UNCHANGED <<notices, waiting, flying, orphan, tick, candidates, disposed, signedIn>>
  /\ disturbed \subseteq disturbed'
  /\ \A id \in AlertId : Queues(id)
  /\ \A id \in Lists' : Free(id) \/ Raised(id) \/ Kept(id)
  /\ Disjoint'

LEMMA QueuedQuietly ==
  ASSUME ChainsTypeOK, NEW id \in AlertId, NEW r \in AlertRequest, r.entry = Nothing,
         r.op # "trigger", QueueAlertSync(id, <<r>>)
  PROVE  \A x \in AlertId : Queues(x)
BY QueuedTyped DEF Queues

LEMMA BirthQuiet ==
  ASSUME TypeInv, Disjoint, NEW id \in AlertId, Free(id), NEW a \in Alert,
         active' = Put(active, id, a), UNCHANGED <<triggered, expired>>,
         NEW r \in AlertRequest, r.entry = Nothing, r.op # "trigger", QueueAlertSync(id, <<r>>),
         UNCHANGED <<notices, waiting, flying, orphan, tick, candidates, disposed, signedIn>>,
         disturbed' = disturbed
  PROVE  Quiet
<1>1. \A x \in AlertId : Queues(x)
  BY QueuedQuietly DEF TypeInv
<1>2. /\ DOMAIN active' = DOMAIN active \union {id} /\ id \notin Lists
      /\ \A x \in DOMAIN active : x # id /\ active'[x] = active[x]
  BY DEF Put, Free, Lists
<1>3. Disjoint'
  BY <1>2 DEF Disjoint, Lists
<1>4. \A x \in Lists' : Free(x) \/ Kept(x)
 <2>1. SUFFICES ASSUME NEW x \in Lists', x # id
                PROVE  Kept(x)
   OBVIOUS
 <2>2. x \in Lists /\ (x \in DOMAIN active' => x \in DOMAIN active /\ active'[x] = active[x])
   BY <1>2, <2>1 DEF Lists
 <2>3. Find(x)' = Find(x)
   BY <1>2, <2>1 DEF Find
 <2> QED BY <2>2, <2>3 DEF Kept
<1> QED BY <1>1, <1>3, <1>4 DEF Quiet

LEMMA CreateQuiet ==
  ASSUME TypeInv, BackendInv, Disjoint, NEW id \in AlertId, NEW k \in Kind, CreateAlert(id, k)
  PROVE  Quiet /\ BackendInv'
<1> DEFINE a == NewAlert(k)
           r == Request("create", a)
<1>1. a \in Alert /\ r \in AlertRequest /\ r.entry = Nothing /\ r.op = "create"
  BY NewAlertTyped, RequestTyped DEF Op
<1>2. /\ Free(id) /\ active' = Put(active, id, a) /\ QueueAlertSync(id, <<r>>)
      /\ UNCHANGED <<triggered, expired, notices, waiting, flying, orphan, tick, candidates,
                     disposed, signedIn, disturbed, rows, events, cleared>>
  BY DEF CreateAlert, engineVars, marketVars, historyVars, backendVars
<1> HIDE DEF a, r
<1>3. Quiet
  BY <1>1, <1>2, BirthQuiet
<1>4. Lists' \subseteq Lists \union {id}
  BY <1>2 DEF Lists, Put
<1> QED BY <1>1, <1>2, <1>3, <1>4, BirthKeepsBackend

LEMMA DuplicateQuiet ==
  ASSUME TypeInv, BackendInv, Disjoint, NEW id \in AlertId, NEW copy \in AlertId,
         DuplicateAlert(id, copy)
  PROVE  Quiet /\ BackendInv'
<1>1. PICK a \in Alert : /\ active' = Put(active, copy, a)
                         /\ QueueAlertSync(copy, <<Request("create", a)>>)
  BY DuplicateTyped
<1> DEFINE r == Request("create", a)
<1>2. r \in AlertRequest /\ r.entry = Nothing /\ r.op = "create" /\ QueueAlertSync(copy, <<r>>)
  BY <1>1, RequestTyped DEF Op
<1>3. /\ Free(copy)
      /\ UNCHANGED <<triggered, expired, notices, waiting, flying, orphan, tick, candidates,
                     disposed, signedIn, disturbed, rows, events, cleared>>
  BY DEF DuplicateAlert, engineVars, marketVars, historyVars, backendVars
<1> HIDE DEF r
<1>4. Quiet
  BY <1>1, <1>2, <1>3, BirthQuiet
<1>5. Lists' \subseteq Lists \union {copy}
  BY <1>1, <1>3 DEF Lists, Put
<1> QED BY <1>1, <1>2, <1>3, <1>4, <1>5, BirthKeepsBackend

(* What a user's change of one alert sends, without and with a session.     *)
LEMMA QueuedGrows ==
  ASSUME TypeInv, NEW id \in AlertId, NEW r \in AlertRequest, r.entry = Nothing,
         r.op \notin {"create", "local", "trigger"}, QueueAlertSync(id, <<r>>)
  PROVE  \A x \in AlertId : Queues(x) /\ Grows(x)
BY QueuedTyped DEF Queues, Grows, TypeInv

LEMMA RaisedQuiet ==
  ASSUME TypeInv, Disjoint, NEW id \in Lists, NEW a \in Alert, a.rev = Find(id).rev + 1,
         active' = Put(active, id, a), triggered' = Drop(triggered, {id}),
         expired' = Drop(expired, {id})
  PROVE  /\ Disjoint' /\ Lists' = Lists
         /\ \A x \in Lists' : Raised(x) \/ Kept(x)
<1>1. /\ DOMAIN active' = DOMAIN active \union {id} /\ active'[id] = a
      /\ \A x \in DOMAIN active : x # id => active'[x] = active[x]
      /\ DOMAIN triggered' = DOMAIN triggered \ {id} /\ DOMAIN expired' = DOMAIN expired \ {id}
      /\ \A x \in DOMAIN triggered' : triggered'[x] = triggered[x]
      /\ \A x \in DOMAIN expired' : expired'[x] = expired[x]
  BY DEF Put, Drop
<1>2. Disjoint'
  BY <1>1 DEF Disjoint
<1>3. Lists' = Lists
  BY <1>1 DEF Lists
<1>4. Raised(id)
 <2>1. Find(id)' = a /\ Find(id).rev \in Nat
   BY <1>1, Listed DEF Find, TypeInv, Alert
 <2> QED BY <2>1 DEF Raised
<1>5. ASSUME NEW x \in Lists', x # id
      PROVE  Kept(x)
 <2>1. x \in Lists /\ (x \in DOMAIN active' => x \in DOMAIN active /\ active'[x] = active[x])
   BY <1>1, <1>3, <1>5
 <2>2. Find(x)' = Find(x)
   BY <1>1, <1>5 DEF Find, Lists
 <2> QED BY <2>1, <2>2 DEF Kept
<1> QED BY <1>2, <1>3, <1>4, <1>5

LEMMA ResetQuiet ==
  ASSUME TypeInv, BackendInv, Disjoint, NEW id \in AlertId, ResetAlert(id)
  PROVE  Quiet /\ BackendInv'
<1> DEFINE a == Rearmed(Find(id))
           r == Request("arm", a)
<1>1. id \in Lists /\ a \in Alert /\ a.rev = Find(id).rev + 1
  BY Listed, RearmedTyped DEF ResetAlert, Lists, TypeInv
<1>2. r \in AlertRequest /\ r.entry = Nothing /\ r.op = "arm"
  BY <1>1, RequestTyped DEF Op
<1>3. /\ active' = Put(active, id, a) /\ triggered' = Drop(triggered, {id})
      /\ expired' = Drop(expired, {id}) /\ QueueAlertSync(id, <<r>>)
      /\ UNCHANGED <<notices, waiting, flying, orphan, tick, candidates,
                     disposed, signedIn, disturbed, rows, events, cleared>>
  BY DEF ResetAlert, engineVars, marketVars, historyVars, backendVars
<1> HIDE DEF a, r
<1>4. \A x \in AlertId : Queues(x) /\ Grows(x)
  BY <1>2, <1>3, QueuedGrows
<1>5. Disjoint' /\ Lists' = Lists /\ \A x \in Lists' : Raised(x) \/ Kept(x)
  BY <1>1, <1>3, RaisedQuiet
<1>6. Quiet
  BY <1>3, <1>4, <1>5 DEF Quiet
<1> QED BY <1>3, <1>4, <1>5, <1>6, GrowsKeepsBackend

LEMMA UpdateQuiet ==
  ASSUME TypeInv, BackendInv, Disjoint, NEW id \in Lists, NEW patch \in Patches(Find(id)),
         UpdateAlert(id, patch)
  PROVE  Quiet /\ BackendInv'
<1> DEFINE old == Find(id)
           rearm == HasAlertArmingChange(old, patch)
           a == IF rearm THEN Rearmed(patch) ELSE patch
           op == IF rearm THEN "arm" ELSE "patch"
           r == Request(op, a)
<1>1. id \in AlertId /\ old \in Alert
  BY Listed DEF TypeInv, Lists
<1>2. /\ a \in Alert
      /\ rearm => a.rev = old.rev + 1
      /\ ~ rearm => a.rev = old.rev /\ a.firedAt = old.firedAt /\ a.recurring = old.recurring
  BY <1>1, PatchTyped
<1>3. r \in AlertRequest /\ r.entry = Nothing /\ r.op \in {"arm", "patch"}
  BY <1>2, RequestTyped DEF Op
<1>4. /\ rearm => /\ active' = Put(active, id, a)
                  /\ triggered' = Drop(triggered, {id})
                  /\ expired' = Drop(expired, {id})
      /\ ~ rearm => /\ active' = Everywhere(active, id, a)
                    /\ triggered' = Everywhere(triggered, id, a)
                    /\ expired' = Everywhere(expired, id, a)
      /\ QueueAlertSync(id, <<r>>)
      /\ disturbed \subseteq disturbed'
      /\ (a.enabled /\ ~ old.enabled) => <<id, tick>> \in disturbed'
      /\ UNCHANGED <<notices, waiting, flying, orphan, tick, candidates,
                     disposed, signedIn, rows, events, cleared>>
  BY DEF UpdateAlert, engineVars, marketVars, backendVars
<1> HIDE DEF a, r, rearm
<1>5. \A x \in AlertId : Queues(x) /\ Grows(x)
  BY <1>1, <1>3, <1>4, QueuedGrows
<1>6. Disjoint' /\ Lists' = Lists /\ \A x \in Lists' : Raised(x) \/ Kept(x)
 <2>1. CASE rearm
   BY <1>2, <1>4, <2>1, RaisedQuiet
 <2>2. CASE ~ rearm
  <3>1. /\ DOMAIN active' = DOMAIN active /\ DOMAIN triggered' = DOMAIN triggered
        /\ DOMAIN expired' = DOMAIN expired
        /\ \A x \in DOMAIN active : active'[x] = IF x = id THEN a ELSE active[x]
        /\ \A x \in DOMAIN triggered : triggered'[x] = IF x = id THEN a ELSE triggered[x]
        /\ \A x \in DOMAIN expired : expired'[x] = IF x = id THEN a ELSE expired[x]
    BY <1>4, <2>2 DEF Everywhere, Put
  <3>2. Disjoint' /\ Lists' = Lists
    BY <3>1 DEF Disjoint, Lists
  <3>3. ASSUME NEW x \in Lists
        PROVE  Kept(x)
   <4>1. CASE x # id
    <5>1. Find(x)' = Find(x)
      BY <3>1, <4>1 DEF Find, Lists
    <5>2. x \in DOMAIN active' => x \in DOMAIN active /\ active'[x] = active[x]
      BY <3>1, <4>1
    <5> QED BY <5>1, <5>2 DEF Kept
   <4>2. CASE x = id
    <5>1. Find(id)' = a
      BY <3>1 DEF Find, Lists
    <5>2. id \in DOMAIN active' => /\ id \in DOMAIN active /\ active'[id] = a
                                   /\ active[id] = old
      BY <3>1 DEF Find
    <5>3. (a.enabled /\ ~ old.enabled) => <<id, tick>> \in disturbed'
      BY <1>4
    <5>4. id \in DOMAIN active' =>
             (active'[id].enabled => active[id].enabled \/ <<id, tick>> \in disturbed')
      BY <5>2, <5>3
    <5> HIDE DEF old
    <5>5. Find(id)'.rev = old.rev
      BY <1>2, <2>2, <5>1
    <5>6. Find(id).rev = old.rev
      BY DEF old
    <5> QED BY <1>2, <2>2, <3>2, <4>2, <5>2, <5>4, <5>5, <5>6 DEF Kept
   <4> QED BY <4>1, <4>2
  <3> QED BY <3>2, <3>3
 <2> QED BY <2>1, <2>2
<1>7. Quiet
  BY <1>4, <1>5, <1>6 DEF Quiet
<1> QED BY <1>4, <1>5, <1>6, <1>7, GrowsKeepsBackend

LEMMA RemoveQuiet ==
  ASSUME TypeInv, BackendInv, Disjoint, NEW ids \in SUBSET Lists, Remove(ids)
  PROVE  Quiet /\ BackendInv'
<1>1. /\ active' = Drop(active, ids) /\ triggered' = Drop(triggered, ids)
      /\ expired' = Drop(expired, ids)
      /\ UNCHANGED <<notices, waiting, flying, orphan, tick, candidates,
                     disposed, signedIn, disturbed, rows, events, cleared>>
  BY DEF Remove, engineVars, marketVars, historyVars, backendVars
<1>2. ASSUME NEW x \in AlertId
      PROVE  Queues(x) /\ Grows(x)
 <2>1. CASE signedIn /\ x \in ids
  <3>1. /\ Request("delete", Find(x)) \in AlertRequest
        /\ chain'[x] = Append(chain[x], Request("delete", Find(x)))
    BY <2>1, RemoveTyped
  <3>2. Request("delete", Find(x)).entry = Nothing /\ Request("delete", Find(x)).op = "delete"
    BY DEF Request
  <3> QED BY <2>1, <3>1, <3>2 DEF Queues, Grows
 <2>2. CASE ~ (signedIn /\ x \in ids)
   BY <2>2, RemoveTyped DEF Queues, Grows
 <2> QED BY <2>1, <2>2
<1>3. /\ DOMAIN active' = DOMAIN active \ ids /\ DOMAIN triggered' = DOMAIN triggered \ ids
      /\ DOMAIN expired' = DOMAIN expired \ ids
      /\ \A x \in DOMAIN active' : active'[x] = active[x]
      /\ \A x \in DOMAIN triggered' : triggered'[x] = triggered[x]
      /\ \A x \in DOMAIN expired' : expired'[x] = expired[x]
  BY <1>1 DEF Drop
<1>4. Disjoint' /\ Lists' \subseteq Lists
  BY <1>3 DEF Disjoint, Lists
<1>5. ASSUME NEW x \in Lists'
      PROVE  Kept(x)
 <2>1. Find(x)' = Find(x)
   BY <1>3, <1>5 DEF Find, Lists
 <2> QED BY <1>3, <1>4, <2>1 DEF Kept
<1>6. Quiet
  BY <1>1, <1>2, <1>4, <1>5 DEF Quiet
<1> QED BY <1>1, <1>2, <1>4, <1>6, GrowsKeepsBackend

(* Nothing moves in the lists.                                              *)
LEMMA StillQuiet ==
  ASSUME Disjoint, UNCHANGED <<active, triggered, expired>>,
         UNCHANGED <<notices, waiting, flying, orphan, tick, candidates, disposed, signedIn,
                     disturbed>>,
         \A x \in AlertId : Queues(x)
  PROVE  Quiet /\ Lists' = Lists
<1>1. Disjoint' /\ Lists' = Lists
  BY DEF Disjoint, Lists
<1>2. \A x \in Lists : Kept(x)
  BY DEF Kept, Find
<1> QED BY <1>1, <1>2 DEF Quiet

LEMMA ReconcileQuiet ==
  ASSUME TypeInv, BackendInv, Disjoint, NEW id \in AlertId, Reconcile(id)
  PROVE  Quiet /\ BackendInv' /\ UNCHANGED <<active, triggered, expired>>
<1>1. UNCHANGED <<active, triggered, expired, notices, waiting, flying, orphan, tick, candidates,
                  disposed, signedIn, disturbed, rows, events, cleared>>
  BY DEF Reconcile, listVars, engineVars, marketVars, historyVars, backendVars
<1>2. \A x \in AlertId : Queues(x) /\ Grows(x)
  BY ReconcileTyped DEF Queues, Grows, Reconciles
<1>3. Quiet /\ Lists' = Lists
  BY <1>1, <1>2, StillQuiet
<1> QED BY <1>1, <1>2, <1>3, GrowsKeepsBackend

LEMMA ClearsQuiet ==
  ASSUME TypeInv, BackendInv, Disjoint, ClearHistory \/ ClearRemoteHistory
  PROVE  Quiet /\ BackendInv' /\ UNCHANGED <<active, triggered, expired>>
<1>1. UNCHANGED <<active, triggered, expired, notices, waiting, flying, orphan, tick, candidates,
                  disposed, signedIn, disturbed, rows, events, chain>>
  BY ClearsTyped DEF engineVars, marketVars, historyVars
<1>2. \A x \in AlertId : Queues(x) /\ Grows(x)
  BY <1>1 DEF Queues, Grows
<1>3. Quiet /\ Lists' = Lists
  BY <1>1, <1>2, StillQuiet
<1> QED BY <1>1, <1>2, <1>3, GrowsKeepsBackend, ClearsTyped

LEMMA WorkerQuiet ==
  ASSUME TypeInv, BackendInv, Disjoint, NEW id \in AlertId, NEW before \in Price \union {Nothing},
         WorkerTrigger(id, before)
  PROVE  Quiet /\ BackendInv' /\ UNCHANGED <<active, triggered, expired, chain>>
<1>1. UNCHANGED <<active, triggered, expired, notices, waiting, flying, orphan, tick, candidates,
                  disposed, signedIn, disturbed, chain>>
  BY DEF WorkerTrigger, listVars, engineVars, syncVars, marketVars, historyVars
<1>2. \A x \in AlertId : Queues(x)
  BY <1>1 DEF Queues
<1>3. Quiet /\ Lists' = Lists
  BY <1>1, <1>2, StillQuiet
<1> QED BY <1>1, <1>3, WorkerKeepsBackend

LEMMA InChain ==
  ASSUME TypeInv, NEW id \in AlertId
  PROVE  /\ \A i \in DOMAIN chain[id] :
              /\ chain[id][i] \in AlertRequest /\ chain[id][i].alert \in Alert
              /\ chain[id][i].alert.rev \in Nat /\ chain[id][i].at \in Nat
              /\ i \in Nat \ {0} /\ chain[id] # <<>>
         /\ \A i \in DOMAIN orphan[id] :
              /\ orphan[id][i] \in AlertRequest /\ orphan[id][i].alert \in Alert
              /\ orphan[id][i].alert.rev \in Nat /\ orphan[id][i].at \in Nat
              /\ i \in Nat \ {0} /\ orphan[id] # <<>>
<1>1. chain[id] \in Seq(AlertRequest) /\ orphan[id] \in Seq(AlertRequest)
  BY DEF TypeInv, ChainsTypeOK
<1>2. ASSUME NEW s \in Seq(AlertRequest), NEW i \in DOMAIN s
      PROVE  s[i] \in AlertRequest /\ i \in Nat \ {0} /\ s # <<>>
  OBVIOUS
<1>3. \A q \in AlertRequest : q.alert \in Alert /\ q.alert.rev \in Nat /\ q.at \in Nat
  BY DEF AlertRequest, AnyRequest, Alert
<1> QED BY <1>1, <1>2, <1>3

(* A request a quiet step adds is not live.                                 *)
LEMMA QuietChain ==
  ASSUME TypeInv, Quiet, NEW id \in AlertId, NEW i \in DOMAIN chain'[id]
  PROVE  \/ i \in DOMAIN chain[id] /\ chain'[id][i] = chain[id][i]
         \/ /\ signedIn /\ i = Len(chain[id]) + 1 /\ chain'[id][i].entry = Nothing
            /\ chain'[id] = Append(chain[id], chain'[id][i]) /\ chain'[id][i] \in AlertRequest
<1>1. chain[id] \in Seq(AlertRequest)
  BY DEF TypeInv, ChainsTypeOK
<1>2. CASE chain'[id] = chain[id]
  BY <1>2
<1>3. CASE chain'[id] # chain[id]
 <2>1. PICK r \in AlertRequest :
         signedIn /\ r.entry = Nothing /\ chain'[id] = Append(chain[id], r)
   BY <1>3 DEF Quiet, Queues
 <2> QED BY <1>1, <2>1, Appended
<1> QED BY <1>2, <1>3

LEMMA QuietKeepsFlight ==
  ASSUME TypeInv, FlightInv, Quiet
  PROVE  FlightInv'
<1>1. \A q : Live(q)' = Live(q) /\ (q.entry = Nothing => ~ Live(q))
  BY DEF Live, Quiet
<1>2. ASSUME NEW id \in AlertId, NEW n \in Nat, AtMostRev(id, n), ~ Free(id)
      PROVE  AtMostRev(id, n)'
 <2>1. CASE id \in Lists'
  <3>1. id \in Lists /\ Find(id)'.rev >= Find(id).rev /\ Find(id).rev \in Nat
        /\ Find(id)'.rev \in Nat
   <4>1. Find(id).rev \in Nat \/ id \notin Lists
     BY Listed DEF TypeInv, Alert
   <4>2. Raised(id) \/ Kept(id)
     BY <1>2, <2>1 DEF Quiet
   <4> QED BY <4>1, <4>2 DEF Raised, Kept
  <3> QED BY <1>2, <3>1 DEF AtMostRev
 <2>2. CASE id \notin Lists'
   BY <2>2 DEF AtMostRev
 <2> QED BY <2>1, <2>2
<1>3. \A i \in DOMAIN notices : notices[i] \in AlertEvent /\ ~ Free(notices[i].id)
  BY DEF TypeInv, BackendTypeOK, Free
<1>4. RevisionsGrow'
 <2>1. ASSUME NEW i \in DOMAIN notices', notices'[i].local => ~ signedIn'
       PROVE  AtMostRev(notices[i].id, notices[i].rev)'
  <3>0. notices' = notices
    BY DEF Quiet
  <3>1. AtMostRev(notices[i].id, notices[i].rev)
    BY <2>1 DEF FlightInv, RevisionsGrow, Quiet
  <3> QED BY <1>2, <1>3, <2>1, <3>0, <3>1 DEF AlertEvent
 <2>2. ASSUME NEW id \in AlertId, NEW i \in DOMAIN chain'[id], Live(chain'[id][i])
       PROVE  AtMostRev(id, chain[id][i].alert.rev)'
  <3>1. i \in DOMAIN chain[id] /\ chain'[id][i] = chain[id][i]
    BY <1>1, <2>2, QuietChain
  <3>2. ~ Free(id) /\ chain[id][i].alert.rev \in Nat
    BY <3>1, InChain DEF Free
  <3>3. AtMostRev(id, chain[id][i].alert.rev)
    BY <1>1, <2>2, <3>1 DEF FlightInv, RevisionsGrow
  <3>4. \A k \in Nat : AtMostRev(id, k) => AtMostRev(id, k)'
    BY <1>2, <3>2
  <3>5. \A k \in Nat : AtMostRev(id, k) => (id \in Lists' => k <= Find(id)'.rev)
    BY <3>4 DEF AtMostRev
  <3>6. id \in Lists' => chain[id][i].alert.rev <= Find(id)'.rev
    BY <3>2, <3>3, <3>5
  <3> QED BY <3>1, <3>6 DEF AtMostRev
 <2> QED BY <1>1, <2>1, <2>2 DEF RevisionsGrow, Quiet
<1>5. OneLive'
  BY <1>1, QuietChain DEF FlightInv, OneLive, Quiet
<1>6. InTime'
  BY QuietChain DEF FlightInv, InTime, Quiet
<1> QED BY <1>4, <1>5, <1>6 DEF FlightInv, Quiet

(* What a quiet step makes of an active alert that was notified of.         *)
LEMMA QuietActive ==
  ASSUME TypeInv, FlightInv, Quiet, NEW i \in DOMAIN notices, NEW id \in DOMAIN active',
         notices[i].local => ~ signedIn,
         notices[i].id = id, notices[i].rev = active'[id].rev
  PROVE  /\ id \in DOMAIN active /\ active[id].rev = notices[i].rev
         /\ active'[id].recurring = active[id].recurring
         /\ active'[id].firedAt = active[id].firedAt
         /\ active'[id].enabled => active[id].enabled \/ <<id, tick>> \in disturbed'
<1>1. id \in Lists' /\ ~ Free(id) /\ Find(id)' = active'[id]
  BY DEF Lists, Free, Find
<1>2. notices[i].rev \in Nat
 <2>1. notices[i] \in AlertEvent
   BY DEF TypeInv, BackendTypeOK
 <2> QED BY <2>1 DEF AlertEvent
<1>3. ~ Raised(id)
 <2>1. SUFFICES ASSUME Raised(id)
                PROVE  FALSE
   OBVIOUS
 <2>2. id \in Lists /\ Find(id).rev \in Nat
   BY <2>1, Listed DEF Raised, TypeInv, Alert
 <2>3. notices[i].rev <= Find(id).rev
   BY <2>2 DEF FlightInv, RevisionsGrow, AtMostRev
 <2>4. notices[i].rev = Find(id).rev + 1
   BY <1>1, <2>1 DEF Raised
 <2> QED BY <1>2, <2>2, <2>3, <2>4
<1>4. Kept(id)
  BY <1>1, <1>3 DEF Quiet
<1> QED BY <1>4 DEF Kept

LEMMA QuietKeepsLocal ==
  ASSUME TypeInv, BackendInv, FlightInv, LocalInv, Quiet,
         Idle \/ UNCHANGED <<active, triggered, expired>>
  PROVE  LocalInv'
<1>1. ~ signedIn => \A id \in AlertId : chain'[id] = chain[id]
  BY DEF Quiet, Queues
<1>2. LocalFlights'
 <2>1. SUFFICES ASSUME ~ signedIn, NEW id \in AlertId
                PROVE  IF id \in Lists' THEN Settled(id)' \/ Settling(id)'
                       ELSE chain'[id] = <<>>
   BY DEF LocalFlights, Quiet
 <2>2. IF id \in Lists THEN Settled(id) \/ Settling(id) ELSE chain[id] = <<>>
   BY <2>1 DEF LocalInv, LocalFlights
 <2>3. Settled(id) => Settled(id)'
   BY <1>1, <2>1 DEF Settled, Quiet
 <2>4. CASE Idle
  <3>1. chain[id] = <<>>
    BY <2>1, <2>4, IdleUnsigned DEF BackendInv
  <3>2. ~ Settling(id)
    BY <3>1 DEF Settling
  <3>3. Free(id) => Settled(id)
    BY DEF Free, Settled
  <3>4. id \in Lists' => Free(id) \/ id \in Lists
    BY DEF Quiet, Raised, Kept
  <3> QED BY <1>1, <2>1, <2>2, <2>3, <3>1, <3>2, <3>3, <3>4
 <2>5. CASE UNCHANGED <<active, triggered, expired>>
  <3>1. Lists' = Lists
    BY <2>5 DEF Lists
  <3>2. Settling(id) => Settling(id)'
    BY <1>1, <2>1, <2>5 DEF Settling, Live, RearmBlocked, Quiet
  <3> QED BY <1>1, <2>1, <2>2, <2>3, <3>1, <3>2
 <2> QED BY <2>4, <2>5
<1>3. LocalNotices'
 <2>1. SUFFICES ASSUME ~ signedIn, NEW i \in DOMAIN notices, notices[i].local,
                       notices[i].id \in DOMAIN active',
                       active'[notices[i].id].rev = notices[i].rev
                PROVE  LET m == notices[i] IN
                       m.recurring /\ active'[m.id].recurring /\ m.at <= active'[m.id].firedAt
   BY DEF LocalNotices, Quiet
 <2> DEFINE id == notices[i].id
 <2>2. /\ id \in DOMAIN active /\ active[id].rev = notices[i].rev
       /\ active'[id].recurring = active[id].recurring
       /\ active'[id].firedAt = active[id].firedAt
   BY <2>1, QuietActive
 <2>3. notices[i].recurring /\ active[id].recurring /\ notices[i].at <= active[id].firedAt
   BY <2>1, <2>2 DEF LocalInv, LocalNotices
 <2> QED BY <2>2, <2>3
<1>4. LocalPairs'
  BY DEF LocalInv, LocalPairs, Quiet
<1> QED BY <1>2, <1>3, <1>4 DEF LocalInv

(* Time passes and the history of disturbances grows.                       *)
LEMMA StaysDisturbed ==
  ASSUME NEW id, NEW from \in Nat, NEW to \in Nat, NEW after \in Nat, to <= after,
         disturbed \subseteq disturbed', Disturbed(id, from, to)
  PROVE  Disturbed(id, from, after) /\ Disturbed(id, from, after)'
<1>1. PICK t \in from..to : <<id, t>> \in disturbed
  BY DEF Disturbed
<1>2. t \in from..after
  BY <1>1
<1> QED BY <1>1, <1>2 DEF Disturbed

LEMMA QuietKeepsGap ==
  ASSUME TypeInv, FlightInv, GapInv, Quiet
  PROVE  GapInv'
<1>1. /\ notices' = notices /\ waiting' = waiting /\ orphan' = orphan /\ tick' = tick
      /\ disturbed \subseteq disturbed'
  BY DEF Quiet
<1>2. \A i \in DOMAIN notices : notices[i].at \in Nat /\ notices[i].at <= tick /\ tick \in Nat
  BY DEF FlightInv, InTime, TypeInv, MarketTypeOK
<1>3. \A q : Live(q)' = Live(q) /\ (q.entry = Nothing => ~ Live(q))
  BY DEF Live, Quiet
<1>4. NextApart'
 <2>1. SUFFICES ASSUME NEW i \in DOMAIN notices, NEW id \in DOMAIN active',
                       Of(notices[i], id, active'[id].rev), active'[id].enabled
                PROVE  Behindhand(notices[i], id)'
   BY <1>1 DEF NextApart
 <2>2. /\ id \in DOMAIN active /\ active[id].rev = notices[i].rev
       /\ active'[id].recurring = active[id].recurring
       /\ active'[id].firedAt = active[id].firedAt
       /\ active'[id].enabled => active[id].enabled \/ <<id, tick>> \in disturbed'
   BY <2>1, QuietActive DEF Of
 <2>3. CASE active[id].enabled
  <3>1. Behindhand(notices[i], id)
    BY <2>1, <2>2, <2>3 DEF GapInv, NextApart, Of
  <3>2. Disturbed(id, notices[i].at, tick) => Disturbed(id, notices[i].at, tick)'
    BY <1>1, <1>2, StaysDisturbed
  <3> QED BY <1>1, <2>2, <3>1, <3>2 DEF Behindhand
 <2>4. CASE <<id, tick>> \in disturbed'
  <3>1. tick \in notices[i].at..tick
    BY <1>2
  <3> QED BY <1>1, <2>4, <3>1 DEF Behindhand, Disturbed
 <2> QED BY <2>1, <2>2, <2>3, <2>4
<1>5. WaitingApart'
 <2>1. \A id \in DOMAIN waiting : waiting[id].at \in Nat
   BY DEF FlightInv, InTime
 <2>2. \A i \in DOMAIN notices, id \in DOMAIN waiting :
          Apart(notices[i], id, waiting[id].at) => Apart(notices[i], id, waiting[id].at)'
   BY <1>1, <1>2, <2>1 DEF Apart, Disturbed
 <2> QED BY <1>1, <2>2 DEF GapInv, WaitingApart, Of
<1>6. FlyingApart'
 <2>1. ASSUME NEW i \in DOMAIN notices, NEW id \in AlertId, NEW at, Apart(notices[i], id, at)
       PROVE  at - notices[i].at >= Rearm
                \/ \E t \in notices[i].at..at : <<id, t>> \in disturbed'
   BY <1>1, <2>1 DEF Apart, Disturbed
 <2>2. SUFFICES ASSUME NEW i \in DOMAIN notices, NEW id \in AlertId
                PROVE  /\ \A k \in DOMAIN chain'[id] :
                            (Live(chain'[id][k]) /\ Of(notices[i], id, chain'[id][k].alert.rev)) =>
                              \/ chain'[id][k].at - notices[i].at >= Rearm
                              \/ \E t \in notices[i].at..chain'[id][k].at :
                                    <<id, t>> \in disturbed'
                       /\ \A k \in DOMAIN orphan[id] :
                            (Live(orphan[id][k]) /\ Of(notices[i], id, orphan[id][k].alert.rev)) =>
                              \/ orphan[id][k].at - notices[i].at >= Rearm
                              \/ \E t \in notices[i].at..orphan[id][k].at :
                                    <<id, t>> \in disturbed'
   BY <1>1, <1>3 DEF FlyingApart, Apart, Disturbed, Of
 <2>3. ASSUME NEW k \in DOMAIN chain'[id], Live(chain'[id][k]),
              Of(notices[i], id, chain'[id][k].alert.rev)
       PROVE  \/ chain'[id][k].at - notices[i].at >= Rearm
              \/ \E t \in notices[i].at..chain'[id][k].at : <<id, t>> \in disturbed'
  <3>1. k \in DOMAIN chain[id] /\ chain'[id][k] = chain[id][k]
    BY <1>3, <2>3, QuietChain
  <3>2. Apart(notices[i], id, chain[id][k].at)
    BY <2>3, <3>1 DEF GapInv, FlyingApart
  <3> QED BY <2>1, <3>1, <3>2
 <2>4. ASSUME NEW k \in DOMAIN orphan[id], Live(orphan[id][k]),
              Of(notices[i], id, orphan[id][k].alert.rev)
       PROVE  \/ orphan[id][k].at - notices[i].at >= Rearm
              \/ \E t \in notices[i].at..orphan[id][k].at : <<id, t>> \in disturbed'
  <3>1. Apart(notices[i], id, orphan[id][k].at)
    BY <2>4 DEF GapInv, FlyingApart
  <3> QED BY <2>1, <3>1
 <2> QED BY <2>3, <2>4
<1>7. PairsApart'
  BY <1>1 DEF GapInv, PairsApart, Apart, Disturbed, SameArming
<1> QED BY <1>4, <1>5, <1>6, <1>7 DEF GapInv

-----------------------------------------------------------------------------
(* The engine's passes: an observation of the market, or the first one of   *)
(* an engine that starts again with nothing waiting and nothing in flight.  *)

Passes(now, p, dead, held, inAir, new) ==
  /\ Evaluated(now, p, dead, held, inAir, new)
  /\ \/ held = waiting /\ inAir = flying /\ disposed' = disposed /\ now = tick + 1
     \/ held = None /\ inAir = {} /\ disposed' = candidates /\ now = tick
  /\ tick' = now /\ now \in Nat \ {0}
  /\ Idle
  /\ UNCHANGED <<triggered, orphan, rows, events, cleared, notices, disturbed, signedIn>>

LEMMA TickPasses ==
  ASSUME TypeInv, NEW p \in Price, NEW dead, Tick(p, dead)
  PROVE  TypeInv' /\ \E new : Passes(tick + 1, p, dead, waiting, flying, new)
<1>1. PICK new : Evaluated(tick + 1, p, dead, waiting, flying, new)
  BY TickTyped
<1>2. TypeInv' /\ tick' = tick + 1
      /\ UNCHANGED <<triggered, orphan, backendVars, signedIn, historyVars, disposed>>
  BY TickTyped
<1>3. tick + 1 \in Nat \ {0} /\ Idle
  BY DEF Tick, TypeInv, MarketTypeOK
<1>4. Passes(tick + 1, p, dead, waiting, flying, new)
  BY <1>1, <1>2, <1>3 DEF Passes, backendVars, historyVars
<1> QED BY <1>2, <1>4

LEMMA EngineRestartsPasses ==
  ASSUME TypeInv, EngineRestarts
  PROVE  TypeInv' /\ \E p, new : Passes(tick, p, {}, None, {}, new)
<1>1. PICK new : Evaluated(tick, price, {}, None, {}, new)
  BY EngineRestartsTyped
<1>2. /\ TypeInv' /\ disposed' = candidates
      /\ UNCHANGED <<triggered, orphan, backendVars, signedIn, historyVars, tick, price>>
  BY EngineRestartsTyped
<1>3. tick \in Nat \ {0} /\ Idle
  BY DEF EngineRestarts, Mutation, TypeInv, MarketTypeOK
<1>4. Passes(tick, price, {}, None, {}, new)
  BY <1>1, <1>2, <1>3 DEF Passes, backendVars, historyVars
<1> QED BY <1>2, <1>4

LEMMA AppendedAt ==
  ASSUME NEW S, NEW s \in Seq(S), NEW x \in S, NEW t, t = Append(s, x), NEW i \in DOMAIN t
  PROVE  \/ i \in DOMAIN s /\ t[i] = s[i]
         \/ i = Len(s) + 1 /\ t[i] = x
OBVIOUS

LEMMA PassChain ==
  ASSUME TypeInv, TypeInv', NEW now, NEW p, NEW dead, NEW held, NEW inAir, NEW new,
         Passes(now, p, dead, held, inAir, new), NEW id \in AlertId, NEW i \in DOMAIN chain'[id]
  PROVE  \/ i \in DOMAIN chain[id] /\ chain'[id][i] = chain[id][i]
         \/ /\ i = Len(chain[id]) + 1 /\ chain'[id][i] \in AlertRequest
            /\ chain'[id] = Append(chain[id], chain'[id][i])
            /\ id \in new \ inAir
            /\ chain'[id][i].op = (IF signedIn THEN "trigger" ELSE "local")
            /\ chain'[id][i].alert = active[id]
            /\ chain'[id][i].entry = candidates + 1 /\ chain'[id][i].at = now
            /\ candidates' = candidates + 1
         \/ /\ i = Len(chain[id]) + 1 /\ chain'[id][i] \in AlertRequest
            /\ chain'[id] = Append(chain[id], chain'[id][i])
            /\ chain'[id][i].entry = Nothing /\ chain'[id][i].op = "expire" /\ signedIn
<1>1. chain[id] \in Seq(AlertRequest) /\ chain'[id] \in Seq(AlertRequest)
  BY DEF TypeInv, ChainsTypeOK
<1>2. chain'[id][i] \in AlertRequest
  BY <1>1
<1>3. Sends(id, dead, new \ inAir)
  BY DEF Passes, Evaluated
<1>4. CASE id \in new \ inAir
 <2> DEFINE r == TriggerRequest(active[id], waiting'[id])
 <2>1. /\ waiting'[id] = Candidate(id, now, p) /\ id \in DOMAIN waiting' /\ id \in DOMAIN active
       /\ candidates' = candidates + 1
   BY <1>4 DEF Passes, Evaluated
 <2>2. waiting'[id] \in Crossing
   BY <2>1, PartialIs DEF TypeInv, EngineTypeOK
 <2>3. waiting'[id].n = candidates + 1 /\ waiting'[id].at = now
   BY <2>1 DEF Candidate
 <2>4. active[id] \in Alert /\ MarketTypeOK
   BY <2>1, Listed DEF TypeInv
 <2>5. /\ r \in AlertRequest /\ r.op = (IF signedIn THEN "trigger" ELSE "local")
       /\ r.alert = active[id] /\ r.entry = candidates + 1 /\ r.at = now
   BY <2>2, <2>3, <2>4, TriggerRequestTyped
 <2>6. chain'[id] = Append(chain[id], r)
   BY <1>3, <1>4 DEF Sends
 <2> HIDE DEF r
 <2>7. \/ i \in DOMAIN chain[id] /\ chain'[id][i] = chain[id][i]
       \/ i = Len(chain[id]) + 1 /\ chain'[id][i] = r
   BY <1>1, <2>5, <2>6, AppendedAt
 <2> QED BY <1>2, <1>4, <2>1, <2>5, <2>6, <2>7
<1>5. CASE id \notin new \ inAir /\ id \in dead /\ signedIn
 <2> DEFINE r == Request("expire", active[id])
 <2>1. chain'[id] = Append(chain[id], r)
   BY <1>3, <1>5 DEF Sends
 <2>2. r \in AlertRequest /\ r.entry = Nothing /\ r.op = "expire"
   BY <1>5, Listed, RequestTyped DEF Passes, Evaluated, TypeInv, Op
 <2> HIDE DEF r
 <2>3. \/ i \in DOMAIN chain[id] /\ chain'[id][i] = chain[id][i]
       \/ i = Len(chain[id]) + 1 /\ chain'[id][i] = r
   BY <1>1, <2>1, <2>2, AppendedAt
 <2> QED BY <1>5, <2>1, <2>2, <2>3
<1>6. CASE id \notin new \ inAir /\ ~ (id \in dead /\ signedIn)
  BY <1>3, <1>6 DEF Sends
<1> QED BY <1>4, <1>5, <1>6

LEMMA PassLists ==
  ASSUME Disjoint, NEW now, NEW p, NEW dead, NEW held, NEW inAir, NEW new,
         Passes(now, p, dead, held, inAir, new)
  PROVE  /\ Disjoint' /\ Lists' = Lists
         /\ \A id \in Lists : Find(id)' = Find(id)
         /\ DOMAIN active' = DOMAIN active \ dead
         /\ \A id \in DOMAIN active' : active'[id] = active[id]
<1>1. /\ DOMAIN active' = DOMAIN active \ dead /\ dead \subseteq DOMAIN active
      /\ \A id \in DOMAIN active' : active'[id] = active[id]
      /\ DOMAIN expired' = DOMAIN expired \union dead
      /\ \A id \in dead : expired'[id] = active[id]
      /\ \A id \in DOMAIN expired \ dead : expired'[id] = expired[id]
      /\ triggered' = triggered
  BY DEF Passes, Evaluated, Drop
<1>2. Disjoint' /\ Lists' = Lists
  BY <1>1 DEF Disjoint, Lists
<1>3. \A id \in Lists : Find(id)' = Find(id)
  BY <1>1 DEF Disjoint, Lists, Find
<1> QED BY <1>1, <1>2, <1>3

LEMMA PassKeepsBackend ==
  ASSUME TypeInv, TypeInv', BackendInv, Disjoint,
         NEW now, NEW p, NEW dead, NEW held, NEW inAir, NEW new,
         Passes(now, p, dead, held, inAir, new)
  PROVE  BackendInv'
<1>1. ASSUME NEW id \in AlertId
      PROVE  Grows(id)
 <2>1. Sends(id, dead, new \ inAir)
   BY DEF Passes, Evaluated
 <2>2. CASE chain'[id] = chain[id]
   BY <2>2 DEF Grows
 <2>3. CASE chain'[id] # chain[id]
  <3>1. PICK r : chain'[id] = Append(chain[id], r)
    BY <2>1, <2>3 DEF Sends
  <3>2. chain[id] \in Seq(AlertRequest) /\ chain'[id] \in Seq(AlertRequest)
    BY DEF TypeInv, ChainsTypeOK
  <3>3. Len(chain[id]) + 1 \in DOMAIN chain'[id] /\ Len(chain[id]) + 1 \notin DOMAIN chain[id]
    BY <3>1, <3>2
  <3> DEFINE i == Len(chain[id]) + 1
  <3>4. /\ chain'[id] = Append(chain[id], chain'[id][i]) /\ chain'[id][i] \in AlertRequest
        /\ \/ chain'[id][i].op = (IF signedIn THEN "trigger" ELSE "local")
           \/ chain'[id][i].op = "expire" /\ signedIn
    BY <3>3, PassChain
  <3> QED BY <3>4 DEF Grows
 <2> QED BY <2>2, <2>3
<1>2. UNCHANGED <<rows, events, notices, orphan, signedIn, cleared>> /\ Lists' = Lists
  BY PassLists DEF Passes
<1> QED BY <1>1, <1>2, GrowsKeepsBackend

LEMMA PassKeepsFlight ==
  ASSUME TypeInv, TypeInv', FlightInv, NEW now, NEW p, NEW dead, NEW held, NEW inAir, NEW new,
         Passes(now, p, dead, held, inAir, new)
  PROVE  FlightInv'
<1>1. /\ candidates \in Nat /\ disposed \in Nat /\ disposed <= candidates
      /\ tick \in Nat /\ tick' \in Nat
      /\ tick <= tick' /\ disposed' \in {disposed, candidates}
      /\ candidates' \in {candidates, candidates + 1}
  BY DEF TypeInv, EngineTypeOK, MarketTypeOK, Passes, Evaluated
<1>2. /\ orphan' = orphan /\ notices' = notices /\ signedIn' = signedIn
      /\ flying' = inAir \union new /\ new \subseteq DOMAIN active
  BY DEF Passes, Evaluated
<1>3. ASSUME NEW q, q.entry # Nothing, q.entry > disposed', q.entry \in 1..candidates
      PROVE  Live(q) /\ inAir = flying /\ held = waiting
  BY <1>1, <1>3 DEF Live, Passes
<1>4. /\ Disjoint' /\ Lists' = Lists /\ \A id \in Lists : Find(id)' = Find(id)
  BY PassLists DEF FlightInv
<1>5. RevisionsGrow'
 <2>1. ASSUME NEW id, NEW n, AtMostRev(id, n)
       PROVE  id \in Lists' => n <= Find(id)'.rev
   BY <1>4, <2>1 DEF AtMostRev
 <2>2. ASSUME NEW i \in DOMAIN notices, notices[i].local => ~ signedIn,
              NEW x, x = notices[i].id
       PROVE  x \in Lists' => notices[i].rev <= Find(x)'.rev
  <3>1. AtMostRev(x, notices[i].rev)
    BY <2>2 DEF FlightInv, RevisionsGrow
  <3> QED BY <2>1, <3>1
 <2>3. ASSUME NEW id \in AlertId, NEW i \in DOMAIN chain'[id],
              chain'[id][i].entry # Nothing, chain'[id][i].entry > disposed', id \in Lists'
       PROVE  chain'[id][i].alert.rev <= Find(id)'.rev
  <3>1. CASE i \in DOMAIN chain[id] /\ chain'[id][i] = chain[id][i]
   <4>1. Live(chain[id][i])
     BY <1>3, <2>3, <3>1 DEF FlightInv, InTime
   <4>2. AtMostRev(id, chain[id][i].alert.rev)
     BY <3>1, <4>1 DEF FlightInv, RevisionsGrow
   <4> QED BY <2>1, <2>3, <3>1, <4>2
  <3>2. CASE id \in new \ inAir /\ chain'[id][i].alert = active[id]
   <4>1. Find(id)' = active[id]
     BY <1>2, <1>4, <3>2 DEF Find, Lists
   <4>2. active[id].rev \in Nat
     BY <1>2, <3>2, Listed DEF TypeInv, Alert
   <4> QED BY <3>2, <4>1, <4>2
  <3> QED BY <2>3, <3>1, <3>2, PassChain
 <2> QED BY <1>2, <2>2, <2>3 DEF RevisionsGrow, AtMostRev, Live
<1>6. ASSUME NEW id \in AlertId, NEW i \in DOMAIN chain'[id],
             chain'[id][i].entry # Nothing, chain'[id][i].entry > disposed'
      PROVE  \/ /\ i \in DOMAIN chain[id] /\ chain'[id][i] = chain[id][i]
                /\ Live(chain[id][i]) /\ id \in flying /\ inAir = flying
             \/ /\ i = Len(chain[id]) + 1 /\ id \in new \ inAir
                /\ chain'[id][i].at = now /\ chain'[id][i].entry = candidates + 1
                /\ candidates' = candidates + 1
 <2>1. CASE i \in DOMAIN chain[id] /\ chain'[id][i] = chain[id][i]
  <3>1. Live(chain[id][i]) /\ inAir = flying
    BY <1>3, <1>6, <2>1 DEF FlightInv, InTime
  <3> QED BY <2>1, <3>1 DEF FlightInv, OneLive
 <2> QED BY <1>6, <2>1, PassChain
<1>7. ASSUME NEW id \in AlertId, NEW i \in DOMAIN orphan[id],
             orphan[id][i].entry # Nothing, orphan[id][i].entry > disposed'
      PROVE  Live(orphan[id][i]) /\ id \in flying /\ inAir = flying
 <2>1. Live(orphan[id][i]) /\ inAir = flying
   BY <1>3, <1>7 DEF FlightInv, InTime
 <2> QED BY <2>1 DEF FlightInv, OneLive
<1>8. OneLive'
 <2>1. SUFFICES ASSUME NEW id \in AlertId
                PROVE  /\ \A i \in DOMAIN chain'[id] : Live(chain[id][i])' =>
                            /\ id \in flying'
                            /\ \A j \in DOMAIN chain'[id] : Live(chain[id][j])' => i = j
                            /\ \A j \in DOMAIN orphan'[id] : ~ Live(orphan[id][j])'
                       /\ \A i \in DOMAIN orphan'[id] : Live(orphan[id][i])' =>
                            /\ id \in flying' /\ ~ signedIn'
                            /\ \A j \in DOMAIN orphan'[id] : Live(orphan[id][j])' => i = j
   BY DEF OneLive
 <2>2. ASSUME NEW i \in DOMAIN chain'[id], Live(chain[id][i])'
       PROVE  /\ id \in flying'
              /\ \A j \in DOMAIN chain'[id] : Live(chain[id][j])' => i = j
              /\ \A j \in DOMAIN orphan'[id] : ~ Live(orphan[id][j])'
   BY <1>2, <1>6, <1>7, <2>2 DEF FlightInv, OneLive, Live
 <2>3. ASSUME NEW i \in DOMAIN orphan'[id], Live(orphan[id][i])'
       PROVE  /\ id \in flying' /\ ~ signedIn'
              /\ \A j \in DOMAIN orphan'[id] : Live(orphan[id][j])' => i = j
   BY <1>2, <1>7, <2>3 DEF FlightInv, OneLive, Live
 <2> QED BY <2>2, <2>3
<1>9. InTime'
 <2>1. ASSUME NEW id \in DOMAIN waiting'
       PROVE  waiting'[id].at \in 1..tick' /\ waiting'[id].n \in 1..candidates'
  <3>1. CASE id \in new
   <4>1. waiting'[id] = Candidate(id, now, p) /\ candidates' = candidates + 1
         /\ now = tick' /\ now \in Nat \ {0}
     BY <3>1 DEF Passes, Evaluated
   <4>2. waiting'[id].at = now /\ waiting'[id].n = candidates + 1
     BY <4>1 DEF Candidate
   <4> QED BY <1>1, <4>1, <4>2
  <3>2. CASE id \notin new
   <4>1. id \in DOMAIN held /\ waiting'[id] = held[id]
     BY <3>2 DEF Passes, Evaluated
   <4>2. held = waiting
     BY <4>1, NonePartial DEF Passes
   <4>3. waiting[id].at \in 1..tick /\ waiting[id].n \in 1..candidates
     BY <4>1, <4>2 DEF FlightInv, InTime
   <4> QED BY <1>1, <4>1, <4>2, <4>3
  <3> QED BY <3>1, <3>2
 <2>2. \A i \in DOMAIN notices' : notices'[i].at \in 1..tick'
   BY <1>1, <1>2 DEF FlightInv, InTime
 <2>3. ASSUME NEW id \in AlertId, NEW i \in DOMAIN chain'[id], chain'[id][i].entry # Nothing
       PROVE  chain'[id][i].at \in 1..tick' /\ chain'[id][i].entry \in 1..candidates'
  <3>1. CASE i \in DOMAIN chain[id] /\ chain'[id][i] = chain[id][i]
   <4>1. chain[id][i].at \in 1..tick /\ chain[id][i].entry \in 1..candidates
     BY <2>3, <3>1 DEF FlightInv, InTime
   <4> QED BY <1>1, <3>1, <4>1
  <3>2. CASE /\ chain'[id][i].entry = candidates + 1 /\ chain'[id][i].at = now
             /\ candidates' = candidates + 1
    BY <1>1, <3>2 DEF Passes
  <3> QED BY <2>3, <3>1, <3>2, PassChain
 <2>4. ASSUME NEW id \in AlertId, NEW i \in DOMAIN orphan'[id], orphan'[id][i].entry # Nothing
       PROVE  orphan'[id][i].at \in 1..tick' /\ orphan'[id][i].entry \in 1..candidates'
  <3>1. orphan[id][i].at \in 1..tick /\ orphan[id][i].entry \in 1..candidates
    BY <1>2, <2>4 DEF FlightInv, InTime
  <3> QED BY <1>1, <1>2, <3>1
 <2> QED BY <2>1, <2>2, <2>3, <2>4 DEF InTime
<1> QED BY <1>4, <1>5, <1>8, <1>9 DEF FlightInv

(* The alert of a new candidate is armed, met and past its re-arm gap.      *)
LEMMA PassNew ==
  ASSUME TypeInv, NEW now, NEW p, NEW dead, NEW held, NEW inAir, NEW new,
         Passes(now, p, dead, held, inAir, new), NEW id \in new
  PROVE  /\ id \in DOMAIN active /\ id \notin dead /\ active[id] \in Alert /\ id \in AlertId
         /\ active[id].enabled /\ ~ RearmBlocked(active[id], now)
         /\ id \in DOMAIN waiting' /\ waiting'[id].at = now /\ waiting'[id].n = candidates + 1
         /\ waiting'[id].rev = active[id].rev
<1>1. /\ id \in DOMAIN active /\ id \notin dead /\ Met(id, p, now)
      /\ waiting'[id] = Candidate(id, now, p) /\ id \in DOMAIN waiting'
  BY DEF Passes, Evaluated
<1>2. active[id] \in Alert /\ id \in AlertId
  BY <1>1, Listed DEF TypeInv
<1> QED BY <1>1, <1>2 DEF Met, Candidate

LEMMA PassKeepsLocal ==
  ASSUME TypeInv, TypeInv', BackendInv, FlightInv, LocalInv,
         NEW now, NEW p, NEW dead, NEW held, NEW inAir, NEW new,
         Passes(now, p, dead, held, inAir, new)
  PROVE  LocalInv'
<1>1. /\ orphan' = orphan /\ notices' = notices /\ signedIn' = signedIn
      /\ flying' = inAir \union new /\ new \subseteq DOMAIN active \ dead
      /\ DOMAIN waiting' = DOMAIN held \union new /\ Idle /\ disposed' \in {disposed, candidates}
  BY DEF Passes, Evaluated
<1>2. /\ Disjoint' /\ Lists' = Lists
      /\ DOMAIN active' = DOMAIN active \ dead
      /\ \A id \in DOMAIN active' : active'[id] = active[id]
  BY PassLists DEF FlightInv
<1>3. LocalFlights'
 <2>1. SUFFICES ASSUME ~ signedIn, NEW id \in AlertId
                PROVE  IF id \in Lists' THEN Settled(id)' \/ Settling(id)'
                       ELSE chain'[id] = <<>>
   BY <1>1 DEF LocalFlights
 <2>2. chain[id] = <<>> /\ ~ Settling(id)
  <3>1. chain[id] = <<>>
    BY <1>1, <2>1, IdleUnsigned DEF BackendInv
  <3> QED BY <3>1 DEF Settling
 <2>3. Sends(id, dead, new \ inAir)
   BY DEF Passes, Evaluated
 <2>4. CASE id \in new
  <3>1. id \in Lists' /\ id \in Lists
    BY <1>1, <1>2, <2>4 DEF Lists
  <3>2. id \notin DOMAIN waiting /\ id \notin flying
    BY <2>1, <2>2, <3>1 DEF LocalInv, LocalFlights, Settled
  <3>3. id \notin inAir
    BY <3>2 DEF Passes
  <3>4. chain'[id] = Append(<<>>, TriggerRequest(active[id], waiting'[id]))
    BY <2>2, <2>3, <2>4, <3>3 DEF Sends
  <3>5. /\ Append(<<>>, TriggerRequest(active[id], waiting'[id]))
             = <<TriggerRequest(active[id], waiting'[id])>>
    OBVIOUS
  <3>6. Len(chain'[id]) = 1 /\ chain'[id][1] = TriggerRequest(active[id], waiting'[id])
    BY <3>4, <3>5
  <3>7. /\ chain'[id][1].entry = candidates + 1 /\ chain'[id][1].at = now
        /\ chain'[id][1].alert = active[id]
    BY <2>4, <3>6, PassNew DEF TriggerRequest
  <3>8. /\ chain'[id][1].entry # Nothing
        /\ chain'[id][1].entry > disposed'
   <4>1. candidates \in Nat /\ disposed \in 0..candidates
     BY DEF TypeInv, EngineTypeOK
   <4>2. candidates + 1 # Nothing
     BY <4>1, NothingIsNoNumber
   <4> QED BY <1>1, <3>7, <4>1, <4>2
  <3>9. Settling(id)'
    BY <1>1, <1>2, <2>4, <3>6, <3>7, <3>8, PassNew DEF Settling, Live, RearmBlocked
  <3> QED BY <3>1, <3>9
 <2>5. CASE id \notin new
  <3>1. chain'[id] = <<>>
    BY <2>1, <2>2, <2>3, <2>5 DEF Sends
  <3>2. CASE id \in Lists
   <4>1. id \notin DOMAIN waiting /\ id \notin flying
     BY <2>1, <2>2, <3>2 DEF LocalInv, LocalFlights, Settled
   <4>2. id \notin DOMAIN held /\ id \notin inAir
     BY <4>1, NonePartial DEF Passes
   <4>3. Settled(id)'
     BY <1>1, <2>5, <3>1, <4>2 DEF Settled
   <4> QED BY <3>1, <4>3
  <3>3. CASE id \notin Lists
    BY <1>2, <3>1, <3>3
  <3> QED BY <3>2, <3>3
 <2> QED BY <2>4, <2>5
<1>4. LocalNotices'
  BY <1>1, <1>2 DEF LocalInv, LocalNotices
<1>5. LocalPairs'
  BY <1>1 DEF LocalInv, LocalPairs
<1> QED BY <1>3, <1>4, <1>5 DEF LocalInv

LEMMA PassKeepsGap ==
  ASSUME TypeInv, TypeInv', FlightInv, GapInv,
         NEW now, NEW p, NEW dead, NEW held, NEW inAir, NEW new,
         Passes(now, p, dead, held, inAir, new)
  PROVE  GapInv'
<1>1. /\ notices' = notices /\ disturbed' = disturbed /\ orphan' = orphan
      /\ tick \in Nat /\ tick' = now /\ now \in Nat /\ tick <= now
      /\ candidates \in Nat /\ disposed \in 0..candidates /\ disposed' \in {disposed, candidates}
  BY DEF Passes, TypeInv, MarketTypeOK, EngineTypeOK
<1>2. \A i \in DOMAIN notices : notices[i].at \in Nat \ {0} /\ notices[i].at <= tick
  BY <1>1 DEF FlightInv, InTime
<1>3. /\ DOMAIN active' = DOMAIN active \ dead
      /\ \A id \in DOMAIN active' : active'[id] = active[id]
  BY PassLists DEF FlightInv
<1>4. ASSUME NEW i \in DOMAIN notices, NEW id, Disturbed(id, notices[i].at, tick)
      PROVE  Disturbed(id, notices[i].at, now)
  BY <1>1, <1>2, <1>4 DEF Disturbed
<1>5. ASSUME NEW q, q.entry # Nothing, q.entry > disposed', q.entry \in 1..candidates
      PROVE  Live(q)
  BY <1>1, <1>5 DEF Live
<1>6. ASSUME NEW i \in DOMAIN notices, NEW id \in new, Of(notices[i], id, active[id].rev)
      PROVE  Apart(notices[i], id, now)
 <2>1. /\ id \in DOMAIN active /\ active[id].enabled /\ active[id] \in Alert
       /\ ~ RearmBlocked(active[id], now)
   BY PassNew
 <2>2. Behindhand(notices[i], id)
   BY <1>6, <2>1 DEF GapInv, NextApart
 <2>3. CASE active[id].recurring /\ notices[i].at <= active[id].firedAt
  <3>1. active[id].firedAt \in Nat /\ Rearm \in Nat
    BY <2>1, AlertConstants DEF Alert
  <3>2. active[id].firedAt > 0
    BY <1>2, <2>3, <3>1
  <3>3. now - active[id].firedAt >= Rearm
    BY <1>1, <2>1, <2>3, <3>1, <3>2 DEF RearmBlocked
  <3>4. now - notices[i].at >= Rearm
    BY <1>1, <1>2, <2>3, <3>1, <3>3
  <3> QED BY <3>4 DEF Apart
 <2>4. CASE Disturbed(id, notices[i].at, tick)
   BY <1>4, <2>4 DEF Apart
 <2> QED BY <2>2, <2>3, <2>4 DEF Behindhand
<1>7. NextApart'
 <2>1. SUFFICES ASSUME NEW i \in DOMAIN notices, NEW id \in DOMAIN active',
                       Of(notices[i], id, active'[id].rev), active'[id].enabled
                PROVE  \/ active'[id].recurring /\ notices[i].at <= active'[id].firedAt
                       \/ Disturbed(id, notices[i].at, now)
   BY <1>1 DEF NextApart, Behindhand, Of, Disturbed
 <2>2. Behindhand(notices[i], id)
   BY <1>3, <2>1 DEF GapInv, NextApart
 <2> QED BY <1>3, <1>4, <2>1, <2>2 DEF Behindhand
<1>8. WaitingApart'
 <2>1. SUFFICES ASSUME NEW i \in DOMAIN notices, NEW id \in DOMAIN waiting',
                       Of(notices[i], id, waiting'[id].rev)
                PROVE  Apart(notices[i], id, waiting'[id].at)
   BY <1>1 DEF WaitingApart, Apart, Of, Disturbed
 <2>2. CASE id \in new
   BY <1>6, <2>1, <2>2, PassNew
 <2>3. CASE id \notin new
  <3>1. id \in DOMAIN held /\ waiting'[id] = held[id]
    BY <2>3 DEF Passes, Evaluated
  <3>2. held = waiting
    BY <3>1, NonePartial DEF Passes
  <3> QED BY <2>1, <3>1, <3>2 DEF GapInv, WaitingApart
 <2> QED BY <2>2, <2>3
<1>9. FlyingApart'
 <2>1. ASSUME NEW i \in DOMAIN notices, NEW id \in AlertId, NEW k \in DOMAIN chain'[id],
              chain'[id][k].entry # Nothing, chain'[id][k].entry > disposed',
              Of(notices[i], id, chain'[id][k].alert.rev)
       PROVE  Apart(notices[i], id, chain'[id][k].at)
  <3>1. CASE k \in DOMAIN chain[id] /\ chain'[id][k] = chain[id][k]
   <4>1. Live(chain[id][k])
     BY <1>5, <2>1, <3>1 DEF FlightInv, InTime
   <4> QED BY <2>1, <3>1, <4>1 DEF GapInv, FlyingApart
  <3>2. CASE /\ id \in new \ inAir
             /\ chain'[id][k].alert = active[id] /\ chain'[id][k].at = now
    BY <1>6, <2>1, <3>2
  <3> QED BY <2>1, <3>1, <3>2, PassChain
 <2>2. ASSUME NEW i \in DOMAIN notices, NEW id \in AlertId, NEW k \in DOMAIN orphan[id],
              orphan[id][k].entry # Nothing, orphan[id][k].entry > disposed',
              Of(notices[i], id, orphan[id][k].alert.rev)
       PROVE  Apart(notices[i], id, orphan[id][k].at)
  <3>1. Live(orphan[id][k])
    BY <1>5, <2>2 DEF FlightInv, InTime
  <3> QED BY <2>2, <3>1 DEF GapInv, FlyingApart
 <2> QED BY <1>1, <2>1, <2>2 DEF FlyingApart, Live, Of, Apart, Disturbed
<1>10. PairsApart'
  BY <1>1 DEF GapInv, PairsApart, Apart, Disturbed, SameArming
<1> QED BY <1>7, <1>8, <1>9, <1>10 DEF GapInv

-----------------------------------------------------------------------------
(* The retry timer: the candidate is sent again, or dropped as stale.       *)

Retries(id) ==
  /\ id \notin flying /\ flying' = flying \union {id} /\ waiting' = waiting
  /\ id \in DOMAIN waiting /\ StillArmed(id, waiting[id].rev)
Resent(id, q) ==
  /\ q \in AlertRequest /\ q.op = (IF signedIn THEN "trigger" ELSE "local")
  /\ q.alert = active[id] /\ q.entry = waiting[id].n /\ q.at = waiting[id].at

LEMMA RetryDoes ==
  ASSUME TypeInv, NEW id \in AlertId, RetryDue(id)
  PROVE  /\ TypeInv'
         /\ UNCHANGED <<active, triggered, expired, rows, events, cleared, notices, disturbed,
                        orphan, signedIn, tick, disposed, candidates>>
         /\ id \in DOMAIN waiting
         /\ DOMAIN waiting' \subseteq DOMAIN waiting
         /\ \A x \in DOMAIN waiting' : waiting'[x] = waiting[x]
         /\ DOMAIN waiting \ {id} \subseteq DOMAIN waiting'
         /\ \/ UNCHANGED <<flying, chain>> /\ (id \in flying => waiting' = waiting)
            \/ Retries(id)
         /\ \A x \in AlertId : \A i \in DOMAIN chain'[x] :
              \/ i \in DOMAIN chain[x] /\ chain'[x][i] = chain[x][i]
              \/ /\ x = id /\ i = Len(chain[id]) + 1
                 /\ chain'[id] = Append(chain[id], chain'[id][i])
                 /\ Retries(id) /\ Resent(id, chain'[id][i])
         /\ \A x \in AlertId : x # id => chain'[x] = chain[x]
<1>1. /\ TypeInv'
      /\ \/ /\ UNCHANGED <<flying, chain>>
            /\ waiting' \in {waiting, Drop(waiting, {id})}
            /\ id \in flying => waiting' = waiting
         \/ /\ Retries(id)
            /\ chain'[id] = Append(chain[id], TriggerRequest(active[id], waiting[id]))
            /\ \A x \in AlertId \ {id} : chain'[x] = chain[x]
  BY RetryTyped DEF Retries
<1>2. UNCHANGED <<active, triggered, expired, rows, events, cleared, notices, disturbed,
                  orphan, signedIn, tick, disposed, candidates>>
  BY DEF RetryDue, listVars, marketVars, backendVars, historyVars
<1>3. id \in DOMAIN waiting
  BY DEF RetryDue, TypeInv, EngineTypeOK
<1>4. CASE /\ UNCHANGED <<flying, chain>>
           /\ waiting' \in {waiting, Drop(waiting, {id})}
           /\ id \in flying => waiting' = waiting
 <2>1. /\ DOMAIN waiting' \subseteq DOMAIN waiting
       /\ \A x \in DOMAIN waiting' : waiting'[x] = waiting[x]
       /\ DOMAIN waiting \ {id} \subseteq DOMAIN waiting'
   BY <1>4 DEF Drop
 <2> QED BY <1>1, <1>2, <1>3, <1>4, <2>1
<1>5. CASE /\ Retries(id)
           /\ chain'[id] = Append(chain[id], TriggerRequest(active[id], waiting[id]))
           /\ \A x \in AlertId \ {id} : chain'[x] = chain[x]
 <2> DEFINE r == TriggerRequest(active[id], waiting[id])
 <2>1. active[id] \in Alert /\ waiting[id] \in Crossing /\ MarketTypeOK
   BY <1>3, <1>5, Listed, PartialIs DEF Retries, StillArmed, TypeInv, EngineTypeOK
 <2>2. Resent(id, r)
   BY <2>1, TriggerRequestTyped DEF Resent
 <2>3. chain[id] \in Seq(AlertRequest) /\ r \in AlertRequest
   BY <2>2 DEF Resent, TypeInv, ChainsTypeOK
 <2>4. chain'[id] = Append(chain[id], r)
   BY <1>5
 <2> HIDE DEF r
 <2>5. ASSUME NEW i \in DOMAIN chain'[id]
       PROVE  \/ i \in DOMAIN chain[id] /\ chain'[id][i] = chain[id][i]
              \/ i = Len(chain[id]) + 1 /\ chain'[id][i] = r
   BY <2>3, <2>4, <2>5, AppendedAt
 <2>6. waiting' = waiting
   BY <1>5 DEF Retries
 <2>7. \A x \in AlertId : \A i \in DOMAIN chain'[x] :
             \/ i \in DOMAIN chain[x] /\ chain'[x][i] = chain[x][i]
             \/ /\ x = id /\ i = Len(chain[id]) + 1
                /\ chain'[id] = Append(chain[id], chain'[id][i])
                /\ Retries(id) /\ Resent(id, chain'[id][i])
   BY <1>5, <2>2, <2>4, <2>5
 <2> QED BY <1>1, <1>2, <1>3, <1>5, <2>6, <2>7
<1> QED BY <1>1, <1>4, <1>5

LEMMA RetryKeepsBackend ==
  ASSUME TypeInv, BackendInv, NEW id \in AlertId, RetryDue(id)
  PROVE  BackendInv'
<1>1. UNCHANGED <<active, triggered, expired, rows, events, cleared, notices, orphan, signedIn>>
  BY RetryDoes
<1>2. \A x \in AlertId : Grows(x)
 <2>1. SUFFICES ASSUME NEW x \in AlertId, chain'[x] # chain[x]
                PROVE  Grows(x)
   BY DEF Grows
 <2>2. x = id
   BY <2>1, RetryDoes
 <2>3. Retries(id) /\ chain'[id] = Append(chain[id], TriggerRequest(active[id], waiting[id]))
   BY <2>1, <2>2, RetryTyped DEF Retries
 <2>4. active[id] \in Alert /\ waiting[id] \in Crossing /\ MarketTypeOK
   BY <2>3, Listed, PartialIs DEF Retries, StillArmed, TypeInv, EngineTypeOK
 <2>5. TriggerRequest(active[id], waiting[id]) \in AlertRequest
       /\ TriggerRequest(active[id], waiting[id]).op = (IF signedIn THEN "trigger" ELSE "local")
   BY <2>4, TriggerRequestTyped
 <2> QED BY <2>2, <2>3, <2>5 DEF Grows
<1>3. Lists' = Lists
  BY <1>1 DEF Lists
<1> QED BY <1>1, <1>2, <1>3, GrowsKeepsBackend

LEMMA RetryKeepsFlight ==
  ASSUME TypeInv, FlightInv, NEW id \in AlertId, RetryDue(id)
  PROVE  FlightInv'
<1>1. /\ UNCHANGED <<active, triggered, expired, notices, orphan, signedIn, tick, disposed,
                     candidates>>
      /\ DOMAIN waiting' \subseteq DOMAIN waiting
      /\ \A x \in DOMAIN waiting' : waiting'[x] = waiting[x]
      /\ flying \subseteq flying'
  BY RetryDoes DEF Retries
<1>2. ASSUME NEW x \in AlertId, NEW i \in DOMAIN chain'[x]
      PROVE  \/ i \in DOMAIN chain[x] /\ chain'[x][i] = chain[x][i]
             \/ /\ x = id /\ i = Len(chain[id]) + 1
                /\ Retries(id) /\ Resent(id, chain'[id][i])
  BY RetryDoes
<1>3. Disjoint' /\ Lists' = Lists /\ \A x : Find(x)' = Find(x)
  BY <1>1 DEF FlightInv, Disjoint, Lists, Find
<1>4. \A q : Live(q)' = Live(q)
  BY <1>1 DEF Live
<1>5. RevisionsGrow'
 <2>1. \A x, n : AtMostRev(x, n)' = AtMostRev(x, n)
   BY <1>3 DEF AtMostRev
 <2>2. ASSUME NEW x \in AlertId, NEW i \in DOMAIN chain'[x], Live(chain'[x][i])
       PROVE  AtMostRev(x, chain'[x][i].alert.rev)
  <3>1. CASE i \in DOMAIN chain[x] /\ chain'[x][i] = chain[x][i]
    BY <2>2, <3>1 DEF FlightInv, RevisionsGrow
  <3>2. CASE x = id /\ Retries(id) /\ Resent(id, chain'[id][i])
   <4>1. id \in DOMAIN active /\ active[id].rev \in Nat
     BY <3>2, Listed DEF Retries, StillArmed, TypeInv, Alert
   <4> QED BY <3>2, <4>1 DEF Resent, AtMostRev, Find
  <3> QED BY <1>2, <3>1, <3>2
 <2>3. ASSUME NEW i \in DOMAIN notices, notices[i].local => ~ signedIn
       PROVE  AtMostRev(notices[i].id, notices[i].rev)
   BY <2>3 DEF FlightInv, RevisionsGrow
 <2> QED BY <1>1, <1>3, <1>4, <2>2, <2>3 DEF RevisionsGrow, AtMostRev
<1>6. OneLive'
  BY <1>1, <1>2, <1>4 DEF FlightInv, OneLive, Retries
<1>7. InTime'
 <2>1. ASSUME NEW x \in AlertId, NEW i \in DOMAIN chain'[x], chain'[x][i].entry # Nothing
       PROVE  chain'[x][i].at \in 1..tick /\ chain'[x][i].entry \in 1..candidates
  <3>1. CASE i \in DOMAIN chain[x] /\ chain'[x][i] = chain[x][i]
    BY <2>1, <3>1 DEF FlightInv, InTime
  <3>2. CASE x = id /\ Retries(id) /\ Resent(id, chain'[id][i])
    BY <3>2 DEF Retries, Resent, FlightInv, InTime
  <3> QED BY <1>2, <3>1, <3>2
 <2> QED BY <1>1, <2>1 DEF FlightInv, InTime
<1> QED BY <1>3, <1>5, <1>6, <1>7 DEF FlightInv

LEMMA RetryKeepsLocal ==
  ASSUME TypeInv, FlightInv, LocalInv, NEW id \in AlertId, RetryDue(id)
  PROVE  LocalInv'
<1>1. /\ UNCHANGED <<active, triggered, expired, notices, signedIn, disposed>>
      /\ id \in DOMAIN waiting
      /\ DOMAIN waiting' \subseteq DOMAIN waiting
      /\ \A x \in DOMAIN waiting' : waiting'[x] = waiting[x]
      /\ DOMAIN waiting \ {id} \subseteq DOMAIN waiting'
      /\ \/ UNCHANGED <<flying, chain>> /\ (id \in flying => waiting' = waiting)
         \/ Retries(id)
      /\ \A x \in AlertId : x # id => chain'[x] = chain[x]
  BY RetryDoes
<1>2. LocalFlights'
 <2>1. SUFFICES ASSUME ~ signedIn, NEW x \in AlertId
                PROVE  IF x \in Lists THEN Settled(x)' \/ Settling(x)' ELSE chain'[x] = <<>>
   BY <1>1 DEF LocalFlights, Lists
 <2>2. IF x \in Lists THEN Settled(x) \/ Settling(x) ELSE chain[x] = <<>>
   BY <2>1 DEF LocalInv, LocalFlights
 <2>3. CASE x # id
  <3>1. chain'[x] = chain[x] /\ (x \in flying' <=> x \in flying)
        /\ (x \in DOMAIN waiting' <=> x \in DOMAIN waiting)
        /\ (x \in DOMAIN waiting' => waiting'[x] = waiting[x])
    BY <1>1, <2>3 DEF Retries
  <3> QED BY <1>1, <2>2, <3>1 DEF Settled, Settling, Live, RearmBlocked
 <2>4. CASE x = id /\ id \in flying
  <3>1. UNCHANGED <<flying, chain, waiting>>
    BY <1>1, <2>4 DEF Retries
  <3> QED BY <1>1, <2>2, <3>1 DEF Settled, Settling, Live, RearmBlocked
 <2>5. CASE x = id /\ id \notin flying
  <3>1. id \notin Lists
    BY <1>1, <2>2, <2>5 DEF Settled, Settling
  <3>2. ~ Retries(id)
    BY <3>1 DEF Retries, StillArmed, Lists
  <3> QED BY <1>1, <2>2, <2>5, <3>1, <3>2
 <2> QED BY <2>3, <2>4, <2>5
<1>3. LocalNotices' /\ LocalPairs'
  BY <1>1 DEF LocalInv, LocalNotices, LocalPairs
<1> QED BY <1>2, <1>3 DEF LocalInv

LEMMA RetryKeepsGap ==
  ASSUME TypeInv, FlightInv, GapInv, NEW id \in AlertId, RetryDue(id)
  PROVE  GapInv'
<1>1. /\ UNCHANGED <<active, notices, disturbed, orphan, tick, disposed>>
      /\ DOMAIN waiting' \subseteq DOMAIN waiting
      /\ \A x \in DOMAIN waiting' : waiting'[x] = waiting[x]
  BY RetryDoes
<1>2. ASSUME NEW x \in AlertId, NEW i \in DOMAIN chain'[x]
      PROVE  \/ i \in DOMAIN chain[x] /\ chain'[x][i] = chain[x][i]
             \/ /\ x = id /\ i = Len(chain[id]) + 1
                /\ Retries(id) /\ Resent(id, chain'[id][i])
  BY RetryDoes
<1>3. NextApart' /\ WaitingApart' /\ PairsApart'
  BY <1>1 DEF GapInv, NextApart, WaitingApart, PairsApart, Behindhand, Apart, Of, Disturbed,
              SameArming
<1>4. FlyingApart'
 <2>1. ASSUME NEW i \in DOMAIN notices, NEW x \in AlertId, NEW k \in DOMAIN chain'[x],
              Live(chain'[x][k]), Of(notices[i], x, chain'[x][k].alert.rev)
       PROVE  Apart(notices[i], x, chain'[x][k].at)
  <3>1. CASE k \in DOMAIN chain[x] /\ chain'[x][k] = chain[x][k]
    BY <2>1, <3>1 DEF GapInv, FlyingApart
  <3>2. CASE x = id /\ Retries(id) /\ Resent(id, chain'[id][k])
    BY <2>1, <3>2 DEF Retries, Resent, StillArmed, GapInv, WaitingApart
  <3> QED BY <1>2, <3>1, <3>2
 <2> QED BY <1>1, <2>1 DEF GapInv, FlyingApart, Apart, Of, Live, Disturbed
<1> QED BY <1>3, <1>4 DEF GapInv

-----------------------------------------------------------------------------
(* Sessions begin and end: nothing that was in flight is live in the next.  *)

LEMMA SignInFinds ==
  ASSUME TypeInv, BackendInv, FlightInv, SignIn, NEW i \in DOMAIN notices, ~ notices[i].local,
         NEW id, id = notices[i].id, id \in Lists'
  PROVE  /\ Downloaded /\ notices[i] \in events /\ id \in AlertId
         /\ rows[id] # Nothing /\ Find(id)'.rev = rows[id].rev
         /\ notices[i].rev <= rows[id].rev
<1>1. Uploaded \/ Downloaded
  BY SignInTyped DEF BackendInv
<1>2. ~ signedIn
  BY SignInTyped DEF BackendInv
<1>3. notices[i] \in events /\ notices[i] \in AlertEvent
  BY DEF BackendInv, NotifiedIsCanonical, TypeInv, BackendTypeOK
<1>4. id \in AlertId
  BY <1>3 DEF AlertEvent
<1>5. ~ Uploaded
 <2>1. SUFFICES ASSUME Uploaded
                PROVE  FALSE
   OBVIOUS
 <2>2. id \in Lists
   BY <2>1 DEF Uploaded, Lists
 <2>3. Unborn(id)
   BY <1>2, <1>4, <2>2 DEF BackendInv, Sessions
 <2> QED BY <1>3, <2>3 DEF Unborn
<1>6. rows[id] # Nothing /\ Find(id)'.rev = rows[id].rev
  BY <1>1, <1>5 DEF Downloaded, FromBackend, Lists, Find
<1> QED BY <1>1, <1>3, <1>4, <1>5, <1>6 DEF BackendInv, EventsFit

LEMMA SignInKeepsFlight ==
  ASSUME TypeInv, BackendInv, FlightInv, SignIn
  PROVE  FlightInv'
<1>1. /\ Uploaded \/ Downloaded
      /\ \A id \in AlertId : chain[id] = <<>>
      /\ signedIn' /\ DOMAIN waiting' = {} /\ disposed' = candidates
      /\ UNCHANGED <<candidates, orphan, tick, notices>>
  BY SignInTyped DEF BackendInv
<1>2. Disjoint'
  BY <1>1 DEF FlightInv, Disjoint, Uploaded, Downloaded, FromBackend
<1>3. ASSUME NEW id \in AlertId, NEW i \in DOMAIN chain'[id]
      PROVE  chain'[id][i].entry = Nothing
  BY <1>1, <1>3 DEF Uploaded, Downloaded, Uploads
<1>4. ASSUME NEW id \in AlertId, NEW i \in DOMAIN orphan[id]
      PROVE  ~ (orphan[id][i].entry # Nothing /\ orphan[id][i].entry > disposed')
 <2>1. orphan[id][i].entry # Nothing => orphan[id][i].entry \in 1..candidates
   BY <1>4 DEF FlightInv, InTime
 <2>2. candidates \in Nat
   BY DEF TypeInv, EngineTypeOK
 <2> QED BY <1>1, <2>1, <2>2
<1>5. RevisionsGrow'
 <2>1. ASSUME NEW i \in DOMAIN notices, ~ notices[i].local, NEW id, id = notices[i].id,
              id \in Lists'
       PROVE  notices[i].rev <= Find(id)'.rev
   BY <2>1, SignInFinds
 <2> QED BY <1>1, <1>3, <2>1 DEF RevisionsGrow, AtMostRev, Live
<1>6. OneLive'
  BY <1>1, <1>3, <1>4 DEF OneLive, Live
<1>7. InTime'
  BY <1>1, <1>3 DEF FlightInv, InTime
<1> QED BY <1>2, <1>5, <1>6, <1>7 DEF FlightInv

LEMMA SignInKeepsLocal ==
  ASSUME TypeInv, BackendInv, LocalInv, SignIn
  PROVE  LocalInv'
<1>1. signedIn' /\ notices' = notices
  BY SignInTyped DEF BackendInv
<1> QED BY <1>1 DEF LocalInv, LocalFlights, LocalNotices, LocalPairs

LEMMA SignInKeepsGap ==
  ASSUME TypeInv, BackendInv, FlightInv, GapInv, SignIn
  PROVE  GapInv'
<1>1. /\ Uploaded \/ Downloaded
      /\ \A id \in AlertId : chain[id] = <<>>
      /\ DOMAIN waiting' = {} /\ disposed' = candidates
      /\ UNCHANGED <<candidates, orphan, tick, notices>>
  BY SignInTyped DEF BackendInv
<1>2. disturbed \subseteq disturbed'
  BY <1>1 DEF Uploaded, Downloaded
<1>3. ASSUME NEW id \in AlertId, NEW i \in DOMAIN chain'[id]
      PROVE  chain'[id][i].entry = Nothing /\ chain'[id][i].op # "trigger"
  BY <1>1, <1>3 DEF Uploaded, Downloaded, Uploads
<1>4. ASSUME NEW id \in AlertId, NEW i \in DOMAIN orphan[id]
      PROVE  ~ (orphan[id][i].entry # Nothing /\ orphan[id][i].entry > disposed')
 <2>1. orphan[id][i].entry # Nothing => orphan[id][i].entry \in 1..candidates
   BY <1>4 DEF FlightInv, InTime
 <2>2. candidates \in Nat
   BY DEF TypeInv, EngineTypeOK
 <2> QED BY <1>1, <2>1, <2>2
<1>5. NextApart'
 <2>1. SUFFICES ASSUME NEW i \in DOMAIN notices, NEW id \in DOMAIN active',
                       Of(notices[i], id, active'[id].rev), active'[id].enabled
                PROVE  \/ active'[id].recurring /\ notices[i].at <= active'[id].firedAt
                       \/ \E t \in notices[i].at..tick : <<id, t>> \in disturbed'
   BY <1>1 DEF NextApart, Behindhand, Of, Disturbed
 <2>2. id \in Lists' /\ ~ notices[i].local /\ id = notices[i].id
   BY <2>1 DEF Lists, Of
 <2>3. /\ Downloaded /\ notices[i] \in events /\ id \in AlertId /\ rows[id] # Nothing
   BY <2>2, SignInFinds
 <2>4. /\ rows[id].status = "active" /\ active'[id].rev = rows[id].rev
       /\ active'[id].recurring = rows[id].recurring
       /\ active'[id].firedAt = rows[id].firedAt
   BY <2>3 DEF Downloaded, FromBackend
 <2>5. notices[i].rev = rows[id].rev
   BY <2>1, <2>4 DEF Of
 <2>6. notices[i].recurring \in BOOLEAN /\ notices[i].at \in Nat /\ rows[id].firedAt \in Nat
       /\ rows[id].recurring \in BOOLEAN
  <3>1. notices[i] \in AlertEvent /\ rows[id] \in AlertRow
    BY <2>3 DEF TypeInv, BackendTypeOK
  <3> QED BY <3>1 DEF AlertEvent, AlertRow
 <2>7. active'[id].recurring
   BY <2>2, <2>3, <2>4, <2>5, <2>6 DEF BackendInv, EventsFit
 <2>8. CASE notices[i].at <= rows[id].firedAt
   BY <2>4, <2>7, <2>8
 <2>9. CASE ~ (notices[i].at <= rows[id].firedAt)
  <3>1. notices[i].at > rows[id].firedAt
    BY <2>6, <2>9
  <3>2. Behind(id)
    BY <2>2, <2>3, <2>5, <3>1 DEF Behind
  <3>3. <<id, tick>> \in disturbed'
    BY <2>3, <3>2 DEF Downloaded
  <3>4. tick \in notices[i].at..tick
    BY DEF FlightInv, InTime, TypeInv, MarketTypeOK
  <3> QED BY <3>3, <3>4
 <2> QED BY <2>8, <2>9
<1>6. WaitingApart' /\ FlyingApart'
  BY <1>1, <1>3, <1>4 DEF WaitingApart, FlyingApart, Live
<1>7. PairsApart'
  BY <1>1, <1>2 DEF GapInv, PairsApart, Apart, Disturbed, SameArming
<1> QED BY <1>5, <1>6, <1>7 DEF GapInv

LEMMA SignOutKeepsRest ==
  ASSUME TypeInv, BackendInv, FlightInv, LocalInv, GapInv, SignOut
  PROVE  FlightInv' /\ LocalInv' /\ GapInv'
<1>1. /\ signedIn /\ ~ signedIn'
      /\ DOMAIN active' = {} /\ DOMAIN triggered' = {} /\ DOMAIN expired' = {}
      /\ orphan' = chain /\ \A id \in AlertId : chain'[id] = <<>>
      /\ UNCHANGED <<waiting, flying, disposed, candidates, tick, notices, disturbed>>
  BY SignOutTyped DEF engineVars, historyVars
<1>2. Lists' = {}
  BY <1>1 DEF Lists
<1>3. FlightInv'
 <2>1. Disjoint' /\ RevisionsGrow'
   BY <1>1, <1>2 DEF Disjoint, RevisionsGrow, AtMostRev
 <2>2. OneLive'
   BY <1>1 DEF FlightInv, OneLive, Live
 <2>3. InTime'
   BY <1>1 DEF FlightInv, InTime
 <2> QED BY <2>1, <2>2, <2>3 DEF FlightInv
<1>4. LocalInv'
  BY <1>1, <1>2 DEF LocalInv, LocalFlights, LocalNotices, LocalPairs
<1>5. GapInv'
 <2>1. NextApart'
   BY <1>1 DEF NextApart
 <2>2. WaitingApart' /\ PairsApart'
   BY <1>1 DEF GapInv, WaitingApart, PairsApart, Apart, Of, Disturbed, SameArming
 <2>3. FlyingApart'
   BY <1>1 DEF GapInv, FlyingApart, Apart, Of, Disturbed, Live
 <2> QED BY <2>1, <2>2, <2>3 DEF GapInv
<1> QED BY <1>3, <1>4, <1>5

-----------------------------------------------------------------------------
(* A request settles.                                                      *)

Resends(id, q, rest, r) ==
  /\ Live(q) /\ Restarts(id, q, rest)
  /\ r.alert = active'[id] /\ r.entry = waiting[id].n /\ r.at = waiting[id].at

(* Every request that is left was there before, or is the newer candidate's.*)
LEMMA SettlesOld ==
  ASSUME TypeInv, NEW id \in AlertId, NEW q, NEW reply, NEW rest, NEW late,
         RequestSettles(id, q, reply, rest, late)
  PROVE  /\ \A x \in AlertId : \A i \in DOMAIN chain'[x] :
              \/ \E k \in DOMAIN chain[x] : chain[x][k] = chain'[x][i]
              \/ /\ x = id /\ i = Len(rest) + 1 /\ Resends(id, q, rest, chain'[id][i])
         /\ \A x \in AlertId : \A i \in DOMAIN orphan'[x] :
              \E k \in DOMAIN orphan[x] : orphan[x][k] = orphan'[x][i]
         /\ \/ \E k \in DOMAIN chain[id] : chain[id][k] = q
            \/ \E k \in DOMAIN orphan[id] : orphan[id][k] = q
<1>1. ASSUME NEW x \in AlertId, NEW i \in DOMAIN chain'[x]
      PROVE  \/ \E k \in DOMAIN chain[x] : chain[x][k] = chain'[x][i]
             \/ /\ x = id /\ i = Len(rest) + 1 /\ Resends(id, q, rest, chain'[id][i])
 <2>1. CASE x # id
  <3>1. chain'[x] = chain[x]
    BY <2>1, SettlesChain
  <3> QED BY <3>1
 <2>2. CASE x = id
  <3>1. \/ i \in DOMAIN rest /\ chain'[id][i] = rest[i]
        \/ /\ Live(q) /\ Restarts(id, q, rest) /\ i = Len(rest) + 1
           /\ chain'[id][i] = TriggerRequest(active'[id], waiting[id])
    BY <2>2, SettlesChain
  <3>2. CASE i \in DOMAIN rest /\ chain'[id][i] = rest[i]
   <4>1. \E k \in DOMAIN chain[id] : chain[id][k] = rest[i]
     BY <3>2, SettlesChain
   <4> QED BY <2>2, <3>2, <4>1
  <3>3. CASE /\ Live(q) /\ Restarts(id, q, rest) /\ i = Len(rest) + 1
             /\ chain'[id][i] = TriggerRequest(active'[id], waiting[id])
    BY <2>2, <3>3 DEF Resends, TriggerRequest
  <3> QED BY <3>1, <3>2, <3>3
 <2> QED BY <2>1, <2>2
<1>2. ASSUME NEW x \in AlertId, NEW i \in DOMAIN orphan'[x]
      PROVE  \E k \in DOMAIN orphan[x] : orphan[x][k] = orphan'[x][i]
 <2>1. CASE x # id
  <3>1. orphan'[x] = orphan[x]
    BY <2>1, SettlesChain
  <3> QED BY <3>1
 <2>2. CASE x = id
   BY <2>2, SettlesChain
 <2> QED BY <2>1, <2>2
<1>3. \/ \E k \in DOMAIN chain[id] : chain[id][k] = q
      \/ \E k \in DOMAIN orphan[id] : orphan[id][k] = q
  BY SettlesChain
<1> QED BY <1>1, <1>2, <1>3

(* A live request leaves none behind it.                                    *)
LEMMA SettlesLive ==
  ASSUME TypeInv, TypeInv', FlightInv, NEW id \in AlertId, NEW q, NEW reply, NEW rest, NEW late,
         RequestSettles(id, q, reply, rest, late), Live(q)
  PROVE  /\ id \in flying
         /\ \A i \in DOMAIN rest : ~ Live(rest[i])
         /\ \A i \in DOMAIN orphan'[id] : ~ Live(orphan'[id][i])
         /\ ~ OfChain(id, q, reply, rest, late) => ~ signedIn
<1>1. rest \in Seq(AlertRequest) /\ orphan'[id] \in Seq(AlertRequest)
  BY DEF RequestSettles, TypeInv, ChainsTypeOK
<1>2. \A i \in DOMAIN rest : i \in Nat /\ i + 1 # 1
  BY <1>1
<1>3. \A i \in DOMAIN orphan'[id] : i \in Nat /\ i + 1 # 1
  BY <1>1
<1>4. CASE OfChain(id, q, reply, rest, late)
 <2>1. /\ 1 \in DOMAIN chain[id] /\ q = chain[id][1]
       /\ \A i \in DOMAIN rest : i + 1 \in DOMAIN chain[id] /\ rest[i] = chain[id][i + 1]
       /\ \A i \in DOMAIN orphan'[id] : i \in DOMAIN orphan[id] /\ orphan'[id][i] = orphan[id][i]
   BY <1>4, SettlesChain
 <2> QED BY <1>2, <1>4, <2>1 DEF FlightInv, OneLive
<1>5. CASE ~ OfChain(id, q, reply, rest, late)
 <2>1. /\ 1 \in DOMAIN orphan[id] /\ q = orphan[id][1]
       /\ \A i \in DOMAIN rest : i \in DOMAIN chain[id] /\ rest[i] = chain[id][i]
       /\ \A i \in DOMAIN orphan'[id] :
            i + 1 \in DOMAIN orphan[id] /\ orphan'[id][i] = orphan[id][i + 1]
   BY <1>5, SettlesChain
 <2> QED BY <1>3, <2>1 DEF FlightInv, OneLive
<1> QED BY <1>4, <1>5

(* Alerts keep their revisions, and all but the one of the request stay.    *)
LEMMA SettlesRevisions ==
  ASSUME FlightInv, NEW id \in AlertId, NEW q, NEW reply, NEW rest, NEW late,
         RequestSettles(id, q, reply, rest, late)
  PROVE  /\ Disjoint' /\ Lists' = Lists
         /\ \A x \in Lists : Find(x)'.rev = Find(x).rev
         /\ \A x : x # id => (x \in DOMAIN active' <=> x \in DOMAIN active)
         /\ \A x \in DOMAIN active' : x # id => active'[x] = active[x]
         /\ disturbed \subseteq disturbed'
<1>1. CASE UNCHANGED <<active, triggered, expired>> /\ disturbed' = disturbed
  BY <1>1 DEF FlightInv, Disjoint, Lists, Find
<1>2. ASSUME NEW e, Applied(id, q, e), disturbed \subseteq disturbed'
      PROVE  /\ Disjoint' /\ Lists' = Lists
             /\ \A x \in Lists : Find(x)'.rev = Find(x).rev
             /\ \A x : x # id => (x \in DOMAIN active' <=> x \in DOMAIN active)
             /\ \A x \in DOMAIN active' : x # id => active'[x] = active[x]
 <2>1. id \in DOMAIN active /\ Fires(id, e.at)
   BY <1>2 DEF Applied
 <2>2. CASE active[id].recurring
  <3>1. /\ DOMAIN active' = DOMAIN active /\ triggered' = triggered /\ expired' = expired
        /\ active'[id].rev = active[id].rev
        /\ \A x \in DOMAIN active \ {id} : active'[x] = active[x]
    BY <2>1, <2>2 DEF Fires
  <3> QED BY <2>1, <3>1 DEF FlightInv, Disjoint, Lists, Find
 <2>3. CASE ~ active[id].recurring
  <3>1. /\ DOMAIN active' = DOMAIN active \ {id}
        /\ DOMAIN triggered' = DOMAIN triggered \union {id}
        /\ triggered'[id].rev = active[id].rev
        /\ \A x \in DOMAIN triggered \ {id} : triggered'[x] = triggered[x]
        /\ \A x \in DOMAIN active \ {id} : active'[x] = active[x]
        /\ expired' = expired
    BY <2>1, <2>3 DEF Fires
  <3> QED BY <2>1, <3>1 DEF FlightInv, Disjoint, Lists, Find
 <2> QED BY <2>2, <2>3
<1>3. ListsSettle(id, q, reply, late)
  BY DEF RequestSettles
<1>4. \/ UNCHANGED <<active, triggered, expired>> /\ disturbed' = disturbed
      \/ \E e : Applied(id, q, e) /\ disturbed \subseteq disturbed'
  BY <1>3 DEF ListsSettle
<1> QED BY <1>1, <1>2, <1>4

LEMMA SettleKeepsFlight ==
  ASSUME TypeInv, TypeInv', BackendInv, FlightInv, NEW id \in AlertId, NEW q, NEW reply, NEW rest,
         NEW late, RequestSettles(id, q, reply, rest, late)
  PROVE  FlightInv'
<1>1. UNCHANGED <<disposed, candidates, tick, signedIn>>
  BY DEF RequestSettles
<1>2. /\ Disjoint' /\ Lists' = Lists
      /\ \A x \in Lists : Find(x)'.rev = Find(x).rev
  BY SettlesRevisions
<1>3. \A r : Live(r)' = Live(r)
  BY <1>1 DEF Live
<1>4. ASSUME NEW x, NEW n, AtMostRev(x, n)
      PROVE  x \in Lists' => n <= Find(x)'.rev
  BY <1>2, <1>4 DEF AtMostRev
<1>5. DOMAIN waiting' \subseteq DOMAIN waiting /\ \A x \in DOMAIN waiting' : waiting'[x] = waiting[x]
 <2>1. waiting' = waiting \/ waiting' = Drop(waiting, {id})
   BY DEF RequestSettles, Finishes, Concludes, Ends, Restarts
 <2> QED BY <2>1 DEF Drop
<1>6. \/ notices' = notices
      \/ /\ notices' = Append(notices, Event(id, q)) /\ Event(id, q) \in AlertEvent
         /\ Event(id, q).id = id /\ Event(id, q).rev = q.alert.rev
         /\ Event(id, q).at = q.at /\ Live(q)
  BY SettlesNotices
<1>7. ASSUME NEW i \in DOMAIN notices'
      PROVE  \/ i \in DOMAIN notices /\ notices'[i] = notices[i]
             \/ /\ notices'[i].id = id /\ notices'[i].rev = q.alert.rev
                /\ notices'[i].at = q.at /\ Live(q)
 <2>1. CASE notices' = notices
   BY <1>7, <2>1
 <2>2. CASE notices' # notices
  <3>1. notices \in Seq(AlertEvent)
    BY DEF TypeInv, BackendTypeOK
  <3>2. \/ i \in DOMAIN notices /\ notices'[i] = notices[i]
        \/ i = Len(notices) + 1 /\ notices'[i] = Event(id, q)
    BY <1>6, <1>7, <2>2, <3>1, AppendedAt
  <3> QED BY <1>6, <2>2, <3>2
 <2> QED BY <2>1, <2>2
<1>8. RevisionsGrow'
 <2>1. ASSUME NEW i \in DOMAIN notices', notices'[i].local => ~ signedIn,
              NEW x, x = notices'[i].id
       PROVE  x \in Lists' => notices'[i].rev <= Find(x)'.rev
  <3>1. CASE i \in DOMAIN notices /\ notices'[i] = notices[i]
   <4>1. AtMostRev(x, notices[i].rev)
     BY <2>1, <3>1 DEF FlightInv, RevisionsGrow
   <4> QED BY <1>4, <3>1, <4>1
  <3>2. CASE notices'[i].id = id /\ notices'[i].rev = q.alert.rev /\ Live(q)
   <4>1. AtMostRev(id, q.alert.rev)
    <5>1. CASE \E k \in DOMAIN chain[id] : chain[id][k] = q
      BY <3>2, <5>1 DEF FlightInv, RevisionsGrow
    <5>2. CASE \E k \in DOMAIN orphan[id] : orphan[id][k] = q
     <6>1. ~ signedIn /\ orphan[id] # <<>>
       BY <3>2, <5>2, InChain DEF FlightInv, OneLive
     <6>2. id \notin Lists
       BY <6>1 DEF BackendInv, Sessions
     <6> QED BY <6>2 DEF AtMostRev
    <5> QED BY <5>1, <5>2, SettlesOld
   <4> QED BY <1>4, <2>1, <3>2, <4>1
  <3> QED BY <1>7, <3>1, <3>2
 <2>2. ASSUME NEW x \in AlertId, NEW i \in DOMAIN chain'[x], Live(chain'[x][i]), x \in Lists'
       PROVE  chain'[x][i].alert.rev <= Find(x)'.rev
  <3>1. CASE \E k \in DOMAIN chain[x] : chain[x][k] = chain'[x][i]
   <4>1. AtMostRev(x, chain'[x][i].alert.rev)
     BY <2>2, <3>1 DEF FlightInv, RevisionsGrow
   <4> QED BY <1>4, <2>2, <4>1
  <3>2. CASE x = id /\ Resends(id, q, rest, chain'[id][i])
   <4>1. id \in DOMAIN active' /\ chain'[id][i].alert = active'[id]
     BY <3>2 DEF Resends, Restarts
   <4>2. active'[id].rev \in Nat
    <5>1. active' \in Partially(AlertId, Alert)
      BY DEF TypeInv, ListsTypeOK
    <5>2. active'[id] \in Alert
      BY <4>1, <5>1, PartialIs
    <5> QED BY <5>2 DEF Alert
   <4>3. Find(id)' = active'[id]
     BY <4>1 DEF Find
   <4> QED BY <3>2, <4>1, <4>2, <4>3
  <3> QED BY <3>1, <3>2, SettlesOld
 <2> QED BY <1>1, <1>3, <2>1, <2>2 DEF RevisionsGrow, AtMostRev
<1>9. OneLive'
 <2>1. ASSUME NEW x \in AlertId, x # id
       PROVE  /\ chain'[x] = chain[x] /\ orphan'[x] = orphan[x]
              /\ x \in flying' <=> x \in flying
  <3>1. flying' = flying \/ flying' = flying \ {id}
    BY DEF RequestSettles, Finishes, Concludes, Ends, Restarts
  <3> QED BY <2>1, <3>1, SettlesChain
 <2>2. CASE Live(q)
  <3>1. /\ id \in flying
        /\ \A i \in DOMAIN rest : ~ Live(rest[i])
        /\ \A i \in DOMAIN orphan'[id] : ~ Live(orphan'[id][i])
    BY <2>2, SettlesLive
  <3>2. ASSUME NEW i \in DOMAIN chain'[id], Live(chain'[id][i])
        PROVE  i = Len(rest) + 1 /\ id \in flying'
   <4>1. /\ Restarts(id, q, rest) /\ i = Len(rest) + 1
     BY <3>1, <3>2, SettlesChain
   <4> QED BY <3>1, <4>1 DEF Restarts
  <3> QED BY <1>1, <1>3, <2>1, <3>1, <3>2 DEF FlightInv, OneLive
 <2>3. CASE ~ Live(q)
  <3>1. flying' = flying
    BY <2>3 DEF RequestSettles, Finishes
  <3>2. \A i \in DOMAIN chain'[id] : i \in DOMAIN rest /\ chain'[id][i] = rest[i]
    BY <2>3, SettlesChain
  <3>3. \A i, j \in DOMAIN chain'[id] \union DOMAIN orphan'[id] :
           i \in Nat /\ j \in Nat /\ (i + 1 = j + 1 => i = j)
   <4>1. chain'[id] \in Seq(AlertRequest) /\ orphan'[id] \in Seq(AlertRequest)
     BY DEF TypeInv, ChainsTypeOK
   <4> QED BY <4>1
  <3>4. CASE OfChain(id, q, reply, rest, late)
   <4>1. /\ \A i \in DOMAIN rest : i + 1 \in DOMAIN chain[id] /\ rest[i] = chain[id][i + 1]
         /\ \A i \in DOMAIN orphan'[id] :
               i \in DOMAIN orphan[id] /\ orphan'[id][i] = orphan[id][i]
     BY <3>4, SettlesChain
   <4> QED BY <1>1, <1>3, <2>1, <3>1, <3>2, <3>3, <4>1 DEF FlightInv, OneLive
  <3>5. CASE ~ OfChain(id, q, reply, rest, late)
   <4>1. /\ \A i \in DOMAIN rest : i \in DOMAIN chain[id] /\ rest[i] = chain[id][i]
         /\ \A i \in DOMAIN orphan'[id] :
               i + 1 \in DOMAIN orphan[id] /\ orphan'[id][i] = orphan[id][i + 1]
     BY <3>5, SettlesChain
   <4> QED BY <1>1, <1>3, <2>1, <3>1, <3>2, <3>3, <4>1 DEF FlightInv, OneLive
  <3> QED BY <3>4, <3>5
 <2> QED BY <2>2, <2>3
<1>10. InTime'
 <2>1. \A x \in AlertId : \A k \in DOMAIN chain[x] : chain[x][k].entry # Nothing =>
           chain[x][k].at \in 1..tick /\ chain[x][k].entry \in 1..candidates
   BY DEF FlightInv, InTime
 <2>2. \A x \in AlertId : \A k \in DOMAIN orphan[x] : orphan[x][k].entry # Nothing =>
           orphan[x][k].at \in 1..tick /\ orphan[x][k].entry \in 1..candidates
   BY DEF FlightInv, InTime
 <2>3. \A x \in DOMAIN waiting : waiting[x].at \in 1..tick /\ waiting[x].n \in 1..candidates
   BY DEF FlightInv, InTime
 <2>4. ASSUME NEW x \in AlertId, NEW i \in DOMAIN chain'[x], chain'[x][i].entry # Nothing
       PROVE  chain'[x][i].at \in 1..tick /\ chain'[x][i].entry \in 1..candidates
  <3>1. CASE \E k \in DOMAIN chain[x] : chain[x][k] = chain'[x][i]
    BY <2>1, <2>4, <3>1
  <3>2. CASE x = id /\ Resends(id, q, rest, chain'[id][i])
    BY <2>3, <3>2 DEF Resends, Restarts
  <3> QED BY <3>1, <3>2, SettlesOld
 <2>5. ASSUME NEW x \in AlertId, NEW i \in DOMAIN orphan'[x], orphan'[x][i].entry # Nothing
       PROVE  orphan'[x][i].at \in 1..tick /\ orphan'[x][i].entry \in 1..candidates
   BY <2>2, <2>5, SettlesOld
 <2>6. ASSUME NEW i \in DOMAIN notices'
       PROVE  notices'[i].at \in 1..tick
  <3>1. CASE i \in DOMAIN notices /\ notices'[i] = notices[i]
    BY <3>1 DEF FlightInv, InTime
  <3>2. CASE notices'[i].at = q.at /\ Live(q)
    BY <2>1, <2>2, <3>2, SettlesOld DEF Live
  <3> QED BY <1>7, <3>1, <3>2
 <2> QED BY <1>1, <1>5, <2>3, <2>4, <2>5, <2>6 DEF InTime
<1> QED BY <1>2, <1>8, <1>9, <1>10 DEF FlightInv

LEMMA NoticeAdded ==
  ASSUME TypeInv, NEW id \in AlertId, NEW q, NEW reply, NEW rest, NEW late,
         RequestSettles(id, q, reply, rest, late), NEW i \in DOMAIN notices'
  PROVE  \/ i \in DOMAIN notices /\ notices'[i] = notices[i]
         \/ i = Len(notices) + 1 /\ notices'[i] = Event(id, q) /\ notices' # notices
<1>1. CASE notices' = notices
  BY <1>1
<1>2. CASE notices' # notices
 <2>1. notices' = Append(notices, Event(id, q)) /\ Event(id, q) \in AlertEvent
   BY <1>2, SettlesNotices
 <2>2. notices \in Seq(AlertEvent)
   BY DEF TypeInv, BackendTypeOK
 <2>3. \/ i \in DOMAIN notices /\ notices'[i] = notices[i]
       \/ i = Len(notices) + 1 /\ notices'[i] = Event(id, q)
   BY <2>1, <2>2, AppendedAt
 <2> QED BY <1>2, <2>3
<1> QED BY <1>1, <1>2

(* Without a session the request of a listed alert is the only one, it is   *)
(* applied, and its candidate leaves with it.                               *)
LEMMA SettlesLocally ==
  ASSUME TypeInv, BackendInv, FlightInv, LocalInv, NEW id \in AlertId, NEW q, NEW reply, NEW rest,
         NEW late, RequestSettles(id, q, reply, rest, late), ~ signedIn
  PROVE  \/ /\ id \notin Lists /\ chain'[id] = <<>> /\ ~ OfChain(id, q, reply, rest, late)
            /\ q.op # "local"
         \/ /\ OfChain(id, q, reply, rest, late) /\ q.op = "local"
            /\ id \in DOMAIN active /\ q.alert = active[id] /\ ~ RearmBlocked(active[id], q.at)
            /\ active[id].enabled
            /\ Fires(id, q.at)
            /\ chain'[id] = <<>> /\ id \notin DOMAIN waiting' /\ id \notin flying'
<1>1. IF id \in Lists THEN Settled(id) \/ Settling(id) ELSE chain[id] = <<>>
  BY DEF LocalInv, LocalFlights
<1>2. CASE OfChain(id, q, reply, rest, late)
 <2>1. chain[id] # <<>> /\ rest = Tail(chain[id]) /\ q = chain[id][1] /\ 1 \in DOMAIN chain[id]
   BY <1>2, SettlesChain DEF OfChain
 <2>2. Settling(id)
   BY <1>1, <2>1 DEF Settled
 <2>3. q.op = "local" /\ reply = "ok"
   BY <1>2, <2>1 DEF BackendInv, Sessions, OfChain
 <2>4. rest = <<>>
   BY <2>1, <2>2 DEF Settling, TypeInv, ChainsTypeOK
 <2>5. /\ Live(q) /\ id \in DOMAIN waiting /\ waiting[id].n = q.entry
       /\ id \in DOMAIN active /\ q.alert = active[id] /\ active[id].enabled
       /\ ~ RearmBlocked(active[id], q.at)
   BY <2>1, <2>2 DEF Settling
 <2>6. waiting' = Drop(waiting, {id}) /\ Ends(id, q, rest)
   BY <2>3, <2>5 DEF RequestSettles, Finishes, Concludes, Restarts
 <2>7. chain'[id] = <<>> /\ id \notin DOMAIN waiting' /\ id \notin flying'
   BY <2>4, <2>6 DEF Ends, Drop
 <2>8. Applies(id, q, reply)
   BY <2>3, <2>5 DEF Applies, StillArmed
 <2>9. \E e : Applied(id, q, e)
   BY <2>8 DEF RequestSettles, ListsSettle
 <2>10. Fires(id, q.at)
   BY <2>3, <2>9 DEF Applied
 <2> QED BY <1>2, <2>3, <2>5, <2>7, <2>10
<1>3. CASE ~ OfChain(id, q, reply, rest, late)
 <2>1. OfOrphan(id, q, rest, late) /\ 1 \in DOMAIN orphan[id] /\ q = orphan[id][1]
   BY <1>3, SettlesChain
 <2>2. orphan[id] # <<>> /\ rest = chain[id]
   BY <2>1 DEF OfOrphan
 <2>3. id \notin Lists /\ q.op # "local"
   BY <2>1, <2>2 DEF BackendInv, Sessions
 <2>4. rest = <<>>
   BY <1>1, <2>2, <2>3
 <2>5. id \notin DOMAIN active'
   BY <2>3, SettlesRevisions DEF Lists
 <2>6. ~ Restarts(id, q, rest)
   BY <2>5 DEF Restarts
 <2>7. chain'[id] = rest
   BY <2>6 DEF RequestSettles, Finishes, Concludes, Ends
 <2> QED BY <1>3, <2>3, <2>4, <2>7
<1> QED BY <1>2, <1>3

LEMMA SettleKeepsLocal ==
  ASSUME TypeInv, TypeInv', BackendInv, FlightInv, LocalInv, NEW id \in AlertId, NEW q, NEW reply,
         NEW rest, NEW late, RequestSettles(id, q, reply, rest, late)
  PROVE  LocalInv'
<1>1. UNCHANGED <<disposed, candidates, tick, signedIn>>
  BY DEF RequestSettles
<1>2. /\ Lists' = Lists
      /\ \A x : x # id => (x \in DOMAIN active' <=> x \in DOMAIN active)
      /\ \A x \in DOMAIN active' : x # id => active'[x] = active[x]
  BY SettlesRevisions
<1>3. Rearm \in Nat /\ \A i \in DOMAIN notices : notices[i].at \in Nat \ {0}
  BY AlertConstants DEF FlightInv, InTime, TypeInv, MarketTypeOK
<1>4. LocalFlights'
 <2>1. SUFFICES ASSUME ~ signedIn, NEW x \in AlertId
                PROVE  IF x \in Lists THEN Settled(x)' \/ Settling(x)' ELSE chain'[x] = <<>>
   BY <1>1, <1>2 DEF LocalFlights
 <2>2. IF x \in Lists THEN Settled(x) \/ Settling(x) ELSE chain[x] = <<>>
   BY <2>1 DEF LocalInv, LocalFlights
 <2>3. CASE x # id
  <3>1. /\ waiting' = waiting \/ waiting' = Drop(waiting, {id})
        /\ flying' = flying \/ flying' = flying \ {id}
    BY DEF RequestSettles, Finishes, Concludes, Ends, Restarts
  <3>2. /\ x \in flying' <=> x \in flying
        /\ x \in DOMAIN waiting' <=> x \in DOMAIN waiting
        /\ x \in DOMAIN waiting' => waiting'[x] = waiting[x]
    BY <2>3, <3>1 DEF Drop
  <3>3. chain'[x] = chain[x]
    BY <2>3, SettlesChain
  <3> QED BY <1>1, <1>2, <2>2, <2>3, <3>2, <3>3 DEF Settled, Settling, Live, RearmBlocked
 <2>4. CASE x = id
   BY <2>1, <2>4, SettlesLocally DEF Settled, Lists
 <2> QED BY <2>3, <2>4
   (* A local notice of the alert was taken before the re-arm gap. *)
<1>5. ASSUME ~ signedIn, NEW i \in DOMAIN notices, notices[i].local, notices[i].id = id,
             id \in DOMAIN active, q.alert = active[id], notices[i].rev = active[id].rev,
             ~ RearmBlocked(active[id], q.at), q.at \in Nat
      PROVE  notices[i].recurring /\ active[id].recurring /\ q.at - notices[i].at >= Rearm
 <2>1. notices[i].recurring /\ active[id].recurring /\ notices[i].at <= active[id].firedAt
   BY <1>5 DEF LocalInv, LocalNotices
 <2>2. active[id].firedAt \in Nat
   BY <1>5, Listed DEF TypeInv, Alert
 <2>3. active[id].firedAt > 0
   BY <1>3, <2>1, <2>2
 <2>4. q.at - active[id].firedAt >= Rearm
   BY <1>3, <1>5, <2>1, <2>2, <2>3 DEF RearmBlocked
 <2>5. q.at - notices[i].at >= Rearm
   BY <1>3, <1>5, <2>1, <2>2, <2>4
 <2> QED BY <2>1, <2>5
<1>6. q \in AlertRequest /\ q.at \in Nat
  BY DEF RequestSettles, AlertRequest, AnyRequest
<1>7. notices' # notices =>
        /\ Event(id, q).id = id /\ Event(id, q).rev = q.alert.rev
        /\ Event(id, q).at = q.at /\ Event(id, q).local = (q.op = "local")
        /\ q.op = "local" => Event(id, q).recurring = q.alert.recurring
  BY SettlesNotices
<1>8. LocalNotices'
 <2>1. SUFFICES ASSUME ~ signedIn, NEW i \in DOMAIN notices', notices'[i].local,
                       notices'[i].id \in DOMAIN active',
                       active'[notices'[i].id].rev = notices'[i].rev
                PROVE  LET m == notices'[i] IN
                       m.recurring /\ active'[m.id].recurring /\ m.at <= active'[m.id].firedAt
   BY <1>1 DEF LocalNotices
 <2>2. CASE i \in DOMAIN notices /\ notices'[i] = notices[i] /\ notices[i].id # id
   BY <1>2, <2>1, <2>2 DEF LocalInv, LocalNotices
 <2>3. CASE i \in DOMAIN notices /\ notices'[i] = notices[i] /\ notices[i].id = id
  <3>1. id \in Lists
    BY <1>2, <2>1, <2>3 DEF Lists
  <3>2. /\ id \in DOMAIN active /\ q.alert = active[id] /\ ~ RearmBlocked(active[id], q.at)
        /\ Fires(id, q.at)
    BY <2>1, <3>1, SettlesLocally
  <3>3. active[id].recurring
    BY <2>1, <2>3, <3>2 DEF Fires
  <3>4. /\ active'[id].rev = active[id].rev /\ active'[id].firedAt = q.at
        /\ active'[id].recurring
    BY <3>2, <3>3 DEF Fires
  <3>5. notices[i].recurring /\ q.at - notices[i].at >= Rearm
    BY <1>5, <1>6, <2>1, <2>3, <3>2, <3>4
  <3>6. notices[i].at <= q.at
    BY <1>3, <1>6, <2>3, <3>5
  <3> QED BY <2>3, <3>4, <3>5, <3>6
 <2>4. CASE notices'[i] = Event(id, q) /\ notices' # notices
  <3>1. notices'[i].id = id /\ notices'[i].at = q.at
    BY <1>7, <2>4
  <3>2. id \in Lists
    BY <1>2, <2>1, <3>1 DEF Lists
  <3>3. /\ q.op = "local" /\ id \in DOMAIN active /\ q.alert = active[id] /\ Fires(id, q.at)
    BY <2>1, <3>2, SettlesLocally
  <3>4. active[id].recurring
    BY <2>1, <3>1, <3>3 DEF Fires
  <3>5. active'[id].recurring /\ active'[id].firedAt = q.at
    BY <3>3, <3>4 DEF Fires
  <3>6. notices'[i].recurring
    BY <1>7, <2>4, <3>3, <3>4
  <3>7. notices'[i].at <= active'[id].firedAt
    BY <1>6, <3>1, <3>5
  <3> QED BY <3>1, <3>5, <3>6, <3>7
 <2> QED BY <2>2, <2>3, <2>4, NoticeAdded
<1>9. LocalPairs'
 <2>1. SUFFICES ASSUME NEW i \in DOMAIN notices', NEW j \in DOMAIN notices', i < j,
                       SameArming(notices'[i], notices'[j]), notices'[i].local
                PROVE  notices'[i].recurring /\ notices'[j].at - notices'[i].at >= Rearm
   BY DEF LocalPairs, SameArming
 <2>2. /\ \/ i \in DOMAIN notices /\ notices'[i] = notices[i]
          \/ i = Len(notices) + 1
       /\ \/ j \in DOMAIN notices /\ notices'[j] = notices[j]
          \/ j = Len(notices) + 1 /\ notices'[j] = Event(id, q) /\ notices' # notices
   BY NoticeAdded
 <2>3. i \in DOMAIN notices /\ notices'[i] = notices[i]
  <3>1. notices \in Seq(AlertEvent)
    BY DEF TypeInv, BackendTypeOK
  <3> QED BY <2>1, <2>2, <3>1
 <2>4. CASE j \in DOMAIN notices /\ notices'[j] = notices[j]
   BY <2>1, <2>3, <2>4 DEF LocalInv, LocalPairs
 <2>5. CASE notices'[j] = Event(id, q) /\ notices' # notices
  <3>1. /\ notices[i].id = id /\ notices[i].rev = q.alert.rev /\ q.op = "local"
        /\ notices'[j].at = q.at
    BY <1>7, <2>1, <2>3, <2>5 DEF SameArming
  <3>2. ~ signedIn
    BY <3>1, SettlesOld DEF BackendInv, Sessions
  <3>3. /\ id \in DOMAIN active /\ q.alert = active[id] /\ ~ RearmBlocked(active[id], q.at)
    BY <3>1, <3>2, SettlesLocally
  <3>4. notices[i].recurring /\ q.at - notices[i].at >= Rearm
    BY <1>5, <1>6, <2>1, <2>3, <3>1, <3>2, <3>3
  <3> QED BY <2>3, <3>1, <3>4
 <2> QED BY <2>2, <2>4, <2>5
<1> QED BY <1>4, <1>8, <1>9 DEF LocalInv

(* A crossing with a session that is applied does not go back behind what   *)
(* was notified, unless that is recorded.                                   *)
LEMMA AppliedAhead ==
  ASSUME TypeInv, BackendInv, FlightInv, GapInv, NEW id \in AlertId, NEW q, NEW reply, NEW rest,
         NEW late, RequestSettles(id, q, reply, rest, late), NEW e, Applied(id, q, e),
         disturbed' = IF (late \/ Reconciles(q)) /\ MovesBack(id, e)
                      THEN disturbed \union {<<id, tick>>} ELSE disturbed,
         NEW i \in DOMAIN notices, Of(notices[i], id, q.alert.rev), notices[i].at <= active[id].firedAt
  PROVE  \/ notices[i].at <= e.at
         \/ \E t \in notices[i].at..tick : <<id, t>> \in disturbed'
<1>1. /\ notices[i] \in AlertEvent /\ notices[i].at \in 1..tick /\ tick \in Nat
      /\ notices[i] \in events
  BY DEF TypeInv, BackendTypeOK, MarketTypeOK, FlightInv, InTime, BackendInv, NotifiedIsCanonical,
         Of
<1>2. /\ id \in DOMAIN active /\ active[id].firedAt \in Nat /\ e.at \in Nat /\ q.at \in Nat
 <2>1. id \in DOMAIN active /\ e \in AlertEvent /\ q \in AlertRequest
   BY DEF Applied, RequestSettles
 <2> QED BY <2>1, Listed DEF TypeInv, Alert, AlertEvent, AlertRequest, AnyRequest
<1>3. CASE late \/ Reconciles(q)
 <2>1. CASE MovesBack(id, e)
  <3>1. <<id, tick>> \in disturbed' /\ tick \in notices[i].at..tick
    BY <1>1, <1>3, <2>1
  <3> QED BY <3>1
 <2>2. CASE ~ MovesBack(id, e)
   BY <1>1, <1>2, <2>2 DEF MovesBack
 <2> QED BY <2>1, <2>2
<1>4. CASE ~ late /\ ~ Reconciles(q)
 <2>1. OfChain(id, q, reply, rest, late)
   BY <1>4 DEF RequestSettles, OfOrphan
 <2>2. ~ Late(q) /\ 1 \in DOMAIN chain[id] /\ q = chain[id][1]
   BY <1>4, <2>1, SettlesChain DEF OfChain
 <2>3. q.op = "trigger"
  <3>1. id \in Lists
    BY <1>2 DEF Lists
  <3>2. ~ Unborn(id)
    BY <1>1 DEF Unborn, Of
  <3>3. signedIn
    BY <3>1, <3>2 DEF BackendInv, Sessions
  <3> QED BY <2>2, <3>3 DEF BackendInv, Sessions, Applied
 <2>4. Live(q)
  <3>1. q.entry # Nothing => q.entry \in Nat /\ disposed \in Nat
    BY DEF RequestSettles, AlertRequest, AnyRequest, TypeInv, EngineTypeOK
  <3> QED BY <1>4, <2>2, <2>3, <3>1 DEF Late, Live, Reconciles
 <2>5. notices[i].at <= q.at \/ Disturbed(id, notices[i].at, tick)
  <3>1. Apart(notices[i], id, q.at)
    BY <2>2, <2>4 DEF GapInv, FlyingApart
  <3>2. q.at <= tick
    BY <2>2, <2>4, <1>1 DEF FlightInv, InTime, Live
  <3>3. CASE q.at - notices[i].at >= Rearm
    BY <1>1, <1>2, <3>3, AlertConstants
  <3>4. CASE Disturbed(id, notices[i].at, q.at)
   <4>1. PICK t \in notices[i].at..q.at : <<id, t>> \in disturbed
     BY <3>4 DEF Disturbed
   <4>2. t \in notices[i].at..tick
     BY <1>1, <1>2, <3>2, <4>1
   <4> QED BY <4>1, <4>2 DEF Disturbed
  <3> QED BY <3>1, <3>3, <3>4 DEF Apart
 <2>6. CASE notices[i].at <= q.at
  <3>1. CASE e.at = q.at
    BY <2>6, <3>1
  <3>2. CASE e.at # q.at
   <4>1. /\ e \in events /\ e.id = id /\ e.rev = q.alert.rev
         /\ rows[id] # Nothing /\ rows[id].rev = q.alert.rev
         /\ rows[id].status = "triggered"
     BY <3>2 DEF Applied
   <4>2. ~ notices[i].recurring
     BY <1>1, <4>1 DEF BackendInv, EventsFit, Of
   <4>3. notices[i] = e
     BY <1>1, <4>1, <4>2 DEF BackendInv, OneTimeOnce, Of
   <4> QED BY <1>1, <4>3
  <3> QED BY <3>1, <3>2
 <2>7. CASE Disturbed(id, notices[i].at, tick)
  <3>1. disturbed \subseteq disturbed'
    OBVIOUS
  <3> QED BY <2>7, <3>1 DEF Disturbed
 <2> QED BY <2>5, <2>6, <2>7
<1> QED BY <1>3, <1>4

LEMMA SettleKeepsNext ==
  ASSUME TypeInv, TypeInv', BackendInv, FlightInv, GapInv, NEW id \in AlertId, NEW q, NEW reply,
         NEW rest, NEW late, RequestSettles(id, q, reply, rest, late)
  PROVE  NextApart'
<1>1. /\ \A x : x # id => (x \in DOMAIN active' <=> x \in DOMAIN active)
      /\ \A x \in DOMAIN active' : x # id => active'[x] = active[x]
      /\ disturbed \subseteq disturbed' /\ tick' = tick
  BY SettlesRevisions DEF RequestSettles
<1>2. SUFFICES ASSUME NEW i \in DOMAIN notices', NEW x \in DOMAIN active',
                      Of(notices'[i], x, active'[x].rev), active'[x].enabled
               PROVE  \/ active'[x].recurring /\ notices'[i].at <= active'[x].firedAt
                      \/ \E t \in notices'[i].at..tick : <<x, t>> \in disturbed'
  BY <1>1 DEF NextApart, Behindhand, Of, Disturbed
<1>3. notices' # notices =>
        /\ Event(id, q).id = id /\ Event(id, q).rev = q.alert.rev
        /\ Event(id, q).at = q.at /\ Event(id, q).local = (q.op = "local")
        /\ reply = "ok" /\ Reply(id, q) = "ok" /\ q.op \in {"trigger", "local"}
  BY SettlesNotices
<1>4. CASE x # id
 <2>1. i \in DOMAIN notices /\ notices'[i] = notices[i]
  <3>1. notices'[i].id = x
    BY <1>2 DEF Of
  <3> QED BY <1>3, <1>4, <3>1, NoticeAdded
 <2>2. Behindhand(notices[i], x)
   BY <1>1, <1>2, <1>4, <2>1 DEF GapInv, NextApart
 <2> QED BY <1>1, <1>4, <2>1, <2>2 DEF Behindhand, Disturbed
<1>5. CASE x = id /\ UNCHANGED active /\ ~ Applies(id, q, reply)
 <2>1. i \in DOMAIN notices /\ notices'[i] = notices[i]
  <3>1. CASE notices'[i] = Event(id, q) /\ notices' # notices
   <4>1. active[id].rev = q.alert.rev
     BY <1>2, <1>3, <1>5, <3>1 DEF Of
   <4>2. Applies(id, q, reply)
     BY <1>2, <1>3, <1>5, <3>1, <4>1 DEF Applies, StillArmed
   <4> QED BY <1>5, <4>2
  <3> QED BY <3>1, NoticeAdded
 <2>2. Behindhand(notices[i], id)
   BY <1>2, <1>5, <2>1 DEF GapInv, NextApart
 <2> QED BY <1>1, <1>5, <2>1, <2>2 DEF Behindhand, Disturbed
<1>6. ASSUME x = id, NEW e, Applied(id, q, e),
             disturbed' = IF (late \/ Reconciles(q)) /\ MovesBack(id, e)
                          THEN disturbed \union {<<id, tick>>} ELSE disturbed
      PROVE  \/ active'[x].recurring /\ notices'[i].at <= active'[x].firedAt
             \/ \E t \in notices'[i].at..tick : <<x, t>> \in disturbed'
 <2>1. /\ id \in DOMAIN active /\ active[id].enabled /\ active[id].rev = q.alert.rev
       /\ Fires(id, e.at)
   BY <1>6 DEF Applied, StillArmed
 <2>2. active[id].recurring
   BY <1>2, <1>6, <2>1 DEF Fires
 <2>3. /\ active'[id].recurring /\ active'[id].rev = q.alert.rev
       /\ active'[id].firedAt = e.at
   BY <2>1, <2>2 DEF Fires
 <2>4. CASE i \in DOMAIN notices /\ notices'[i] = notices[i]
  <3>1. Of(notices[i], id, active[id].rev)
    BY <1>2, <1>6, <2>1, <2>3, <2>4 DEF Of
  <3>2. Behindhand(notices[i], id)
    BY <2>1, <2>4, <3>1 DEF GapInv, NextApart
  <3>3. CASE notices[i].at <= active[id].firedAt
   <4>1. \/ notices[i].at <= e.at
         \/ \E t \in notices[i].at..tick : <<id, t>> \in disturbed'
     BY <1>6, <2>1, <2>4, <3>1, <3>3, AppliedAhead
   <4> QED BY <1>6, <2>3, <2>4, <4>1
  <3>4. CASE Disturbed(id, notices[i].at, tick)
    BY <1>1, <1>6, <2>4, <3>4 DEF Disturbed
  <3> QED BY <3>2, <3>3, <3>4 DEF Behindhand
 <2>5. CASE notices'[i] = Event(id, q) /\ notices' # notices
  <3>1. e.at = q.at /\ notices'[i].at = q.at
    BY <1>3, <1>6, <2>5 DEF Applied
  <3>2. q.at \in Nat
    BY DEF RequestSettles, AlertRequest, AnyRequest
  <3> QED BY <1>6, <2>3, <3>1, <3>2
 <2> QED BY <2>4, <2>5, NoticeAdded
<1>7. \/ UNCHANGED active /\ ~ Applies(id, q, reply)
      \/ \E e : /\ Applied(id, q, e)
                /\ disturbed' = IF (late \/ Reconciles(q)) /\ MovesBack(id, e)
                                THEN disturbed \union {<<id, tick>>} ELSE disturbed
  BY DEF RequestSettles, ListsSettle
<1> QED BY <1>4, <1>5, <1>6, <1>7

LEMMA SettleKeepsGap ==
  ASSUME TypeInv, TypeInv', BackendInv, FlightInv, GapInv, NEW id \in AlertId, NEW q, NEW reply,
         NEW rest, NEW late, RequestSettles(id, q, reply, rest, late)
  PROVE  GapInv'
<1>1. UNCHANGED <<disposed, candidates, tick, signedIn>>
  BY DEF RequestSettles
<1>2. disturbed \subseteq disturbed'
  BY SettlesRevisions
<1>3. \A r : Live(r)' = Live(r)
  BY <1>1 DEF Live
<1>4. notices' # notices =>
        /\ Event(id, q).id = id /\ Event(id, q).rev = q.alert.rev
        /\ Event(id, q).at = q.at /\ Event(id, q).local = (q.op = "local")
        /\ Live(q) /\ q.op \in {"trigger", "local"}
  BY SettlesNotices
<1>5. notices' # notices => waiting' = Drop(waiting, {id}) /\ chain'[id] = rest
  BY DEF RequestSettles, Finishes, Concludes, Ends
<1>6. DOMAIN waiting' \subseteq DOMAIN waiting /\ \A x \in DOMAIN waiting' : waiting'[x] = waiting[x]
 <2>1. waiting' = waiting \/ waiting' = Drop(waiting, {id})
   BY DEF RequestSettles, Finishes, Concludes, Ends, Restarts
 <2> QED BY <2>1 DEF Drop
<1>7. ASSUME NEW i \in DOMAIN notices, NEW x, NEW at, Apart(notices[i], x, at)
      PROVE  \/ at - notices[i].at >= Rearm
             \/ \E t \in notices[i].at..at : <<x, t>> \in disturbed'
  BY <1>2, <1>7 DEF Apart, Disturbed
<1>8. NextApart'
  BY SettleKeepsNext
<1>9. WaitingApart'
 <2>1. SUFFICES ASSUME NEW i \in DOMAIN notices', NEW x \in DOMAIN waiting',
                       Of(notices'[i], x, waiting'[x].rev)
                PROVE  \/ waiting'[x].at - notices'[i].at >= Rearm
                       \/ \E t \in notices'[i].at..waiting'[x].at : <<x, t>> \in disturbed'
   BY DEF WaitingApart, Apart, Of, Disturbed
 <2>2. i \in DOMAIN notices /\ notices'[i] = notices[i]
  <3>1. CASE notices'[i] = Event(id, q) /\ notices' # notices
   <4>1. x = id
     BY <1>4, <2>1, <3>1 DEF Of
   <4>2. id \notin DOMAIN waiting'
     BY <1>5, <3>1 DEF Drop
   <4> QED BY <2>1, <4>1, <4>2
  <3> QED BY <3>1, NoticeAdded
 <2>3. Apart(notices[i], x, waiting[x].at)
   BY <1>6, <2>1, <2>2 DEF GapInv, WaitingApart
 <2> QED BY <1>6, <1>7, <2>2, <2>3
<1>10. FlyingApart'
 <2>1. ASSUME NEW i \in DOMAIN notices', NEW x \in AlertId, NEW k \in DOMAIN chain'[x],
              Live(chain'[x][k]), Of(notices'[i], x, chain'[x][k].alert.rev)
       PROVE  \/ chain'[x][k].at - notices'[i].at >= Rearm
              \/ \E t \in notices'[i].at..chain'[x][k].at : <<x, t>> \in disturbed'
  <3>1. i \in DOMAIN notices /\ notices'[i] = notices[i]
   <4>1. CASE notices'[i] = Event(id, q) /\ notices' # notices
    <5>1. x = id /\ Live(q) /\ chain'[id] = rest
      BY <1>4, <1>5, <2>1, <4>1 DEF Of
    <5>2. ~ Live(rest[k])
      BY <2>1, <5>1, SettlesLive
    <5> QED BY <2>1, <5>1, <5>2
   <4> QED BY <4>1, NoticeAdded
  <3>2. Apart(notices[i], x, chain'[x][k].at)
   <4>1. CASE \E j \in DOMAIN chain[x] : chain[x][j] = chain'[x][k]
     BY <2>1, <3>1, <4>1 DEF GapInv, FlyingApart
   <4>2. CASE x = id /\ Resends(id, q, rest, chain'[id][k])
     BY <2>1, <3>1, <4>2 DEF Resends, Restarts, GapInv, WaitingApart
   <4> QED BY <4>1, <4>2, SettlesOld
  <3> QED BY <1>7, <3>1, <3>2
 <2>2. ASSUME NEW i \in DOMAIN notices', NEW x \in AlertId, NEW k \in DOMAIN orphan'[x],
              Live(orphan'[x][k]), Of(notices'[i], x, orphan'[x][k].alert.rev)
       PROVE  \/ orphan'[x][k].at - notices'[i].at >= Rearm
              \/ \E t \in notices'[i].at..orphan'[x][k].at : <<x, t>> \in disturbed'
  <3>1. i \in DOMAIN notices /\ notices'[i] = notices[i]
   <4>1. CASE notices'[i] = Event(id, q) /\ notices' # notices
    <5>1. x = id /\ Live(q)
      BY <1>4, <2>2, <4>1 DEF Of
    <5>2. ~ Live(orphan'[id][k])
      BY <2>2, <5>1, SettlesLive
    <5> QED BY <2>2, <5>1, <5>2
   <4> QED BY <4>1, NoticeAdded
  <3>2. Apart(notices[i], x, orphan'[x][k].at)
   <4>1. \E j \in DOMAIN orphan[x] : orphan[x][j] = orphan'[x][k]
     BY SettlesOld
   <4> QED BY <2>2, <3>1, <4>1 DEF GapInv, FlyingApart
  <3> QED BY <1>7, <3>1, <3>2
 <2> QED BY <1>1, <1>3, <2>1, <2>2 DEF FlyingApart, Of, Apart, Disturbed, Live
<1>11. PairsApart'
 <2>1. SUFFICES ASSUME NEW i \in DOMAIN notices', NEW j \in DOMAIN notices', i < j,
                       SameArming(notices'[i], notices'[j]), ~ notices'[i].local
                PROVE  \/ notices'[j].at - notices'[i].at >= Rearm
                       \/ \E t \in notices'[i].at..notices'[j].at :
                             <<notices'[i].id, t>> \in disturbed'
   BY DEF PairsApart, Apart, SameArming, Disturbed
 <2>2. i \in DOMAIN notices /\ notices'[i] = notices[i]
  <3>1. notices \in Seq(AlertEvent)
    BY DEF TypeInv, BackendTypeOK
  <3>2. /\ i \in DOMAIN notices \/ i = Len(notices) + 1
        /\ j \in DOMAIN notices \/ j = Len(notices) + 1
    BY NoticeAdded
  <3>3. i \in DOMAIN notices /\ i # Len(notices) + 1
    BY <2>1, <3>1, <3>2
  <3> QED BY <3>3, NoticeAdded
 <2>3. Apart(notices[i], notices[i].id, notices'[j].at)
  <3>1. CASE j \in DOMAIN notices /\ notices'[j] = notices[j]
    BY <2>1, <2>2, <3>1 DEF GapInv, PairsApart
  <3>2. CASE notices'[j] = Event(id, q) /\ notices' # notices
   <4>1. /\ Of(notices[i], id, q.alert.rev) /\ notices'[j].at = q.at /\ notices[i].id = id
         /\ Live(q)
     BY <1>4, <2>1, <2>2, <3>2 DEF SameArming, Of
   <4>2. Apart(notices[i], id, q.at)
    <5>1. CASE \E k \in DOMAIN chain[id] : chain[id][k] = q
     <6>1. PICK k \in DOMAIN chain[id] : chain[id][k] = q
       BY <5>1
     <6>2. Live(chain[id][k]) /\ Of(notices[i], id, chain[id][k].alert.rev)
       BY <4>1, <6>1
     <6>3. Apart(notices[i], id, chain[id][k].at)
       BY <2>2, <6>2 DEF GapInv, FlyingApart
     <6> QED BY <6>1, <6>3
    <5>2. CASE \E k \in DOMAIN orphan[id] : orphan[id][k] = q
     <6>1. PICK k \in DOMAIN orphan[id] : orphan[id][k] = q
       BY <5>2
     <6>2. Live(orphan[id][k]) /\ Of(notices[i], id, orphan[id][k].alert.rev)
       BY <4>1, <6>1
     <6>3. Apart(notices[i], id, orphan[id][k].at)
       BY <2>2, <6>2 DEF GapInv, FlyingApart
     <6> QED BY <6>1, <6>3
    <5> QED BY <5>1, <5>2, SettlesOld
   <4> QED BY <4>1, <4>2
  <3> QED BY <3>1, <3>2, NoticeAdded
 <2> QED BY <1>7, <2>2, <2>3
<1> QED BY <1>8, <1>9, <1>10, <1>11 DEF GapInv

-----------------------------------------------------------------------------
(* The invariant.                                                          *)

LEMMA AlertsInvInit ==
  ASSUME AlertsInit
  PROVE  AlertsInv
<1>1. /\ active = None /\ triggered = None /\ expired = None
      /\ signedIn \in BOOLEAN /\ prevPrice = Nothing /\ tick = 0 /\ price = Nothing
      /\ waiting = None /\ flying = {} /\ retryTimer = {} /\ disposed = 0
      /\ chain = [id \in AlertId |-> <<>>] /\ orphan = chain
      /\ rows = [id \in AlertId |-> Nothing] /\ events = {} /\ cleared = {}
      /\ notices = <<>> /\ candidates = 0
  BY DEF AlertsInit
<1>2. /\ None \in Partially(AlertId, Alert) /\ None \in Partially(AlertId, Crossing)
      /\ DOMAIN None = {}
  BY NonePartial
<1>3. /\ <<>> \in Seq(AlertRequest) /\ <<>> \in Seq(AlertEvent)
      /\ DOMAIN notices = {} /\ \A id \in AlertId : chain[id] = <<>> /\ orphan[id] = <<>>
  BY <1>1
<1>4. \A id \in AlertId : DOMAIN chain[id] = {} /\ DOMAIN orphan[id] = {}
  BY <1>3
<1>5. TypeInv
  BY <1>1, <1>2, <1>3 DEF TypeInv, ListsTypeOK, EngineTypeOK, ChainsTypeOK, MarketTypeOK,
                          BackendTypeOK, Quote
<1>6. Lists = {}
  BY <1>1, <1>2 DEF Lists
<1>7. BackendInv
  BY <1>1, <1>3, <1>4, <1>6 DEF BackendInv, CreationsLead, Sessions, EventsFit, OneTimeOnce,
                                NotifiedIsCanonical, CrossingsOnce
<1>8. FlightInv
  BY <1>1, <1>2, <1>3, <1>4 DEF FlightInv, Disjoint, RevisionsGrow, OneLive, InTime
<1>9. LocalInv
  BY <1>3, <1>6 DEF LocalInv, LocalFlights, LocalNotices, LocalPairs
<1>10. GapInv
  BY <1>1, <1>2, <1>3, <1>4 DEF GapInv, NextApart, WaitingApart, FlyingApart, PairsApart
<1> QED BY <1>5, <1>7, <1>8, <1>9, <1>10 DEF AlertsInv

LEMMA QuietKeeps ==
  ASSUME AlertsInv, TypeInv', BackendInv', Quiet,
         Idle \/ UNCHANGED <<active, triggered, expired>>
  PROVE  AlertsInv'
BY QuietKeepsFlight, QuietKeepsLocal, QuietKeepsGap DEF AlertsInv

LEMMA PassKeeps ==
  ASSUME AlertsInv, TypeInv', NEW now, NEW p, NEW dead, NEW held, NEW inAir, NEW new,
         Passes(now, p, dead, held, inAir, new)
  PROVE  AlertsInv'
<1>1. Disjoint
  BY DEF AlertsInv, FlightInv
<1> QED BY <1>1, PassKeepsBackend, PassKeepsFlight, PassKeepsLocal, PassKeepsGap DEF AlertsInv

LEMMA SettleKeeps ==
  ASSUME AlertsInv, NEW id \in AlertId,
         RequestSucceeds(id) \/ RequestFails(id) \/ OrphanSettles(id)
  PROVE  AlertsInv'
<1>1. /\ TypeInv'
      /\ \E q, reply, rest, late : RequestSettles(id, q, reply, rest, late)
  BY RequestSettlesTyped DEF AlertsInv, BackendInv
<1>2. PICK q, reply, rest, late : RequestSettles(id, q, reply, rest, late)
  BY <1>1
<1> QED BY <1>1, <1>2, SettleKeepsBackend, SettleKeepsFlight, SettleKeepsLocal, SettleKeepsGap
        DEF AlertsInv

LEMMA AlertsInvNext ==
  ASSUME AlertsInv, [AlertsNext]_alertsVars
  PROVE  AlertsInv'
<1> USE DEF AlertsInv
<1>1. Disjoint /\ Sessions
  BY DEF FlightInv, BackendInv
<1>2. ASSUME NEW id \in AlertId, NEW k \in Kind, CreateAlert(id, k)
      PROVE  AlertsInv'
  BY <1>1, <1>2, CreateTyped, CreateQuiet, QuietKeeps DEF CreateAlert, Mutation
<1>3. ASSUME NEW id \in AlertId, NEW copy \in AlertId, DuplicateAlert(id, copy)
      PROVE  AlertsInv'
  BY <1>1, <1>3, DuplicateTyped, DuplicateQuiet, QuietKeeps DEF DuplicateAlert, Mutation
<1>4. ASSUME NEW id \in AlertId, id \in Lists, NEW patch \in Patches(Find(id)),
             UpdateAlert(id, patch)
      PROVE  AlertsInv'
  BY <1>1, <1>4, UpdateTyped, UpdateQuiet, QuietKeeps DEF UpdateAlert, Mutation
<1>5. ASSUME NEW id \in AlertId, ResetAlert(id)
      PROVE  AlertsInv'
  BY <1>1, <1>5, ResetTyped, ResetQuiet, QuietKeeps DEF ResetAlert, Mutation
<1>6. ASSUME NEW ids, ids \subseteq Lists, Remove(ids)
      PROVE  AlertsInv'
  BY <1>1, <1>6, RemoveTyped, RemoveQuiet, QuietKeeps DEF Remove, Mutation
<1>7. CASE ClearLists
 <2>1. PICK ids : ids \subseteq Lists /\ Remove(ids)
   BY <1>7 DEF ClearLists, Lists
 <2> QED BY <1>6, <2>1
<1>8. CASE ClearHistory \/ ClearRemoteHistory
  BY <1>1, <1>8, ClearsTyped, ClearsQuiet, QuietKeeps
<1>9. CASE EngineRestarts
 <2>1. TypeInv' /\ \E p, new : Passes(tick, p, {}, None, {}, new)
   BY <1>9, EngineRestartsPasses
 <2>2. PICK p, new : Passes(tick, p, {}, None, {}, new)
   BY <2>1
 <2> QED BY <2>1, <2>2, PassKeeps
<1>10. CASE SignIn
  BY <1>1, <1>10, SignInTyped, SignInKeepsBackend, SignInKeepsFlight, SignInKeepsLocal,
     SignInKeepsGap
<1>11. CASE SignOut
  BY <1>11, SignOutTyped, SignOutKeepsBackend, SignOutKeepsRest
<1>12. ASSUME NEW id \in AlertId,
              RequestSucceeds(id) \/ RequestFails(id) \/ OrphanSettles(id)
       PROVE  AlertsInv'
  BY <1>12, SettleKeeps
<1>13. ASSUME NEW id \in AlertId, RetryDue(id)
       PROVE  AlertsInv'
  BY <1>13, RetryTyped, RetryKeepsBackend, RetryKeepsFlight, RetryKeepsLocal, RetryKeepsGap
<1>14. ASSUME NEW id \in AlertId, Reconcile(id)
       PROVE  AlertsInv'
  BY <1>1, <1>14, ReconcileTyped, ReconcileQuiet, QuietKeeps
<1>15. ASSUME NEW p \in Price, NEW dead, Tick(p, dead)
       PROVE  AlertsInv'
 <2>1. TypeInv' /\ \E new : Passes(tick + 1, p, dead, waiting, flying, new)
   BY <1>15, TickPasses
 <2>2. PICK new : Passes(tick + 1, p, dead, waiting, flying, new)
   BY <2>1
 <2> QED BY <2>1, <2>2, PassKeeps
<1>16. ASSUME NEW id \in AlertId, NEW before \in Price \union {Nothing}, WorkerTrigger(id, before)
       PROVE  AlertsInv'
  BY <1>1, <1>16, WorkerTyped, WorkerQuiet, QuietKeeps
<1>17. CASE UNCHANGED alertsVars
 <2>1. UNCHANGED <<active, triggered, expired, chain, notices, waiting, flying, orphan, tick,
                   candidates, disposed, signedIn, disturbed, rows, events, cleared>>
   BY <1>17 DEF alertsVars, listVars, engineVars, syncVars, marketVars, historyVars, backendVars
 <2>2. TypeInv'
   BY <1>17 DEF TypeInv, ListsTypeOK, EngineTypeOK, ChainsTypeOK, MarketTypeOK, BackendTypeOK,
                alertsVars, listVars, engineVars, syncVars, marketVars, historyVars, backendVars
 <2>3. \A x \in AlertId : Queues(x) /\ Grows(x)
   BY <2>1 DEF Queues, Grows
 <2>4. Quiet /\ Lists' = Lists
   BY <1>1, <2>1, <2>3, StillQuiet
 <2>5. BackendInv'
   BY <2>1, <2>3, <2>4, GrowsKeepsBackend
 <2> QED BY <2>1, <2>2, <2>4, <2>5, QuietKeeps
<1>18. CASE UserChanges
 <2>1. ASSUME NEW id \in AlertId, DeleteAlert(id)
       PROVE  AlertsInv'
  <3>1. {id} \subseteq Lists /\ Remove({id})
    BY <2>1 DEF DeleteAlert
  <3> QED BY <1>6, <3>1
 <2> QED BY <1>2, <1>3, <1>4, <1>5, <1>7, <1>8, <1>9, <1>10, <1>11, <1>18, <2>1 DEF UserChanges
<1>19. CASE AlertsSync
  BY <1>8, <1>12, <1>13, <1>14, <1>19 DEF AlertsSync
<1> QED BY <1>12, <1>15, <1>16, <1>17, <1>18, <1>19 DEF AlertsNext

(* browserAlertTriggerQueue.ts 35-40, alertStore.ts 595-598: an accepted    *)
(* crossing is notified once, for every set of alerts, every bound and      *)
(* whatever retries, restarts of the engine, worker commits, sign-outs and  *)
(* lost replies do; a recurring one is notified within its gap only after a *)
(* disturbance: a re-enable, a late request or a reconciliation that wrote  *)
(* an earlier firing time, or a sign-in that read one.                      *)
THEOREM OneNotice == AlertsSpec => []NotifiedOnce
<1>1. AlertsInit => AlertsInv
  BY AlertsInvInit
<1>2. AlertsInv /\ [AlertsNext]_alertsVars => AlertsInv'
  BY AlertsInvNext
<1>3. AlertsInv => NotifiedOnce
 <2>1. SUFFICES ASSUME AlertsInv, NEW i \in DOMAIN notices, NEW j \in DOMAIN notices, i < j,
                       SameArming(notices[i], notices[j])
                PROVE  LET m == notices[i]
                           n == notices[j]
                       IN
                       /\ m.recurring
                       /\ m.at = n.at => ~ m.local /\ m \in cleared
                       /\ \/ n.at - m.at >= Rearm
                          \/ ~ m.local /\ Disturbed(m.id, m.at, n.at)
   BY DEF NotifiedOnce
 <2>2. CASE notices[i].local
  <3>1. notices[i].recurring /\ notices[j].at - notices[i].at >= Rearm
    BY <2>1, <2>2 DEF AlertsInv, LocalInv, LocalPairs
  <3>2. notices[i].at \in Nat /\ notices[j].at \in Nat /\ Rearm \in Nat \ {0}
    BY <2>1, AlertConstants DEF AlertsInv, FlightInv, InTime, TypeInv, MarketTypeOK
  <3>3. notices[i].at # notices[j].at
    BY <3>1, <3>2
  <3> QED BY <3>1, <3>3
 <2>3. CASE ~ notices[i].local
  <3>1. /\ notices[i].recurring
        /\ notices[i].at = notices[j].at => notices[i] \in cleared
    BY <2>1, <2>3 DEF AlertsInv, BackendInv, CrossingsOnce
  <3>2. Apart(notices[i], notices[i].id, notices[j].at)
    BY <2>1, <2>3 DEF AlertsInv, GapInv, PairsApart
  <3> QED BY <2>3, <3>1, <3>2 DEF Apart
 <2> QED BY <2>2, <2>3
<1> QED BY <1>1, <1>2, <1>3, PTL DEF AlertsSpec

(* persist before notify: what the browser notified with a session is an    *)
(* event the backend committed.                                             *)
THEOREM NoticesAreCommitted == AlertsSpec => []NotifiedIsCanonical
<1>1. AlertsInit => AlertsInv
  BY AlertsInvInit
<1>2. AlertsInv /\ [AlertsNext]_alertsVars => AlertsInv'
  BY AlertsInvNext
<1>3. AlertsInv => NotifiedIsCanonical
  BY DEF AlertsInv, BackendInv
<1> QED BY <1>1, <1>2, <1>3, PTL DEF AlertsSpec

------------------------------------------------------------------------------
(***************************************************************************)
(* PushEvaluator: one instance that does not die, canonical listings that  *)
(* answer, no edits.  Then nothing but the instance writes the device, and *)
(* what is kept of the alert says which crossings may still be sent: those *)
(* behind its cursor, the one it could not commit, and the channels that a *)
(* delivery still owes.                                                    *)
(***************************************************************************)
Regime ==
  /\ Cardinality(Worker) = 1 /\ editions = 0 /\ mishaps \subseteq {"send", "request", "price"}

SentBy(t) == \A k \in DOMAIN sent : k.at <= t
NotSent(t) == \A k \in DOMAIN sent : k.at # t
Recorded(t) == row.active => [rev |-> 1, at |-> t] \in committed
OwesRightly(o) ==
  /\ o \in Deliveries /\ o.rev = 1 /\ o.at > 0 /\ Recorded(o.at)
  /\ \A k \in DOMAIN sent : k.at = o.at => k.chan \notin o.chans
StateOK(s) ==
  s # Nothing =>
    /\ s \in States /\ s.sig = 1
    /\ s.firedAt <= s.cursor /\ s.try <= s.cursor /\ s.cursor <= time
    /\ SentBy(s.cursor)
    /\ s.try > 0 => s.owed = Nothing /\ NotSent(s.try)
    /\ s.owed # Nothing => s.owed.at <= s.cursor /\ OwesRightly(s.owed)

Alone ==
  /\ local \in Definitions /\ local.rev = 1
  /\ device = [def |-> local, state |-> device.state]
  /\ syncing = Nothing
  /\ row \in [rev : {1}, recurring : BOOLEAN, since : {0}, active : BOOLEAN]
Market ==
  /\ time \in Nat /\ hits \subseteq 1..time
  /\ committed \subseteq [rev : {1}, at : 0..time]
SentOK ==
  \A k \in DOMAIN sent :
    /\ k \in [rev : {1}, at : Nat, chan : Channel] /\ k.at > 0 /\ k.at <= time
    /\ Recorded(k.at) /\ sent[k] = 1

HasRead(v) ==
  /\ v.snap = device /\ StateOK(device.state)
  /\ v.def # Nothing => v.def \in Definitions /\ v.def.rev = 1
Judging(v) ==
  /\ HasRead(v)
  /\ v.through \in Nat /\ v.through <= time
  /\ device.state # Nothing => device.state.cursor <= v.through
  /\ v.def # Nothing => v.def.since = 0 /\ v.def.firedAt <= v.through /\ SentBy(v.def.firedAt)
  /\ v.def = Nothing => Owed(device.state) # Nothing
Carrying(v) ==
  /\ HasRead(v) /\ v.def # Nothing
  /\ v.base \in States /\ v.base.sig = 1 /\ v.base.owed = Nothing
  /\ v.base.firedAt <= v.base.cursor /\ v.base.cursor <= time /\ SentBy(v.base.cursor)
  /\ v.candidate \in Nat /\ v.candidate > 0 /\ v.candidate <= v.base.cursor /\ NotSent(v.candidate)
  /\ Owed(device.state) = Nothing
  /\ device.state # Nothing => device.state.cursor <= v.base.cursor
Announcing(v) ==
  /\ Carrying(v) /\ v.kept = FALSE /\ Recorded(v.candidate)
  /\ v.owed \in Deliveries /\ v.owed.rev = 1 /\ v.owed.at = v.candidate
Repeating(v) ==
  /\ HasRead(v) /\ v.kept = TRUE
  /\ Owed(device.state) # Nothing /\ v.base = device.state /\ v.owed = Owed(device.state)
Writes(v) ==
  v.base = device /\ StateOK(MergeEvaluatorState(device, v.patch))
Doing(v) ==
  \/ v.at = "idle" /\ StateOK(device.state)
  \/ v.at = "judge" /\ Judging(v)
  \/ v.at = "commit" /\ Carrying(v)
  \/ v.at = "deliver" /\ (Announcing(v) \/ Repeating(v))
  \/ v.at = "write" /\ Writes(v)
Pushing(w) ==
  /\ Worker = {w} /\ current \subseteq {w} /\ DOMAIN doing = Worker
  /\ doing[w].at # "idle" => w \in current
  /\ Doing(doing[w])
Undisturbed == Alone /\ Market /\ SentOK /\ \A w \in Worker : Pushing(w)
PushInv == editions \in Nat /\ (Regime => Undisturbed)

-----------------------------------------------------------------------------
LEMMA LargestOf ==
  ASSUME NEW T, NEW a \in Nat, a \in T, \A x \in T : x \in Nat /\ x <= a
  PROVE  Largest(T) = a
<1>1. \E n \in T : \A m \in T : m <= n
  OBVIOUS
<1>2. Largest(T) \in T /\ \A m \in T : m <= Largest(T)
  BY <1>1 DEF Largest
<1>3. Largest(T) \in Nat /\ Largest(T) <= a /\ a <= Largest(T)
  BY <1>2
<1> HIDE DEF Largest
<1> QED BY <1>3

LEMMA CursorIs ==
  ASSUME NEW s \in States, s.firedAt <= s.cursor, s.try <= s.cursor,
         s.owed # Nothing => s.owed.at <= s.cursor
  PROVE  PushAlertStateCursor(s) = s.cursor
<1> DEFINE o == IF s.owed = Nothing THEN 0 ELSE s.owed.at
           T == {s.cursor, s.firedAt, s.try, o}
<1>1. s.cursor \in Nat /\ s.firedAt \in Nat /\ s.try \in Nat /\ s # Nothing
  BY PushConstants DEF States
<1>2. o \in Nat /\ o <= s.cursor
 <2>1. CASE s.owed = Nothing
   BY <1>1, <2>1
 <2>2. CASE s.owed # Nothing
  <3>1. s.owed \in Deliveries
    BY <2>2 DEF States
  <3>2. s.owed.at \in Nat
    BY <3>1 DEF Deliveries
  <3> QED BY <2>2, <3>2
 <2> QED BY <2>1, <2>2
<1>3. s.cursor \in T /\ \A x \in T : x \in Nat /\ x <= s.cursor
  BY <1>1, <1>2
<1>4. PushAlertStateCursor(s) = Largest(T)
  BY <1>1 DEF PushAlertStateCursor
<1> HIDE DEF T
<1> QED BY <1>1, <1>3, <1>4, LargestOf

LEMMA MergeIncomingIs ==
  ASSUME NEW d, NEW p, d.def # Nothing, d.def.rev = 1, p.state # Nothing, p.state.sig = 1,
         p.sig = 1, d.state # Nothing => d.state.sig = 1,
         d.state # Nothing => PushAlertStateCursor(p.state) >= PushAlertStateCursor(d.state)
  PROVE  MergeIncoming(d, p)
           = IF d.state = Nothing THEN p.state
             ELSE [p.state EXCEPT !.owed =
                     IF SameEvent(Owed(d.state), Owed(p.state))
                     THEN MergeMatchingDeliveryProgress(d.state.owed, p.state.owed)
                     ELSE p.state.owed]
<1>1. Expected(d) = 1
  BY DEF Expected
<1>2. CASE d.state = Nothing
  BY <1>1, <1>2 DEF MergeIncoming
<1>3. CASE d.state # Nothing
  BY <1>1, <1>3 DEF MergeIncoming
<1> QED BY <1>2, <1>3

(* What an instance keeps without ending a delivery is what is stored. *)
LEMMA MergeKeeps ==
  ASSUME NEW d, NEW p, d.def # Nothing, d.def.rev = 1, p.sig = 1, p.removed = Nothing,
         p.state \in States, p.state.sig = 1,
         d.state # Nothing => d.state.sig = 1 /\ d.state.owed = Nothing,
         d.state # Nothing => PushAlertStateCursor(p.state) >= PushAlertStateCursor(d.state)
  PROVE  MergeEvaluatorState(d, p) = p.state
<1>1. p.state # Nothing
  BY PushConstants
<1>2. MergeIncoming(d, p) = p.state
 <2>1. CASE d.state = Nothing
   BY <1>1, <2>1, MergeIncomingIs
 <2>2. CASE d.state # Nothing
  <3>1. ~ SameEvent(Owed(d.state), Owed(p.state))
    BY <2>2 DEF SameEvent, Owed
  <3>2. MergeIncoming(d, p) = [p.state EXCEPT !.owed = p.state.owed]
    BY <1>1, <2>2, <3>1, MergeIncomingIs
  <3>3. [p.state EXCEPT !.owed = p.state.owed] = p.state
    BY DEF States
  <3> QED BY <3>2, <3>3
 <2> QED BY <2>1, <2>2
<1> QED BY <1>2 DEF MergeEvaluatorState

(* The channels that failed stay owed, and no others. *)
LEMMA MergeOwes ==
  ASSUME NEW d, NEW p, NEW left, d.def # Nothing, d.def.rev = 1, p.sig = 1, p.removed = Nothing,
         d.state \in States, d.state.sig = 1, d.state.owed # Nothing, left \subseteq d.state.owed.chans,
         p.state = [d.state EXCEPT !.owed = [d.state.owed EXCEPT !.chans = left]],
         PushAlertStateCursor(p.state) = PushAlertStateCursor(d.state), PushAlertStateCursor(d.state) \in Nat
  PROVE  MergeEvaluatorState(d, p) = p.state
<1> DEFINE o == d.state.owed
           r == [o EXCEPT !.chans = left]
<1>1. o \in Deliveries /\ d.state # Nothing
  BY PushConstants DEF States
<1>2. r \in Deliveries /\ r.rev = o.rev /\ r.at = o.at /\ r.chans = left
  BY <1>1 DEF Deliveries
<1>3. r # Nothing
  BY <1>2, PushConstants
<1>4. p.state \in States /\ p.state.sig = 1 /\ p.state.owed = r
 <2> DEFINE x == d.state
 <2>1. p.state = [x EXCEPT !.owed = r] /\ x \in States /\ x.sig = 1
   OBVIOUS
 <2> HIDE DEF r, x
 <2> QED BY <1>2, <2>1 DEF States
<1>10. PushAlertStateCursor(p.state) >= PushAlertStateCursor(d.state)
  OBVIOUS
<1>5. p.state # Nothing
  BY <1>4, PushConstants
<1>6. SameEvent(Owed(d.state), Owed(p.state))
 <2> HIDE DEF r, o
 <2>1. Owed(d.state) = o /\ Owed(p.state) = r
   BY <1>1, <1>4, <1>5 DEF Owed, o
 <2> QED BY <1>2, <1>3, <2>1 DEF SameEvent, o
<1>7. MergeMatchingDeliveryProgress(o, r) = r
 <2>1. o.chans \intersect r.chans = r.chans
   BY <1>2
 <2>2. [r EXCEPT !.chans = r.chans] = r
  <3> HIDE DEF r
  <3> QED BY <1>2 DEF Deliveries
 <2> QED BY <2>1, <2>2 DEF MergeMatchingDeliveryProgress
<1>8. MergeIncoming(d, p) = [p.state EXCEPT !.owed = r]
 <2>1. MergeIncoming(d, p) = [p.state EXCEPT !.owed = MergeMatchingDeliveryProgress(d.state.owed, p.state.owed)]
  <3> HIDE DEF r, o
  <3> QED BY <1>1, <1>4, <1>5, <1>6, <1>10, MergeIncomingIs
 <2> QED BY <1>4, <1>7, <2>1
<1>9. [p.state EXCEPT !.owed = r] = p.state
 <2> HIDE DEF r
 <2> QED BY <1>4 DEF States
<1> QED BY <1>8, <1>9 DEF MergeEvaluatorState

(* A state written back as it was read stays. *)
LEMMA MergeSame ==
  ASSUME NEW d, NEW p, d.def # Nothing, d.def.rev = 1, p.sig = 1, p.removed = Nothing,
         p.state = d.state,
         d.state # Nothing => /\ d.state \in States /\ d.state.sig = 1
                              /\ PushAlertStateCursor(d.state) \in Nat
  PROVE  MergeEvaluatorState(d, p) = d.state
<1>1. CASE d.state = Nothing
  BY <1>1 DEF MergeEvaluatorState, MergeIncoming
<1>2. CASE d.state # Nothing /\ d.state.owed = Nothing
  BY <1>2, MergeKeeps
<1>3. CASE d.state # Nothing /\ d.state.owed # Nothing
 <2> DEFINE o == d.state.owed
 <2>1. o \in Deliveries
   BY <1>3 DEF States
 <2>2. [o EXCEPT !.chans = o.chans] = o
  <3> HIDE DEF o
  <3> QED BY <2>1 DEF Deliveries
 <2>3. [d.state EXCEPT !.owed = o] = d.state
   BY <1>3 DEF States
 <2>4. p.state = [d.state EXCEPT !.owed = [d.state.owed EXCEPT !.chans = d.state.owed.chans]]
   BY <2>2, <2>3
 <2>5. MergeEvaluatorState(d, p) = p.state
  <3> HIDE DEF o
  <3> DEFINE left == d.state.owed.chans
  <3>1. p.state = [d.state EXCEPT !.owed = [d.state.owed EXCEPT !.chans = left]] /\ left \subseteq d.state.owed.chans
    BY <2>4
  <3> HIDE DEF left
  <3> QED BY <1>3, <3>1, MergeOwes
 <2> QED BY <2>5
<1> QED BY <1>1, <1>2, <1>3

(* A delivery that ended takes its state with it. *)
LEMMA MergeEnds ==
  ASSUME NEW d, NEW p, d.def # Nothing, d.def.rev = 1, p.sig = 1,
         d.state \in States, d.state.sig = 1, d.state.owed # Nothing,
         p.state \in {Nothing, [d.state EXCEPT !.owed = Nothing]},
         p.removed = [sig |-> 1, rev |-> d.state.owed.rev, at |-> d.state.owed.at,
                      cursor |-> PushAlertStateCursor(d.state)],
         p.removed # Nothing,
         PushAlertStateCursor(d.state) \in Nat,
         PushAlertStateCursor([d.state EXCEPT !.owed = Nothing]) = PushAlertStateCursor(d.state)
  PROVE  MergeEvaluatorState(d, p) = Nothing
<1>1. d.state # Nothing
  BY PushConstants
<1>2. CASE p.state = Nothing
 <2>1. MergeIncoming(d, p) = d.state
   BY <1>2 DEF MergeIncoming
 <2> QED BY <1>1, <2>1 DEF MergeEvaluatorState
<1>3. CASE p.state = [d.state EXCEPT !.owed = Nothing]
 <2>1. p.state \in States /\ p.state.sig = 1 /\ p.state.owed = Nothing
   BY <1>3 DEF States
 <2>2. p.state # Nothing
   BY <2>1, PushConstants
 <2>3. ~ SameEvent(Owed(d.state), Owed(p.state))
   BY <2>1 DEF SameEvent, Owed
 <2>4. MergeIncoming(d, p) = [p.state EXCEPT !.owed = p.state.owed]
  <3>1. PushAlertStateCursor(p.state) >= PushAlertStateCursor(d.state)
    BY <1>3
  <3> QED BY <1>1, <2>1, <2>2, <2>3, <3>1, MergeIncomingIs
 <2>5. MergeIncoming(d, p) = p.state
   BY <2>1, <2>4 DEF States
 <2>6. PushAlertStateCursor(p.state) <= p.removed.cursor
   BY <1>3
 <2>7. p.removed.sig = 1
   OBVIOUS
 <2> QED BY <2>1, <2>2, <2>5, <2>6, <2>7 DEF MergeEvaluatorState
<1> QED BY <1>2, <1>3

-----------------------------------------------------------------------------
(* Time passes and the backend commits; nothing is sent. *)
Elapses ==
  /\ time \in Nat /\ time' \in Nat /\ time <= time'
  /\ sent' = sent /\ committed \subseteq committed' /\ (row'.active => row.active)

LEMMA StateStays ==
  ASSUME Elapses, NEW s, StateOK(s)
  PROVE  StateOK(s)'
<1>1. CASE s = Nothing
  BY <1>1 DEF StateOK
<1>2. CASE s # Nothing
 <2>1. s.cursor <= time => s.cursor <= time'
  <3>1. s.cursor \in Nat
    BY <1>2 DEF StateOK, States
  <3> QED BY <3>1 DEF Elapses
 <2>2. \A o : OwesRightly(o) => OwesRightly(o)'
   BY DEF OwesRightly, Recorded, Elapses
 <2>3. \A t : (SentBy(t) => SentBy(t)') /\ (NotSent(t) => NotSent(t)')
   BY DEF SentBy, NotSent, Elapses
 <2> QED BY <1>2, <2>1, <2>2, <2>3 DEF StateOK
<1> QED BY <1>1, <1>2

LEMMA SentStays ==
  ASSUME Elapses, SentOK
  PROVE  SentOK'
<1>1. ASSUME NEW k \in DOMAIN sent
      PROVE  k.at <= time'
 <2>1. k.at \in Nat /\ k.at <= time
   BY DEF SentOK
 <2> QED BY <2>1 DEF Elapses
<1> QED BY <1>1 DEF SentOK, Recorded, Elapses

LEMMA BoundsStay ==
  ASSUME Elapses, NEW t
  PROVE  (SentBy(t) => SentBy(t)') /\ (NotSent(t) => NotSent(t)') /\ (Recorded(t) => Recorded(t)')
BY DEF SentBy, NotSent, Recorded, Elapses

LEMMA CarryingStays ==
  ASSUME Elapses, device' = device, NEW v, Carrying(v)
  PROVE  Carrying(v)'
<1>1. HasRead(v)'
  BY StateStays DEF HasRead, Carrying
<1>2. v.base.cursor <= time'
 <2>1. v.base.cursor \in Nat
   BY DEF Carrying, States
 <2> QED BY <2>1 DEF Carrying, Elapses
<1>3. SentBy(v.base.cursor)' /\ NotSent(v.candidate)'
  BY BoundsStay DEF Carrying
<1> QED BY <1>1, <1>2, <1>3 DEF Carrying

(* Whatever the instance is at, time passing leaves it there. *)
LEMMA DoingStays ==
  ASSUME Elapses, device' = device, NEW v, Doing(v)
  PROVE  Doing(v)'
<1>1. \A s : StateOK(s) => StateOK(s)'
  BY StateStays
<1>2. \A t : (SentBy(t) => SentBy(t)') /\ (NotSent(t) => NotSent(t)') /\ (Recorded(t) => Recorded(t)')
  BY BoundsStay
<1>3. HasRead(v) => HasRead(v)'
  BY <1>1 DEF HasRead
<1>4. Judging(v) => Judging(v)'
 <2>1. v.through \in Nat /\ v.through <= time => v.through <= time'
   BY DEF Elapses
 <2> QED BY <1>2, <1>3, <2>1 DEF Judging
<1>5. Carrying(v) => Carrying(v)'
  BY CarryingStays
<1>6. Announcing(v) => Announcing(v)'
  BY <1>2, <1>5 DEF Announcing
<1>7. Repeating(v) => Repeating(v)'
  BY <1>3 DEF Repeating
<1>8. Writes(v) => Writes(v)'
  BY <1>1 DEF Writes
<1> QED BY <1>1, <1>4, <1>5, <1>6, <1>7, <1>8 DEF Doing

LEMMA TimePasses ==
  ASSUME Undisturbed, NEW w, Worker = {w},
         UNCHANGED <<current, device, row, committed, local, syncing, doing, sent>>,
         time' \in Nat, time <= time', hits' \subseteq 1..time'
  PROVE  Undisturbed'
<1>1. Alone /\ Market /\ SentOK /\ Pushing(w)
  BY DEF Undisturbed
<1>2. Elapses
  BY <1>1 DEF Elapses, Market
<1>3. Alone'
  BY <1>1 DEF Alone
<1>4. Market'
 <2>1. ASSUME NEW e \in committed
       PROVE  e \in [rev : {1}, at : 0..time']
  <3>1. e \in [rev : {1}, at : 0..time] /\ time \in Nat
    BY <1>1 DEF Market
  <3>2. e.at \in 0..time'
    BY <3>1
  <3> QED BY <3>1, <3>2
 <2> QED BY <2>1 DEF Market
<1>5. SentOK'
  BY <1>1, <1>2, SentStays
<1>6. Pushing(w)'
 <2>1. Doing(doing[w])'
  <3>1. PICK v : v = doing[w]
    OBVIOUS
  <3>2. Doing(v)'
    BY <1>1, <1>2, <3>1, DoingStays DEF Pushing
  <3> QED BY <3>1, <3>2
 <2> QED BY <1>1, <2>1 DEF Pushing
<1> QED BY <1>3, <1>4, <1>5, <1>6 DEF Undisturbed

(* The instance goes on to u; the device stays. *)
LEMMA GoesOn ==
  ASSUME Undisturbed, NEW w, Worker = {w}, NEW u, doing' = [doing EXCEPT ![w] = u],
         current' = current \union {w} \/ (current' = current /\ doing[w].at # "idle"),
         UNCHANGED <<device, local, syncing, time, hits>>,
         committed' \subseteq [rev : {1}, at : 0..time],
         row' \in [rev : {1}, recurring : BOOLEAN, since : {0}, active : BOOLEAN],
         SentOK', Doing(u)'
  PROVE  Undisturbed'
<1>1. Alone /\ Market /\ SentOK /\ Pushing(w)
  BY DEF Undisturbed
<1>2. Alone' /\ Market'
  BY <1>1 DEF Alone, Market
<1>3. doing'[w] = u /\ DOMAIN doing' = Worker
  BY <1>1 DEF Pushing
<1>4. current' \subseteq {w} /\ w \in current'
  BY <1>1 DEF Pushing
<1>5. Doing(doing[w])'
  BY <1>3
<1>6. Pushing(w)'
  BY <1>3, <1>4, <1>5 DEF Pushing
<1> QED BY <1>2, <1>6 DEF Undisturbed

(* One pass: the listing. *)
LEMMA LastEventIs ==
  ASSUME Market
  PROVE  /\ LastEvent(1) \in Nat /\ LastEvent(1) <= time
         /\ \A e \in committed : e.at <= LastEvent(1)
<1> DEFINE T == {0} \union {e.at : e \in {x \in committed : x.rev = 1}}
<1>1. time \in Nat /\ T \subseteq 0..time /\ T # {}
  BY DEF Market
<1>2. \A e \in committed : e.at \in T
  BY DEF Market
<1>3. LastEvent(1) = Largest(T)
  BY DEF LastEvent
<1> HIDE DEF T
<1>4. PICK x \in T : \A y \in T : y <= x
  BY <1>1, Greatest
<1>5. x \in Nat /\ x <= time /\ \A y \in T : y \in Nat
  BY <1>1
<1>6. Largest(T) = x
  BY <1>4, <1>5, LargestOf
<1> QED BY <1>2, <1>3, <1>4, <1>5, <1>6

LEMMA ListKeeps ==
  ASSUME Undisturbed, NEW w, Worker = {w}, List(w), Regime'
  PROVE  Undisturbed'
<1>1. Alone /\ Market /\ SentOK /\ Pushing(w)
  BY DEF Undisturbed
<1>2. UNCHANGED <<device, row, committed, local, syncing, time, hits, sent, due, editions>>
  BY DEF List
<1>3. "listing" \notin mishaps'
  BY DEF Regime
<1> DEFINE def == IF row # Nothing /\ row.active
                  THEN [rev |-> row.rev, recurring |-> row.recurring, since |-> row.since,
                        firedAt |-> LastEvent(row.rev)]
                  ELSE Nothing
           v == [at |-> "judge", snap |-> device, def |-> def, canonical |-> TRUE, through |-> time]
<1>4. /\ doing[w].at = "idle" /\ Worth(device, def)
      /\ doing' = [doing EXCEPT ![w] = v] /\ current' = current \union {w}
 <2>1. PICK canonical \in BOOLEAN :
         /\ IF canonical THEN UNCHANGED mishaps ELSE Mishap("listing")
         /\ canonical => Worth(device, def)
         /\ canonical => doing' = [doing EXCEPT ![w] = v]
   BY DEF List
 <2>2. canonical = TRUE
   BY <1>3, <2>1 DEF Mishap
 <2> HIDE DEF v, def
 <2> QED BY <2>1, <2>2 DEF List
<1>5. def # Nothing => def \in Definitions /\ def.rev = 1 /\ def.since = 0
                       /\ def.firedAt <= time /\ SentBy(def.firedAt)
 <2>1. ASSUME def # Nothing
       PROVE  def \in Definitions /\ def.rev = 1 /\ def.since = 0
              /\ def.firedAt <= time /\ SentBy(def.firedAt)
  <3>1. row.active /\ row.rev = 1 /\ row.since = 0 /\ row.recurring \in BOOLEAN
    BY <1>1, <2>1 DEF Alone
  <3>2. def = [rev |-> 1, recurring |-> row.recurring, since |-> 0, firedAt |-> LastEvent(1)]
    BY <2>1, <3>1
  <3>3. LastEvent(1) \in Nat /\ LastEvent(1) <= time /\ \A e \in committed : e.at <= LastEvent(1)
    BY <1>1, LastEventIs
  <3>4. SentBy(LastEvent(1))
   <4>1. ASSUME NEW k \in DOMAIN sent
         PROVE  k.at <= LastEvent(1)
    <5>1. [rev |-> 1, at |-> k.at] \in committed
      BY <1>1, <3>1 DEF SentOK, Recorded
    <5> DEFINE e == [rev |-> 1, at |-> k.at]
    <5>2. e.at = k.at
      OBVIOUS
    <5> HIDE DEF e
    <5> QED BY <3>3, <5>1, <5>2 DEF e
   <4> QED BY <4>1 DEF SentBy
  <3> HIDE DEF def
  <3> QED BY <3>1, <3>2, <3>3, <3>4 DEF Definitions
 <2> HIDE DEF def
 <2> QED BY <2>1
<1>6. Judging(v)
 <2>1. device.state # Nothing => device.state.cursor <= time
   BY <1>1, <1>4 DEF Pushing, Doing, StateOK
 <2>2. StateOK(device.state)
   BY <1>1, <1>4 DEF Pushing, Doing
 <2>3. def = Nothing => Owed(device.state) # Nothing
   BY <1>4 DEF Worth
 <2>4. time \in Nat /\ time <= time
   BY <1>1 DEF Market
 <2>5. v.snap = device /\ v.def = def /\ v.through = time
   OBVIOUS
 <2> HIDE DEF v, def
 <2> QED BY <1>5, <2>1, <2>2, <2>3, <2>4, <2>5 DEF Judging, HasRead
<1>7. v.at = "judge"
  OBVIOUS
<1> HIDE DEF v, def
<1>8. PICK u : u = v
  OBVIOUS
<1>9. Doing(u)'
 <2>1. Doing(u)
   BY <1>6, <1>7, <1>8 DEF Doing
 <2>2. Elapses
   BY <1>1, <1>2 DEF Elapses, Market
 <2> QED BY <1>2, <2>1, <2>2, DoingStays
<1>10. SentOK'
  BY <1>1, <1>2 DEF SentOK, Recorded
<1>11. committed' \subseteq [rev : {1}, at : 0..time]
       /\ row' \in [rev : {1}, recurring : BOOLEAN, since : {0}, active : BOOLEAN]
  BY <1>1, <1>2 DEF Market, Alone
<1> QED BY <1>2, <1>4, <1>8, <1>9, <1>10, <1>11, GoesOn

(* One pass: the judgement. *)
LEMMA JudgedIs ==
  ASSUME NEW v, Judging(v)
  PROVE  Judged(v).rev = 1 /\ Judged(v).recurring \in BOOLEAN
<1>1. CASE v.def # Nothing
  BY <1>1 DEF Judging, HasRead, Judged, Definitions
<1>2. CASE v.def = Nothing
 <2>1. Owed(device.state) # Nothing /\ v.snap = device /\ StateOK(device.state)
   BY <1>2 DEF Judging, HasRead
 <2>2. device.state # Nothing /\ device.state.owed # Nothing
   BY <2>1 DEF Owed
 <2>3. device.state.owed.rev = 1 /\ device.state.owed \in Deliveries
   BY <2>1, <2>2 DEF StateOK, OwesRightly
 <2>4. device.state.owed.recurring \in BOOLEAN
   BY <2>3 DEF Deliveries
 <2> QED BY <1>2, <2>1, <2>3, <2>4 DEF Judged
<1> QED BY <1>1, <1>2

KnownOK(s, through) ==
  /\ s \in States /\ s.sig = 1
  /\ s.firedAt <= s.cursor /\ s.try <= s.cursor /\ s.cursor <= through /\ SentBy(s.cursor)
  /\ s.try > 0 \/ s.owed # Nothing \/ s.refused => s = device.state
LEMMA KnownIs ==
  ASSUME NEW v, Judging(v)
  PROVE  /\ device.state # Nothing => KnownState(v) = device.state
         /\ KnownState(v) # Nothing => KnownOK(KnownState(v), v.through)
         /\ KnownState(v) = Nothing => device.state = Nothing /\ SentBy(0) /\ Judged(v).since = 0
<1>1. v.snap = device /\ StateOK(device.state) /\ v.through \in Nat
  BY DEF Judging, HasRead
<1>2. CASE device.state # Nothing
 <2>1. KnownState(v) = device.state
   BY <1>1, <1>2, JudgedIs DEF KnownState, StateOK
 <2>2. KnownOK(device.state, v.through)
   BY <1>1, <1>2 DEF StateOK, KnownOK, Judging
 <2> QED BY <1>2, <2>1, <2>2
<1>3. CASE device.state = Nothing
 <2>1. v.def # Nothing /\ Judged(v) = v.def
   BY <1>3 DEF Judging, Owed, Judged
 <2>2. v.def \in Definitions /\ v.def.rev = 1 /\ v.def.since = 0 /\ v.def.firedAt <= v.through
       /\ SentBy(v.def.firedAt)
   BY <2>1 DEF Judging, HasRead
 <2>3. v.def.firedAt \in Nat /\ v.def.recurring \in BOOLEAN
   BY <2>2 DEF Definitions
 <2>4. CASE v.def.firedAt = 0
  <3>1. KnownState(v) = Nothing
    BY <1>1, <1>3, <2>1, <2>4 DEF KnownState
  <3> QED BY <1>3, <2>1, <2>2, <2>4, <3>1
 <2>5. CASE v.def.firedAt # 0
  <3> DEFINE s == [sig |-> 1, cursor |-> v.def.firedAt, firedAt |-> v.def.firedAt,
                   once |-> ~ v.def.recurring, try |-> 0, owed |-> Nothing, refused |-> FALSE]
  <3>1. AtLeast(v.def.firedAt, v.def.since) = v.def.firedAt
    BY <2>2, <2>3 DEF AtLeast
  <3>2. KnownState(v) = [Fresh(1) EXCEPT !.firedAt = v.def.firedAt, !.once = ~ v.def.recurring,
                                         !.cursor = v.def.firedAt]
    BY <1>1, <1>3, <2>1, <2>2, <2>5, <3>1 DEF KnownState
  <3>3. KnownState(v) = s
    BY <3>2 DEF Fresh
  <3>4. s \in States
    BY <2>3 DEF States
  <3>5. KnownOK(s, v.through)
   <4>1. /\ s.sig = 1 /\ s.cursor = v.def.firedAt /\ s.firedAt = v.def.firedAt /\ s.try = 0
         /\ s.owed = Nothing /\ s.refused = FALSE
     OBVIOUS
   <4> HIDE DEF s
   <4> QED BY <2>2, <2>3, <3>4, <4>1 DEF KnownOK
  <3>6. s # Nothing
    BY <3>4, PushConstants
  <3> QED BY <1>3, <3>3, <3>5, <3>6
 <2> QED BY <2>4, <2>5
<1> QED BY <1>2, <1>3

LEMMA MatchIs ==
  ASSUME Market, NEW v, Judging(v), Match(v) > 0, SentOK
  PROVE  Match(v) \in Nat /\ Match(v) <= v.through /\ NotSent(Match(v))
<1> DEFINE s == KnownState(v)
           since == IF s = Nothing \/ s.sig # Judged(v).rev THEN Judged(v).since ELSE s.cursor
           new == {t \in hits : t > since /\ t <= v.through}
<1>1. Match(v) = IF new = {} THEN 0 ELSE CHOOSE t \in new : \A u \in new : t <= u
  BY DEF Match
<1>2. v.through \in Nat /\ since \in Nat /\ SentBy(since)
 <2>1. v.through \in Nat
   BY DEF Judging
 <2>2. CASE s = Nothing
   BY <2>1, <2>2, KnownIs
 <2>3. CASE s # Nothing
  <3>1. s \in States /\ s.sig = Judged(v).rev /\ SentBy(s.cursor)
    BY <2>3, KnownIs, JudgedIs DEF KnownOK
  <3>2. s.cursor \in Nat
    BY <3>1 DEF States
  <3>3. since = s.cursor
    BY <2>3, <3>1
  <3> QED BY <2>1, <3>1, <3>2, <3>3
 <2> QED BY <2>2, <2>3
<1> HIDE DEF since
<1>3. new \subseteq Nat /\ \A t \in new : t > since /\ t <= v.through
 <2>1. \A t \in hits : t \in Nat
   BY DEF Market
 <2> QED BY <2>1
<1> HIDE DEF new
<1>4. new # {}
  BY <1>1
<1>5. \E t \in new : \A u \in new : t <= u
  BY <1>3, <1>4, Least
<1>6. Match(v) \in new
  BY <1>1, <1>4, <1>5
<1>7. Match(v) \in Nat /\ Match(v) > since /\ Match(v) <= v.through
  BY <1>3, <1>6
<1>8. NotSent(Match(v))
 <2>1. ASSUME NEW k \in DOMAIN sent
       PROVE  k.at # Match(v)
  <3>1. k.at \in Nat /\ k.at <= since
    BY <1>2 DEF SentOK, SentBy
  <3> QED BY <1>2, <1>7, <3>1
 <2> QED BY <2>1 DEF NotSent
<1> QED BY <1>7, <1>8

LEMMA AdvancedIs ==
  ASSUME NEW v, Judging(v), SentOK, Market
  PROVE  /\ Advanced(v) \in States /\ Advanced(v).sig = 1 /\ Advanced(v).owed = Nothing
         /\ Advanced(v).cursor = v.through /\ Advanced(v).try = 0 /\ Advanced(v).firedAt <= v.through
         /\ SentBy(v.through)
<1> DEFINE s == KnownState(v)
           fired == IF s = Nothing THEN 0 ELSE s.firedAt
           once == s # Nothing /\ s.once
<1>1. v.through \in Nat
  BY DEF Judging
<1>2. s # Nothing => KnownOK(s, v.through) /\ s \in States
  BY KnownIs DEF KnownOK
<1>3. fired \in Nat /\ fired <= v.through
 <2>1. CASE s = Nothing
   BY <1>1, <2>1
 <2>2. CASE s # Nothing
  <3>1. s.firedAt \in Nat /\ s.cursor \in Nat
    BY <1>2, <2>2 DEF States
  <3> QED BY <1>1, <1>2, <2>2, <3>1 DEF KnownOK
 <2> QED BY <2>1, <2>2
<1>4. once \in BOOLEAN
  BY <1>2 DEF States
<1>5. Advanced(v) = [sig |-> 1, cursor |-> v.through, firedAt |-> fired, once |-> once, try |-> 0,
                     owed |-> Nothing, refused |-> FALSE]
 <2>1. Advanced(v) = [Fresh(1) EXCEPT !.cursor = v.through, !.firedAt = fired, !.once = once]
   BY JudgedIs DEF Advanced
 <2> HIDE DEF fired, once
 <2> QED BY <2>1 DEF Fresh
<1>6. SentBy(v.through)
 <2>1. ASSUME NEW k \in DOMAIN sent
       PROVE  k.at <= v.through
  <3>1. k.at \in Nat
    BY DEF SentOK
  <3>2. CASE s = Nothing
   <4>1. k.at <= 0
     BY <3>2, KnownIs DEF SentBy
   <4> QED BY <1>1, <3>1, <4>1
  <3>3. CASE s # Nothing
   <4>1. k.at <= s.cursor /\ s.cursor <= v.through /\ s.cursor \in Nat
     BY <1>2, <3>3 DEF KnownOK, SentBy, States
   <4> QED BY <1>1, <3>1, <4>1
  <3> QED BY <3>2, <3>3
 <2> QED BY <2>1 DEF SentBy
<1> HIDE DEF fired, once
<1> QED BY <1>1, <1>3, <1>4, <1>5, <1>6 DEF States

(* What is written back: the state as it was read, or another that owes     *)
(* nothing, or the one that is owed less.                                   *)
LEMMA DeviceIs ==
  ASSUME Alone
  PROVE  device.def # Nothing /\ device.def.rev = 1
<1>1. device.def = local
  BY DEF Alone
<1> QED BY <1>1, PushConstants DEF Alone

LEMMA CursorOfState ==
  ASSUME StateOK(device.state), device.state # Nothing
  PROVE  /\ PushAlertStateCursor(device.state) = device.state.cursor /\ device.state.cursor \in Nat
         /\ device.state \in States /\ device.state.sig = 1
<1>1. device.state \in States /\ device.state.sig = 1
  BY DEF StateOK
<1>2. PushAlertStateCursor(device.state) = device.state.cursor
  BY <1>1, CursorIs DEF StateOK
<1> QED BY <1>1, <1>2 DEF States

LEMMA WritesBack ==
  ASSUME Alone, StateOK(device.state), NEW v, v.snap = device, Judged(v).rev = 1
  PROVE  Doing(Writing(v, v.snap.state, Nothing))
<1> DEFINE p == Patch(v, v.snap.state, Nothing)
           u == Writing(v, v.snap.state, Nothing)
<1>1. p.state = device.state /\ p.sig = 1 /\ p.removed = Nothing
  BY DEF Patch
<1>2. u.at = "write" /\ u.base = device /\ u.patch = p
  BY DEF Writing
<1> HIDE DEF p, u
<1>3. MergeEvaluatorState(device, p) = device.state
  BY <1>1, DeviceIs, CursorOfState, MergeSame
<1> QED BY <1>2, <1>3 DEF Doing, Writes, u

LEMMA WritesNew ==
  ASSUME Alone, StateOK(device.state), NEW v, v.snap = device, Judged(v).rev = 1, NEW s, StateOK(s),
         s \in States, s.sig = 1, Owed(device.state) = Nothing,
         device.state # Nothing => device.state.cursor <= s.cursor
  PROVE  Doing(Writing(v, s, Nothing))
<1> DEFINE p == Patch(v, s, Nothing)
           u == Writing(v, s, Nothing)
<1>1. p.state = s /\ p.sig = 1 /\ p.removed = Nothing
  BY DEF Patch
<1>2. u.at = "write" /\ u.base = device /\ u.patch = p
  BY DEF Writing
<1>3. s # Nothing
  BY PushConstants
<1>4. PushAlertStateCursor(s) = s.cursor /\ s.cursor \in Nat
  BY <1>3, CursorIs DEF StateOK, States
<1> HIDE DEF p, u
<1>5. device.state # Nothing => PushAlertStateCursor(p.state) >= PushAlertStateCursor(device.state)
  BY <1>1, <1>4, CursorOfState
<1>6. MergeEvaluatorState(device, p) = s
  BY <1>1, <1>5, DeviceIs, CursorOfState, MergeKeeps DEF Owed
<1> QED BY <1>2, <1>6 DEF Doing, Writes, u

LEMMA CommitsAgain ==
  ASSUME NEW v, Judging(v), Market, SentOK, KnownState(v) # Nothing, KnownState(v).try > 0
  PROVE  Doing(ToTheBackend(v, KnownState(v).try, KnownState(v)))
<1> DEFINE s == KnownState(v)
           u == ToTheBackend(v, s.try, s)
<1>1. KnownOK(s, v.through) /\ v.through \in Nat /\ v.through <= time
  BY KnownIs DEF Judging
<1>2. s = device.state
  BY <1>1 DEF KnownOK
<1>3. StateOK(device.state) /\ HasRead(v)
  BY DEF Judging, HasRead
<1>4. s \in States /\ s.try \in Nat /\ s.cursor \in Nat /\ s.owed = Nothing /\ NotSent(s.try)
  BY <1>1, <1>2, <1>3 DEF KnownOK, StateOK, States
<1>5. Owed(device.state) = Nothing
  BY <1>2, <1>4 DEF Owed
<1>6. v.def # Nothing
  BY <1>5 DEF Judging
<1>7. /\ u.at = "commit" /\ u.snap = v.snap /\ u.def = v.def /\ u.candidate = s.try /\ u.base = s
  BY DEF ToTheBackend
<1> HIDE DEF u, s
<1>8. s.cursor <= time /\ s.cursor <= s.cursor
  BY <1>1, <1>4 DEF KnownOK, Market
<1>9. HasRead(u)
  BY <1>3, <1>7 DEF HasRead
<1>10. Carrying(u)
  BY <1>1, <1>2, <1>4, <1>5, <1>6, <1>7, <1>8, <1>9 DEF Carrying, KnownOK, s
<1> QED BY <1>7, <1>10 DEF Doing, u, s

LEMMA CommitsMatch ==
  ASSUME NEW v, Judging(v), Market, SentOK, Owed(KnownState(v)) = Nothing, Match(v) > 0
  PROVE  Doing(ToTheBackend(v, Match(v), Advanced(v)))
<1> DEFINE s == Advanced(v)
           m == Match(v)
           u == ToTheBackend(v, m, s)
<1>1. HasRead(v) /\ v.through \in Nat /\ v.through <= time
  BY DEF Judging
<1>2. /\ s \in States /\ s.sig = 1 /\ s.owed = Nothing /\ s.cursor = v.through
      /\ s.firedAt <= v.through /\ SentBy(v.through)
  BY AdvancedIs
<1>3. m \in Nat /\ m <= v.through /\ NotSent(m) /\ m > 0
  BY MatchIs
<1>4. Owed(device.state) = Nothing
  BY KnownIs DEF Owed
<1>5. v.def # Nothing /\ (device.state # Nothing => device.state.cursor <= v.through)
  BY <1>4 DEF Judging
<1>6. /\ u.at = "commit" /\ u.snap = v.snap /\ u.def = v.def /\ u.candidate = m /\ u.base = s
  BY DEF ToTheBackend
<1> HIDE DEF u, s, m
<1>7. HasRead(u)
  BY <1>1, <1>6 DEF HasRead
<1>8. Carrying(u)
  BY <1>1, <1>2, <1>3, <1>4, <1>5, <1>6, <1>7 DEF Carrying
<1> QED BY <1>6, <1>8 DEF Doing, u, s, m

LEMMA Repeats ==
  ASSUME NEW v, Judging(v), Owed(KnownState(v)) # Nothing
  PROVE  Doing(ToTheChannels(v, KnownState(v).owed, KnownState(v), TRUE))
<1> DEFINE s == KnownState(v)
           u == ToTheChannels(v, s.owed, s, TRUE)
<1>1. s # Nothing /\ s.owed # Nothing
  BY DEF Owed
<1>2. s = device.state
  BY <1>1, KnownIs DEF KnownOK
<1>3. HasRead(v) /\ Owed(device.state) = s.owed
  BY <1>1, <1>2 DEF Judging, Owed
<1>4. /\ u.at = "deliver" /\ u.snap = v.snap /\ u.def = v.def /\ u.base = s /\ u.owed = s.owed /\ u.kept = TRUE
  BY DEF ToTheChannels
<1> HIDE DEF u, s
<1>5. Repeating(u)
  BY <1>1, <1>2, <1>3, <1>4 DEF Repeating, HasRead
<1> QED BY <1>4, <1>5 DEF Doing, u, s

LEMMA AdvancesOnly ==
  ASSUME NEW v, Judging(v), Alone, Market, SentOK, Owed(KnownState(v)) = Nothing
  PROVE  Doing(Writing(v, Advanced(v), Nothing))
<1> DEFINE s == Advanced(v)
<1>1. HasRead(v) /\ v.through \in Nat /\ v.through <= time
  BY DEF Judging
<1>2. /\ s \in States /\ s.sig = 1 /\ s.owed = Nothing /\ s.cursor = v.through
      /\ s.firedAt <= v.through /\ SentBy(v.through) /\ s.try = 0
  BY AdvancedIs
<1>3. Owed(device.state) = Nothing
  BY KnownIs DEF Owed
<1>4. device.state # Nothing => device.state.cursor <= v.through
  BY DEF Judging
<1> HIDE DEF s
<1>5. StateOK(s)
  BY <1>1, <1>2 DEF StateOK
<1>6. Doing(Writing(v, s, Nothing))
  BY <1>1, <1>2, <1>3, <1>4, <1>5, JudgedIs, WritesNew DEF HasRead
<1> QED BY <1>6 DEF s

LEMMA JudgeKeeps ==
  ASSUME Undisturbed, NEW w, Worker = {w}, Judge(w)
  PROVE  Undisturbed'
<1>1. Alone /\ Market /\ SentOK /\ Pushing(w)
  BY DEF Undisturbed
<1> DEFINE v == doing[w]
<1>2. v.at = "judge" /\ UNCHANGED <<current, device, row, committed, local, syncing, time, hits, sent>>
  BY DEF Judge
<1>3. Judging(v)
  BY <1>1, <1>2 DEF Pushing, Doing
<1>4. Judged(v).rev = 1 /\ v.snap = device /\ StateOK(device.state)
  BY <1>3, JudgedIs DEF Judging, HasRead
<1>5. \E u : doing' = [doing EXCEPT ![w] = u] /\ Doing(u)
 <2> DEFINE s == KnownState(v)
 <2>1. \/ doing' = [doing EXCEPT ![w] = Writing(v, v.snap.state, Nothing)]
       \/ /\ s # Nothing /\ s.try > 0
          /\ doing' = [doing EXCEPT ![w] = ToTheBackend(v, s.try, s)]
       \/ /\ Owed(s) # Nothing
          /\ doing' = [doing EXCEPT ![w] = ToTheChannels(v, s.owed, s, TRUE)]
       \/ /\ Owed(s) = Nothing /\ Match(v) > 0
          /\ doing' = [doing EXCEPT ![w] = ToTheBackend(v, Match(v), Advanced(v))]
       \/ /\ Owed(s) = Nothing
          /\ doing' = [doing EXCEPT ![w] = Writing(v, Advanced(v), Nothing)]
   BY DEF Judge
 <2> HIDE DEF v
 <2>2. CASE doing' = [doing EXCEPT ![w] = Writing(v, v.snap.state, Nothing)]
   BY <1>1, <1>4, <2>2, WritesBack
 <2>3. CASE /\ s # Nothing /\ s.try > 0
            /\ doing' = [doing EXCEPT ![w] = ToTheBackend(v, s.try, s)]
   BY <1>1, <1>3, <2>3, CommitsAgain
 <2>4. CASE /\ Owed(s) # Nothing
            /\ doing' = [doing EXCEPT ![w] = ToTheChannels(v, s.owed, s, TRUE)]
   BY <1>3, <2>4, Repeats
 <2>5. CASE /\ Owed(s) = Nothing /\ Match(v) > 0
            /\ doing' = [doing EXCEPT ![w] = ToTheBackend(v, Match(v), Advanced(v))]
   BY <1>1, <1>3, <2>5, CommitsMatch
 <2>6. CASE /\ Owed(s) = Nothing
            /\ doing' = [doing EXCEPT ![w] = Writing(v, Advanced(v), Nothing)]
   BY <1>1, <1>3, <2>6, AdvancesOnly
 <2> QED BY <2>1, <2>2, <2>3, <2>4, <2>5, <2>6
<1>6. PICK u : doing' = [doing EXCEPT ![w] = u] /\ Doing(u)
  BY <1>5
<1>7. Doing(u)'
 <2>1. Elapses
   BY <1>1, <1>2 DEF Elapses, Market
 <2> QED BY <1>2, <1>6, <2>1, DoingStays
<1>8. SentOK'
  BY <1>1, <1>2 DEF SentOK, Recorded
<1>9. committed' \subseteq [rev : {1}, at : 0..time]
      /\ row' \in [rev : {1}, recurring : BOOLEAN, since : {0}, active : BOOLEAN]
  BY <1>1, <1>2 DEF Market, Alone
<1>10. doing[w].at # "idle"
  BY <1>2
<1> HIDE DEF v
<1> QED BY <1>2, <1>6, <1>7, <1>8, <1>9, <1>10, GoesOn

(* One pass: the crossing is put to the backend. *)
LEMMA CommitGrows ==
  ASSUME Alone, Market, NEW v, Carrying(v),
         Commits(v) \/ UNCHANGED <<committed, row>>, UNCHANGED <<sent, time>>
  PROVE  /\ Elapses /\ committed' \subseteq [rev : {1}, at : 0..time]
         /\ row' \in [rev : {1}, recurring : BOOLEAN, since : {0}, active : BOOLEAN]
         /\ Commits(v) => Recorded(v.candidate)'
<1>1. Judged(v).rev = 1
  BY DEF Carrying, HasRead, Judged
<1>2. time \in Nat /\ committed \subseteq [rev : {1}, at : 0..time]
      /\ row \in [rev : {1}, recurring : BOOLEAN, since : {0}, active : BOOLEAN]
  BY DEF Market, Alone
<1>3. CASE Commits(v)
 <2>1. /\ committed' = committed \union {[rev |-> 1, at |-> v.candidate]}
       /\ row' = [row EXCEPT !.active = row.recurring]
       /\ TriggerAnswer(1, v.candidate) = "ok"
   BY <1>1, <1>3 DEF Commits
 <2>2. row.active
   BY <2>1 DEF TriggerAnswer
 <2>3. row' \in [rev : {1}, recurring : BOOLEAN, since : {0}, active : BOOLEAN]
   BY <1>2, <2>1
 <2>4. [rev |-> 1, at |-> v.candidate] \in [rev : {1}, at : 0..time]
  <3>1. v.candidate \in Nat /\ v.candidate <= v.base.cursor /\ v.base.cursor <= time /\ v.base.cursor \in Nat
    BY DEF Carrying, States
  <3> QED BY <1>2, <3>1
 <2> QED BY <1>2, <2>1, <2>2, <2>3, <2>4 DEF Elapses, Recorded
<1>4. CASE UNCHANGED <<committed, row>> /\ ~ Commits(v)
  BY <1>2, <1>4 DEF Elapses
<1> QED BY <1>3, <1>4

LEMMA KnownIsRecorded ==
  ASSUME Market, NEW v, Carrying(v), TriggerAnswer(Judged(v).rev, v.candidate) = "known",
         UNCHANGED <<committed, row>>
  PROVE  Recorded(v.candidate)'
<1>1. Judged(v).rev = 1
  BY DEF Carrying, HasRead, Judged
<1>2. PICK e \in committed : e.rev = 1 /\ (e.at = v.candidate \/ ~ row.active)
  BY <1>1 DEF TriggerAnswer
<1>3. e \in [rev : {1}, at : 0..time]
  BY <1>2 DEF Market
<1>4. e = [rev |-> e.rev, at |-> e.at]
  BY <1>3
<1> QED BY <1>2, <1>4 DEF Recorded

FailedState(v, retry) ==
  [v.base EXCEPT !.sig = Judged(v).rev, !.try = IF retry THEN v.candidate ELSE 0, !.refused = ~ retry]
LEMMA FailsBack ==
  ASSUME Alone, Market, NEW v, Carrying(v), NEW retry \in BOOLEAN
  PROVE  Doing(Writing(v, FailedState(v, retry), Nothing))
<1> DEFINE s == FailedState(v, retry)
           b == v.base
           try == IF retry THEN v.candidate ELSE 0
<1>1. Judged(v).rev = 1
  BY DEF Carrying, HasRead, Judged
<1>2. /\ b \in States /\ b.owed = Nothing /\ b.firedAt <= b.cursor /\ b.cursor <= time /\ SentBy(b.cursor)
      /\ v.candidate \in Nat /\ v.candidate <= b.cursor /\ NotSent(v.candidate)
  BY DEF Carrying
<1>3. b.cursor \in Nat /\ try \in Nat /\ try <= b.cursor /\ (try > 0 => NotSent(try))
  BY <1>2 DEF States
<1>4. s = [b EXCEPT !.sig = 1, !.try = try, !.refused = ~ retry]
  BY <1>1 DEF FailedState
<1>5. /\ s \in States /\ s.sig = 1 /\ s.try = try /\ s.owed = Nothing
      /\ s.cursor = b.cursor /\ s.firedAt = b.firedAt
 <2> HIDE DEF s, try, b
 <2> QED BY <1>2, <1>3, <1>4 DEF States
<1>6. StateOK(s)
 <2> HIDE DEF s, try, b
 <2> QED BY <1>2, <1>3, <1>5 DEF StateOK
<1>7. /\ v.snap = device /\ StateOK(device.state) /\ Owed(device.state) = Nothing
      /\ device.state # Nothing => device.state.cursor <= s.cursor
  BY <1>5 DEF Carrying, HasRead
<1> HIDE DEF s, try, b
<1>8. Doing(Writing(v, s, Nothing))
  BY <1>1, <1>5, <1>6, <1>7, WritesNew
<1> QED BY <1>8 DEF s

LEMMA Announces ==
  ASSUME NEW v, Carrying(v)', Recorded(v.candidate)', NEW u,
         u = ToTheChannels(v, Delivery(v, v.candidate), v.base, FALSE)
  PROVE  Doing(u)'
<1> DEFINE d == Delivery(v, v.candidate)
<1>1. /\ v.def # Nothing /\ v.def \in Definitions /\ v.def.rev = 1 /\ v.candidate \in Nat
  BY DEF Carrying, HasRead
<1>2. Judged(v).rev = 1 /\ Judged(v).recurring \in BOOLEAN
  BY <1>1 DEF Judged, Definitions
<1>3. d \in Deliveries /\ d.rev = 1 /\ d.at = v.candidate
  BY <1>1, <1>2 DEF Delivery, Deliveries
<1> HIDE DEF d
<1>4. /\ u.at = "deliver" /\ u.snap = v.snap /\ u.def = v.def /\ u.candidate = v.candidate
      /\ u.base = v.base /\ u.owed = d /\ u.kept = FALSE
  BY <1>3 DEF ToTheChannels, d
<1>5. Carrying(u)'
  BY <1>4 DEF Carrying, HasRead
<1>6. Announcing(u)'
  BY <1>3, <1>4, <1>5 DEF Announcing
<1> QED BY <1>4, <1>6 DEF Doing

LEMMA PersistKeeps ==
  ASSUME Undisturbed, NEW w, Worker = {w}, Persist(w)
  PROVE  Undisturbed'
<1>1. Alone /\ Market /\ SentOK /\ Pushing(w)
  BY DEF Undisturbed
<1>0. PICK v : v = doing[w]
  OBVIOUS
<1>2. v.at = "commit" /\ UNCHANGED <<current, device, local, syncing, time, hits, sent>>
  BY <1>0 DEF Persist
<1>3. Carrying(v)
  BY <1>0, <1>1, <1>2 DEF Pushing, Doing
<1>4. \/ /\ doing' = [doing EXCEPT ![w] = ToTheChannels(v, Delivery(v, v.candidate), v.base, FALSE)]
         /\ Commits(v) \/ (TriggerAnswer(Judged(v).rev, v.candidate) = "known" /\ UNCHANGED <<committed, row>>)
      \/ /\ \E retry \in BOOLEAN : doing' = [doing EXCEPT ![w] = Writing(v, FailedState(v, retry), Nothing)]
         /\ Commits(v) \/ UNCHANGED <<committed, row>>
  BY <1>0 DEF Persist, FailedState
<1>5. /\ Elapses /\ committed' \subseteq [rev : {1}, at : 0..time]
      /\ row' \in [rev : {1}, recurring : BOOLEAN, since : {0}, active : BOOLEAN]
      /\ Commits(v) => Recorded(v.candidate)'
  BY <1>1, <1>2, <1>3, <1>4, CommitGrows
<1>6. \E u : doing' = [doing EXCEPT ![w] = u] /\ Doing(u)'
 <2>1. CASE /\ doing' = [doing EXCEPT ![w] = ToTheChannels(v, Delivery(v, v.candidate), v.base, FALSE)]
            /\ Commits(v) \/ (TriggerAnswer(Judged(v).rev, v.candidate) = "known" /\ UNCHANGED <<committed, row>>)
  <3>1. Recorded(v.candidate)'
    BY <1>1, <1>3, <1>5, <2>1, KnownIsRecorded
  <3>2. Carrying(v)'
    BY <1>2, <1>3, <1>5, CarryingStays
  <3>3. PICK u : u = ToTheChannels(v, Delivery(v, v.candidate), v.base, FALSE)
    OBVIOUS
  <3>4. Doing(u)'
    BY <3>1, <3>2, <3>3, Announces
  <3> QED BY <2>1, <3>3, <3>4
 <2>2. CASE \E retry \in BOOLEAN : doing' = [doing EXCEPT ![w] = Writing(v, FailedState(v, retry), Nothing)]
  <3>1. PICK retry \in BOOLEAN : doing' = [doing EXCEPT ![w] = Writing(v, FailedState(v, retry), Nothing)]
    BY <2>2
  <3>2. PICK u : u = Writing(v, FailedState(v, retry), Nothing)
    OBVIOUS
  <3>3. Doing(u)
    BY <1>1, <1>3, <3>2, FailsBack
  <3>4. Doing(u)'
    BY <1>2, <1>5, <3>3, DoingStays
  <3> QED BY <3>1, <3>2, <3>4
 <2> QED BY <1>4, <2>1, <2>2
<1>7. PICK u : doing' = [doing EXCEPT ![w] = u] /\ Doing(u)'
  BY <1>6
<1>8. SentOK'
  BY <1>1, <1>5, SentStays
<1>9. doing[w].at # "idle"
  BY <1>0, <1>2
<1> QED BY <1>2, <1>5, <1>7, <1>8, <1>9, GoesOn

(* One pass: the channels.  Those that answer are told for the first time. *)
Went(o, left) == {[rev |-> o.rev, at |-> o.at, chan |-> c] : c \in o.chans \ left}
Tells(o, left) ==
  /\ sent' = [k \in DOMAIN sent \union Went(o, left) |->
                AtMost((IF k \in DOMAIN sent THEN sent[k] ELSE 0)
                       + (IF k \in Went(o, left) THEN 1 ELSE 0), 2)]
  /\ UNCHANGED <<row, committed, time>>

LEMMA TellingIsNew ==
  ASSUME SentOK, Market, NEW o, NEW left \in SUBSET o.chans, OwesRightly(o), o.at <= time, Tells(o, left)
  PROVE  /\ SentOK'
         /\ \A k \in DOMAIN sent' :
              k \in DOMAIN sent \/ (k.at = o.at /\ k.chan \in o.chans /\ k.chan \notin left)
<1> DEFINE W == Went(o, left)
<1>1. o \in Deliveries /\ o.rev = 1 /\ o.at \in Nat /\ o.chans \subseteq Channel
  BY DEF OwesRightly, Deliveries
<1>2. \A k \in W : /\ k \in [rev : {1}, at : Nat, chan : Channel] /\ k.at = o.at
                   /\ k.chan \in o.chans /\ k.chan \notin left
  BY <1>1 DEF Went
<1>3. \A k \in W : k \notin DOMAIN sent
  BY <1>2 DEF OwesRightly
<1>4. DOMAIN sent' = DOMAIN sent \union W
  BY DEF Tells
<1>5. ASSUME NEW k \in DOMAIN sent
      PROVE  sent'[k] = 1
 <2>1. k \notin W
   BY <1>3
 <2>2. sent'[k] = AtMost(sent[k] + 0, 2)
   BY <1>4, <2>1 DEF Tells
 <2> QED BY <2>2 DEF SentOK, AtMost
<1>6. ASSUME NEW k \in W
      PROVE  sent'[k] = 1
 <2>1. sent'[k] = AtMost(0 + 1, 2)
   BY <1>3, <1>4 DEF Tells
 <2> QED BY <2>1 DEF AtMost
<1> HIDE DEF W
<1>7. ASSUME NEW k \in DOMAIN sent'
      PROVE  /\ k \in [rev : {1}, at : Nat, chan : Channel] /\ k.at > 0 /\ k.at <= time'
             /\ Recorded(k.at)' /\ sent'[k] = 1
 <2>1. time' = time /\ row' = row /\ committed' = committed
   BY DEF Tells
 <2>2. CASE k \in DOMAIN sent
   BY <1>5, <2>1, <2>2 DEF SentOK, Recorded
 <2>3. CASE k \in W
   BY <1>1, <1>2, <1>6, <2>1, <2>3 DEF OwesRightly, Recorded
 <2> QED BY <1>4, <1>7, <2>2, <2>3
<1> QED BY <1>2, <1>4, <1>7 DEF SentOK

(* The state written after it: behind its cursor is what was sent, and the  *)
(* channels it owes were not told.                                          *)
LEMMA StateAfterTelling ==
  ASSUME SentOK, Market, NEW o, NEW left \in SUBSET o.chans, OwesRightly(o), o.at <= time, Tells(o, left),
         NEW s \in States, s.sig = 1, s.firedAt <= s.cursor, s.try = 0, s.cursor <= time,
         SentBy(s.cursor), o.at <= s.cursor,
         s.owed # Nothing => s.owed = [o EXCEPT !.chans = left]
  PROVE  StateOK(s)'
<1>1. s.try \in Nat /\ s.cursor \in Nat
  BY DEF States
<1>2. \A k \in DOMAIN sent' :
        k \in DOMAIN sent \/ (k.at = o.at /\ k.chan \in o.chans /\ k.chan \notin left)
  BY TellingIsNew
<1>3. SentBy(s.cursor)'
  BY <1>2 DEF SentBy
<1>4. time' = time /\ row' = row /\ committed' = committed
  BY DEF Tells
<1>5. ASSUME s.owed # Nothing
      PROVE  s.owed.at <= s.cursor /\ OwesRightly(s.owed)'
 <2> DEFINE r == s.owed
 <2>1. o \in Deliveries /\ o.rev = 1 /\ o.at > 0 /\ Recorded(o.at)
   BY DEF OwesRightly
 <2>2. r \in Deliveries
   BY <1>5 DEF States
 <2>3. r.rev = 1 /\ r.at = o.at /\ r.chans = left
  <3> HIDE DEF r
  <3>1. r = [o EXCEPT !.chans = left]
    BY <1>5 DEF r
  <3> QED BY <2>1, <3>1 DEF Deliveries
 <2>4. \A k \in DOMAIN sent' : k.at = r.at => k.chan \notin r.chans
  <3>1. \A k \in DOMAIN sent : k.at = o.at => k.chan \notin left
    BY DEF OwesRightly
  <3> HIDE DEF r
  <3> QED BY <1>2, <2>3, <3>1
 <2>5. Recorded(r.at)'
   BY <1>4, <2>1, <2>3 DEF Recorded
 <2> HIDE DEF r
 <2>6. OwesRightly(r)'
   BY <2>1, <2>2, <2>3, <2>4, <2>5 DEF OwesRightly
 <2> QED BY <2>3, <2>6 DEF r
<1> QED BY <1>1, <1>3, <1>4, <1>5 DEF StateOK

LEMMA WritesAfter ==
  ASSUME NEW u, NEW s, u.at = "write", u.base = device, MergeEvaluatorState(device, u.patch) = s,
         device' = device, StateOK(s)'
  PROVE  Doing(u)'
<1>1. Writes(u)'
  BY DEF Writes
<1> QED BY <1>1 DEF Doing

LEMMA AnnouncedIsWritten ==
  ASSUME Alone, SentOK, Market, NEW v, Announcing(v), NEW left \in SUBSET v.owed.chans,
         Tells(v.owed, left), device' = device
  PROVE  SentOK' /\ Doing(Delivered(v, left))'
<1> DEFINE b == v.base
           o == v.owed
           rest == IF left = {} THEN Nothing ELSE [o EXCEPT !.chans = left]
           s == CommittedState(v, rest)
           p == Patch(v, s, Nothing)
<1>1. /\ b \in States /\ b.sig = 1 /\ b.cursor <= time /\ SentBy(b.cursor)
      /\ v.candidate \in Nat /\ v.candidate > 0 /\ v.candidate <= b.cursor /\ NotSent(v.candidate)
      /\ o \in Deliveries /\ o.rev = 1 /\ o.at = v.candidate /\ Recorded(v.candidate)
      /\ v.snap = device /\ StateOK(device.state)
      /\ Owed(device.state) = Nothing /\ (device.state # Nothing => device.state.cursor <= b.cursor)
  BY DEF Announcing, Carrying, HasRead
<1>2. Judged(v).rev = 1 /\ Judged(v).recurring \in BOOLEAN
  BY DEF Announcing, Carrying, HasRead, Judged, Definitions
<1>3. b.cursor \in Nat /\ time \in Nat
  BY <1>1 DEF States, Market
<1>4. OwesRightly(o) /\ o.at <= time
  BY <1>1, <1>3 DEF OwesRightly, NotSent
<1>5. Largest({b.cursor, v.candidate}) = b.cursor
 <2> DEFINE T == {b.cursor, v.candidate}
 <2>1. b.cursor \in T /\ \A x \in T : x \in Nat /\ x <= b.cursor
   BY <1>1, <1>3
 <2> HIDE DEF T
 <2>2. Largest(T) = b.cursor
   BY <1>3, <2>1, LargestOf
 <2> QED BY <2>2 DEF T
<1>6. rest \in {Nothing} \union Deliveries
 <2>1. left \subseteq Channel
   BY <1>1 DEF Deliveries
 <2> HIDE DEF o
 <2>2. [o EXCEPT !.chans = left] \in Deliveries
   BY <1>1, <2>1 DEF Deliveries
 <2> QED BY <2>2
<1>7. s = [b EXCEPT !.sig = 1, !.firedAt = v.candidate, !.once = ~ Judged(v).recurring,
                    !.cursor = b.cursor, !.try = 0, !.owed = rest, !.refused = FALSE]
  BY <1>2, <1>5 DEF CommittedState
<1>8. /\ s \in States /\ s.sig = 1 /\ s.firedAt = v.candidate /\ s.cursor = b.cursor
      /\ s.try = 0 /\ s.owed = rest
 <2> HIDE DEF s, b, rest
 <2> QED BY <1>1, <1>2, <1>3, <1>6, <1>7 DEF States
<1>9. SentOK'
  BY <1>4, TellingIsNew
<1>10. StateOK(s)'
 <2>1. s.owed # Nothing => s.owed = [o EXCEPT !.chans = left]
   BY <1>8
 <2> HIDE DEF s, b, rest, o
 <2>2. o.at <= s.cursor /\ s.firedAt <= s.cursor /\ SentBy(s.cursor) /\ s.cursor <= time
   BY <1>1, <1>8
 <2>3. left \in SUBSET o.chans /\ Tells(o, left)
   BY DEF o
 <2> QED BY <1>4, <1>8, <2>1, <2>2, <2>3, StateAfterTelling
<1>11. MergeEvaluatorState(device, p) = s
 <2>1. p.state = s /\ p.sig = 1 /\ p.removed = Nothing
   BY <1>2 DEF Patch
 <2>2. s.owed # Nothing => s.owed.at <= s.cursor
  <3>1. s.owed # Nothing => s.owed.at = o.at
   <4>1. [o EXCEPT !.chans = left].at = o.at
    <5> HIDE DEF o
    <5> QED BY <1>1 DEF Deliveries
   <4> HIDE DEF s, o
   <4> QED BY <1>8, <4>1
  <3> HIDE DEF s, o
  <3> QED BY <1>1, <1>8, <3>1
 <2> HIDE DEF s, p, b, rest, o
 <2>3. PushAlertStateCursor(s) = b.cursor
  <3>1. s.firedAt <= s.cursor /\ s.try <= s.cursor
    BY <1>1, <1>3, <1>8
  <3> QED BY <1>8, <2>2, <3>1, CursorIs
 <2>4. device.state # Nothing => PushAlertStateCursor(p.state) >= PushAlertStateCursor(device.state)
   BY <1>1, <1>3, <2>1, <2>3, CursorOfState
 <2> QED BY <1>1, <1>8, <2>1, <2>4, DeviceIs, CursorOfState, MergeKeeps DEF Owed
<1>12. Delivered(v, left) = Writing(v, s, Nothing)
  BY DEF Delivered, Announcing
<1>13. PICK u : u = Delivered(v, left)
  OBVIOUS
<1>14. u.at = "write" /\ u.base = device /\ u.patch = p
  BY <1>1, <1>12, <1>13 DEF Writing
<1>15. PICK t : t = s
  OBVIOUS
<1> HIDE DEF p, s, b, rest, o
<1>16. StateOK(t)'
  BY <1>10, <1>15
<1>17. MergeEvaluatorState(device, u.patch) = t
  BY <1>11, <1>14, <1>15
<1>18. Doing(u)'
  BY <1>14, <1>16, <1>17, WritesAfter
<1> QED BY <1>9, <1>13, <1>18

LEMMA RepeatedIsWritten ==
  ASSUME Alone, SentOK, Market, NEW v, Repeating(v), NEW left \in SUBSET v.owed.chans,
         Tells(v.owed, left), device' = device
  PROVE  SentOK' /\ Doing(Delivered(v, left))'
<1>0. PICK b : b = v.base
  OBVIOUS
<1>00. PICK o : o = v.owed
  OBVIOUS
<1>1. /\ b = device.state /\ o = b.owed /\ b # Nothing /\ o # Nothing
      /\ v.snap = device /\ StateOK(device.state)
  BY <1>0, <1>00 DEF Repeating, HasRead, Owed
<1>2. /\ b \in States /\ b.sig = 1 /\ b.firedAt <= b.cursor /\ b.try <= b.cursor /\ b.cursor <= time
      /\ SentBy(b.cursor) /\ ~ (b.try > 0) /\ o.at <= b.cursor /\ OwesRightly(o)
  BY <1>1 DEF StateOK
<1>3. b.cursor \in Nat /\ b.try = 0 /\ b.firedAt \in Nat /\ time \in Nat
  BY <1>2 DEF States, Market
<1>4. o \in Deliveries /\ o.rev = 1 /\ o.at \in Nat /\ o.at <= time
  BY <1>2, <1>3 DEF OwesRightly, Deliveries
<1>5. Judged(v).rev = 1
 <2>1. v.def # Nothing => v.def.rev = 1
   BY DEF Repeating, HasRead
 <2> QED BY <1>1, <1>4, <2>1 DEF Judged
<1>6. left \in SUBSET o.chans /\ Tells(o, left)
  BY <1>00
<1>7. SentOK'
  BY <1>2, <1>4, <1>6, TellingIsNew
<1>8. PushAlertStateCursor(b) = b.cursor
  BY <1>1, CursorOfState
<1>9. CASE left # {}
 <2>1. PICK r : r = [o EXCEPT !.chans = left]
   OBVIOUS
 <2>2. r \in Deliveries /\ r # Nothing /\ r.at = o.at
  <3>1. left \subseteq Channel
    BY <1>4, <1>6 DEF Deliveries
  <3>2. r \in Deliveries /\ r.at = o.at
    BY <1>4, <2>1, <3>1 DEF Deliveries
  <3> QED BY <3>2, PushConstants
 <2>3. PICK s : s = [b EXCEPT !.owed = r]
   OBVIOUS
 <2>4. /\ s \in States /\ s.sig = 1 /\ s.firedAt = b.firedAt /\ s.cursor = b.cursor /\ s.try = 0
       /\ s.owed = r
   BY <1>2, <1>3, <2>2, <2>3 DEF States
 <2>5. StateOK(s)'
   BY <1>2, <1>3, <1>4, <1>6, <2>1, <2>4, StateAfterTelling
 <2>6. PICK p : p = Patch(v, s, Nothing)
   OBVIOUS
 <2>7. p.state = s /\ p.sig = 1 /\ p.removed = Nothing
   BY <1>5, <2>6 DEF Patch
 <2>8. PushAlertStateCursor(s) = b.cursor
  <3>1. s.firedAt <= s.cursor /\ s.try <= s.cursor /\ s.owed.at <= s.cursor
    BY <1>2, <1>3, <2>2, <2>4
  <3> QED BY <2>4, <3>1, CursorIs
 <2>9. MergeEvaluatorState(device, p) = s
  <3>1. p.state = [device.state EXCEPT !.owed = [device.state.owed EXCEPT !.chans = left]]
    BY <1>1, <2>1, <2>3, <2>7
  <3>2. left \subseteq device.state.owed.chans /\ device.state.owed # Nothing
    BY <1>1, <1>6
  <3>3. PushAlertStateCursor(p.state) = PushAlertStateCursor(device.state)
    BY <1>1, <1>8, <2>7, <2>8
  <3>4. MergeEvaluatorState(device, p) = p.state
    BY <1>1, <1>2, <1>3, <1>8, <2>7, <3>1, <3>2, <3>3, DeviceIs, MergeOwes
  <3> QED BY <2>7, <3>4
 <2>10. Delivered(v, left) = Writing(v, s, Nothing)
   BY <1>0, <1>00, <1>9, <2>1, <2>2, <2>3 DEF Delivered, Repeating
 <2>11. PICK u : u = Delivered(v, left)
   OBVIOUS
 <2>12. u.at = "write" /\ u.base = device /\ u.patch = p
   BY <1>1, <2>6, <2>10, <2>11 DEF Writing
 <2>13. Doing(u)'
   BY <2>5, <2>9, <2>12, WritesAfter
 <2> QED BY <1>7, <2>11, <2>13
<1>10. CASE left = {}
 <2>1. PICK done : done = [sig |-> b.sig, rev |-> o.rev, at |-> o.at, cursor |-> PushAlertStateCursor(b)]
   OBVIOUS
 <2>2. done \in Removals
   BY <1>2, <1>3, <1>4, <1>8, <2>1 DEF Removals
 <2>3. done # Nothing
   BY <2>2, PushConstants
 <2>4. PICK s : s = IF v.def = Nothing THEN Nothing ELSE [b EXCEPT !.owed = Nothing]
   OBVIOUS
 <2>5. Delivered(v, left) = Writing(v, s, done)
  <3>1. CASE v.def = Nothing
    BY <1>0, <1>00, <1>10, <2>1, <2>4, <3>1 DEF Delivered, Repeating
  <3>2. CASE v.def # Nothing
    BY <1>0, <1>00, <1>2, <1>5, <1>10, <2>1, <2>4, <3>2 DEF Delivered, Repeating
  <3> QED BY <3>1, <3>2
 <2>6. PICK p : p = Patch(v, s, done)
   OBVIOUS
 <2>7. p.state = s /\ p.sig = 1 /\ p.removed = done
   BY <1>5, <2>6 DEF Patch
 <2>8. PICK x : x = [b EXCEPT !.owed = Nothing]
   OBVIOUS
 <2>9. PushAlertStateCursor(x) = b.cursor
  <3>1. /\ x \in States /\ x.firedAt = b.firedAt /\ x.try = b.try /\ x.cursor = b.cursor /\ x.owed = Nothing
    BY <1>2, <2>8 DEF States
  <3> QED BY <1>2, <3>1, CursorIs
 <2>10. MergeEvaluatorState(device, p) = Nothing
  <3>1. p.state \in {Nothing, [device.state EXCEPT !.owed = Nothing]}
    BY <1>1, <2>4, <2>7
  <3>2. p.removed = [sig |-> 1, rev |-> device.state.owed.rev, at |-> device.state.owed.at,
                     cursor |-> PushAlertStateCursor(device.state)]
    BY <1>1, <1>2, <2>1, <2>7
  <3>3. PushAlertStateCursor([device.state EXCEPT !.owed = Nothing]) = PushAlertStateCursor(device.state)
    BY <1>1, <1>8, <2>8, <2>9
  <3> QED BY <1>1, <1>2, <1>3, <1>8, <2>3, <2>7, <3>1, <3>2, <3>3, DeviceIs, MergeEnds
 <2>11. PICK u : u = Delivered(v, left)
   OBVIOUS
 <2>12. u.at = "write" /\ u.base = device /\ u.patch = p
   BY <1>1, <2>5, <2>6, <2>11 DEF Writing
 <2>13. StateOK(Nothing)'
   BY DEF StateOK
 <2>14. Doing(u)'
   BY <2>10, <2>12, <2>13, WritesAfter
 <2> QED BY <1>7, <2>11, <2>14
<1> QED BY <1>9, <1>10

LEMMA DeliverKeeps ==
  ASSUME Undisturbed, NEW w, Worker = {w}, Deliver(w)
  PROVE  Undisturbed'
<1>1. Alone /\ Market /\ SentOK /\ Pushing(w)
  BY DEF Undisturbed
<1>2. PICK v : v = doing[w]
  OBVIOUS
<1>3. v.at = "deliver" /\ UNCHANGED <<current, device, row, committed, local, syncing, time, hits>>
  BY <1>2 DEF Deliver
<1>40. PICK left \in SUBSET doing[w].owed.chans :
         LET went == {[rev |-> doing[w].owed.rev, at |-> doing[w].owed.at, chan |-> c] :
                        c \in doing[w].owed.chans \ left} IN
         /\ doing' = [doing EXCEPT ![w] = Delivered(doing[w], left)]
         /\ sent' = [k \in DOMAIN sent \union went |->
                       AtMost((IF k \in DOMAIN sent THEN sent[k] ELSE 0)
                              + (IF k \in went THEN 1 ELSE 0), 2)]
  BY ZenonT(60) DEF Deliver
<1>41. Tells(doing[w].owed, left)
  BY <1>3, <1>40, Zenon DEF Tells, Went
<1>42. Delivered(v, left) = Delivered(doing[w], left)
  BY <1>2, Zenon
<1>4. left \in SUBSET v.owed.chans /\ doing' = [doing EXCEPT ![w] = Delivered(v, left)] /\ Tells(v.owed, left)
 <2>1. v.owed = doing[w].owed
   BY <1>2
 <2> QED BY <1>40, <1>41, <1>42, <2>1, Zenon
<1>5. PICK u : u = Delivered(v, left)
  OBVIOUS
<1>6. SentOK' /\ Doing(u)'
 <2>1. CASE Announcing(v)
   BY <1>1, <1>3, <1>4, <1>5, <2>1, AnnouncedIsWritten
 <2>2. CASE Repeating(v)
   BY <1>1, <1>3, <1>4, <1>5, <2>2, RepeatedIsWritten
 <2> QED BY <1>1, <1>2, <1>3, <2>1, <2>2 DEF Pushing, Doing
<1>7. committed' \subseteq [rev : {1}, at : 0..time]
      /\ row' \in [rev : {1}, recurring : BOOLEAN, since : {0}, active : BOOLEAN]
  BY <1>1, <1>3 DEF Market, Alone
<1>8. doing[w].at # "idle"
  BY <1>2, <1>3
<1> QED BY <1>3, <1>4, <1>5, <1>6, <1>7, <1>8, GoesOn

(* One pass: the device. *)
LEMMA WriteKeeps ==
  ASSUME Undisturbed, NEW w, Worker = {w}, Write(w)
  PROVE  Undisturbed'
<1>1. Alone /\ Market /\ SentOK /\ Pushing(w)
  BY DEF Undisturbed
<1>2. PICK v : v = doing[w]
  OBVIOUS
<1>3. v.at = "write" /\ UNCHANGED <<row, committed, local, syncing, time, hits, sent>>
  BY <1>2 DEF Write
<1>4. v.base = device /\ StateOK(MergeEvaluatorState(device, v.patch)) /\ w \in current
  BY <1>1, <1>2, <1>3 DEF Pushing, Doing, Writes
<1>5. PICK m : m = MergeEvaluatorState(device, v.patch)
  OBVIOUS
<1>6. device' = [device EXCEPT !.state = m] /\ doing' = [doing EXCEPT ![w] = Resting] /\ current' = {}
  BY <1>2, <1>4, <1>5 DEF Write
<1>7. device' = [def |-> local, state |-> m] /\ device'.state = m
  BY <1>1, <1>6 DEF Alone
<1>8. StateOK(device.state)'
 <2>1. StateOK(m)'
  <3>1. Elapses
    BY <1>1, <1>3 DEF Elapses, Market
  <3> QED BY <1>4, <1>5, <3>1, StateStays
 <2> QED BY <1>7, <2>1
<1>9. Alone' /\ Market'
  BY <1>1, <1>3, <1>7 DEF Alone, Market
<1>10. SentOK'
  BY <1>1, <1>3 DEF SentOK, Recorded
<1>11. doing'[w].at = "idle" /\ DOMAIN doing' = Worker
  BY <1>1, <1>6 DEF Pushing, Resting
<1>12. Pushing(w)'
  BY <1>6, <1>8, <1>11 DEF Pushing, Doing
<1> QED BY <1>9, <1>10, <1>12 DEF Undisturbed

-----------------------------------------------------------------------------
LEMMA TheInstance ==
  ASSUME Regime
  PROVE  \E w \in Worker : Worker = {w}
<1>1. \E x : Worker = {x}
  BY PushConstants, FS_Singleton DEF Regime
<1> QED BY <1>1

(* The channels of an alert nobody edits, watched by one instance: Init and  *)
(* every step of PushSpec keep PushInv, and with it each is told once.       *)
LEMMA PushStarts ==
  ASSUME PushInit
  PROVE  PushInv
<1>1. editions \in Nat
  BY DEF PushInit
<1>2. Alone
 <2>1. local \in Definitions /\ local.rev = 1
   BY DEF PushInit, Definitions
 <2>2. device = [def |-> local, state |-> device.state]
   BY DEF PushInit
 <2>3. row \in [rev : {1}, recurring : BOOLEAN, since : {0}, active : BOOLEAN]
   BY DEF PushInit
 <2> QED BY <2>1, <2>2, <2>3 DEF Alone, PushInit
<1>3. Market /\ SentOK
  BY DEF Market, SentOK, PushInit, None
<1>4. ASSUME Regime, NEW w \in Worker
      PROVE  Pushing(w)
 <2>1. Worker = {w}
   BY <1>4, TheInstance
 <2>2. doing[w].at = "idle" /\ DOMAIN doing = Worker /\ current = {}
   BY DEF PushInit, Resting
 <2>3. StateOK(device.state)
   BY DEF PushInit, StateOK
 <2> QED BY <2>1, <2>2, <2>3 DEF Pushing, Doing
<1> QED BY <1>1, <1>2, <1>3, <1>4 DEF PushInv, Undisturbed

LEMMA RegimeGrows ==
  ASSUME editions \in Nat, [PushNext]_pushVars
  PROVE  editions' \in Nat /\ (Regime' => Regime /\ editions' = editions)
<1>1. editions' \in {editions, editions + 1} /\ mishaps \subseteq mishaps'
  BY DEF PushNext, pushVars, BrowserEdits, BrowserRemoves, BrowserFires, SyncReads, SyncWrites,
         MarketTick, Pass, List, Judge, Persist, Deliver, Write, WorkerDies, Edition, Mishap
<1> QED BY <1>1 DEF Regime

LEMMA PushStep ==
  ASSUME PushInv, [PushNext]_pushVars
  PROVE  PushInv'
<1>1. editions' \in Nat
  BY RegimeGrows DEF PushInv
<1>2. SUFFICES ASSUME Regime'
               PROVE  Undisturbed'
  BY <1>1 DEF PushInv
<1>3. Regime /\ editions' = editions /\ editions \in Nat /\ Undisturbed
  BY <1>2, RegimeGrows DEF PushInv
<1>4. PICK w \in Worker : Worker = {w}
  BY <1>3, TheInstance
<1>5. CASE BrowserEdits \/ BrowserRemoves \/ BrowserFires
  BY <1>3, <1>5 DEF BrowserEdits, BrowserRemoves, BrowserFires, Edition
<1>6. CASE SyncReads \/ SyncWrites
 <2>1. device.def = local /\ syncing = Nothing
   BY <1>3 DEF Undisturbed, Alone
 <2> QED BY <1>6, <2>1 DEF SyncReads, SyncWrites
<1>7. CASE MarketTick
 <2>1. time \in Nat /\ hits \subseteq 1..time
   BY <1>3 DEF Undisturbed, Market
 <2>2. time' = time + 1 /\ hits' \subseteq hits \union {time + 1}
   BY <1>7 DEF MarketTick
 <2>3. time' \in Nat /\ time <= time' /\ hits' \subseteq 1..time'
   BY <2>1, <2>2
 <2>4. UNCHANGED <<current, device, row, committed, local, syncing, doing, sent>>
   BY <1>7 DEF MarketTick
 <2> QED BY <1>3, <1>4, <2>3, <2>4, TimePasses
<1>8. CASE UNCHANGED pushVars
 <2>1. time \in Nat /\ hits \subseteq 1..time
   BY <1>3 DEF Undisturbed, Market
 <2>2. time' \in Nat /\ time <= time' /\ hits' \subseteq 1..time'
   BY <1>8, <2>1 DEF pushVars
 <2>3. UNCHANGED <<current, device, row, committed, local, syncing, doing, sent>>
   BY <1>8 DEF pushVars
 <2> QED BY <1>3, <1>4, <2>2, <2>3, TimePasses
<1>9. CASE \E x \in Worker : Pass(x) \/ WorkerDies(x)
 <2>1. Pass(w) \/ WorkerDies(w)
   BY <1>4, <1>9
 <2>2. ~ WorkerDies(w)
   BY <1>2 DEF Regime, WorkerDies, Mishap
 <2>3. CASE List(w)
   BY <1>2, <1>3, <1>4, <2>3, ListKeeps
 <2>4. CASE Judge(w)
   BY <1>2, <1>3, <1>4, <2>4, JudgeKeeps
 <2>5. CASE Persist(w)
   BY <1>2, <1>3, <1>4, <2>5, PersistKeeps
 <2>6. CASE Deliver(w)
   BY <1>2, <1>3, <1>4, <2>6, DeliverKeeps
 <2>7. CASE Write(w)
   BY <1>2, <1>3, <1>4, <2>7, WriteKeeps
 <2> QED BY <2>1, <2>2, <2>3, <2>4, <2>5, <2>6, <2>7 DEF Pass
<1> QED BY <1>5, <1>6, <1>7, <1>8, <1>9 DEF PushNext

(* One evaluator instance that does not die, the canonical alerts listed and *)
(* no edit in between: whatever sends fail, answers are lost and prices      *)
(* missing, deliverTriggerNotifications tells each channel of a crossing     *)
(* once, the retries of pushAlertEvaluator.ts included.                      *)
THEOREM ChannelsToldOnce == PushSpec => []DeliveredOnce
<1>1. PushInit => PushInv
  BY PushStarts
<1>2. PushInv /\ [PushNext]_pushVars => PushInv'
  BY PushStep
<1>3. PushInv => DeliveredOnce
 <2>1. Regime /\ SentOK => \A k \in DOMAIN sent : sent[k] <= 1
   BY DEF SentOK
 <2> QED BY <2>1 DEF PushInv, Undisturbed, Regime, DeliveredOnce
<1> QED BY <1>1, <1>2, <1>3, PTL DEF PushSpec
==============================================================================
