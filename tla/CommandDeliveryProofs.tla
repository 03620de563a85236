------------------------ MODULE CommandDeliveryProofs ------------------------
(* Theorems about CommandDelivery, for every set of commands, terminals and *)
(* sessions, every timing and every bound on faults.                        *)
EXTENDS CommandDelivery, FiniteSetTheorems, TLAPS

\* A request that moves on through accept_events stays a request.
LEMMA AdvanceType ==
  ASSUME batches \in SUBSET Batch, NEW b \in batches,
         NEW ph \in {"sent", "events", "lease", "activate"},
         NEW acts \in SUBSET Command,
         Advance(b, ph, acts)
  PROVE  batches' \in SUBSET Batch
BY DEF Advance, Batch

\* The poll transaction keeps the rows in their domains, and it leases commands.
LEMMA TypePoll ==
  ASSUME TypeOK, NEW s \in Session, NEW leased, PollTransaction(s, leased)
  PROVE  /\ leased \in SUBSET Command
         /\ status' \in [Command -> Status]
         /\ rejectCode' \in [Command -> RejectCode]
         /\ firstDelivered' \in [Command -> BOOLEAN]
         /\ terminalAck' \in [Command -> BOOLEAN]
         /\ lease' \in [Command -> Nat]
         /\ leaseOwner' \in [Command -> Session \cup {NoSession}]
         /\ ttl' \in [Command -> Nat]
         /\ pollFresh' \in Nat
<1> USE ConstantsAssumption DEF TypeOK, PollTransaction
<1>1. leased \in SUBSET Command
  BY DEF Limited, Due
<1>2. status' \in [Command -> Status]
  BY DEF Status, ExpiredStatus
<1>3. rejectCode' \in [Command -> RejectCode]
  BY DEF RejectCode, UndeliveredCode
<1>4. firstDelivered' \in [Command -> BOOLEAN]
  BY DEF Delivered
<1>5. terminalAck' \in [Command -> BOOLEAN]
  OBVIOUS
<1>6. lease' \in [Command -> Nat] /\ ttl' \in [Command -> Nat]
  OBVIOUS
<1>7. leaseOwner' \in [Command -> Session \cup {NoSession}]
  OBVIOUS
<1> QED BY <1>1, <1>2, <1>3, <1>4, <1>5, <1>6, <1>7

\* Orders, deferrals, the sweeper and disconnects keep every row in its domain.
LEMMA TypeAdmin ==
  ASSUME TypeOK, Admin \/ \E c \in Command : Enqueue(c)
  PROVE  TypeOK'
<1> USE ConstantsAssumption
<1>1. ASSUME NEW c \in Command, Admit(c) PROVE TypeOK'
  BY <1>1 DEF TypeOK, Admit, rowVars, eaVars, boundVars
<1>2. ASSUME NEW c \in Command, Enqueue(c) PROVE TypeOK'
  BY <1>2 DEF TypeOK, Enqueue, eaVars, boundVars, Status
<1>3. ASSUME NEW c \in Command, DeferOrder(c) PROVE TypeOK'
  BY <1>3 DEF TypeOK, DeferOrder, accountVars, eaVars, boundVars, Status
<1>4. ASSUME NEW r \in BOOLEAN, Disconnect(r) PROVE TypeOK'
  BY <1>4 DEF TypeOK, Disconnect, eaVars, Status, RejectCode, DisconnectCode
<1> QED BY <1>1, <1>2, <1>3, <1>4 DEF Admin

\* So do crashes, losses, timeouts, expiries and dropped events.
LEMMA TypeEnvironment ==
  ASSUME TypeOK, Environment
  PROVE  TypeOK'
<1> USE ConstantsAssumption DEF Fault
<1>1. ASSUME ExpireSession PROVE TypeOK'
  BY <1>1 DEF TypeOK, ExpireSession, rowVars, eaVars
<1>2. ASSUME NEW t \in Terminal, Pair(t, FALSE) PROVE TypeOK'
 <2>1. activeSession' \in Session /\ session' = session
   BY <1>2 DEF Pair, FreshSession
 <2>2. faults' \in Nat /\ disconnects' \in Nat
   BY <1>2 DEF Pair, TypeOK
 <2>3. pollFresh' \in Nat /\ disabled' \in BOOLEAN
   BY <1>2 DEF Pair
 <2>4. UNCHANGED <<rowVars, admitted, batches, inbox, pcAt, pcCmd, journal,
                   events, sent>>
   BY <1>2 DEF Pair
 <2> QED BY <2>1, <2>2, <2>3, <2>4 DEF TypeOK, rowVars
<1>3. ASSUME NEW t \in Terminal, PollLost(t) PROVE TypeOK'
 <2>1. session[t] \in Session
   BY <1>3 DEF PollLost, TypeOK
 <2> PICK leased \in SUBSET Command : PollTransaction(session[t], leased)
   BY <1>3 DEF PollLost
 <2>2. UNCHANGED <<nextAttempt, deliverBy, activeSession, disabled, admitted>>
   BY DEF PollTransaction
 <2> HIDE DEF PollTransaction
 <2> QED BY <1>3, <2>1, <2>2, TypePoll DEF TypeOK, PollLost, eaVars
<1>4. ASSUME NEW t \in Terminal, Crash(t) PROVE TypeOK'
 <2>1. batches' \in SUBSET Batch
  <3> SUFFICES ASSUME NEW x \in batches' PROVE x \in Batch
    OBVIOUS
  <3> PICK b \in batches :
        x = IF b.from = t THEN [b EXCEPT !.live = FALSE] ELSE b
    BY <1>4 DEF Crash
  <3>1. b \in Batch
    BY DEF TypeOK
  <3>2. [b EXCEPT !.live = FALSE] \in Batch
    BY <3>1 DEF Batch
  <3> QED BY <3>1, <3>2
 <2> QED BY <1>4, <2>1 DEF TypeOK, Crash, rowVars, accountVars, Outcome
<1>5. ASSUME NEW t \in Terminal, NEW c \in Command, DropOldestEvent(t, c)
      PROVE TypeOK'
  BY <1>5 DEF TypeOK, DropOldestEvent, rowVars, accountVars, Outcome
<1>6. ASSUME NEW b \in batches, LoseRequest(b) \/ FailRequest(b) PROVE TypeOK'
  BY <1>6 DEF TypeOK, LoseRequest, FailRequest, rowVars, accountVars, eaVars
<1>7. ASSUME NEW b \in batches, Timeout(b) PROVE TypeOK'
 <2>1. batches' \in SUBSET Batch
  <3>1. b \in Batch /\ batches \in SUBSET Batch
    BY DEF TypeOK
  <3>2. [b EXCEPT !.live = FALSE] \in Batch
    BY <3>1 DEF Batch
  <3> QED BY <1>7, <3>1, <3>2 DEF Timeout
 <2> QED BY <1>7, <2>1 DEF TypeOK, Timeout, rowVars, accountVars, eaVars
<1> QED BY <1>1, <1>2, <1>3, <1>4, <1>5, <1>6, <1>7 DEF Environment

\* An EA's requests (pairing, poll, flush) keep the types.
LEMMA TypeTerminal ==
  ASSUME TypeOK, NEW t \in Terminal,
         \/ Pair(t, TRUE) \/ Poll(t) \/ PollUnauthorized(t)
         \/ Flush(t, events[t]) \/ Flush(t, NoEvents)
  PROVE  TypeOK'
<1> USE ConstantsAssumption
<1>1. CASE Pair(t, TRUE)
 <2>1. PICK s \in Session : /\ activeSession' = s
                             /\ session' = [session EXCEPT ![t] = s]
   BY <1>1 DEF Pair, FreshSession
 <2> QED BY <1>1, <2>1 DEF TypeOK, Pair, rowVars, boundVars
<1>2. CASE Poll(t)
 <2>1. session[t] \in Session
   BY <1>2 DEF Poll, TypeOK
 <2> PICK leased \in SUBSET Command :
        /\ PollTransaction(session[t], leased)
        /\ inbox' = [inbox EXCEPT ![t] = leased]
   BY <1>2 DEF Poll
 <2>2. UNCHANGED <<nextAttempt, deliverBy, activeSession, disabled, admitted>>
   BY DEF PollTransaction
 <2>3. inbox' \in [Terminal -> SUBSET Command]
   BY DEF TypeOK
 <2> QED BY <1>2, <2>1, <2>2, <2>3, TypePoll DEF TypeOK, Poll, boundVars
<1>3. CASE PollUnauthorized(t)
  BY <1>3 DEF TypeOK, PollUnauthorized, rowVars, accountVars, boundVars
<1>4. ASSUME NEW p \in [Command -> Outcome], Flush(t, p) PROVE TypeOK'
 <2>1. batches' \in SUBSET Batch
  <3>1. session[t] \in Session
    BY <1>4 DEF TypeOK, Flush
  <3>2. [from |-> t, session |-> session[t], events |-> p,
         phase |-> "sent", acts |-> {}, live |-> TRUE] \in Batch
    BY <1>4, <3>1 DEF Batch
  <3> QED BY <1>4, <3>2 DEF TypeOK, Flush
 <2> QED BY <1>4, <2>1 DEF TypeOK, Flush, rowVars, accountVars, eaVars,
                           boundVars
<1>5. events[t] \in [Command -> Outcome] /\ NoEvents \in [Command -> Outcome]
  BY DEF TypeOK, NoEvents, Outcome
<1> QED BY <1>1, <1>2, <1>3, <1>4, <1>5

\* So does its work on a poll response, from the journal to OrderSend.
LEMMA TypeExecute ==
  ASSUME TypeOK, NEW t \in Terminal, Execute(t)
  PROVE  TypeOK'
<1> USE ConstantsAssumption DEF Take, Record
<1>0. ASSUME NEW c \in Command, NEW o \in Outcome
      PROVE Buffered(t, c, o) \in [Terminal -> [Command -> Outcome]]
  BY DEF TypeOK, Buffered
<1>00. ASSUME NEW c \in Command, NEW j \in JournalState
       PROVE [journal EXCEPT ![t][c] = j]
               \in [Terminal -> [Command -> JournalState]]
  BY DEF TypeOK
<1>01. journal \in [Terminal -> [Command -> JournalState]]
  BY DEF TypeOK
<1>02. "accepted" \in JournalState /\ "rejected" \in JournalState
  BY DEF JournalState
<1>1. ASSUME NEW c \in Command, ReplayOutcome(t, c) PROVE TypeOK'
 <2>1. journal[t][c] \in Outcome
   BY <1>1 DEF ReplayOutcome, Outcome
 <2>2. events' \in [Terminal -> [Command -> Outcome]]
   BY <1>0, <1>1, <2>1 DEF ReplayOutcome
 <2> QED BY <1>1, <2>2 DEF TypeOK, ReplayOutcome, rowVars, accountVars,
                           boundVars
<1>2. ASSUME NEW c \in Command, Reconcile(t, c) PROVE TypeOK'
 <2>1. events' \in [Terminal -> [Command -> Outcome]]
   BY <1>0, <1>2 DEF Reconcile, Outcome, TypeOK
 <2>2. journal' \in [Terminal -> [Command -> JournalState]]
  <3>1. journal' \in {journal, [journal EXCEPT ![t][c] = "accepted"]}
    BY <1>2 DEF Reconcile
  <3> QED BY <1>00, <1>01, <1>02, <3>1
 <2> QED BY <1>2, <2>1, <2>2 DEF TypeOK, Reconcile, rowVars, accountVars,
                                 boundVars
<1>3. ASSUME NEW c \in Command, RejectLocally(t, c) PROVE TypeOK'
 <2>1. events' \in [Terminal -> [Command -> Outcome]]
   BY <1>0, <1>3 DEF RejectLocally, Outcome
 <2>2. journal' \in [Terminal -> [Command -> JournalState]]
  <3>1. journal' \in {journal, [journal EXCEPT ![t][c] = "rejected"]}
    BY <1>3 DEF RejectLocally
  <3> QED BY <1>00, <1>01, <1>02, <3>1
 <2> QED BY <1>3, <2>1, <2>2 DEF TypeOK, RejectLocally, rowVars, accountVars,
                                 boundVars
<1>4. ASSUME NEW c \in Command, JournalSubmitting(t, c) PROVE TypeOK'
  BY <1>4 DEF TypeOK, JournalSubmitting, rowVars, accountVars, boundVars,
              JournalState
<1>5. ASSUME NEW placed \in BOOLEAN, OrderSend(t, placed) PROVE TypeOK'
 <2>1. pcCmd[t] \in Command
   BY <1>5 DEF OrderSend, TypeOK
 <2>2. sent' \in [Terminal -> [Command -> Nat]]
   BY <1>5, <2>1 DEF OrderSend, TypeOK
 <2> QED BY <1>5, <2>2 DEF TypeOK, OrderSend, rowVars, accountVars, boundVars
<1>6. ASSUME RecordResult(t) PROVE TypeOK'
 <2>1. pcCmd[t] \in Command
   BY <1>6 DEF RecordResult, TypeOK
 <2>2. events' \in [Terminal -> [Command -> Outcome]]
   BY <1>0, <1>6, <2>1 DEF RecordResult, Outcome
 <2>3. journal' \in [Terminal -> [Command -> JournalState]]
  <3>1. PICK o \in {"accepted", "rejected"} :
          \/ journal' = [journal EXCEPT ![t][pcCmd[t]] = o]
          \/ journal' = journal
    BY <1>6 DEF RecordResult
  <3>2. o \in JournalState
    BY DEF JournalState
  <3>3. [journal EXCEPT ![t][pcCmd[t]] = o]
          \in [Terminal -> [Command -> JournalState]]
    BY <1>00, <2>1, <3>2
  <3> QED BY <3>1, <3>3 DEF TypeOK
 <2> QED BY <1>6, <2>2, <2>3 DEF TypeOK, RecordResult, rowVars, accountVars,
                                 boundVars
<1> QED BY <1>1, <1>2, <1>3, <1>4, <1>5, <1>6 DEF Execute

\* The gateway's work on an event batch, transaction by transaction.
LEMMA TypeServe ==
  ASSUME TypeOK, NEW b \in batches, Serve(b)
  PROVE  TypeOK'
<1> USE ConstantsAssumption
<1>0. batches \in SUBSET Batch /\ b \in Batch
  BY DEF TypeOK
<1>1. CASE Authenticate(b)
 <2>1. batches' \in SUBSET Batch
   BY <1>0, <1>1, AdvanceType DEF Authenticate
 <2>2. b.from \in Terminal
   BY <1>0 DEF Batch
 <2> QED BY <1>1, <2>1, <2>2 DEF TypeOK, Authenticate, rowVars, accountVars,
                                 boundVars
<1>2. CASE PersistEvents(b)
 <2>1. batches' \in SUBSET Batch
   BY <1>0, <1>2, AdvanceType DEF PersistEvents
 <2>2. CASE UNCHANGED rowVars
   BY <1>2, <2>1, <2>2 DEF TypeOK, PersistEvents, rowVars, accountVars,
                           eaVars, boundVars
 <2>3. CASE ~ \E c \in Command : Conflicts(c, b.events[c])
  <3>1. status' \in [Command -> Status]
   <4>1. status' = [c \in Command |->
           IF b.events[c] \in {"accepted", "rejected"}
             THEN FinalStatus(b.events[c])
             ELSE IF b.events[c] # "none" THEN "unknown" ELSE status[c]]
     BY <1>2, <2>3 DEF PersistEvents
   <4>2. \A o : FinalStatus(o) \in Status
     BY DEF FinalStatus, Status
   <4> QED BY <4>1, <4>2 DEF TypeOK, Status
  <3>2. rejectCode' \in [Command -> RejectCode]
    BY <1>2, <2>3 DEF TypeOK, PersistEvents, CodeAfter, RejectCode
  <3>3. terminalAck' \in [Command -> BOOLEAN]
   <4>1. terminalAck' = [c \in Command |->
           terminalAck[c] \/ b.events[c] \in {"accepted", "rejected"}]
     BY <1>2, <2>3 DEF PersistEvents
   <4> QED BY <4>1 DEF TypeOK
  <3>4. lease' \in [Command -> Nat] /\ nextAttempt' \in [Command -> Nat]
    BY <1>2, <2>3 DEF TypeOK, PersistEvents
  <3>5. leaseOwner' \in [Command -> Session \cup {NoSession}]
    BY <1>2, <2>3 DEF TypeOK, PersistEvents
  <3>6. UNCHANGED <<firstDelivered, ttl, deliverBy, accountVars, eaVars,
                    boundVars>>
    BY <1>2, <2>3 DEF PersistEvents
  <3> QED BY <2>1, <3>1, <3>2, <3>3, <3>4, <3>5, <3>6
          DEF TypeOK, accountVars, eaVars, boundVars
 <2> QED BY <1>2, <2>2, <2>3 DEF PersistEvents
<1>3. CASE LeaseDeferred(b)
 <2> PICK acts \in Limited(Activatable, MaxActivations) :
        /\ Advance(b, "activate", acts)
        /\ lease' = [c \in Command |->
                       IF c \in acts THEN CommandLease ELSE lease[c]]
        /\ leaseOwner' = [c \in Command |->
                            IF c \in acts THEN b.session ELSE leaseOwner[c]]
   BY <1>3 DEF LeaseDeferred
 <2>1. acts \in SUBSET Command
   BY DEF Limited, Activatable
 <2>2. batches' \in SUBSET Batch
   BY <1>0, <2>1, AdvanceType
 <2>3. b.session \in Session
   BY <1>0 DEF Batch
 <2> QED BY <1>3, <2>2, <2>3 DEF TypeOK, LeaseDeferred, accountVars, eaVars,
                                 boundVars
<1>4. ASSUME NEW c \in Command, NEW v \in Verdict, Activate(b, c, v)
      PROVE TypeOK'
 <2>1. batches' \in SUBSET Batch
  <3>1. b.acts \ {c} \in SUBSET Command
    BY <1>0 DEF Batch
  <3> QED BY <1>0, <1>4, <3>1, AdvanceType DEF Activate
 <2>2. CASE UNCHANGED rowVars
   BY <1>4, <2>1, <2>2 DEF TypeOK, Activate, rowVars, accountVars, eaVars,
                           boundVars
 <2>3. CASE StillLeased(b, c) /\ (v = "queue" => deliverBy[c] > 0)
  <3>1. status' \in [Command -> Status]
   <4>1. \/ status' = [status EXCEPT ![c] = "queued"]
         \/ status' = [status EXCEPT ![c] = "rejected"]
         \/ status' = [status EXCEPT ![c] = @]
     BY <1>4, <2>3 DEF Activate
   <4>2. "queued" \in Status /\ "rejected" \in Status
     BY DEF Status
   <4>3. status \in [Command -> Status]
     BY DEF TypeOK
   <4> QED BY <4>1, <4>2, <4>3
  <3>2. rejectCode' \in [Command -> RejectCode]
   <4>1. \E x \in RejectCode : rejectCode' = [rejectCode EXCEPT ![c] = x]
     BY <1>4, <2>3 DEF TypeOK, Activate, RejectCode, UndeliveredCode, Verdict
   <4> QED BY <4>1 DEF TypeOK
  <3>3. terminalAck' \in [Command -> BOOLEAN]
    BY <1>4, <2>3 DEF TypeOK, Activate
  <3>4. /\ lease' \in [Command -> Nat] /\ nextAttempt' \in [Command -> Nat]
        /\ ttl' \in [Command -> Nat]
   <4>1. lease' = [lease EXCEPT ![c] = 0]
     BY <1>4, <2>3 DEF Activate
   <4>2. \/ nextAttempt' = [nextAttempt EXCEPT ![c] = ReleaseBackoff]
         \/ nextAttempt' = nextAttempt
     BY <1>4, <2>3 DEF Activate
   <4>3. ttl' = [ttl EXCEPT ![c] = DeliveryTtl] \/ ttl' = ttl
     BY <1>4, <2>3 DEF Activate
   <4>4. lease' \in [Command -> Nat]
     BY <4>1 DEF TypeOK
   <4>5. nextAttempt' \in [Command -> Nat]
     BY <4>2 DEF TypeOK
   <4>6. ttl' \in [Command -> Nat]
     BY <4>3 DEF TypeOK
   <4> QED BY <4>4, <4>5, <4>6
  <3>5. leaseOwner' \in [Command -> Session \cup {NoSession}]
    BY <1>4, <2>3 DEF TypeOK, Activate
  <3>6. UNCHANGED <<firstDelivered, deliverBy, accountVars, eaVars,
                    boundVars>>
    BY <1>4, <2>3 DEF Activate
  <3> QED BY <2>1, <3>1, <3>2, <3>3, <3>4, <3>5, <3>6
          DEF TypeOK, accountVars, eaVars, boundVars
 <2> QED BY <1>4, <2>2, <2>3 DEF Activate
<1>5. CASE Respond(b)
 <2>1. NoEvents \in [Command -> Outcome]
   BY DEF NoEvents, Outcome
 <2>2. b.from \in Terminal
   BY <1>0 DEF Batch
 <2> QED BY <1>5, <2>1, <2>2 DEF TypeOK, Respond, rowVars, accountVars,
                                 boundVars
<1> QED BY <1>1, <1>2, <1>3, <1>4, <1>5 DEF Serve

\* Time and the sweeper: a countdown stops at zero.
LEMMA TypeTime ==
  ASSUME TypeOK, Tick \/ ExpireDeferredOrders
  PROVE  TypeOK'
<1> USE ConstantsAssumption
<1>1. CASE Tick
  BY <1>1 DEF TypeOK, Tick, Elapse, eaVars, boundVars
<1>2. CASE ExpireDeferredOrders
  BY <1>2 DEF TypeOK, ExpireDeferredOrders, accountVars, eaVars, boundVars,
              Status, RejectCode, UndeliveredCode
<1> QED BY <1>1, <1>2

\* Every step, and a stuttering one, keeps the types.
LEMMA TypeStep == TypeOK /\ [Next]_vars => TypeOK'
<1> SUFFICES ASSUME TypeOK, [Next]_vars PROVE TypeOK'
  OBVIOUS
<1>1. CASE Next
  BY <1>1, TypeAdmin, TypeEnvironment, TypeTerminal, TypeExecute, TypeServe,
     TypeTime DEF Next
<1>2. CASE UNCHANGED vars
  BY <1>2 DEF TypeOK, vars, rowVars, accountVars, eaVars, boundVars
<1> QED BY <1>1, <1>2

\* The empty database and the freshly installed EAs are well typed.
LEMMA TypeInit == Init => TypeOK
<1> SUFFICES ASSUME Init PROVE TypeOK
  OBVIOUS
<1>1. journal \in [Terminal -> [Command -> JournalState]]
  BY DEF Init, JournalState
<1>2. events \in [Terminal -> [Command -> Outcome]]
  BY DEF Init, Outcome
<1>3. sent \in [Terminal -> [Command -> Nat]]
  BY DEF Init
<1>4. status \in [Command -> Status] /\ rejectCode \in [Command -> RejectCode]
  BY DEF Init, Status, RejectCode
<1> QED BY <1>1, <1>2, <1>3, <1>4 DEF Init, TypeOK

\* Type correctness, for every behaviour of the gateway, the wire and the EAs.
THEOREM TypeCorrect == Spec => []TypeOK
BY TypeInit, TypeStep, PTL DEF Spec

-----------------------------------------------------------------------------
(* At most once per terminal.                                              *)

\* What the journal knows: nothing is at the broker that is not journalled, and
\* an EA about to call OrderSend has journalled the command and not sent it.
JournalInv ==
  \A t \in Terminal, c \in Command :
    /\ sent[t][c] <= 1
    /\ journal[t][c] = "none" => sent[t][c] = 0
    /\ pcAt[t] = "send" /\ pcCmd[t] = c
         => journal[t][c] = "submitting" /\ sent[t][c] = 0

\* The steps of the gateway and the wire touch neither journal nor broker.
LEMMA GatewayLeavesBroker ==
  ASSUME NEW b \in batches,
         \/ Serve(b) \/ LoseRequest(b) \/ FailRequest(b) \/ Timeout(b)
  PROVE  UNCHANGED <<inbox, pcAt, pcCmd, journal, sent>>
BY DEF Serve, LoseRequest, FailRequest, Timeout, Authenticate, PersistEvents,
       LeaseDeferred, Activate, Respond, eaVars

\* What a step may do to what an EA has in hand, on file and at the broker.
LEMMA BrokerSteps ==
  ASSUME Next
  PROVE  \/ UNCHANGED <<pcAt, pcCmd, journal, sent>>
         \/ \E t \in Terminal : Execute(t) \/ Crash(t)
<1>1. CASE Admin \/ ExpireDeferredOrders \/ Tick
              \/ \E c \in Command : Enqueue(c)
  BY <1>1 DEF Admin, Admit, Enqueue, DeferOrder, Disconnect,
              ExpireDeferredOrders, Tick, eaVars
<1>2. CASE Environment
  BY <1>2, GatewayLeavesBroker
     DEF Environment, ExpireSession, Pair, PollLost, DropOldestEvent, eaVars
<1>3. CASE \E t \in Terminal : \/ Pair(t, TRUE) \/ Poll(t)
                               \/ PollUnauthorized(t) \/ Execute(t)
                               \/ Flush(t, events[t]) \/ Flush(t, NoEvents)
  BY <1>3 DEF Pair, Poll, PollUnauthorized, Flush, eaVars
<1>4. CASE \E b \in batches : Serve(b)
  BY <1>4, GatewayLeavesBroker
<1> QED BY <1>1, <1>2, <1>3, <1>4 DEF Next

\* The journal knows of everything that is or may be at the broker: inductive.
LEMMA JournalStep ==
  ASSUME TypeOK, JournalInv, [Next]_vars
  PROVE  JournalInv'
<1>1. CASE UNCHANGED <<pcAt, pcCmd, journal, sent>>
  BY <1>1 DEF JournalInv
<1>2. ASSUME NEW u \in Terminal, Crash(u) PROVE JournalInv'
  BY <1>2 DEF JournalInv, Crash, TypeOK
<1>3. ASSUME NEW u \in Terminal, Execute(u) PROVE JournalInv'
 <2> SUFFICES ASSUME NEW t \in Terminal, NEW c \in Command
              PROVE  /\ sent'[t][c] <= 1
                     /\ journal'[t][c] = "none" => sent'[t][c] = 0
                     /\ pcAt'[t] = "send" /\ pcCmd'[t] = c
                          => journal'[t][c] = "submitting" /\ sent'[t][c] = 0
   BY DEF JournalInv
 <2>1. ASSUME NEW d \in Command,
              ReplayOutcome(u, d) \/ Reconcile(u, d) \/ RejectLocally(u, d)
       PROVE  /\ sent' = sent /\ pcAt' = pcAt /\ pcCmd' = pcCmd
              /\ pcAt[u] = "idle"
              /\ \/ journal' = journal
                 \/ \E j \in {"accepted", "rejected"} :
                      journal' = [journal EXCEPT ![u][d] = j]
   BY <2>1 DEF ReplayOutcome, Reconcile, RejectLocally, Take, Record
 <2>2. ASSUME NEW d \in Command, JournalSubmitting(u, d)
       PROVE  /\ sent' = sent /\ pcAt' = [pcAt EXCEPT ![u] = "send"]
              /\ pcCmd' = [pcCmd EXCEPT ![u] = d]
              /\ journal[u][d] = "none"
              /\ journal' = [journal EXCEPT ![u][d] = "submitting"]
   BY <2>2 DEF JournalSubmitting
 <2>3. ASSUME NEW placed \in BOOLEAN, OrderSend(u, placed)
       PROVE  /\ pcAt[u] = "send" /\ pcCmd' = pcCmd /\ journal' = journal
              /\ pcAt'[u] \in {"placed", "refused"}
              /\ \A v \in Terminal : v # u => pcAt'[v] = pcAt[v]
              /\ sent' = sent \/ sent' = [sent EXCEPT ![u][pcCmd[u]] = @ + 1]
   BY <2>3 DEF OrderSend, TypeOK
 <2>4. ASSUME RecordResult(u)
       PROVE  /\ sent' = sent
              /\ pcAt' = [pcAt EXCEPT ![u] = "idle"]
              /\ pcCmd' = [pcCmd EXCEPT ![u] = NoCommand]
              /\ pcCmd[u] \in Command
              /\ \/ journal' = journal
                 \/ \E j \in {"accepted", "rejected"} :
                      journal' = [journal EXCEPT ![u][pcCmd[u]] = j]
   BY <2>4 DEF RecordResult, Record, TypeOK
 <2>0. /\ journal \in [Terminal -> [Command -> JournalState]]
       /\ sent \in [Terminal -> [Command -> Nat]]
       /\ pcAt \in [Terminal -> {"idle", "send", "placed", "refused"}]
       /\ pcCmd \in [Terminal -> Command \cup {NoCommand}]
   BY DEF TypeOK
 <2> USE <2>0, ConstantsAssumption DEF JournalInv
 <2>5. CASE \E d \in Command :
              ReplayOutcome(u, d) \/ Reconcile(u, d) \/ RejectLocally(u, d)
  <3> PICK d \in Command :
        ReplayOutcome(u, d) \/ Reconcile(u, d) \/ RejectLocally(u, d)
    BY <2>5
  <3>1. journal'[t][c] = journal[t][c]
          \/ (t = u /\ journal'[t][c] \in {"accepted", "rejected"})
    BY <2>1
  <3> QED BY <2>1, <3>1
 <2>6. CASE \E d \in Command : JournalSubmitting(u, d)
  <3> PICK d \in Command : JournalSubmitting(u, d)
    BY <2>6
  <3>1. journal'[t][c] = IF t = u /\ c = d THEN "submitting"
                                           ELSE journal[t][c]
    BY <2>2
  <3>2. t = u => pcCmd'[t] = d
    BY <2>2
  <3>3. t # u => pcCmd'[t] = pcCmd[t] /\ pcAt'[t] = pcAt[t]
    BY <2>2
  <3> QED BY <2>2, <3>1, <3>2, <3>3
 <2>7. CASE \E placed \in BOOLEAN : OrderSend(u, placed)
  <3> PICK placed \in BOOLEAN : OrderSend(u, placed)
    BY <2>7
  <3>1. pcCmd[u] \in Command
    BY <2>3 DEF TypeOK
  <3>2. sent'[t][c] = sent[t][c]
          \/ (t = u /\ c = pcCmd[u] /\ sent'[t][c] = sent[t][c] + 1)
    BY <2>3, <3>1
  <3>3. sent[u][pcCmd[u]] = 0 /\ journal[u][pcCmd[u]] = "submitting"
    BY <2>3, <3>1
  <3>4. t # u => sent'[t][c] = sent[t][c]
    BY <3>2
  <3>5. sent'[t][c] <= 1
    BY <3>2, <3>3
  <3>6. journal'[t][c] = "none" => sent'[t][c] = 0
   <4>1. journal'[t][c] = journal[t][c]
     BY <2>3
   <4> QED BY <3>2, <3>3, <4>1
  <3>7. t = u => pcAt'[t] # "send"
    BY <2>3
  <3>8. t # u => /\ pcAt'[t] = pcAt[t] /\ pcCmd'[t] = pcCmd[t]
                 /\ journal'[t][c] = journal[t][c]
    BY <2>3
  <3> QED BY <3>4, <3>5, <3>6, <3>7, <3>8
 <2>8. CASE RecordResult(u)
  <3>1. journal'[t][c] = journal[t][c]
          \/ (t = u /\ journal'[t][c] \in {"accepted", "rejected"})
    BY <2>4, <2>8
  <3>2. t # u => pcCmd'[t] = pcCmd[t] /\ pcAt'[t] = pcAt[t]
    BY <2>4, <2>8
  <3>3. t = u => pcAt'[t] = "idle"
    BY <2>4, <2>8
  <3>4. t # u => journal'[t][c] = journal[t][c]
    BY <3>1
  <3> QED BY <2>4, <2>8, <3>1, <3>2, <3>3, <3>4
 <2> QED BY <1>3, <2>5, <2>6, <2>7, <2>8 DEF Execute
<1> QED BY <1>1, <1>2, <1>3, BrokerSteps DEF vars, eaVars

\* A terminal puts a command at the broker at most once, for any number of
\* commands, redeliveries, lost answers and crashes.
THEOREM SubmittedOnce == Spec => []AtMostOncePerTerminal
<1>1. Init => JournalInv
  BY DEF Init, JournalInv
<1>2. JournalInv => AtMostOncePerTerminal
  BY DEF JournalInv, AtMostOncePerTerminal
<1> QED BY <1>1, <1>2, TypeCorrect, JournalStep, PTL DEF Spec

-----------------------------------------------------------------------------
(* The verdict of a row is final.                                          *)

\* A row is closed just when its status is; an undecided one has no code yet.
RowInv ==
  \A c \in Command :
    /\ terminalAck[c] <=> status[c] \in {"accepted", "rejected", "failed"}
    /\ status[c] \in {"none", "waiting"} => rejectCode[c] = NoCode

\* The course of one row over one step.
RowCourse(c) ==
  /\ terminalAck[c] => terminalAck'[c] /\ status'[c] = status[c]
  /\ rejectCode[c] = "DELIVERY_OUTCOME_UNKNOWN"
       => rejectCode'[c] = rejectCode[c] \/ terminalAck'[c]
  /\ firstDelivered[c] => firstDelivered'[c]
  /\ terminalAck'[c] <=> status'[c] \in {"accepted", "rejected", "failed"}
  /\ status'[c] \in {"none", "waiting"} => rejectCode'[c] = NoCode

\* The steps that write the verdict columns of a row.
LEMMA RowSteps ==
  ASSUME Next
  PROVE  \/ UNCHANGED <<status, rejectCode, terminalAck, firstDelivered>>
         \/ \E c \in Command : Enqueue(c) \/ DeferOrder(c)
         \/ \E r \in BOOLEAN : Disconnect(r)
         \/ ExpireDeferredOrders
         \/ \E t \in Terminal, leased \in SUBSET Command :
              PollTransaction(session[t], leased)
         \/ \E b \in batches : \/ PersistEvents(b)
                               \/ \E c \in Command, v \in Verdict :
                                    Activate(b, c, v)
<1>1. CASE Admin \/ Tick \/ ExpireDeferredOrders
              \/ \E c \in Command : Enqueue(c)
  BY <1>1 DEF Admin, Admit, Tick, rowVars
<1>2. CASE Environment
  BY <1>2 DEF Environment, ExpireSession, Pair, PollLost, Crash,
              DropOldestEvent, LoseRequest, Timeout, FailRequest, rowVars
<1>3. ASSUME NEW t \in Terminal,
             \/ Pair(t, TRUE) \/ Poll(t) \/ PollUnauthorized(t)
             \/ Flush(t, events[t]) \/ Flush(t, NoEvents)
      PROVE  \/ UNCHANGED <<status, rejectCode, terminalAck, firstDelivered>>
             \/ \E leased \in SUBSET Command :
                  PollTransaction(session[t], leased)
  BY <1>3 DEF Pair, Poll, PollUnauthorized, Flush, rowVars
<1>4. ASSUME NEW t \in Terminal, Execute(t)
      PROVE  UNCHANGED <<status, rejectCode, terminalAck, firstDelivered>>
  BY <1>4 DEF Execute, ReplayOutcome, Reconcile, RejectLocally,
              JournalSubmitting, OrderSend, RecordResult, rowVars
<1>5. ASSUME NEW b \in batches, Serve(b)
      PROVE  \/ UNCHANGED <<status, rejectCode, terminalAck, firstDelivered>>
             \/ PersistEvents(b)
             \/ \E c \in Command, v \in Verdict : Activate(b, c, v)
  BY <1>5 DEF Serve, Authenticate, LeaseDeferred, Respond, rowVars
<1> QED BY <1>1, <1>2, <1>3, <1>4, <1>5 DEF Next

\* Every step moves a row along its course and keeps an open row's shape.
LEMMA RowStep ==
  ASSUME TypeOK, RowInv, [Next]_vars, NEW c \in Command
  PROVE  RowCourse(c)
<1>0. /\ status \in [Command -> Status]
      /\ rejectCode \in [Command -> RejectCode]
      /\ terminalAck \in [Command -> BOOLEAN]
      /\ firstDelivered \in [Command -> BOOLEAN]
      /\ batches \subseteq Batch
  BY DEF TypeOK
<1>a. /\ terminalAck[c] <=> status[c] \in {"accepted", "rejected", "failed"}
      /\ status[c] \in {"none", "waiting"} => rejectCode[c] = NoCode
  BY DEF RowInv
<1> USE <1>0, <1>a DEF RowCourse
<1>1. CASE UNCHANGED <<status, rejectCode, terminalAck, firstDelivered>>
  BY <1>1
<1>2. ASSUME NEW d \in Command, Enqueue(d) \/ DeferOrder(d) PROVE RowCourse(c)
 <2>1. /\ \/ status' = status
          \/ status[d] = "none" /\ status' = [status EXCEPT ![d] = "queued"]
          \/ status[d] = "none" /\ status' = [status EXCEPT ![d] = "waiting"]
       /\ UNCHANGED <<rejectCode, terminalAck, firstDelivered>>
   BY <1>2 DEF Enqueue, DeferOrder
 <2> QED BY <2>1
<1>3. ASSUME NEW r \in BOOLEAN, Disconnect(r) PROVE RowCourse(c)
  BY <1>3 DEF Disconnect, Pending
<1>4. CASE ExpireDeferredOrders
  BY <1>4 DEF ExpireDeferredOrders, OverdueWaiting
<1>5. ASSUME NEW t \in Terminal, NEW leased \in SUBSET Command,
             PollTransaction(session[t], leased)
      PROVE  RowCourse(c)
  BY <1>5 DEF PollTransaction, Overdue, Deliverable, ExpiredStatus, Delivered
<1>6. ASSUME NEW b \in batches, PersistEvents(b) PROVE RowCourse(c)
 <2>1. CASE UNCHANGED rowVars
   BY <2>1 DEF rowVars
 <2>2. CASE ~ \E d \in Command : Conflicts(d, b.events[d])
  <3>1. status'[c] = IF b.events[c] \in {"accepted", "rejected"}
                       THEN FinalStatus(b.events[c])
                       ELSE IF b.events[c] # "none" THEN "unknown"
                                                    ELSE status[c]
    BY <1>6, <2>2 DEF PersistEvents
  <3>2. terminalAck'[c] <=>
          terminalAck[c] \/ b.events[c] \in {"accepted", "rejected"}
    BY <1>6, <2>2 DEF PersistEvents
  <3>3. rejectCode'[c] = IF b.events[c] \in {"accepted", "rejected"}
                           THEN NoCode ELSE rejectCode[c]
    BY <1>6, <2>2 DEF PersistEvents, CodeAfter
  <3>4. firstDelivered' = firstDelivered
    BY <1>6, <2>2 DEF PersistEvents, CodeAfter
  <3>5. ~Conflicts(c, b.events[c]) /\ b.events[c] \in Outcome
    BY <2>2 DEF Batch
  <3> QED BY <3>1, <3>2, <3>3, <3>4, <3>5 DEF Conflicts, FinalStatus, Outcome
 <2> QED BY <1>6, <2>1, <2>2 DEF PersistEvents
<1>7. ASSUME NEW b \in batches, NEW d \in Command, NEW v \in Verdict,
             Activate(b, d, v)
      PROVE  RowCourse(c)
 <2>1. CASE UNCHANGED rowVars
   BY <2>1 DEF rowVars
 <2>2. CASE StillLeased(b, d) /\ (v = "queue" => deliverBy[d] > 0)
  <3>1. status[d] = "waiting" /\ firstDelivered' = firstDelivered
    BY <1>7, <2>2 DEF Activate, StillLeased
  <3>2. c # d => /\ status'[c] = status[c] /\ rejectCode'[c] = rejectCode[c]
                 /\ terminalAck'[c] = terminalAck[c]
    BY <1>7, <2>2 DEF Activate
  <3>3. CASE v = "queue"
    BY <1>7, <2>2, <3>1, <3>2, <3>3 DEF Activate
  <3>4. CASE v = "reject"
    BY <1>7, <2>2, <3>1, <3>2, <3>4 DEF Activate
  <3>5. CASE v = "release"
    BY <1>7, <2>2, <3>1, <3>2, <3>5 DEF Activate
  <3> QED BY <3>3, <3>4, <3>5 DEF Verdict
 <2> QED BY <1>7, <2>1, <2>2 DEF Activate
<1> QED BY <1>1, <1>2, <1>3, <1>4, <1>5, <1>6, <1>7, RowSteps
        DEF vars, rowVars

\* The shape of the rows holds in every reachable state.
LEMMA RowsCorrect == Spec => []RowInv
<1>1. Init => RowInv
  BY DEF Init, RowInv
<1>2. TypeOK /\ RowInv /\ [Next]_vars => RowInv'
  BY RowStep DEF RowInv, RowCourse
<1> QED BY <1>1, <1>2, TypeCorrect, PTL DEF Spec

\* terminal_ack_at is final: no late batch, sweep, poll or disconnect reopens a
\* row or turns its outcome into another.
THEOREM FinalOutcomes == Spec => OutcomeIsFinal
<1>1. TypeOK /\ RowInv /\ [Next]_vars
        => [\A c \in Command : terminalAck[c] =>
              terminalAck'[c] /\ status'[c] = status[c]]_vars
  BY RowStep DEF RowCourse
<1> QED BY <1>1, TypeCorrect, RowsCorrect, PTL DEF Spec, OutcomeIsFinal

\* Only a poll puts a command into an EA's hands.
LEMMA InboxSteps ==
  ASSUME Next, NEW t \in Terminal, NEW c \in Command, TypeOK,
         c \in inbox'[t], c \notin inbox[t]
  PROVE  \E leased \in SUBSET Command : /\ PollTransaction(session[t], leased)
                                        /\ c \in leased
<1>1. ASSUME NEW u \in Terminal, Poll(u)
      PROVE  \E leased \in SUBSET Command :
               /\ PollTransaction(session[t], leased) /\ c \in leased
 <2> PICK leased \in SUBSET Command :
        /\ PollTransaction(session[u], leased)
        /\ inbox' = [inbox EXCEPT ![u] = leased]
   BY <1>1 DEF Poll
 <2>1. t = u /\ c \in leased
   BY DEF TypeOK
 <2> QED BY <2>1
<1>2. ASSUME NEW u \in Terminal, Crash(u) \/ Execute(u) PROVE FALSE
 <2>1. \A v \in Terminal : inbox'[v] \subseteq inbox[v]
  <3>1. \/ inbox' = inbox
        \/ inbox' = [inbox EXCEPT ![u] = {}]
        \/ \E d \in Command : inbox' = [inbox EXCEPT ![u] = @ \ {d}]
    BY <1>2 DEF Crash, Execute, ReplayOutcome, Reconcile, RejectLocally,
                JournalSubmitting, OrderSend, RecordResult, Take
  <3>2. inbox \in [Terminal -> SUBSET Command]
    BY DEF TypeOK
  <3>3. CASE \E d \in Command : inbox' = [inbox EXCEPT ![u] = @ \ {d}]
   <4> PICK d \in Command : inbox' = [inbox EXCEPT ![u] = inbox[u] \ {d}]
     BY <3>3
   <4> QED BY <3>2
  <3>4. CASE inbox' = [inbox EXCEPT ![u] = {}]
    BY <3>2, <3>4
  <3> QED BY <3>1, <3>3, <3>4
 <2> QED BY <2>1
<1>3. CASE UNCHANGED inbox
  BY <1>3
<1>4. ASSUME NEW b \in batches,
             \/ Serve(b) \/ LoseRequest(b) \/ FailRequest(b) \/ Timeout(b)
      PROVE  UNCHANGED inbox
  BY <1>4, GatewayLeavesBroker
<1>5. CASE \/ Admin \/ ExpireDeferredOrders \/ Tick \/ ExpireSession
           \/ \E d \in Command : Enqueue(d)
 <2>1. UNCHANGED inbox
   BY <1>5 DEF Admin, Admit, Enqueue, DeferOrder, Disconnect,
        ExpireDeferredOrders, Tick, ExpireSession, eaVars
 <2> QED BY <2>1, <1>3
<1>6. ASSUME NEW u \in Terminal,
             \/ \E a \in BOOLEAN : Pair(u, a)
             \/ PollLost(u) \/ PollUnauthorized(u)
             \/ Flush(u, events[u]) \/ Flush(u, NoEvents)
             \/ \E d \in Command : DropOldestEvent(u, d)
      PROVE  UNCHANGED inbox
  BY <1>6 DEF Pair, PollLost, PollUnauthorized, Flush, DropOldestEvent, eaVars
<1> QED BY <1>1, <1>2, <1>3, <1>4, <1>5, <1>6 DEF Next, Environment

\* A closed row or one whose outcome is unknown is never handed out again.
THEOREM NoReplay == Spec => NeverRedelivered
<1>1. ASSUME TypeOK, RowInv, Next, NEW c \in Command, NEW t \in Terminal
      PROVE  /\ rejectCode[c] = "DELIVERY_OUTCOME_UNKNOWN"
                  => rejectCode'[c] = rejectCode[c] \/ terminalAck'[c]
             /\ (rejectCode[c] = "DELIVERY_OUTCOME_UNKNOWN" \/ terminalAck[c])
                  /\ c \in inbox'[t] => c \in inbox[t]
 <2>1. RowCourse(c)
   BY <1>1, RowStep
 <2>2. ASSUME NEW leased \in SUBSET Command,
              PollTransaction(session[t], leased), c \in leased
       PROVE  rejectCode[c] # "DELIVERY_OUTCOME_UNKNOWN" /\ ~terminalAck[c]
   BY <2>2 DEF PollTransaction, Limited, Due, Deliverable
 <2> QED BY <1>1, <2>1, <2>2, InboxSteps DEF RowCourse
<1>2. TypeOK /\ RowInv /\ [Next]_vars
        => [\A c \in Command, t \in Terminal :
              /\ rejectCode[c] = "DELIVERY_OUTCOME_UNKNOWN"
                   => rejectCode'[c] = rejectCode[c] \/ terminalAck'[c]
              /\ (rejectCode[c] = "DELIVERY_OUTCOME_UNKNOWN" \/ terminalAck[c])
                   /\ c \in inbox'[t] => c \in inbox[t]]_vars
  BY <1>1
<1> QED BY <1>2, TypeCorrect, RowsCorrect, PTL DEF Spec, NeverRedelivered

-----------------------------------------------------------------------------
(* What an EA has on file and reports, over one step.                      *)

InHand(t, c) == c \in inbox[t] \/ pcCmd[t] = c
JustPlaced(t, c) == pcAt[t] = "placed" /\ pcCmd[t] = c

EaCourse(t, c) ==
  /\ journal'[t][c] = journal[t][c] \/ InHand(t, c)
  /\ journal'[t][c] = "accepted"
       => journal[t][c] = "accepted" \/ Executed(c) \/ JustPlaced(t, c)
  /\ events'[t][c] \in {events[t][c], "none"} \/ InHand(t, c)
  /\ events'[t][c] = "accepted"
       => \/ events[t][c] = "accepted" \/ journal[t][c] = "accepted"
          \/ Executed(c) \/ JustPlaced(t, c)
  /\ pcAt'[t] = "placed" /\ pcCmd'[t] = c
       => JustPlaced(t, c) \/ sent'[t][c] > 0
  /\ pcCmd'[t] = c => InHand(t, c)
  /\ sent'[t][c] >= sent[t][c]
  /\ sent'[t][c] # sent[t][c] => InHand(t, c)

\* The steps that write an EA's journal, buffer or place of work.
LEMMA EaSteps ==
  ASSUME Next
  PROVE  \/ UNCHANGED <<pcAt, pcCmd, journal, events, sent>>
         \/ \E t \in Terminal : Execute(t) \/ Crash(t)
         \/ \E t \in Terminal, c \in Command : DropOldestEvent(t, c)
         \/ \E b \in batches : Respond(b)
<1>1. CASE Admin \/ ExpireDeferredOrders \/ Tick
              \/ \E c \in Command : Enqueue(c)
  BY <1>1 DEF Admin, Admit, Enqueue, DeferOrder, Disconnect,
              ExpireDeferredOrders, Tick, eaVars
<1>2. CASE Environment
  BY <1>2 DEF Environment, ExpireSession, Pair, PollLost, LoseRequest,
              FailRequest, Timeout, eaVars
<1>3. CASE \E t \in Terminal : \/ Pair(t, TRUE) \/ Poll(t)
                               \/ PollUnauthorized(t) \/ Execute(t)
                               \/ Flush(t, events[t]) \/ Flush(t, NoEvents)
  BY <1>3 DEF Pair, Poll, PollUnauthorized, Flush, eaVars
<1>4. ASSUME NEW b \in batches, Serve(b)
      PROVE  UNCHANGED <<pcAt, pcCmd, journal, events, sent>> \/ Respond(b)
 <2>1. Authenticate(b) => UNCHANGED <<pcAt, pcCmd, journal, events, sent>>
   BY DEF Authenticate
 <2>2. PersistEvents(b) \/ LeaseDeferred(b)
         => UNCHANGED <<pcAt, pcCmd, journal, events, sent>>
   BY DEF PersistEvents, LeaseDeferred, eaVars
 <2>3. ASSUME NEW c \in Command, NEW v \in Verdict, Activate(b, c, v)
       PROVE  UNCHANGED <<pcAt, pcCmd, journal, events, sent>>
   BY <2>3 DEF Activate, eaVars
 <2> QED BY <1>4, <2>1, <2>2, <2>3 DEF Serve
<1> QED BY <1>1, <1>2, <1>3, <1>4 DEF Next

\* No step lets an EA know of a command that was never delivered.
LEMMA EaStep ==
  ASSUME TypeOK, [Next]_vars, NEW t \in Terminal, NEW c \in Command
  PROVE  EaCourse(t, c)
<1>0. /\ journal \in [Terminal -> [Command -> JournalState]]
      /\ events \in [Terminal -> [Command -> Outcome]]
      /\ sent \in [Terminal -> [Command -> Nat]]
      /\ pcAt \in [Terminal -> {"idle", "send", "placed", "refused"}]
      /\ pcCmd \in [Terminal -> Command \cup {NoCommand}]
      /\ \A u \in Terminal : pcAt[u] # "idle" => pcCmd[u] \in Command
  BY DEF TypeOK
<1> USE <1>0, ConstantsAssumption DEF EaCourse, InHand, JustPlaced
<1>1. CASE UNCHANGED <<pcAt, pcCmd, journal, events, sent>>
  BY <1>1
<1>2. ASSUME NEW u \in Terminal, Crash(u) PROVE EaCourse(t, c)
  BY <1>2 DEF Crash
<1>3. ASSUME NEW u \in Terminal, NEW d \in Command, DropOldestEvent(u, d)
      PROVE  EaCourse(t, c)
  BY <1>3 DEF DropOldestEvent
<1>4. ASSUME NEW b \in batches, Respond(b) PROVE EaCourse(t, c)
  BY <1>4 DEF Respond, NoEvents
<1>5. ASSUME NEW u \in Terminal, NEW d \in Command, ReplayOutcome(u, d)
      PROVE  EaCourse(t, c)
  BY <1>5 DEF ReplayOutcome, Take, Buffered
<1>6. ASSUME NEW u \in Terminal, NEW d \in Command, Reconcile(u, d)
      PROVE  EaCourse(t, c)
 <2>1. /\ d \in inbox[u] /\ pcAt[u] = "idle"
       /\ UNCHANGED <<pcAt, pcCmd, sent>>
   BY <1>6 DEF Reconcile, Take
 <2>2. \/ UNCHANGED <<journal, events>>
       \/ /\ Executed(d)
          /\ events' = [events EXCEPT ![u][d] = "accepted"]
          /\ journal' \in {journal, [journal EXCEPT ![u][d] = "accepted"]}
       \/ /\ events' = [events EXCEPT ![u][d] = "unknown"]
          /\ UNCHANGED journal
   BY <1>6 DEF Reconcile, Buffered, Record, MayBeFound
 <2> HIDE DEF Executed
 <2> QED BY <2>1, <2>2
<1>7. ASSUME NEW u \in Terminal, NEW d \in Command, RejectLocally(u, d)
      PROVE  EaCourse(t, c)
  BY <1>7 DEF RejectLocally, Take, Buffered, Record
<1>8. ASSUME NEW u \in Terminal, NEW d \in Command, JournalSubmitting(u, d)
      PROVE  EaCourse(t, c)
  BY <1>8 DEF JournalSubmitting, Take
<1>9. ASSUME NEW u \in Terminal, NEW placed \in BOOLEAN, OrderSend(u, placed)
      PROVE  EaCourse(t, c)
  BY <1>9 DEF OrderSend
<1>10. ASSUME NEW u \in Terminal, RecordResult(u) PROVE EaCourse(t, c)
  BY <1>10 DEF RecordResult, Buffered, Record
<1> QED BY <1>1, <1>2, <1>3, <1>4, <1>5, <1>6, <1>7, <1>8, <1>9, <1>10, EaSteps
        DEF vars, eaVars, Execute

\* first_delivered_at IS NULL is proof that MT5 never received the command.
THEOREM UndeliveredIsUnseen == Spec => []UndeliveredNeverExecuted
<1>1. Init => UndeliveredNeverExecuted
  BY ConstantsAssumption DEF Init, UndeliveredNeverExecuted, Executed
<1>2. ASSUME TypeOK, RowInv, UndeliveredNeverExecuted, [Next]_vars
      PROVE  UndeliveredNeverExecuted'
 <2> SUFFICES ASSUME NEW c \in Command, ~firstDelivered'[c],
                     NEW t \in Terminal
              PROVE  /\ sent'[t][c] = 0
                     /\ c \notin inbox'[t] /\ c # pcCmd'[t]
                     /\ journal'[t][c] = "none" /\ events'[t][c] = "none"
  <3>1. sent' \in [Terminal -> [Command -> Nat]]
    BY <1>2, TypeStep DEF TypeOK
  <3> QED BY <3>1 DEF UndeliveredNeverExecuted, Executed
 <2>1. RowCourse(c) /\ EaCourse(t, c)
   BY <1>2, RowStep, EaStep
 <2>2. ~firstDelivered[c]
   BY <2>1 DEF RowCourse
 <2>3. /\ sent[t][c] = 0 /\ ~InHand(t, c)
       /\ journal[t][c] = "none" /\ events[t][c] = "none"
   BY <1>2, <2>2 DEF UndeliveredNeverExecuted, Executed, InHand, TypeOK
 <2>4. c \notin inbox'[t]
  <3>1. ASSUME NEW leased \in SUBSET Command,
               PollTransaction(session[t], leased), c \in leased
        PROVE  firstDelivered'[c]
    BY <3>1 DEF PollTransaction, Delivered
  <3> QED BY <1>2, <2>3, <3>1, InboxSteps DEF InHand, vars, eaVars
 <2> QED BY <2>1, <2>3, <2>4 DEF EaCourse
<1> QED BY <1>1, <1>2, TypeCorrect, RowsCorrect, PTL DEF Spec

-----------------------------------------------------------------------------
(* "accepted" is the truth.                                                *)

\* Wherever "accepted" stands (on the row, in a journal, a buffer, a request or
\* an OrderSend result), the order is at the broker.
AcceptedInv ==
  \A c \in Command :
    /\ status[c] = "accepted" => Executed(c)
    /\ \A t \in Terminal :
         (\/ journal[t][c] = "accepted" \/ events[t][c] = "accepted"
          \/ JustPlaced(t, c)) => Executed(c)
    /\ \A b \in batches : b.events[c] = "accepted" => Executed(c)

\* What a request carries comes from an earlier request or from a buffer.
LEMMA BatchSteps ==
  ASSUME [Next]_vars, TypeOK, NEW x \in batches'
  PROVE  \/ \E b \in batches : x.events = b.events
         \/ \E t \in Terminal : x.events \in {events[t], NoEvents}
<1> USE DEF TypeOK, Batch
<1>1. CASE x \in batches
  BY <1>1
<1>2. ASSUME NEW t \in Terminal, NEW p \in {events[t], NoEvents}, Flush(t, p)
      PROVE  x \in batches \/ x.events = p
  BY <1>2 DEF Flush
<1>3. ASSUME NEW b \in batches, NEW ph, NEW acts, Advance(b, ph, acts)
      PROVE  x \in batches \/ x.events = b.events
  BY <1>3 DEF Advance
<1>4. ASSUME NEW b \in batches, Serve(b)
      PROVE  x \in batches \/ x.events = b.events
  BY <1>3, <1>4 DEF Serve, Authenticate, PersistEvents, LeaseDeferred,
                    Activate, Respond
<1>5. ASSUME NEW b \in batches,
             LoseRequest(b) \/ FailRequest(b) \/ Timeout(b)
      PROVE  x \in batches \/ x.events = b.events
  BY <1>5 DEF LoseRequest, FailRequest, Timeout
<1>6. ASSUME NEW t \in Terminal, Crash(t)
      PROVE  \E b \in batches : x.events = b.events
  BY <1>6 DEF Crash
<1>7. ASSUME NEW t \in Terminal,
             \/ \E a \in BOOLEAN : Pair(t, a)
             \/ Poll(t) \/ PollLost(t) \/ PollUnauthorized(t) \/ Execute(t)
             \/ \E d \in Command : DropOldestEvent(t, d)
      PROVE  x \in batches
  BY <1>7 DEF Pair, Poll, PollLost, PollUnauthorized, Execute, DropOldestEvent,
       ReplayOutcome, Reconcile, RejectLocally, JournalSubmitting, OrderSend,
       RecordResult
<1>8. CASE \/ Admin \/ ExpireDeferredOrders \/ Tick \/ ExpireSession
           \/ \E d \in Command : Enqueue(d)
 <2>1. UNCHANGED batches
   BY <1>8 DEF Admin, Admit, Enqueue, DeferOrder, Disconnect,
        ExpireDeferredOrders, Tick, ExpireSession
 <2> QED BY <2>1, <1>1
<1>9. CASE UNCHANGED vars
  BY <1>1, <1>9 DEF vars
<1> QED BY <1>1, <1>2, <1>4, <1>5, <1>6, <1>7, <1>8, <1>9 DEF Next, Environment

\* A row becomes accepted only by an event that says so.
LEMMA AcceptSteps ==
  ASSUME [Next]_vars, TypeOK, NEW c \in Command,
         status'[c] = "accepted", status[c] # "accepted"
  PROVE  \E b \in batches : b.events[c] = "accepted"
<1>0. /\ status \in [Command -> Status]
      /\ \A b \in batches : b.events[c] \in Outcome
  BY DEF TypeOK, Batch
<1> USE <1>0
<1>1. CASE UNCHANGED <<status, rejectCode, terminalAck, firstDelivered>>
  BY <1>1
<1>2. ASSUME NEW d \in Command, Enqueue(d) \/ DeferOrder(d) PROVE FALSE
  BY <1>2 DEF Enqueue, DeferOrder
<1>3. ASSUME NEW r \in BOOLEAN, Disconnect(r) PROVE FALSE
  BY <1>3 DEF Disconnect
<1>4. ASSUME ExpireDeferredOrders PROVE FALSE
  BY <1>4 DEF ExpireDeferredOrders
<1>5. ASSUME NEW t \in Terminal, NEW leased \in SUBSET Command,
             PollTransaction(session[t], leased)
      PROVE  FALSE
  BY <1>5 DEF PollTransaction, ExpiredStatus
<1>6. ASSUME NEW b \in batches, PersistEvents(b)
      PROVE  b.events[c] = "accepted"
  BY <1>6 DEF PersistEvents, FinalStatus, rowVars
<1>7. ASSUME NEW b \in batches, NEW d \in Command, NEW v \in Verdict,
             Activate(b, d, v)
      PROVE  FALSE
 <2>1. status' = status \/ \E x \in {"queued", "rejected", status[d]} :
                             status' = [status EXCEPT ![d] = x]
   BY <1>7 DEF Activate, Verdict, rowVars
 <2> QED BY <2>1
<1> QED BY <1>1, <1>2, <1>3, <1>4, <1>5, <1>6, <1>7, RowSteps
        DEF vars, rowVars

\* "accepted" is the truth wherever it stands.
LEMMA AcceptedEverywhere == Spec => []AcceptedInv
<1>1. Init => AcceptedInv
  BY ConstantsAssumption DEF Init, AcceptedInv, JustPlaced
<1>2. ASSUME TypeOK, AcceptedInv, [Next]_vars
      PROVE  AcceptedInv'
 <2>1. ASSUME NEW c \in Command, Executed(c) PROVE Executed(c)'
  <3> PICK t \in Terminal : sent[t][c] > 0
    BY <2>1 DEF Executed
  <3>1. sent'[t][c] >= sent[t][c]
    BY <1>2, EaStep DEF EaCourse
  <3>2. sent'[t][c] \in Nat /\ sent[t][c] \in Nat
    BY <1>2, TypeStep DEF TypeOK
  <3> QED BY <3>1, <3>2 DEF Executed
 <2>2. ASSUME NEW c \in Command, status'[c] = "accepted" PROVE Executed(c)'
   BY <1>2, <2>1, <2>2, AcceptSteps DEF AcceptedInv
 <2>3. ASSUME NEW c \in Command, NEW t \in Terminal,
              \/ journal'[t][c] = "accepted" \/ events'[t][c] = "accepted"
              \/ JustPlaced(t, c)'
       PROVE  Executed(c)'
  <3>1. EaCourse(t, c)
    BY <1>2, EaStep
  <3>2. Executed(c) \/ sent'[t][c] > 0
   <4>1. (\/ journal[t][c] = "accepted" \/ events[t][c] = "accepted"
          \/ JustPlaced(t, c)) => Executed(c)
     BY <1>2 DEF AcceptedInv
   <4>2. CASE JustPlaced(t, c)'
     BY <3>1, <4>1, <4>2 DEF EaCourse, JustPlaced
   <4>3. CASE journal'[t][c] = "accepted"
     BY <3>1, <4>1, <4>3 DEF EaCourse
   <4>4. CASE events'[t][c] = "accepted"
     BY <3>1, <4>1, <4>4 DEF EaCourse
   <4> QED BY <2>3, <4>2, <4>3, <4>4
  <3> QED BY <2>1, <3>2 DEF Executed
 <2>4. ASSUME NEW c \in Command, NEW x \in batches', x.events[c] = "accepted"
       PROVE  Executed(c)'
  <3>1. Executed(c)
   <4>1. CASE \E b \in batches : x.events = b.events
     BY <1>2, <2>4, <4>1 DEF AcceptedInv
   <4>2. CASE \E t \in Terminal : x.events \in {events[t], NoEvents}
     BY <1>2, <2>4, <4>2 DEF AcceptedInv, NoEvents
   <4> QED BY <1>2, <4>1, <4>2, BatchSteps
  <3> QED BY <2>1, <3>1
 <2> QED BY <2>2, <2>3, <2>4 DEF AcceptedInv
<1> QED BY <1>1, <1>2, TypeCorrect, PTL DEF Spec

\* A row the gateway reports as accepted stands for an order at the broker.
THEOREM AcceptedIsTrue == Spec => []AcceptedIsExecuted
<1>1. AcceptedInv => AcceptedIsExecuted
  BY DEF AcceptedInv, AcceptedIsExecuted
<1> QED BY <1>1, AcceptedEverywhere, PTL
-----------------------------------------------------------------------------
(* A refusal is the truth.                                                 *)

\* With a journal that can be written, a refusal on file means that nothing was
\* sent, and every refusal reported, buffered or on its way, is on file.
RefusalInv ==
  \A c \in Command :
    /\ \A t \in Terminal :
         /\ pcAt[t] # "idle" /\ pcCmd[t] = c => journal[t][c] = "submitting"
         /\ pcAt[t] = "refused" /\ pcCmd[t] = c => sent[t][c] = 0
         /\ journal[t][c] = "rejected" => sent[t][c] = 0
         /\ events[t][c] = "rejected" => journal[t][c] = "rejected"
    /\ \A b \in batches : b.events[c] = "rejected"
         => \E t \in Terminal : journal[t][c] = "rejected"

\* What one terminal knows of a refusal, over one step.
RefusalCourse(t, c) ==
  /\ pcAt'[t] # "idle" /\ pcCmd'[t] = c => journal'[t][c] = "submitting"
  /\ pcAt'[t] = "refused" /\ pcCmd'[t] = c => sent'[t][c] = 0
  /\ journal'[t][c] = "rejected" => sent'[t][c] = 0
  /\ events'[t][c] = "rejected" => journal'[t][c] = "rejected"
  /\ journal[t][c] = "rejected" => journal'[t][c] = "rejected"

\* A terminal that writes its journal keeps what it knows of refusals true.
LEMMA RefusalStep ==
  ASSUME ~JournalFaults, TypeOK, JournalInv, RefusalInv, [Next]_vars,
         NEW t \in Terminal, NEW c \in Command
  PROVE  RefusalCourse(t, c)
<1>0. /\ journal \in [Terminal -> [Command -> JournalState]]
      /\ events \in [Terminal -> [Command -> Outcome]]
      /\ sent \in [Terminal -> [Command -> Nat]]
      /\ pcAt \in [Terminal -> {"idle", "send", "placed", "refused"}]
      /\ pcCmd \in [Terminal -> Command \cup {NoCommand}]
      /\ \A u \in Terminal : pcAt[u] # "idle" => pcCmd[u] \in Command
  BY DEF TypeOK
<1>a. ASSUME NEW u \in Terminal, NEW d \in Command
      PROVE  /\ pcAt[u] # "idle" /\ pcCmd[u] = d => journal[u][d] = "submitting"
             /\ pcAt[u] = "refused" /\ pcCmd[u] = d => sent[u][d] = 0
             /\ journal[u][d] = "rejected" => sent[u][d] = 0
             /\ events[u][d] = "rejected" => journal[u][d] = "rejected"
             /\ journal[u][d] = "none" => sent[u][d] = 0
             /\ pcAt[u] = "send" /\ pcCmd[u] = d => sent[u][d] = 0
  BY DEF RefusalInv, JournalInv
<1>b. NoCommand \notin Command
  BY ConstantsAssumption
<1> USE <1>0, <1>a, <1>b DEF RefusalCourse
<1>1. CASE UNCHANGED <<pcAt, pcCmd, journal, events, sent>>
  BY <1>1
<1>2. ASSUME NEW u \in Terminal, Crash(u) PROVE RefusalCourse(t, c)
  BY <1>2 DEF Crash
<1>3. ASSUME NEW u \in Terminal, NEW d \in Command, DropOldestEvent(u, d)
      PROVE  RefusalCourse(t, c)
  BY <1>3 DEF DropOldestEvent
<1>4. ASSUME NEW b \in batches, Respond(b) PROVE RefusalCourse(t, c)
  BY <1>4 DEF Respond, NoEvents
<1>5. ASSUME NEW u \in Terminal, NEW d \in Command, ReplayOutcome(u, d)
      PROVE  RefusalCourse(t, c)
  BY <1>5 DEF ReplayOutcome, Take, Buffered
<1>6. ASSUME NEW u \in Terminal, NEW d \in Command, Reconcile(u, d)
      PROVE  RefusalCourse(t, c)
 <2>1. /\ pcAt[u] = "idle" /\ UNCHANGED <<pcAt, pcCmd, sent>>
       /\ journal[u][d] = "submitting"
   BY <1>6 DEF Reconcile, Take
 <2>2. \/ UNCHANGED <<journal, events>>
       \/ /\ events' = [events EXCEPT ![u][d] = "accepted"]
          /\ journal' = [journal EXCEPT ![u][d] = "accepted"]
       \/ /\ events' = [events EXCEPT ![u][d] = "unknown"]
          /\ UNCHANGED journal
   BY <1>6 DEF Reconcile, Buffered, Record
 <2> QED BY <2>1, <2>2
<1>7. ASSUME NEW u \in Terminal, NEW d \in Command, RejectLocally(u, d)
      PROVE  RefusalCourse(t, c)
  BY <1>7 DEF RejectLocally, Take, Buffered, Record
<1>8. ASSUME NEW u \in Terminal, NEW d \in Command, JournalSubmitting(u, d)
      PROVE  RefusalCourse(t, c)
  BY <1>8 DEF JournalSubmitting, Take
<1>9. ASSUME NEW u \in Terminal, NEW placed \in BOOLEAN, OrderSend(u, placed)
      PROVE  RefusalCourse(t, c)
  BY <1>9 DEF OrderSend
<1>10. ASSUME NEW u \in Terminal, RecordResult(u) PROVE RefusalCourse(t, c)
  BY <1>10 DEF RecordResult, Buffered, Record
<1> QED BY <1>1, <1>2, <1>3, <1>4, <1>5, <1>6, <1>7, <1>8, <1>9, <1>10, EaSteps
        DEF vars, eaVars, Execute

\* Refusals stay the truth in every reachable state.
LEMMA RefusalsCorrect ==
  ASSUME ~JournalFaults
  PROVE  Spec => [](JournalInv /\ RefusalInv)
<1>1. Init => JournalInv /\ RefusalInv
  BY ConstantsAssumption DEF Init, JournalInv, RefusalInv
<1>2. ASSUME TypeOK, JournalInv, RefusalInv, [Next]_vars PROVE RefusalInv'
 <2>1. ASSUME NEW c \in Command, NEW t \in Terminal PROVE RefusalCourse(t, c)
   BY <1>2, RefusalStep
 <2>2. ASSUME NEW c \in Command, NEW x \in batches', x.events[c] = "rejected"
       PROVE  \E t \in Terminal : journal[t][c] = "rejected"
  <3>1. CASE \E b \in batches : x.events = b.events
    BY <1>2, <2>2, <3>1 DEF RefusalInv
  <3>2. CASE \E t \in Terminal : x.events \in {events[t], NoEvents}
    BY <1>2, <2>2, <3>2 DEF RefusalInv, NoEvents
  <3> QED BY <1>2, <3>1, <3>2, BatchSteps
 <2> QED BY <2>1, <2>2 DEF RefusalInv, RefusalCourse
<1> QED BY <1>1, <1>2, TypeCorrect, JournalStep, PTL DEF Spec
-----------------------------------------------------------------------------
(* A closed row is the truth, so that the delivery keeps its promise.      *)

\* A row that was closed without an order, for any reason but a disconnect.
ClosedUnfilled(c) == /\ terminalAck[c] /\ status[c] # "accepted"
                     /\ rejectCode[c] \notin DisconnectCode

\* A row that is new or waiting was never delivered, and no request reports a
\* command without first_delivered_at.
DeliveryInv ==
  \A c \in Command :
    /\ status[c] \in {"none", "waiting"} => ~firstDelivered[c]
    /\ ~firstDelivered[c] => \A b \in batches : b.events[c] = "none"

\* A row that was closed without an order has a reason: its command was never
\* delivered, or an EA refused it.
ClosureInv ==
  \A c \in Command : ClosedUnfilled(c) =>
    ~firstDelivered[c] \/ \E t \in Terminal : journal[t][c] = "rejected"

\* How one row closes over one step, and how it comes to be delivered.
ClosureCourse(c) ==
  /\ status'[c] \in {"none", "waiting"}
       => /\ status[c] \in {"none", "waiting"}
          /\ firstDelivered'[c] = firstDelivered[c]
  /\ terminalAck[c] => firstDelivered'[c] = firstDelivered[c]
  /\ ClosedUnfilled(c)' => \/ ~firstDelivered'[c] \/ ClosedUnfilled(c)
                           \/ \E b \in batches : b.events[c] = "rejected"

\* Every step closes a row along this course.
LEMMA ClosureStep ==
  ASSUME TypeOK, RowInv, DeliveryInv, [Next]_vars, NEW c \in Command
  PROVE  ClosureCourse(c)
<1>0. /\ status \in [Command -> Status]
      /\ rejectCode \in [Command -> RejectCode]
      /\ terminalAck \in [Command -> BOOLEAN]
      /\ firstDelivered \in [Command -> BOOLEAN]
      /\ batches \subseteq Batch
  BY DEF TypeOK
<1>a. ASSUME NEW d \in Command
      PROVE  /\ terminalAck[d]
                  => status[d] \in {"accepted", "rejected", "failed"}
             /\ status[d] \in {"none", "waiting"} => ~firstDelivered[d]
  BY DEF RowInv, DeliveryInv
<1> USE <1>0, <1>a DEF ClosureCourse, ClosedUnfilled
<1>1. CASE UNCHANGED <<status, rejectCode, terminalAck, firstDelivered>>
  BY <1>1
<1>2. ASSUME NEW d \in Command, Enqueue(d) \/ DeferOrder(d)
      PROVE  ClosureCourse(c)
 <2>1. /\ \/ status' = status
          \/ status[d] = "none" /\ status' = [status EXCEPT ![d] = "queued"]
          \/ status[d] = "none" /\ status' = [status EXCEPT ![d] = "waiting"]
       /\ UNCHANGED <<rejectCode, terminalAck, firstDelivered>>
   BY <1>2 DEF Enqueue, DeferOrder
 <2> QED BY <2>1
<1>3. ASSUME NEW r \in BOOLEAN, Disconnect(r) PROVE ClosureCourse(c)
  BY <1>3 DEF Disconnect, Pending, DisconnectCode
<1>4. CASE ExpireDeferredOrders
  BY <1>4 DEF ExpireDeferredOrders, OverdueWaiting
<1>5. ASSUME NEW t \in Terminal, NEW leased \in SUBSET Command,
             PollTransaction(session[t], leased)
      PROVE  ClosureCourse(c)
 <2>1. c \in leased => c \in Due
   BY <1>5 DEF PollTransaction, Limited
 <2>2. c \in Due => c \notin Overdue
   BY DEF Due, Overdue, TypeOK
 <2>3. /\ status'[c] = IF c \in Overdue THEN ExpiredStatus(c) ELSE status[c]
       /\ terminalAck'[c] <=>
            terminalAck[c] \/ (c \in Overdue /\ ExpiredStatus(c) = "failed")
       /\ firstDelivered'[c] = (firstDelivered[c] \/ c \in leased)
       /\ c \notin Overdue => rejectCode'[c] = rejectCode[c]
   BY <1>5 DEF PollTransaction, Delivered
 <2>4. c \in Due \/ c \in Overdue
         => ~terminalAck[c] /\ status[c] \in {"queued", "unknown"}
   BY DEF Due, Overdue, Deliverable
 <2>5. CASE c \notin Overdue
   BY <2>1, <2>3, <2>4, <2>5
 <2>6. CASE c \in Overdue /\ firstDelivered[c]
  <3>1. status'[c] = "unknown" /\ ~terminalAck'[c] /\ ~terminalAck[c]
    BY <2>3, <2>4, <2>6 DEF ExpiredStatus
  <3> QED BY <3>1
 <2>7. CASE c \in Overdue /\ ~firstDelivered[c]
  <3>1. status'[c] = "failed" /\ ~firstDelivered'[c] /\ ~terminalAck[c]
    BY <2>1, <2>2, <2>3, <2>4, <2>7 DEF ExpiredStatus
  <3> QED BY <3>1
 <2> QED BY <2>5, <2>6, <2>7
<1>6. ASSUME NEW b \in batches, PersistEvents(b) PROVE ClosureCourse(c)
 <2>1. CASE UNCHANGED rowVars
   BY <2>1 DEF rowVars
 <2>2. CASE ~ \E d \in Command : Conflicts(d, b.events[d])
  <3>1. status'[c] = IF b.events[c] \in {"accepted", "rejected"}
                       THEN FinalStatus(b.events[c])
                       ELSE IF b.events[c] # "none" THEN "unknown"
                                                    ELSE status[c]
    BY <1>6, <2>2 DEF PersistEvents
  <3>2. terminalAck'[c] <=>
          terminalAck[c] \/ b.events[c] \in {"accepted", "rejected"}
    BY <1>6, <2>2 DEF PersistEvents
  <3>3. rejectCode'[c] = IF b.events[c] \in {"accepted", "rejected"}
                           THEN NoCode ELSE rejectCode[c]
    BY <1>6, <2>2 DEF PersistEvents, CodeAfter
  <3>4. firstDelivered' = firstDelivered
    BY <1>6, <2>2 DEF PersistEvents, CodeAfter
  <3>5. ~Conflicts(c, b.events[c]) /\ b.events[c] \in Outcome
    BY <2>2 DEF Batch
  <3> QED BY <3>1, <3>2, <3>3, <3>4, <3>5 DEF Conflicts, FinalStatus, Outcome
 <2> QED BY <1>6, <2>1, <2>2 DEF PersistEvents
<1>7. ASSUME NEW b \in batches, NEW d \in Command, NEW v \in Verdict,
             Activate(b, d, v)
      PROVE  ClosureCourse(c)
 <2>1. CASE UNCHANGED rowVars
   BY <2>1 DEF rowVars
 <2>2. CASE StillLeased(b, d) /\ (v = "queue" => deliverBy[d] > 0)
  <3>1. status[d] = "waiting" /\ firstDelivered' = firstDelivered
    BY <1>7, <2>2 DEF Activate, StillLeased
  <3>2. c # d => /\ status'[c] = status[c] /\ rejectCode'[c] = rejectCode[c]
                 /\ terminalAck'[c] = terminalAck[c]
    BY <1>7, <2>2 DEF Activate
  <3> QED BY <3>1, <3>2
 <2> QED BY <1>7, <2>1, <2>2 DEF Activate
<1> QED BY <1>1, <1>2, <1>3, <1>4, <1>5, <1>6, <1>7, RowSteps
        DEF vars, rowVars

\* What the closing of a row rests on, in one invariant.
TruthInv == /\ TypeOK /\ RowInv /\ UndeliveredNeverExecuted /\ AcceptedInv
            /\ JournalInv /\ RefusalInv /\ DeliveryInv /\ ClosureInv

\* Deliveries are on record in every reachable state.
LEMMA DeliveriesCorrect == Spec => []DeliveryInv
<1>1. Init => DeliveryInv
  BY ConstantsAssumption DEF Init, DeliveryInv
<1>2. ASSUME TypeOK, RowInv, UndeliveredNeverExecuted, DeliveryInv, [Next]_vars
      PROVE  DeliveryInv'
 <2> SUFFICES ASSUME NEW c \in Command
              PROVE  /\ status'[c] \in {"none", "waiting"}
                          => ~firstDelivered'[c]
                     /\ ~firstDelivered'[c] =>
                          \A x \in batches' : x.events[c] = "none"
   BY DEF DeliveryInv
 <2>1. ClosureCourse(c) /\ RowCourse(c)
   BY <1>2, ClosureStep, RowStep
 <2>2. ASSUME ~firstDelivered'[c], NEW x \in batches'
       PROVE  x.events[c] = "none"
  <3>1. ~firstDelivered[c]
    BY <2>1, <2>2 DEF RowCourse
  <3>2. CASE \E b \in batches : x.events = b.events
    BY <1>2, <3>1, <3>2 DEF DeliveryInv
  <3>3. CASE \E t \in Terminal : x.events \in {events[t], NoEvents}
    BY <1>2, <3>1, <3>3 DEF UndeliveredNeverExecuted, NoEvents
  <3> QED BY <1>2, <3>2, <3>3, BatchSteps
 <2>3. status'[c] \in {"none", "waiting"} => ~firstDelivered'[c]
   BY <1>2, <2>1 DEF DeliveryInv, ClosureCourse
 <2> QED BY <2>2, <2>3
<1> QED BY <1>1, <1>2, TypeCorrect, RowsCorrect, UndeliveredIsUnseen, PTL
        DEF Spec

\* A row closed without an order has its reason in every reachable state.
LEMMA ClosuresCorrect ==
  ASSUME ~JournalFaults
  PROVE  Spec => []TruthInv
<1>1. Init => ClosureInv
  BY ConstantsAssumption DEF Init, ClosureInv, ClosedUnfilled
<1>2. ASSUME TypeOK, RowInv, JournalInv, RefusalInv, DeliveryInv, ClosureInv,
             [Next]_vars
      PROVE  ClosureInv'
 <2> SUFFICES ASSUME NEW c \in Command,
                     ClosedUnfilled(c)', firstDelivered'[c]
              PROVE  \E t \in Terminal : journal'[t][c] = "rejected"
   BY DEF ClosureInv
 <2>1. ClosureCourse(c)
   BY <1>2, ClosureStep
 <2>2. ASSUME NEW t \in Terminal, journal[t][c] = "rejected"
       PROVE  journal'[t][c] = "rejected"
   BY <1>2, <2>2, RefusalStep DEF RefusalCourse
 <2>3. ASSUME NEW b \in batches, b.events[c] = "rejected"
       PROVE  \E t \in Terminal : journal[t][c] = "rejected"
   BY <1>2, <2>3 DEF RefusalInv
 <2>4. CASE ClosedUnfilled(c)
  <3>1. firstDelivered[c]
    BY <2>1, <2>4 DEF ClosureCourse, ClosedUnfilled
  <3> QED BY <1>2, <2>2, <2>4, <3>1 DEF ClosureInv
 <2> QED BY <2>1, <2>2, <2>3, <2>4 DEF ClosureCourse
<1> QED BY <1>1, <1>2, TypeCorrect, RowsCorrect, UndeliveredIsUnseen,
           AcceptedEverywhere, RefusalsCorrect, DeliveriesCorrect, PTL
        DEF Spec, TruthInv

\* The account is served by one terminal.
SoleTerminal == \A t, u \in Terminal : t = u

\* On the only terminal, the command of a row closed without an order has none,
\* nor is one about to be sent.
UnfilledIsUnsent ==
  \A c \in Command : ClosedUnfilled(c) =>
    ~Executed(c) /\ \A t \in Terminal : ~(pcAt[t] = "send" /\ pcCmd[t] = c)

LEMMA UnfilledStaysUnsent ==
  ASSUME SoleTerminal, ~JournalFaults
  PROVE  Spec => []UnfilledIsUnsent
<1>1. ASSUME TruthInv PROVE UnfilledIsUnsent
 <2> SUFFICES ASSUME NEW c \in Command, ClosedUnfilled(c),
                     NEW t \in Terminal
              PROVE  sent[t][c] = 0 /\ ~(pcAt[t] = "send" /\ pcCmd[t] = c)
   BY DEF UnfilledIsUnsent, Executed
 <2>1. CASE ~firstDelivered[c]
   BY <1>1, <2>1 DEF TruthInv, TypeOK, UndeliveredNeverExecuted, Executed
 <2>2. CASE \E u \in Terminal : journal[u][c] = "rejected"
  <3>1. journal[t][c] = "rejected" /\ sent[t][c] = 0
    BY <1>1, <2>2 DEF SoleTerminal, TruthInv, RefusalInv
  <3> QED BY <1>1, <3>1 DEF TruthInv, RefusalInv
 <2> QED BY <1>1, <2>1, <2>2 DEF TruthInv, ClosureInv
<1> QED BY <1>1, ClosuresCorrect, PTL

\* "failed" without a code is the EA's own word that nothing was sent, and it is
\* kept: the order is not at the broker and never will be.
THEOREM RefusedIsUnsent ==
  ASSUME SoleTerminal, ~JournalFaults
  PROVE  Spec => []RejectedNotExecuted
<1>1. ASSUME TypeOK, RowInv, UnfilledIsUnsent PROVE RejectedNotExecuted
 <2> SUFFICES ASSUME NEW c \in Command,
                     status[c] = "failed", rejectCode[c] = NoCode
              PROVE  ClosedUnfilled(c)
   BY <1>1 DEF RejectedNotExecuted, UnfilledIsUnsent
 <2> QED BY <1>1 DEF RowInv, ClosedUnfilled, NoCode, DisconnectCode
<1> QED BY <1>1, TypeCorrect, RowsCorrect, UnfilledStaysUnsent, PTL

-----------------------------------------------------------------------------
(* The delivery implements CommandOutcome.                                 *)

\* Where no disconnect has closed a row.
Undisturbed == \A c \in Command : rejectCode[c] \notin DisconnectCode

LEMMA UndisturbedStep ==
  ASSUME MaxDisconnects = 0, TypeOK, Undisturbed, [Next]_vars
  PROVE  Undisturbed'
<1> SUFFICES ASSUME NEW c \in Command PROVE rejectCode'[c] \notin DisconnectCode
  BY DEF Undisturbed
<1>0. /\ rejectCode[c] \notin DisconnectCode
      /\ rejectCode \in [Command -> RejectCode]
  BY DEF Undisturbed, TypeOK
<1> USE <1>0 DEF DisconnectCode
<1>1. CASE UNCHANGED <<status, rejectCode, terminalAck, firstDelivered>>
  BY <1>1
<1>2. ASSUME NEW d \in Command, Enqueue(d) \/ DeferOrder(d)
      PROVE  rejectCode'[c] \notin DisconnectCode
  BY <1>2 DEF Enqueue, DeferOrder
<1>3. ASSUME NEW r \in BOOLEAN, Disconnect(r) PROVE FALSE
  BY <1>3 DEF Disconnect, TypeOK
<1>4. CASE ExpireDeferredOrders
  BY <1>4 DEF ExpireDeferredOrders
<1>5. ASSUME NEW t \in Terminal, NEW leased \in SUBSET Command,
             PollTransaction(session[t], leased)
      PROVE  rejectCode'[c] \notin DisconnectCode
  BY <1>5 DEF PollTransaction
<1>6. ASSUME NEW b \in batches, PersistEvents(b)
      PROVE  rejectCode'[c] \notin DisconnectCode
  BY <1>6 DEF PersistEvents, CodeAfter, NoCode, rowVars
<1>7. ASSUME NEW b \in batches, NEW d \in Command, NEW v \in Verdict,
             Activate(b, d, v)
      PROVE  rejectCode'[c] \notin DisconnectCode
  BY <1>7 DEF Activate, Verdict, NoCode, rowVars
<1> QED BY <1>1, <1>2, <1>3, <1>4, <1>5, <1>6, <1>7, RowSteps
        DEF vars, rowVars

\* Nothing is placed but by OrderSend, which leaves the rows alone.
LEMMA PlaceSteps ==
  ASSUME TypeOK, [Next]_vars, NEW c \in Command
  PROVE  \/ sent' = sent
         \/ /\ UNCHANGED rowVars
            /\ \/ \A t \in Terminal : sent'[t][c] = sent[t][c]
               \/ \E t \in Terminal : /\ pcAt[t] = "send" /\ pcCmd[t] = c
                                      /\ sent'[t][c] > 0
                                      /\ \A u \in Terminal \ {t} :
                                           sent'[u][c] = sent[u][c]
<1>0. /\ sent \in [Terminal -> [Command -> Nat]]
      /\ pcCmd \in [Terminal -> Command \cup {NoCommand}]
      /\ \A u \in Terminal : pcAt[u] # "idle" => pcCmd[u] \in Command
  BY DEF TypeOK
<1>1. ASSUME NEW t \in Terminal, NEW placed \in BOOLEAN, OrderSend(t, placed)
      PROVE  /\ UNCHANGED rowVars
             /\ \/ \A u \in Terminal : sent'[u][c] = sent[u][c]
                \/ /\ pcAt[t] = "send" /\ pcCmd[t] = c
                   /\ sent'[t][c] > 0
                   /\ \A u \in Terminal \ {t} : sent'[u][c] = sent[u][c]
 <2>1. /\ UNCHANGED rowVars
       /\ pcAt[t] = "send" /\ pcCmd[t] \in Command
       /\ sent' = sent \/ sent' = [sent EXCEPT ![t][pcCmd[t]] = @ + 1]
   BY <1>0, <1>1 DEF OrderSend
 <2> QED BY <1>0, <2>1
<1>2. ASSUME NEW t \in Terminal, Execute(t)
      PROVE  sent' = sent \/ \E placed \in BOOLEAN : OrderSend(t, placed)
  BY <1>2 DEF Execute, ReplayOutcome, Reconcile, RejectLocally,
              JournalSubmitting, RecordResult
<1>3. ASSUME NEW t \in Terminal, Crash(t) PROVE sent' = sent
  BY <1>3 DEF Crash
<1> QED BY <1>1, <1>2, <1>3, BrokerSteps DEF vars, eaVars
\* A verdict takes a step of CommandOutcome, or none.
LEMMA VerdictSteps ==
  ASSUME MaxDisconnects = 0, TypeOK, RowInv, DeliveryInv, [Next]_vars,
         NEW c \in Command
  PROVE  \/ verdict'[c] = verdict[c]
         \/ /\ verdict[c] = "none" /\ verdict'[c] = "open"
            /\ ~firstDelivered[c]
         \/ verdict[c] = "open" /\ verdict'[c] = "ambiguous"
         \/ /\ verdict[c] \in {"open", "ambiguous"}
            /\ verdict'[c] \in {"filled", "void"}
<1> DEFINE Moves ==
      \/ verdict'[c] = verdict[c]
      \/ verdict[c] = "none" /\ verdict'[c] = "open" /\ ~firstDelivered[c]
      \/ verdict[c] = "open" /\ verdict'[c] = "ambiguous"
      \/ /\ verdict[c] \in {"open", "ambiguous"}
         /\ verdict'[c] \in {"filled", "void"}
<1> SUFFICES Moves
  OBVIOUS
<1>0. /\ status \in [Command -> Status]
      /\ rejectCode \in [Command -> RejectCode]
      /\ terminalAck \in [Command -> BOOLEAN]
      /\ firstDelivered \in [Command -> BOOLEAN]
      /\ batches \subseteq Batch
  BY DEF TypeOK
<1>a. /\ terminalAck[c] <=> status[c] \in {"accepted", "rejected", "failed"}
      /\ status[c] \in {"none", "waiting"}
           => rejectCode[c] = "NULL" /\ ~firstDelivered[c]
  BY DEF RowInv, DeliveryInv, NoCode
<1>b. RowCourse(c)
  BY RowStep
<1> USE <1>0, <1>a DEF verdict, Ambiguous
<1>1. CASE UNCHANGED <<status, rejectCode, terminalAck, firstDelivered>>
  BY <1>1
<1>2. ASSUME NEW d \in Command, Enqueue(d) \/ DeferOrder(d) PROVE Moves
 <2>1. /\ \/ status' = status
          \/ status[d] = "none" /\ status' = [status EXCEPT ![d] = "queued"]
          \/ status[d] = "none" /\ status' = [status EXCEPT ![d] = "waiting"]
       /\ UNCHANGED <<rejectCode, terminalAck, firstDelivered>>
   BY <1>2 DEF Enqueue, DeferOrder
 <2>2. status'[c] = status[c] \/ (status[c] = "none" /\ status'[c] # "none")
   BY <2>1
 <2> QED BY <2>1, <2>2
<1>3. ASSUME NEW r \in BOOLEAN, Disconnect(r) PROVE FALSE
  BY <1>3 DEF Disconnect, TypeOK
<1>4. CASE ExpireDeferredOrders
  BY <1>4 DEF ExpireDeferredOrders, OverdueWaiting
<1>5. ASSUME NEW t \in Terminal, NEW leased \in SUBSET Command,
             PollTransaction(session[t], leased)
      PROVE  Moves
  BY <1>5 DEF PollTransaction, Overdue, Deliverable, ExpiredStatus
<1>6. ASSUME NEW b \in batches, PersistEvents(b) PROVE Moves
 <2>1. CASE UNCHANGED rowVars
   BY <2>1 DEF rowVars
 <2>2. CASE ~ \E d \in Command : Conflicts(d, b.events[d])
  <3>1. status'[c] = IF b.events[c] \in {"accepted", "rejected"}
                       THEN FinalStatus(b.events[c])
                       ELSE IF b.events[c] # "none" THEN "unknown"
                                                    ELSE status[c]
    BY <1>6, <2>2 DEF PersistEvents
  <3>2. terminalAck'[c] <=>
          terminalAck[c] \/ b.events[c] \in {"accepted", "rejected"}
    BY <1>6, <2>2 DEF PersistEvents
  <3>3. rejectCode'[c] = IF b.events[c] \in {"accepted", "rejected"}
                           THEN "NULL" ELSE rejectCode[c]
    BY <1>6, <2>2 DEF PersistEvents, CodeAfter, NoCode
  <3>4. ~Conflicts(c, b.events[c]) /\ b.events[c] \in Outcome
    BY <2>2 DEF Batch
  <3>5. b.events[c] # "none" => status[c] # "none"
    BY DEF DeliveryInv
  <3>6. CASE b.events[c] = "none"
    BY <3>1, <3>2, <3>3, <3>6
  <3>7. CASE b.events[c] = "unknown"
    BY <3>1, <3>2, <3>3, <3>4, <3>5, <3>7 DEF Conflicts
  <3>8. CASE b.events[c] \in {"accepted", "rejected"}
    BY <3>1, <3>2, <3>3, <3>4, <3>5, <3>8 DEF Conflicts, FinalStatus
  <3> QED BY <3>4, <3>6, <3>7, <3>8 DEF Outcome
 <2> QED BY <1>6, <2>1, <2>2 DEF PersistEvents
<1>7. ASSUME NEW b \in batches, NEW d \in Command, NEW v \in Verdict,
             Activate(b, d, v)
      PROVE  Moves
 <2>1. CASE UNCHANGED rowVars
   BY <2>1 DEF rowVars
 <2>2. CASE StillLeased(b, d) /\ (v = "queue" => deliverBy[d] > 0)
  <3>1. status[d] = "waiting"
    BY <1>7, <2>2 DEF Activate, StillLeased
  <3>2. c # d => /\ status'[c] = status[c] /\ rejectCode'[c] = rejectCode[c]
                 /\ terminalAck'[c] = terminalAck[c]
    BY <1>7, <2>2 DEF Activate
  <3>3. CASE v = "queue"
    BY <1>7, <2>2, <3>1, <3>2, <3>3 DEF Activate, NoCode
  <3>4. CASE v = "reject"
    BY <1>7, <2>2, <3>1, <3>2, <3>4 DEF Activate
  <3>5. CASE v = "release"
    BY <1>7, <2>2, <3>1, <3>2, <3>5 DEF Activate
  <3> QED BY <3>3, <3>4, <3>5 DEF Verdict
 <2> QED BY <1>7, <2>1, <2>2 DEF Activate
<1> QED BY <1>1, <1>2, <1>3, <1>4, <1>5, <1>6, <1>7, RowSteps
        DEF vars, rowVars

\* The invariants the refinement rests on.
PromiseInv == TruthInv /\ UnfilledIsUnsent /\ Undisturbed

\* The gateway, the wire and the EA of the only terminal together keep the
\* promise of CommandOutcome, as long as no user disconnects the account and the
\* journal can be written: every step is a step of the promise for each command.
THEOREM PromiseKept ==
  ASSUME SoleTerminal, ~JournalFaults, MaxDisconnects = 0
  PROVE  Spec => KeepsPromise
<1>1. Init => Promise!Init
 <2> SUFFICES ASSUME Init PROVE Promise!Init
   OBVIOUS
 <2>1. verdict = [c \in Command |-> "none"]
   BY DEF Init, verdict
 <2>2. {c \in Command : Executed(c)} = {}
   BY DEF Init, Executed
 <2> QED BY <2>1, <2>2 DEF Promise!Init
<1>2. ASSUME PromiseInv, PromiseInv', [Next]_vars PROVE Promise!Next
 <2>0. ASSUME NEW c \in Command
       PROVE  Executed(c)' <=> \E t \in Terminal : sent'[t][c] > 0
   BY DEF Executed
 <2> SUFFICES ASSUME NEW c \in Command
              PROVE  \/ Promise!Keep(c) \/ Promise!Request(c)
                     \/ Promise!Place(c) \/ Promise!Flag(c)
                     \/ Promise!Fill(c) \/ Promise!Void(c)
   BY DEF Promise!Next
 <2> USE DEF Promise!Keep, Promise!Request, Promise!Place, Promise!Flag,
             Promise!Fill, Promise!Void, Promise!Open
 <2>1. /\ verdict'[c] = "filled" => Executed(c)'
       /\ verdict'[c] = "void" => ~Executed(c)'
   BY <1>2 DEF PromiseInv, TruthInv, AcceptedInv, UnfilledIsUnsent,
               Undisturbed, ClosedUnfilled, verdict
 <2>2. CASE sent' = sent
  <3>1. Executed(c)' <=> Executed(c)
    BY <2>0, <2>2 DEF Executed
  <3>2. ~firstDelivered[c] => ~Executed(c)
    BY <1>2 DEF PromiseInv, TruthInv, UndeliveredNeverExecuted
  <3> QED BY <1>2, <2>1, <3>1, <3>2, VerdictSteps DEF PromiseInv, TruthInv
 <2>3. ASSUME UNCHANGED rowVars, \A t \in Terminal : sent'[t][c] = sent[t][c]
       PROVE  Promise!Keep(c)
  <3>1. Executed(c)' <=> Executed(c)
    BY <2>0, <2>3 DEF Executed
  <3>2. verdict'[c] = verdict[c]
    BY <2>3 DEF verdict, rowVars, Ambiguous
  <3> QED BY <3>1, <3>2
 <2>4. ASSUME UNCHANGED rowVars,
              NEW t \in Terminal, pcAt[t] = "send", pcCmd[t] = c,
              sent'[t][c] > 0
       PROVE  Promise!Place(c)
  <3>1. verdict'[c] = verdict[c]
    BY <2>4 DEF verdict, rowVars, Ambiguous
  <3>2. Executed(c)' /\ ~Executed(c)
    BY <1>2, <2>0, <2>4 DEF PromiseInv, TruthInv, TypeOK, JournalInv,
                            Executed, SoleTerminal
  <3>3. firstDelivered[c] /\ status[c] # "none"
    BY <1>2, <2>4 DEF PromiseInv, TruthInv, UndeliveredNeverExecuted,
                      DeliveryInv
  <3>4. ~terminalAck[c]
    BY <1>2, <2>4, <3>2 DEF PromiseInv, TruthInv, AcceptedInv, Undisturbed,
                            UnfilledIsUnsent, ClosedUnfilled
  <3>5. verdict[c] \in {"open", "ambiguous"}
    BY <3>3, <3>4 DEF verdict
  <3> QED BY <3>1, <3>2, <3>5
 <2> QED BY <1>2, <2>2, <2>3, <2>4, PlaceSteps DEF PromiseInv, TruthInv
<1>3. Init => Undisturbed
  BY DEF Init, Undisturbed, NoCode, DisconnectCode
<1>4. TypeOK /\ Undisturbed /\ [Next]_vars => Undisturbed'
  BY UndisturbedStep
<1> QED BY <1>1, <1>2, <1>3, <1>4, TypeCorrect, ClosuresCorrect,
           UnfilledStaysUnsent, PTL
        DEF Spec, KeepsPromise, Promise!Spec, PromiseInv
-----------------------------------------------------------------------------
(* The bound on open commands.                                             *)

Unsettled == {c \in Command : status[c] # "none" /\ ~terminalAck[c]}

\* Only an enqueue or a deferral opens a row, and no more than one at a time.
LEMMA OpeningSteps ==
  ASSUME TypeOK, RowInv, DeliveryInv, [Next]_vars
  PROVE  \/ Unsettled' \subseteq Unsettled
         \/ /\ Cardinality(Pending) < MaxPending
            /\ \E c \in Command : Unsettled' \subseteq Unsettled \cup {c}
<1>0. /\ status \in [Command -> Status]
      /\ terminalAck \in [Command -> BOOLEAN]
      /\ batches \subseteq Batch
  BY DEF TypeOK
<1>a. ASSUME NEW c \in Command
      PROVE  /\ terminalAck[c] <=>
                  status[c] \in {"accepted", "rejected", "failed"}
             /\ status[c] = "none" => \A b \in batches : b.events[c] = "none"
  BY DEF RowInv, DeliveryInv
<1> USE <1>0, <1>a DEF Unsettled
<1>1. CASE UNCHANGED <<status, rejectCode, terminalAck, firstDelivered>>
  BY <1>1
<1>2. ASSUME NEW d \in Command, Enqueue(d) \/ DeferOrder(d)
      PROVE  \/ Unsettled' \subseteq Unsettled
             \/ /\ Cardinality(Pending) < MaxPending
                /\ Unsettled' \subseteq Unsettled \cup {d}
 <2>1. /\ \/ status' = status
          \/ /\ Cardinality(Pending) < MaxPending
             /\ \E x \in {"queued", "waiting"} :
                  status' = [status EXCEPT ![d] = x]
       /\ UNCHANGED terminalAck
   BY <1>2 DEF Enqueue, DeferOrder
 <2> QED BY <2>1
<1>3. ASSUME NEW r \in BOOLEAN, Disconnect(r)
      PROVE  Unsettled' \subseteq Unsettled
  BY <1>3 DEF Disconnect
<1>4. ASSUME ExpireDeferredOrders PROVE Unsettled' \subseteq Unsettled
  BY <1>4 DEF ExpireDeferredOrders
<1>5. ASSUME NEW t \in Terminal, NEW leased \in SUBSET Command,
             PollTransaction(session[t], leased)
      PROVE  Unsettled' \subseteq Unsettled
  BY <1>5 DEF PollTransaction, Overdue, Deliverable
<1>6. ASSUME NEW b \in batches, PersistEvents(b)
      PROVE  Unsettled' \subseteq Unsettled
 <2>1. CASE UNCHANGED rowVars
   BY <2>1 DEF rowVars
 <2>2. CASE ~ \E d \in Command : Conflicts(d, b.events[d])
  <3> SUFFICES ASSUME NEW c \in Command, status'[c] # "none",
                      ~terminalAck'[c]
               PROVE  status[c] # "none" /\ ~terminalAck[c]
    OBVIOUS
  <3>1. status'[c] = IF b.events[c] \in {"accepted", "rejected"}
                       THEN FinalStatus(b.events[c])
                       ELSE IF b.events[c] # "none" THEN "unknown"
                                                    ELSE status[c]
    BY <1>6, <2>2 DEF PersistEvents
  <3>2. terminalAck'[c] <=>
          terminalAck[c] \/ b.events[c] \in {"accepted", "rejected"}
    BY <1>6, <2>2 DEF PersistEvents
  <3> QED BY <3>1, <3>2
 <2> QED BY <1>6, <2>1, <2>2 DEF PersistEvents
<1>7. ASSUME NEW b \in batches, NEW d \in Command, NEW v \in Verdict,
             Activate(b, d, v)
      PROVE  Unsettled' \subseteq Unsettled
 <2>1. CASE UNCHANGED rowVars
   BY <2>1 DEF rowVars
 <2>2. CASE StillLeased(b, d) /\ (v = "queue" => deliverBy[d] > 0)
  <3>1. status[d] = "waiting"
    BY <1>7, <2>2 DEF Activate, StillLeased
  <3>2. \A c \in Command \ {d} : /\ status'[c] = status[c]
                                 /\ terminalAck'[c] = terminalAck[c]
    BY <1>7, <2>2 DEF Activate
  <3> QED BY <3>1, <3>2
 <2> QED BY <1>7, <2>1, <2>2 DEF Activate
<1> QED BY <1>1, <1>2, <1>3, <1>4, <1>5, <1>6, <1>7, RowSteps
        DEF vars, rowVars

\* MAX_COMMANDS_PER_ACCOUNT bounds the open commands of the account, however
\* many are deferred, activated, expired or left ambiguous.
THEOREM PendingStaysBounded ==
  ASSUME IsFiniteSet(Command)
  PROVE  Spec => []PendingBounded
<1>1. Init => PendingBounded
 <2>1. Init => Unsettled = {}
   BY DEF Init, Unsettled
 <2> QED BY <2>1, FS_EmptySet, ConstantsAssumption
         DEF PendingBounded, Unsettled
<1>2. ASSUME TypeOK, RowInv, DeliveryInv, PendingBounded, [Next]_vars
      PROVE  PendingBounded'
 <2>1. IsFiniteSet(Unsettled)
   BY FS_Subset DEF Unsettled
 <2>2. Pending = Unsettled
   BY <1>2 DEF Pending, Unsettled, RowInv, TypeOK, Status
 <2>3. /\ Cardinality(Unsettled) \in Nat /\ MaxPending \in Nat
       /\ Cardinality(Unsettled) <= MaxPending
   BY <1>2, <2>1, FS_CardinalityType, ConstantsAssumption
      DEF PendingBounded, Unsettled
 <2>4. CASE Unsettled' \subseteq Unsettled
  <3>1. Cardinality(Unsettled') <= Cardinality(Unsettled)
    BY <2>1, <2>4, FS_Subset
  <3>2. Cardinality(Unsettled') \in Nat
    BY <2>1, <2>4, FS_Subset, FS_CardinalityType
  <3> QED BY <2>3, <3>1, <3>2 DEF PendingBounded, Unsettled
 <2>5. ASSUME Cardinality(Pending) < MaxPending, NEW c \in Command,
              Unsettled' \subseteq Unsettled \cup {c}
       PROVE  PendingBounded'
  <3>0. /\ IsFiniteSet(Unsettled \cup {c})
        /\ \/ Cardinality(Unsettled \cup {c}) = Cardinality(Unsettled)
           \/ Cardinality(Unsettled \cup {c}) = Cardinality(Unsettled) + 1
    BY <2>1, FS_AddElement
  <3>1. /\ IsFiniteSet(Unsettled \cup {c})
        /\ Cardinality(Unsettled \cup {c}) <= Cardinality(Unsettled) + 1
    BY <2>3, <3>0
  <3>2. /\ Cardinality(Unsettled') <= Cardinality(Unsettled \cup {c})
        /\ IsFiniteSet(Unsettled')
    BY <2>5, <3>1, FS_Subset
  <3>3. Cardinality(Unsettled') \in Nat
          /\ Cardinality(Unsettled \cup {c}) \in Nat
    BY <3>1, <3>2, FS_CardinalityType
  <3> QED BY <2>2, <2>3, <2>5, <3>1, <3>2, <3>3 DEF PendingBounded, Unsettled
 <2> QED BY <1>2, <2>4, <2>5, OpeningSteps
<1> QED BY <1>1, <1>2, TypeCorrect, RowsCorrect, DeliveriesCorrect, PTL
        DEF Spec
=============================================================================
