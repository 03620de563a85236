--------------------------- MODULE CommandDelivery ---------------------------
(***************************************************************************)
(* Durable delivery of execution commands to the MT5 terminals of ONE      *)
(* account: the gateway's execution_target_commands rows (Rust,            *)
(* execution-gateway/src/main.rs), the common Expert Advisor that polls,   *)
(* journals and submits them (MQL5, MarketLensExecutionEA.mq5), the HTTP   *)
(* exchange between the two, and the broker.                               *)
(*                                                                         *)
(* Every SQL statement of the gateway filters on the target account, so    *)
(* one account is the whole story of a row.  What several accounts share,  *)
(* the status of the parent command, is written and never read; it is left *)
(* out.                                                                    *)
(*                                                                         *)
(* Time.  A timestamp column is the number of ticks until it is reached,   *)
(* saturating at 0; Tick lets one unit pass.  No clock grows without       *)
(* bound, so every run is finite without a constraint on time.             *)
(***************************************************************************)
EXTENDS Integers, FiniteSets

CONSTANTS
  Command,         \* target commands, by command id = idempotency key
  Terminal,        \* MT5 terminals that can log in to the account, one EA each
  Session,         \* EA session ids
  NoSession,       \* the NULL session
  NoCommand,       \* "the EA is between two commands"
  MaxPending,      \* MAX_COMMANDS_PER_ACCOUNT
  MaxPerPoll,      \* MAX_COMMANDS_PER_POLL
  MaxActivations,  \* MAX_DEFERRED_ACTIVATIONS_PER_EVENT
  CommandLease,    \* COMMAND_LEASE, in ticks
  DeliveryTtl,     \* COMMAND_DELIVERY_TTL, in ticks
  DeferredTtl,     \* DEFERRED_ORDER_TTL, in ticks
  PollFreshness,   \* EA_POLL_FRESHNESS, in ticks
  UnknownBackoff,  \* the 30 s before an unknown command is offered again
  ReleaseBackoff,  \* the 1 s before a released deferred order is retried
  MaxInFlight,     \* bound: event batches on the wire or in the gateway
  MaxFaults,       \* bound: crashes, losses and timeouts in one behaviour
  MaxDisconnects,  \* bound: explicit disconnects and removals by the user
  JournalFaults    \* may the EA's journal file be unavailable?

ASSUME ConstantsAssumption ==
  /\ NoSession \notin Session
  /\ NoCommand \notin Command
  /\ MaxPending \in Nat /\ MaxPerPoll \in Nat /\ MaxActivations \in Nat
  /\ CommandLease \in Nat /\ DeliveryTtl \in Nat /\ DeferredTtl \in Nat
  /\ PollFreshness \in Nat /\ UnknownBackoff \in Nat /\ ReleaseBackoff \in Nat
  /\ MaxInFlight \in Nat /\ MaxFaults \in Nat /\ MaxDisconnects \in Nat
  /\ JournalFaults \in BOOLEAN

VARIABLES
  \* One execution_target_commands row per command
  status,          \* status; "none" while the row does not exist
  rejectCode,      \* reject_code
  firstDelivered,  \* first_delivered_at IS NOT NULL
  terminalAck,     \* terminal_ack_at IS NOT NULL
  lease,           \* ticks until lease_expires_at
  leaseOwner,      \* lease_owner
  ttl,             \* ticks until the delivery deadline
  nextAttempt,     \* ticks until next_attempt_at
  deliverBy,       \* ticks until deliver_by
  \* execution_ea_sessions and execution_accounts
  activeSession,   \* the session neither revoked nor expired
  pollFresh,       \* ticks for which last_poll_at still counts as fresh
  disabled,        \* the account was removed (status = 'disabled')
  admitted,        \* enqueues that read the target as connected
  \* HTTP event batches sent by the EAs and not yet answered
  batches,
  \* Each terminal's EA
  session,         \* g_session_token, also kept in the session cache file
  inbox,           \* commands of the poll response still to be executed
  pcAt, pcCmd,     \* where ExecutePlaceCommand/SubmitDirectCommand stands
  journal,         \* the command journal file and its copy in memory
  events,          \* g_events: at most one outcome per command
  sent,            \* how often OrderSend put the command at the broker
  \* Bounds on the environment
  faults, disconnects

rowVars == <<status, rejectCode, firstDelivered, terminalAck, lease,
             leaseOwner, ttl, nextAttempt, deliverBy>>
accountVars == <<activeSession, pollFresh, disabled, admitted>>
eaVars == <<session, inbox, pcAt, pcCmd, journal, events, sent>>
boundVars == <<faults, disconnects>>
vars == <<rowVars, accountVars, batches, eaVars, boundVars>>

Status == {"none", "waiting", "queued", "unknown",
           "accepted", "rejected", "failed"}
NoCode == "NULL"
\* A command MT5 never received, whatever the reason it will not be sent.
UndeliveredCode == {"DELIVERY_UNAVAILABLE", "DEFERRED_DELIVERY_EXPIRED",
                    "ROUTE_REJECTED"}
DisconnectCode == {"ACCOUNT_DISCONNECTED", "ACCOUNT_REMOVED"}
RejectCode == UndeliveredCode \cup DisconnectCode
                \cup {NoCode, "DELIVERY_OUTCOME_UNKNOWN"}
Outcome == {"none", "accepted", "rejected", "unknown"}
JournalState == {"none", "submitting", "accepted", "rejected"}
Batch == [from : Terminal, session : Session, events : [Command -> Outcome],
          phase : {"sent", "events", "lease", "activate"},
          acts : SUBSET Command, live : BOOLEAN]

\* A status that still occupies one of the account's MaxPending slots.
Pending == {c \in Command : ~terminalAck[c]
                              /\ status[c] \in {"waiting", "queued", "unknown"}}

\* The rows a statement with LIMIT n takes out of the candidate rows.
Limited(candidates, n) ==
  {S \in SUBSET candidates :
     Cardinality(S) = IF Cardinality(candidates) < n
                        THEN Cardinality(candidates) ELSE n}

\* At the broker: the order, deal or position carries the command's comment.
Executed(c) == \E t \in Terminal : sent[t][c] > 0

Fault == faults < MaxFaults /\ faults' = faults + 1 /\ UNCHANGED disconnects

Init ==
  /\ status = [c \in Command |-> "none"]
  /\ rejectCode = [c \in Command |-> NoCode]
  /\ firstDelivered = [c \in Command |-> FALSE]
  /\ terminalAck = [c \in Command |-> FALSE]
  /\ lease = [c \in Command |-> 0]
  /\ leaseOwner = [c \in Command |-> NoSession]
  /\ ttl = [c \in Command |-> 0]
  /\ nextAttempt = [c \in Command |-> 0]
  /\ deliverBy = [c \in Command |-> 0]
  /\ activeSession = NoSession
  /\ pollFresh = 0
  /\ disabled = FALSE
  /\ admitted = {}
  /\ batches = {}
  /\ session = [t \in Terminal |-> NoSession]
  /\ inbox = [t \in Terminal |-> {}]
  /\ pcAt = [t \in Terminal |-> "idle"]
  /\ pcCmd = [t \in Terminal |-> NoCommand]
  /\ journal = [t \in Terminal |-> [c \in Command |-> "none"]]
  /\ events = [t \in Terminal |-> [c \in Command |-> "none"]]
  /\ sent = [t \in Terminal |-> [c \in Command |-> 0]]
  /\ faults = 0
  /\ disconnects = 0

-----------------------------------------------------------------------------
(* Admin side: a routed order becomes a row.                               *)

\* EaCommandQueue::enqueue, first statement.  The target is connected when its
\* session polled recently.  The statement then waits for the account's row
\* lock: PostgreSQL re-reads that row when it gets the lock, but not the session
\* the EXISTS looked at.
Admit(c) ==
  /\ status[c] = "none"
  /\ c \notin admitted
  /\ ~disabled /\ activeSession # NoSession /\ pollFresh > 0
  /\ admitted' = admitted \cup {c}
  /\ UNCHANGED <<rowVars, activeSession, pollFresh, disabled, batches, eaVars,
                 boundVars>>

\* The rest of enqueue, under the account's row lock: the account is not
\* disabled, it has a free slot, the idempotency key is new (a retry finds the
\* row and changes nothing), and the row is inserted.
Enqueue(c) ==
  /\ c \in admitted
  /\ admitted' = admitted \ {c}
  /\ IF status[c] = "none" /\ ~disabled /\ Cardinality(Pending) < MaxPending
       THEN /\ status' = [status EXCEPT ![c] = "queued"]
            /\ ttl' = [ttl EXCEPT ![c] = DeliveryTtl]
       ELSE UNCHANGED <<status, ttl>>
  /\ UNCHANGED <<rejectCode, firstDelivered, terminalAck, lease, leaseOwner,
                 nextAttempt, deliverBy, activeSession, pollFresh, disabled,
                 batches, eaVars, boundVars>>

\* defer_order.  route_admin_order saw the target offline; that reading may be
\* stale by now, so nothing is asked of the session here.
DeferOrder(c) ==
  /\ status[c] = "none"
  /\ ~disabled
  /\ Cardinality(Pending) < MaxPending
  /\ status' = [status EXCEPT ![c] = "waiting"]
  /\ deliverBy' = [deliverBy EXCEPT ![c] = DeferredTtl]
  /\ UNCHANGED <<rejectCode, firstDelivered, terminalAck, lease, leaseOwner,
                 ttl, nextAttempt, accountVars, batches, eaVars, boundVars>>

\* The sweeper: waiting rows past deliver_by fail, whoever holds their lease.
OverdueWaiting == {c \in Command : status[c] = "waiting" /\ deliverBy[c] = 0}

ExpireDeferredOrders ==
  /\ OverdueWaiting # {}
  /\ status' = [c \in Command |->
                  IF c \in OverdueWaiting THEN "failed" ELSE status[c]]
  /\ rejectCode' = [c \in Command |-> IF c \in OverdueWaiting
                      THEN "DEFERRED_DELIVERY_EXPIRED" ELSE rejectCode[c]]
  /\ terminalAck' = [c \in Command |->
                       terminalAck[c] \/ c \in OverdueWaiting]
  /\ lease' = [c \in Command |->
                 IF c \in OverdueWaiting THEN 0 ELSE lease[c]]
  /\ leaseOwner' = [c \in Command |->
                 IF c \in OverdueWaiting THEN NoSession ELSE leaseOwner[c]]
  /\ UNCHANGED <<firstDelivered, ttl, nextAttempt, deliverBy, accountVars,
                 batches, eaVars, boundVars>>

\* manage_account: the user disconnects or removes the account.  Sessions are
\* revoked and every open row is stopped, delivered or not.
Disconnect(remove) ==
  LET stopped == Pending IN
  /\ disconnects < MaxDisconnects
  /\ disconnects' = disconnects + 1
  /\ ~disabled
  /\ activeSession' = NoSession
  /\ disabled' = remove
  /\ status' = [c \in Command |->
                  IF c \in stopped THEN "failed" ELSE status[c]]
  /\ rejectCode' = [c \in Command |->
                      IF c \in stopped
                        THEN IF remove THEN "ACCOUNT_REMOVED"
                                       ELSE "ACCOUNT_DISCONNECTED"
                        ELSE rejectCode[c]]
  /\ terminalAck' = [c \in Command |-> terminalAck[c] \/ c \in stopped]
  /\ lease' = [c \in Command |-> IF c \in stopped THEN 0 ELSE lease[c]]
  /\ leaseOwner' = [c \in Command |->
                      IF c \in stopped THEN NoSession ELSE leaseOwner[c]]
  /\ UNCHANGED <<firstDelivered, ttl, nextAttempt, deliverBy, pollFresh,
                 admitted, batches, eaVars, faults>>

-----------------------------------------------------------------------------
(* Sessions.                                                               *)

\* No waiting row, EA or request still names the id (a lease owner is read of
\* waiting rows only): the model's stand-in for a fresh UUID, which keeps the
\* set of session ids finite.
FreshSession == {s \in Session :
                   /\ s # activeSession
                   /\ \A t \in Terminal : s # session[t]
                   /\ \A c \in Command : status[c] = "waiting"
                                           => s # leaseOwner[c]
                   /\ \A b \in batches : s # b.session}

\* RegisterSession with a pairing token, answered by create_database_session:
\* older sessions of the account are revoked, the account is ready again.
\* The answer may get lost: the gateway then has a session no EA holds.
Pair(t, answered) ==
  /\ session[t] = NoSession
  /\ IF answered THEN UNCHANGED boundVars ELSE Fault
  /\ \E s \in FreshSession :
       /\ activeSession' = s
       /\ session' = IF answered THEN [session EXCEPT ![t] = s] ELSE session
  /\ pollFresh' = 0
  /\ disabled' = FALSE
  /\ UNCHANGED <<rowVars, admitted, batches, inbox, pcAt, pcCmd, journal,
                 events, sent>>

\* authenticate stops accepting a session whose expires_at has passed.
ExpireSession ==
  /\ activeSession # NoSession
  /\ Fault
  /\ activeSession' = NoSession
  /\ UNCHANGED <<rowVars, pollFresh, disabled, admitted, batches, eaVars>>

\* The EA of t waits for the answer to an event batch: WebRequest blocks it.
Blocked(t) == \E b \in batches : b.live /\ b.from = t

\* OnTimer may start a request: none is under way and nothing is left of the
\* previous poll.
Ready(t) == pcAt[t] = "idle" /\ inbox[t] = {} /\ ~Blocked(t)

-----------------------------------------------------------------------------
(* poll_commands: one transaction expires overdue rows, leases due ones    *)
(* and records the poll.                                                   *)

Deliverable(c) == /\ ~terminalAck[c]
                  /\ status[c] \in {"queued", "unknown"}
                  /\ rejectCode[c] # "DELIVERY_OUTCOME_UNKNOWN"

OverdueUndelivered == {c \in Command : /\ Deliverable(c) /\ ttl[c] = 0
                                       /\ ~firstDelivered[c]}

Overdue == {c \in Command : Deliverable(c) /\ ttl[c] = 0}

Due == {c \in Command : /\ Deliverable(c) /\ ttl[c] > 0
                        /\ nextAttempt[c] = 0 /\ lease[c] = 0}

\* Past the deadline: final if no EA was ever handed the command, and open for
\* reconciliation if one was.
ExpiredAsFailed(c) == "failed"

ExpiredStatus(c) == IF firstDelivered[c] THEN "unknown" ELSE "failed"

\* first_delivered_at is stamped by the first lease.
DeliveredUnstamped(leased) == firstDelivered

Delivered(leased) == [c \in Command |-> firstDelivered[c] \/ c \in leased]

PollTransaction(s, leased) ==
  /\ leased \in Limited(Due, MaxPerPoll)
  /\ status' = [c \in Command |->
       IF c \in Overdue THEN ExpiredStatus(c) ELSE status[c]]
  /\ rejectCode' = [c \in Command |->
       IF c \notin Overdue THEN rejectCode[c]
       ELSE IF ExpiredStatus(c) = "unknown" THEN "DELIVERY_OUTCOME_UNKNOWN"
                                            ELSE "DELIVERY_UNAVAILABLE"]
  /\ terminalAck' = [c \in Command |->
       terminalAck[c] \/ (c \in Overdue /\ ExpiredStatus(c) = "failed")]
  /\ lease' = [c \in Command |-> IF c \in leased THEN CommandLease
                                 ELSE IF c \in Overdue THEN 0 ELSE lease[c]]
  /\ leaseOwner' = [c \in Command |->
       IF c \in leased THEN s
       ELSE IF c \in Overdue THEN NoSession ELSE leaseOwner[c]]
  /\ firstDelivered' = Delivered(leased)
  /\ ttl' = [c \in Command |-> IF c \in leased /\ ~firstDelivered[c]
                                 THEN DeliveryTtl ELSE ttl[c]]
  /\ pollFresh' = PollFreshness
  /\ UNCHANGED <<nextAttempt, deliverBy, activeSession, disabled, admitted>>

Poll(t) ==
  /\ Ready(t)
  /\ session[t] # NoSession /\ session[t] = activeSession
  /\ \E leased \in SUBSET Command :
       /\ PollTransaction(session[t], leased)
       /\ inbox' = [inbox EXCEPT ![t] = leased]
  /\ UNCHANGED <<batches, session, pcAt, pcCmd, journal, events, sent,
                 boundVars>>

\* The transaction commits, but its answer never reaches the EA, which may
\* have given up on the request and gone on.
PollLost(t) ==
  /\ session[t] # NoSession /\ session[t] = activeSession
  /\ Fault
  /\ \E leased \in SUBSET Command : PollTransaction(session[t], leased)
  /\ UNCHANGED <<batches, eaVars>>

\* 401: ResetSession forgets the token and keeps the buffered events.
PollUnauthorized(t) ==
  /\ Ready(t)
  /\ session[t] # NoSession /\ session[t] # activeSession
  /\ session' = [session EXCEPT ![t] = NoSession]
  /\ UNCHANGED <<rowVars, accountVars, batches, inbox, pcAt, pcCmd, journal,
                 events, sent, boundVars>>

-----------------------------------------------------------------------------
(* The EA executes the commands of a poll response one after the other.    *)

\* BufferAccepted, BufferRejected and BufferUnknown leave an outcome that is
\* already buffered for the command alone.
Buffered(t, c, outcome) ==
  IF events[t][c] = "none" THEN [events EXCEPT ![t][c] = outcome] ELSE events

\* RecordCommandState appends to the file first; when the file cannot be
\* opened neither the file nor the copy in memory changes.

Record(t, c, state) ==
  \/ journal' = [journal EXCEPT ![t][c] = state]
  \/ JournalFaults /\ journal' = journal

Take(t, c) ==
  /\ pcAt[t] = "idle" /\ c \in inbox[t]
  /\ inbox' = [inbox EXCEPT ![t] = @ \ {c}]

\* ReplayRecordedOutcome of a command whose outcome is in the journal.
ReplayOutcome(t, c) ==
  /\ Take(t, c)
  /\ journal[t][c] \in {"accepted", "rejected"}
  /\ events' = Buffered(t, c, journal[t][c])
  /\ UNCHANGED <<rowVars, accountVars, batches, session, pcAt, pcCmd, journal,
                 sent, boundVars>>

\* FindBrokerOutcome searches the broker's orders, positions and history for the
\* command's comment: it finds nothing that is not there; it may miss what is.
FoundAlways(c) == TRUE

MayBeFound(c) == Executed(c)

\* ReplayRecordedOutcome of a command left "submitting" by a crash.
Reconcile(t, c) ==
  /\ Take(t, c)
  /\ journal[t][c] = "submitting"
  /\ \/ events[t][c] # "none" /\ UNCHANGED <<journal, events>>
     \/ /\ events[t][c] = "none" /\ MayBeFound(c)
        /\ Record(t, c, "accepted")
        /\ events' = Buffered(t, c, "accepted")
     \/ /\ events[t][c] = "none"
        /\ events' = Buffered(t, c, "unknown")
        /\ UNCHANGED journal
  /\ UNCHANGED <<rowVars, accountVars, batches, session, pcAt, pcCmd, sent,
                 boundVars>>

\* Rejected before anything is sent: trading not allowed, no such symbol, the
\* margin cap, OrderCheck, or a journal that cannot be written.
RejectLocally(t, c) ==
  /\ Take(t, c)
  /\ journal[t][c] = "none"
  /\ Record(t, c, "rejected")
  /\ events' = Buffered(t, c, "rejected")
  /\ UNCHANGED <<rowVars, accountVars, batches, session, pcAt, pcCmd, sent,
                 boundVars>>

\* The ambiguous boundary is persisted before the broker is called.
SubmitUnjournaled(t, c) ==
  /\ Take(t, c)
  /\ journal[t][c] = "none"
  /\ pcAt' = [pcAt EXCEPT ![t] = "send"]
  /\ pcCmd' = [pcCmd EXCEPT ![t] = c]
  /\ UNCHANGED <<rowVars, accountVars, batches, session, journal, events, sent,
                 boundVars>>

JournalSubmitting(t, c) ==
  /\ Take(t, c)
  /\ journal[t][c] = "none"
  /\ journal' = [journal EXCEPT ![t][c] = "submitting"]
  /\ pcAt' = [pcAt EXCEPT ![t] = "send"]
  /\ pcCmd' = [pcCmd EXCEPT ![t] = c]
  /\ UNCHANGED <<rowVars, accountVars, batches, session, events, sent,
                 boundVars>>

\* OrderSend: the broker takes the order or refuses it.
OrderSend(t, placed) ==
  /\ pcAt[t] = "send"
  /\ sent' = IF placed THEN [sent EXCEPT ![t][pcCmd[t]] = @ + 1] ELSE sent
  /\ pcAt' = [pcAt EXCEPT ![t] = IF placed THEN "placed" ELSE "refused"]
  /\ UNCHANGED <<rowVars, accountVars, batches, session, inbox, pcCmd, journal,
                 events, boundVars>>

\* The result of OrderSend is journalled and buffered for the gateway.
RecordResult(t) ==
  LET outcome == IF pcAt[t] = "placed" THEN "accepted" ELSE "rejected" IN
  /\ pcAt[t] \in {"placed", "refused"}
  /\ Record(t, pcCmd[t], outcome)
  /\ events' = Buffered(t, pcCmd[t], outcome)
  /\ pcAt' = [pcAt EXCEPT ![t] = "idle"]
  /\ pcCmd' = [pcCmd EXCEPT ![t] = NoCommand]
  /\ UNCHANGED <<rowVars, accountVars, batches, session, inbox, sent,
                 boundVars>>

\* The terminal stops and starts again: OnInit reloads the journal and the
\* cached session; what was only in memory is gone, and nobody waits for the
\* requests that are under way.
Crash(t) ==
  /\ Fault
  /\ inbox' = [inbox EXCEPT ![t] = {}]
  /\ pcAt' = [pcAt EXCEPT ![t] = "idle"]
  /\ pcCmd' = [pcCmd EXCEPT ![t] = NoCommand]
  /\ events' = [events EXCEPT ![t] = [c \in Command |-> "none"]]
  /\ batches' = {IF b.from = t THEN [b EXCEPT !.live = FALSE] ELSE b :
                   b \in batches}
  /\ UNCHANGED <<rowVars, accountVars, session, journal, sent>>

\* BufferEvent at MAX_BUFFERED_EVENTS: telemetry pushes out the oldest event.
DropOldestEvent(t, c) ==
  /\ Fault
  /\ ~Blocked(t)
  /\ events[t][c] # "none"
  /\ events' = [events EXCEPT ![t][c] = "none"]
  /\ UNCHANGED <<rowVars, accountVars, batches, session, inbox, pcAt, pcCmd,
                 journal, sent>>

-----------------------------------------------------------------------------
(* accept_events: one request, several transactions.                       *)

NoEvents == [c \in Command |-> "none"]

\* FlushBufferedEventsWithPortfolio carries every buffered event;
\* FlushPortfolioSnapshot and FlushInstrumentSnapshots carry none.
Flush(t, payload) ==
  /\ Ready(t)
  /\ session[t] # NoSession
  /\ payload \in {events[t], NoEvents}
  /\ Cardinality(batches) < MaxInFlight
  /\ batches' = batches \cup
       {[from |-> t, session |-> session[t], events |-> payload,
         phase |-> "sent", acts |-> {}, live |-> TRUE]}
  /\ UNCHANGED <<rowVars, accountVars, eaVars, boundVars>>

\* The request is lost before the gateway reads it; WebRequest gives up and
\* the events stay buffered.
LoseRequest(b) ==
  /\ Fault
  /\ b.phase = "sent"
  /\ batches' = batches \ {b}
  /\ UNCHANGED <<rowVars, accountVars, eaVars>>

\* WebRequest times out; the gateway goes on with the request.
Timeout(b) ==
  /\ Fault
  /\ b.live
  /\ batches' = (batches \ {b}) \cup {[b EXCEPT !.live = FALSE]}
  /\ UNCHANGED <<rowVars, accountVars, eaVars>>

Advance(b, phase, acts) ==
  batches' = (batches \ {b}) \cup {[b EXCEPT !.phase = phase, !.acts = acts]}

\* authenticate and touch_account; a 401 makes the EA drop its session.
Authenticate(b) ==
  /\ b.phase = "sent"
  /\ IF b.session = activeSession
       THEN Advance(b, "events", {}) /\ UNCHANGED session
       ELSE /\ batches' = batches \ {b}
            /\ session' = IF b.live
                            THEN [session EXCEPT ![b.from] = NoSession]
                            ELSE session
  /\ UNCHANGED <<rowVars, accountVars, inbox, pcAt, pcCmd, journal, events,
                 sent, boundVars>>

FinalStatus(outcome) == IF outcome = "accepted" THEN "accepted" ELSE "failed"

\* The UPDATE of one command event matches no row.
ConflictsNever(c, outcome) == FALSE

Conflicts(c, outcome) ==
  /\ terminalAck[c]
  /\ \/ outcome = "unknown"
     \/ outcome \in {"accepted", "rejected"}
          /\ status[c] # FinalStatus(outcome)

\* A final outcome clears the reject code, an unknown one leaves it.
CodeCleared(c, outcome) == IF outcome # "none" THEN NoCode ELSE rejectCode[c]

CodeAfter(c, outcome) ==
  IF outcome \in {"accepted", "rejected"} THEN NoCode ELSE rejectCode[c]

\* persist_database_payload for the events: all of the batch or, when one of
\* them conflicts with an earlier outcome, a 409 and nothing of it.
PersistEvents(b) ==
  LET Final(c) == b.events[c] \in {"accepted", "rejected"}
      Named(c) == b.events[c] # "none" IN
  /\ b.phase = "events"
  /\ IF \E c \in Command : Conflicts(c, b.events[c])
       THEN batches' = batches \ {b} /\ UNCHANGED rowVars
       ELSE /\ Advance(b, "lease", {})
            /\ status' = [c \in Command |->
                 IF Final(c) THEN FinalStatus(b.events[c])
                 ELSE IF Named(c) THEN "unknown" ELSE status[c]]
            /\ rejectCode' = [c \in Command |->
                 CodeAfter(c, b.events[c])]
            /\ terminalAck' = [c \in Command |-> terminalAck[c] \/ Final(c)]
            /\ nextAttempt' = [c \in Command |->
                 IF b.events[c] = "unknown" THEN UnknownBackoff
                                            ELSE nextAttempt[c]]
            /\ lease' = [c \in Command |-> IF Named(c) THEN 0 ELSE lease[c]]
            /\ leaseOwner' = [c \in Command |->
                 IF Named(c) THEN NoSession ELSE leaseOwner[c]]
            /\ UNCHANGED <<firstDelivered, ttl, deliverBy>>
  /\ UNCHANGED <<accountVars, eaVars, boundVars>>

Activatable == {c \in Command : /\ status[c] = "waiting" /\ deliverBy[c] > 0
                                /\ nextAttempt[c] = 0 /\ lease[c] = 0}

\* activate_deferred_orders leases waiting rows for this session ...
LeaseDeferred(b) ==
  /\ b.phase = "lease"
  /\ \E acts \in Limited(Activatable, MaxActivations) :
       /\ Advance(b, "activate", acts)
       /\ lease' = [c \in Command |->
                      IF c \in acts THEN CommandLease ELSE lease[c]]
       /\ leaseOwner' = [c \in Command |->
                           IF c \in acts THEN b.session ELSE leaseOwner[c]]
  /\ UNCHANGED <<status, rejectCode, firstDelivered, terminalAck, ttl,
                 nextAttempt, deliverBy, accountVars, eaVars, boundVars>>

\* ... and routes them one at a time.  Each UPDATE repeats the conditions that
\* may have changed since the lease, and does nothing when one has.
StillLeased(b, c) == status[c] = "waiting" /\ leaseOwner[c] = b.session

Activate(b, c, verdict) ==
  /\ b.phase = "activate" /\ c \in b.acts
  /\ Advance(b, "activate", b.acts \ {c})
  /\ IF StillLeased(b, c) /\ (verdict = "queue" => deliverBy[c] > 0)
       THEN /\ lease' = [lease EXCEPT ![c] = 0]
            /\ leaseOwner' = [leaseOwner EXCEPT ![c] = NoSession]
            /\ status' = [status EXCEPT ![c] =
                 CASE verdict = "queue" -> "queued"
                   [] verdict = "reject" -> "rejected"
                   [] OTHER -> @]
            /\ rejectCode' = [rejectCode EXCEPT ![c] =
                 CASE verdict = "queue" -> NoCode
                   [] verdict = "reject" -> "ROUTE_REJECTED"
                   [] OTHER -> @]
            /\ terminalAck' = [terminalAck EXCEPT ![c] =
                 @ \/ verdict = "reject"]
            /\ ttl' = IF verdict = "queue"
                 THEN [ttl EXCEPT ![c] = DeliveryTtl] ELSE ttl
            /\ nextAttempt' = IF verdict = "release"
                 THEN [nextAttempt EXCEPT ![c] = ReleaseBackoff]
                 ELSE nextAttempt
            /\ UNCHANGED <<firstDelivered, deliverBy>>
       ELSE UNCHANGED rowVars
  /\ UNCHANGED <<accountVars, eaVars, boundVars>>

\* A database error in any later statement answers 5xx, and touch_account
\* answers 403 when the account was removed meanwhile: what is committed stays,
\* leases included, and the EA keeps its events.
FailRequest(b) ==
  /\ Fault
  /\ b.phase # "sent"
  /\ batches' = batches \ {b}
  /\ UNCHANGED <<rowVars, accountVars, eaVars>>

\* 200: the EA empties its buffer if the batch carried it.
Respond(b) ==
  /\ b.phase = "activate" /\ b.acts = {}
  /\ batches' = batches \ {b}
  /\ events' = IF b.live /\ b.events # NoEvents
                 THEN [events EXCEPT ![b.from] = NoEvents] ELSE events
  /\ UNCHANGED <<rowVars, accountVars, session, inbox, pcAt, pcCmd, journal,
                 sent, boundVars>>

-----------------------------------------------------------------------------
ElapsePastZero(n) == n - 1

Elapse(n) == IF n > 0 THEN n - 1 ELSE 0

TimeMatters == \/ pollFresh > 0
               \/ \E c \in Command : lease[c] + ttl[c] + nextAttempt[c]
                                       + deliverBy[c] > 0

Tick ==
  /\ TimeMatters
  /\ lease' = [c \in Command |-> Elapse(lease[c])]
  /\ ttl' = [c \in Command |-> Elapse(ttl[c])]
  /\ nextAttempt' = [c \in Command |-> Elapse(nextAttempt[c])]
  /\ deliverBy' = [c \in Command |-> Elapse(deliverBy[c])]
  /\ pollFresh' = Elapse(pollFresh)
  /\ UNCHANGED <<status, rejectCode, firstDelivered, terminalAck, leaseOwner,
                 activeSession, disabled, admitted, batches, eaVars, boundVars>>

Verdict == {"queue", "reject", "release"}

\* The gateway working on a request it has received.
Serve(b) == \/ Authenticate(b) \/ PersistEvents(b) \/ LeaseDeferred(b)
            \/ \E c \in Command, v \in Verdict : Activate(b, c, v)
            \/ Respond(b)

\* The EA working through a poll response.
Execute(t) == \/ \E c \in Command : \/ ReplayOutcome(t, c) \/ Reconcile(t, c)
                                    \/ RejectLocally(t, c)
                                    \/ JournalSubmitting(t, c)
              \/ \E placed \in BOOLEAN : OrderSend(t, placed)
              \/ RecordResult(t)

Admin == \/ \E c \in Command : Admit(c) \/ DeferOrder(c)
         \/ \E remove \in BOOLEAN : Disconnect(remove)

Environment == \/ ExpireSession
               \/ \E t \in Terminal : \/ Pair(t, FALSE) \/ PollLost(t)
                                      \/ Crash(t)
               \/ \E t \in Terminal, c \in Command : DropOldestEvent(t, c)
               \/ \E b \in batches : \/ LoseRequest(b) \/ Timeout(b)
                                     \/ FailRequest(b)

Next == \/ Admin \/ Environment
        \/ \E c \in Command : Enqueue(c)
        \/ ExpireDeferredOrders \/ Tick
        \/ \E t \in Terminal : \/ Pair(t, TRUE) \/ Poll(t)
                               \/ PollUnauthorized(t) \/ Execute(t)
                               \/ Flush(t, events[t]) \/ Flush(t, NoEvents)
        \/ \E b \in batches : Serve(b)

Spec == Init /\ [][Next]_vars

\* What the gateway and the clock do by themselves: axum serves the requests it
\* has read, a tokio task sweeps every five seconds, time passes.
GatewayFairness ==
  /\ WF_vars(Tick)
  /\ WF_vars(ExpireDeferredOrders)
  /\ WF_vars(\E b \in batches : Serve(b))

\* An EA whose timer keeps firing.  OnTimer polls and then flushes in every
\* cycle, so that neither can shut the other out for ever: strong fairness.
TimerFairness(t) ==
  /\ SF_vars(Poll(t)) /\ WF_vars(PollUnauthorized(t))
  /\ WF_vars(Execute(t))
  /\ SF_vars(events[t] # NoEvents /\ Flush(t, events[t]))

\* ... and that gets a pairing token whenever it needs one: a managed VM hands
\* it out by itself (LoadManagedBootstrapToken), otherwise the user pastes it.
PairingFairness(t) == WF_vars(Pair(t, TRUE))

FairSpec == /\ Spec /\ GatewayFairness
            /\ \A t \in Terminal : TimerFairness(t) /\ PairingFairness(t)

-----------------------------------------------------------------------------
(* Properties.                                                             *)

\* Every variable of the gateway, the wire and the EAs stays in its domain
\* (execution_target_commands and its CHECK constraints, the EA's globals);
\* an EA is between two commands exactly when no command is in its hands.
TypeOK ==
  /\ status \in [Command -> Status]
  /\ rejectCode \in [Command -> RejectCode]
  /\ firstDelivered \in [Command -> BOOLEAN]
  /\ terminalAck \in [Command -> BOOLEAN]
  /\ lease \in [Command -> Nat]
  /\ leaseOwner \in [Command -> Session \cup {NoSession}]
  /\ ttl \in [Command -> Nat]
  /\ nextAttempt \in [Command -> Nat]
  /\ deliverBy \in [Command -> Nat]
  /\ activeSession \in Session \cup {NoSession}
  /\ pollFresh \in Nat
  /\ disabled \in BOOLEAN
  /\ admitted \in SUBSET Command
  /\ batches \in SUBSET Batch
  /\ session \in [Terminal -> Session \cup {NoSession}]
  /\ inbox \in [Terminal -> SUBSET Command]
  /\ pcAt \in [Terminal -> {"idle", "send", "placed", "refused"}]
  /\ pcCmd \in [Terminal -> Command \cup {NoCommand}]
  /\ journal \in [Terminal -> [Command -> JournalState]]
  /\ events \in [Terminal -> [Command -> Outcome]]
  /\ sent \in [Terminal -> [Command -> Nat]]
  /\ faults \in Nat /\ disconnects \in Nat
  /\ \A t \in Terminal : pcAt[t] # "idle" => pcCmd[t] \in Command

\* One terminal puts a command at the broker at most once, whatever is lost,
\* redelivered or replayed and whenever its EA crashes: the journal is written
\* before OrderSend and consulted before anything is sent.
AtMostOncePerTerminal ==
  \A t \in Terminal, c \in Command : sent[t][c] <= 1

\* No command is put at the broker twice, by whichever terminals of the account
\* (docs: an unknown outcome is never blindly resubmitted).
AtMostOnce == \A c \in Command, t, u \in Terminal :
                 sent[t][c] > 0 /\ sent[u][c] > 0 => t = u /\ sent[t][c] = 1

\* A row says accepted only if the order reached the broker, through lost
\* answers, replayed outcomes and reconciliation after a crash.
AcceptedIsExecuted ==
  \A c \in Command : status[c] = "accepted" => Executed(c)

\* first_delivered_at IS NULL is "authoritative evidence that MT5 never received"
\* the command: it is not at the broker, in no terminal's hands, and no EA has
\* an outcome for it, however its row was closed in the meantime.
UndeliveredNeverExecuted ==
  \A c \in Command : ~firstDelivered[c] =>
    /\ ~Executed(c)
    /\ \A t \in Terminal : /\ c \notin inbox[t] /\ c # pcCmd[t]
                           /\ journal[t][c] = "none" /\ events[t][c] = "none"

\* A rejection reported by the EA ("order was not sent", "failed before broker
\* acceptance") closes the row as failed without a code: the order is not at the
\* broker and no EA is going to send it.
RejectedNotExecuted ==
  \A c \in Command : status[c] = "failed" /\ rejectCode[c] = NoCode =>
    ~Executed(c) /\ \A t \in Terminal : ~(pcAt[t] = "send" /\ pcCmd[t] = c)

\* A row stopped by a disconnect says "account was disconnected before
\* execution".
DisconnectedNotExecuted ==
  \A c \in Command : rejectCode[c] \in DisconnectCode => ~Executed(c)

\* terminal_ack_at ends the story of a row: late batches, sweeps, polls and
\* disconnects never reopen it or turn its outcome into another.
OutcomeIsFinal ==
  [][\A c \in Command : terminalAck[c] =>
       terminalAck'[c] /\ status'[c] = status[c]]_vars

\* Once the gateway has declared the outcome of a delivered command unknown, or
\* has closed the row (a disconnect, the deadline, an outcome), it never hands
\* the command to a terminal again: a reconnect does not replay the queue.  Only
\* an acknowledgement or a disconnect ends the unknown outcome.
NeverRedelivered ==
  [][\A c \in Command, t \in Terminal :
       /\ rejectCode[c] = "DELIVERY_OUTCOME_UNKNOWN"
            => rejectCode'[c] = rejectCode[c] \/ terminalAck'[c]
       /\ (rejectCode[c] = "DELIVERY_OUTCOME_UNKNOWN" \/ terminalAck[c])
            /\ c \in inbox'[t] => c \in inbox[t]]_vars

\* The account never holds more than MAX_COMMANDS_PER_ACCOUNT open commands,
\* whatever is deferred, activated, expired or left ambiguous.
PendingBounded ==
  Cardinality({c \in Command : status[c] # "none" /\ ~terminalAck[c]})
    <= MaxPending

Ambiguous(c) == rejectCode[c] = "DELIVERY_OUTCOME_UNKNOWN"

\* Every command the gateway accepted is eventually settled, or flagged for
\* manual reconciliation.
EventuallySettled ==
  \A c \in Command : status[c] # "none" ~> terminalAck[c] \/ Ambiguous(c)

\* An order at the broker is eventually reported accepted, or flagged.
ExecutionReported ==
  \A c \in Command : Executed(c) ~> status[c] = "accepted" \/ Ambiguous(c)

\* Buffered outcomes get through: the event lane never stays blocked.
EventsDrain == \A t \in Terminal : events[t] # NoEvents ~> events[t] = NoEvents

-----------------------------------------------------------------------------
(* Refinement of CommandOutcome.                                           *)

verdict == [c \in Command |->
  IF status[c] = "none" THEN "none"
  ELSE IF terminalAck[c]
    THEN IF status[c] = "accepted" THEN "filled" ELSE "void"
  ELSE IF Ambiguous(c) THEN "ambiguous" ELSE "open"]

Promise == INSTANCE CommandOutcome
             WITH verdict <- verdict, placed <- {c \in Command : Executed(c)}

\* The gateway, the wire and the EA of one terminal together keep the promise
\* of CommandOutcome, as long as the user does not disconnect the account and
\* the journal file can be written.
KeepsPromise == Promise!Spec
=============================================================================
