------------------------ MODULE ContinuousCopierProofs ------------------------
(***************************************************************************)
(* The copier's queue, for any number of source orders and positions, work  *)
(* items, drains, attempts, faults and user actions: commands leave in queue *)
(* order, superseded work is never issued, finished work stays finished.     *)
(***************************************************************************)
EXTENDS ContinuousCopier, SequenceTheorems, TLAPS

-----------------------------------------------------------------------------
(* The inductive invariant.                                                *)

\* The columns of the queue, the outbox and the command ledger have their types; a
\* drain's record has its fields, whatever link and ticket it read.
QueueTypes ==
  /\ staged \in 0 .. MaxWork
  /\ status \in [Item -> WorkStatus]
  /\ attempts \in [Item -> Nat]
  /\ outbox \in [Item -> OutboxStatus]
  /\ bound \in [Item -> BOOLEAN]
  /\ cmd \in [Item -> CommandStatus]

DrainTypes ==
  /\ DOMAIN worker = Worker
  /\ \A w \in Worker :
       worker[w] \in [pc : Step, item : 0 .. MaxWork, attempt : Nat,
                      link : {worker[w].link}, ticket : {worker[w].ticket}]

\* Nothing before an item that was ever claimed can run again: it is finished and
\* its command, if it had one, is settled.
ClaimedInOrder ==
  \A i \in Item : attempts[i] > 0 =>
    /\ i <= staged
    /\ \A h \in 1 .. i - 1 : status[h] \notin OpenStatus
                               /\ outbox[h] \notin InFlight

\* A drain works on an item it claimed, enqueues what it persisted and publishes
\* what it enqueued.
DrainInv ==
  \A w \in Worker : worker[w].pc # "idle" =>
    LET i == worker[w].item IN
    /\ i \in Item /\ attempts[i] > 0
    /\ worker[w].pc \in {"enqueue", "publish"} => outbox[i] # "none"
    /\ worker[w].pc = "publish" => cmd[i] # "none"

\* A command belongs to a claimed item with an outbox row; while a published one
\* has no outcome, its outbox row says so.
CommandInv ==
  \A i \in Item :
    /\ cmd[i] # "none" => attempts[i] > 0 /\ outbox[i] # "none"
    /\ bound[i] => cmd[i] # "none" /\ (cmd[i] = "queued" => outbox[i] = "published")

\* An item that was not staged yet has no row.
UnstagedInv == \A i \in Item : i > staged => status[i] = "none"

QueueInv == QueueTypes /\ DrainTypes /\ ClaimedInOrder /\ DrainInv
            /\ CommandInv /\ UnstagedInv

\* What one step may do to an item: finished work does not move, a command is
\* issued for leased work only, and supersession spares what was issued.
Course ==
  \A i \in Item :
    /\ status'[i] # status[i] => status[i] \in OpenStatus \cup {"none"}
    /\ cmd[i] = "none" /\ cmd'[i] # "none" => status[i] = "leased"
    /\ status[i] # "superseded" /\ status'[i] = "superseded" /\ enabled'
         => cmd[i] = "none"

-----------------------------------------------------------------------------
(* Lemmas.                                                                 *)

\* An arrangement of new items is a sequence.
LEMMA ArrangementLen ==
  ASSUME NEW S, NEW f \in Arrangements(S) PROVE Len(f) \in Nat
<1>1. PICK n \in 0 .. MaxWork : f \in [1 .. n -> S]
  BY DEF Arrangements
<1>2. f \in Seq(S)
  BY <1>1, CopierAssumption, SeqDef
<1> QED
  BY <1>2, LenProperties

\* The queue holds at the start: there are no items, and every drain is idle.
LEMMA QueueInit == Init => QueueInv
  BY CopierAssumption
  DEF Init, QueueInv, QueueTypes, DrainTypes, ClaimedInOrder, DrainInv, CommandInv, UnstagedInv,
      Item, Idle,
      Step, WorkStatus, OpenStatus, OutboxStatus, InFlight, CommandStatus

\* A step that moves one drain on, and no further than the invariant lets it be
\* without an outbox row or a command.
LEMMA DrainMoves ==
  ASSUME QueueInv, NEW w \in Worker,
         UNCHANGED <<staged, status, attempts, outbox, bound, cmd>>,
         DrainTypes',
         \A v \in Worker \ {w} : worker'[v] = worker[v],
         \/ worker'[w].pc = "idle"
         \/ /\ worker[w].pc # "idle" /\ worker'[w].item = worker[w].item
            /\ worker'[w].pc \notin {"enqueue", "publish"}
  PROVE  QueueInv'
<1>1. QueueTypes' /\ DrainTypes'
  BY DEF QueueInv, QueueTypes, DrainTypes
<1>2. ClaimedInOrder' /\ CommandInv' /\ UnstagedInv'
  BY DEF QueueInv, ClaimedInOrder, CommandInv, UnstagedInv
<1>3. DrainInv'
  BY DEF QueueInv, DrainInv
<1> QED
  BY <1>1, <1>2, <1>3 DEF QueueInv

\* Goto and Return leave every other drain alone.
LEMMA GotoMoves ==
  ASSUME DrainTypes, NEW w \in Worker, NEW pc \in Step, Goto(w, pc)
  PROVE  /\ DrainTypes'
         /\ \A v \in Worker \ {w} : worker'[v] = worker[v]
         /\ worker'[w].pc = pc /\ worker'[w].item = worker[w].item
<1>1. /\ DOMAIN worker' = Worker
      /\ \A v \in Worker \ {w} : worker'[v] = worker[v]
      /\ worker'[w].pc = pc /\ worker'[w].item = worker[w].item
      /\ worker'[w] \in [pc : Step, item : 0 .. MaxWork, attempt : Nat,
                         link : {worker'[w].link}, ticket : {worker'[w].ticket}]
  BY DEF DrainTypes, Goto
<1> QED
  BY <1>1 DEF DrainTypes

LEMMA ReturnMoves ==
  ASSUME DrainTypes, NEW w \in Worker, Return(w)
  PROVE  /\ DrainTypes'
         /\ \A v \in Worker \ {w} : worker'[v] = worker[v]
         /\ worker'[w].pc = "idle"
<1>1. /\ DOMAIN worker' = Worker
      /\ \A v \in Worker \ {w} : worker'[v] = worker[v]
      /\ worker'[w] = Idle
      /\ worker'[w].pc = "idle"
      /\ worker'[w] \in [pc : Step, item : 0 .. MaxWork, attempt : Nat,
                         link : {worker'[w].link}, ticket : {worker'[w].ticket}]
  BY CopierAssumption DEF DrainTypes, Return, Idle, Step
<1> QED
  BY <1>1 DEF DrainTypes

-----------------------------------------------------------------------------
(* One lemma per action that changes what the invariant speaks of.         *)

\* The claim takes the oldest unfinished item, so its predecessors are finished.
LEMMA ClaimStep ==
  ASSUME QueueInv, NEW w \in Worker, NEW i \in Item, Claim(w, i)
  PROVE  QueueInv' /\ Course
<1> USE CopierAssumption DEF QueueInv, Item
<1>1. /\ status' = [status EXCEPT ![i] = "leased"]
      /\ attempts' = [attempts EXCEPT ![i] = @ + 1]
      /\ worker' = [worker EXCEPT ![w] = [pc |-> "plan", item |-> i, link |-> 0,
                                        ticket |-> 0, attempt |-> attempts[i] + 1]]
      /\ UNCHANGED <<staged, outbox, bound, cmd>>
      /\ i <= staged /\ status[i] \in OpenStatus
      /\ \A h \in 1 .. i - 1 : status[h] \notin OpenStatus /\ outbox[h] \notin InFlight
  BY DEF Claim, Blocked, outboxVars
<1>2. QueueTypes'
  BY <1>1 DEF QueueTypes, WorkStatus, OpenStatus
<1>7. DrainTypes'
 <2>1. attempts[i] + 1 \in Nat /\ i \in 0 .. MaxWork /\ "plan" \in Step
   BY DEF QueueTypes, Step
 <2>2. /\ DOMAIN worker' = Worker
       /\ \A v \in Worker \ {w} : worker'[v] = worker[v]
       /\ worker'[w] = [pc |-> "plan", item |-> i, link |-> 0, ticket |-> 0,
                        attempt |-> attempts[i] + 1]
   BY <1>1 DEF DrainTypes
 <2>3. worker'[w] \in [pc : Step, item : 0 .. MaxWork, attempt : Nat,
                       link : {worker'[w].link}, ticket : {worker'[w].ticket}]
   BY <2>1, <2>2
 <2> QED
   BY <2>2, <2>3 DEF DrainTypes
<1>3. ClaimedInOrder'
  BY <1>1 DEF QueueTypes, ClaimedInOrder
<1>4. DrainInv'
  BY <1>1 DEF QueueTypes, DrainTypes, DrainInv, Idle
<1>5. CommandInv' /\ UnstagedInv'
  BY <1>1 DEF QueueTypes, CommandInv, UnstagedInv, OpenStatus
<1>6. Course
  BY <1>1 DEF QueueTypes, Course, OpenStatus
<1> QED
  BY <1>2, <1>3, <1>4, <1>5, <1>6, <1>7

LEMMA PersistStep ==
  ASSUME QueueInv, NEW w \in Worker, Persist(w)
  PROVE  QueueInv' /\ Course
<1> DEFINE i == worker[w].item
<1> USE CopierAssumption DEF QueueInv, Item
<1>1. /\ worker[w].pc = "persist" /\ i \in Item /\ attempts[i] > 0
      /\ UNCHANGED <<staged, status, attempts, bound, cmd>>
  BY DEF Persist, At, queueVars, DrainInv
<1>2. CASE /\ status[i] = "leased" /\ Goto(w, "enqueue")
           /\ outbox' = [outbox EXCEPT ![i] = IF @ = "none" THEN "pending" ELSE @]
 <2>1. QueueTypes' /\ DrainTypes'
   BY <1>1, <1>2, GotoMoves DEF QueueTypes, Step, OutboxStatus, InFlight
 <2>2. ClaimedInOrder'
   BY <1>1, <1>2 DEF QueueTypes, ClaimedInOrder, OpenStatus
 <2>3. DrainInv'
   BY <1>1, <1>2, GotoMoves DEF QueueTypes, DrainInv, Step
 <2>4. CommandInv' /\ UnstagedInv'
   BY <1>1, <1>2 DEF QueueTypes, CommandInv, UnstagedInv
 <2>5. Course
   BY <1>1 DEF Course
 <2> QED
   BY <2>1, <2>2, <2>3, <2>4, <2>5
<1>3. CASE UNCHANGED outbox /\ \E pc \in {"retry", "dead"} : Goto(w, pc)
 <2>1. QueueInv'
   BY <1>1, <1>3, GotoMoves, DrainMoves DEF Step
 <2>2. Course
   BY <1>1 DEF Course
 <2> QED
   BY <2>1, <2>2
<1> QED
  BY <1>2, <1>3 DEF Persist

LEMMA EnqueueStep ==
  ASSUME QueueInv, NEW w \in Worker, Enqueue(w)
  PROVE  QueueInv' /\ Course
<1> DEFINE i == worker[w].item
<1> USE CopierAssumption DEF QueueInv, Item
<1>1. /\ worker[w].pc = "enqueue" /\ i \in Item /\ attempts[i] > 0 /\ outbox[i] # "none"
      /\ UNCHANGED <<staged, status, attempts, outbox, bound>>
  BY DEF Enqueue, At, queueVars, outboxVars, DrainInv
<1>2. CASE /\ status[i] = "leased" /\ Goto(w, "publish")
           /\ cmd' = [cmd EXCEPT ![i] = IF @ = "none" THEN "queued" ELSE @]
 <2>1. QueueTypes' /\ DrainTypes'
   BY <1>1, <1>2, GotoMoves DEF QueueTypes, Step, CommandStatus
 <2>2. ClaimedInOrder' /\ UnstagedInv'
   BY <1>1 DEF ClaimedInOrder, UnstagedInv
 <2>3. DrainInv'
   BY <1>1, <1>2, GotoMoves DEF QueueTypes, DrainInv, Step
 <2>4. CommandInv'
   BY <1>1, <1>2 DEF QueueTypes, CommandInv
 <2>5. Course
   BY <1>1, <1>2 DEF QueueTypes, Course
 <2> QED
   BY <2>1, <2>2, <2>3, <2>4, <2>5
<1>3. CASE UNCHANGED cmd /\ \E pc \in {"retry", "dead"} : Goto(w, pc)
 <2>1. QueueInv'
   BY <1>1, <1>3, GotoMoves, DrainMoves DEF Step
 <2>2. Course
   BY <1>1, <1>3 DEF Course
 <2> QED
   BY <2>1, <2>2
<1> QED
  BY <1>2, <1>3 DEF Enqueue, Current

LEMMA PublishStep ==
  ASSUME QueueInv, NEW w \in Worker, Publish(w)
  PROVE  QueueInv' /\ Course
<1> DEFINE i == worker[w].item
<1> USE CopierAssumption DEF QueueInv, Item
<1>1. /\ worker[w].pc = "publish" /\ i \in Item /\ attempts[i] > 0
      /\ outbox[i] # "none" /\ cmd[i] # "none"
      /\ UNCHANGED <<staged, attempts, cmd>>
  BY DEF Publish, At, DrainInv
<1>2. CASE UNCHANGED <<outbox, bound, status>> /\ Goto(w, "retry")
 <2>1. QueueInv'
   BY <1>1, <1>2, GotoMoves, DrainMoves DEF Step
 <2>2. Course
   BY <1>1, <1>2 DEF Course
 <2> QED
   BY <2>1, <2>2
<1>3. CASE /\ Return(w)
           /\ outbox' = [outbox EXCEPT ![i] = IF @ \in InFlight
                                                THEN "published" ELSE @]
           /\ bound' = [bound EXCEPT ![i] = @ \/ outbox[i] \in InFlight]
           /\ status' = [status EXCEPT ![i] = IF @ = "leased" THEN "succeeded"
                                                              ELSE @]
 <2>1. QueueTypes'
   BY <1>1, <1>3 DEF QueueTypes, OutboxStatus, InFlight, WorkStatus, OpenStatus
 <2>2. ClaimedInOrder' /\ UnstagedInv'
   BY <1>1, <1>3 DEF QueueTypes, ClaimedInOrder, UnstagedInv, OpenStatus, InFlight
 <2>3. DrainTypes' /\ DrainInv'
   BY <1>1, <1>3, ReturnMoves DEF QueueTypes, DrainInv
 <2>4. CommandInv'
   BY <1>1, <1>3 DEF QueueTypes, CommandInv, InFlight
 <2>5. Course
   BY <1>1, <1>3 DEF QueueTypes, Course, OpenStatus
 <2> QED
   BY <2>1, <2>2, <2>3, <2>4, <2>5
<1> QED
  BY <1>2, <1>3 DEF Publish

\* Completing, superseding and failing: the drain ends and only its item, still
\* open, and the item's outbox row, if it has one, may change.
LEMMA FinishStep ==
  ASSUME QueueInv, NEW w \in Worker, worker[w].pc # "idle", Return(w),
         NEW s \in WorkStatus, NEW o \in OutboxStatus,
         UNCHANGED <<staged, attempts, bound, cmd>>,
         status' = [status EXCEPT ![worker[w].item] = s],
         outbox' = [outbox EXCEPT ![worker[w].item] = o],
         \/ s = status[worker[w].item]
         \/ /\ status[worker[w].item] \in OpenStatus
            /\ s # "superseded" \/ ~Issued(worker[w].item),
         \/ o = outbox[worker[w].item]
         \/ /\ outbox[worker[w].item] \notin {"none", "published"} /\ o # "none"
            /\ o \notin InFlight \/ status[worker[w].item] \in OpenStatus
  PROVE  QueueInv' /\ Course
<1> DEFINE i == worker[w].item
<1> USE CopierAssumption DEF QueueInv, Item
<1>1. i \in Item /\ attempts[i] > 0
  BY DEF DrainInv
<1>2. QueueTypes'
  BY <1>1 DEF QueueTypes
<1>3. ClaimedInOrder' /\ UnstagedInv'
 <2>1. \A j \in Item : \A h \in 1 .. j - 1 :
         attempts[j] > 0 => status'[h] \notin OpenStatus /\ outbox'[h] \notin InFlight
  <3> SUFFICES ASSUME NEW j \in Item, NEW h \in 1 .. j - 1, attempts[j] > 0
               PROVE  status'[h] \notin OpenStatus /\ outbox'[h] \notin InFlight
    OBVIOUS
  <3>1. h \in Item /\ status[h] \notin OpenStatus /\ outbox[h] \notin InFlight
    BY DEF ClaimedInOrder
  <3>2. CASE h = i
    BY <1>1, <3>1, <3>2 DEF QueueTypes
  <3>3. CASE h # i
    BY <1>1, <3>1, <3>3 DEF QueueTypes
  <3> QED
    BY <3>2, <3>3
 <2>2. ClaimedInOrder'
   BY <2>1 DEF ClaimedInOrder
 <2>3. UnstagedInv'
   BY <1>1 DEF QueueTypes, UnstagedInv, OpenStatus
 <2> QED
   BY <2>2, <2>3
<1>4. DrainTypes' /\ DrainInv'
 <2>1. /\ DrainTypes' /\ worker'[w].pc = "idle"
       /\ \A v \in Worker \ {w} : worker'[v] = worker[v]
   BY ReturnMoves
 <2>2. \A h \in Item : outbox[h] # "none" => outbox'[h] # "none"
   BY <1>1 DEF QueueTypes
 <2> QED
   BY <2>1, <2>2 DEF DrainInv
<1>5. CommandInv'
  BY <1>1 DEF QueueTypes, CommandInv
<1>6. Course
  BY <1>1 DEF QueueTypes, Course, CommandInv, Issued
<1> QED
  BY <1>2, <1>3, <1>4, <1>5, <1>6

LEMMA CompleteStep ==
  ASSUME QueueInv, NEW w \in Worker, Complete(w)
  PROVE  QueueInv' /\ Course
<1> DEFINE i == worker[w].item
<1>1. /\ worker[w].pc # "idle" /\ Return(w)
      /\ UNCHANGED <<staged, attempts, bound, cmd>>
      /\ status' = [status EXCEPT ![i] = IF status[i] \in OpenStatus
                                           THEN "succeeded" ELSE status[i]]
      /\ outbox' = outbox
  BY DEF Complete, At, outboxVars
<1>2. /\ i \in Item /\ status[i] \in WorkStatus /\ outbox[i] \in OutboxStatus
      /\ outbox = [outbox EXCEPT ![i] = outbox[i]]
  BY <1>1 DEF QueueInv, QueueTypes, DrainInv
<1>3. (IF status[i] \in OpenStatus THEN "succeeded" ELSE status[i]) \in WorkStatus
  BY <1>2 DEF WorkStatus
<1> QED
  BY <1>1, <1>2, <1>3, FinishStep

LEMMA SupersedeStep ==
  ASSUME QueueInv, NEW w \in Worker, Supersede(w)
  PROVE  QueueInv' /\ Course
<1> DEFINE i == worker[w].item
           s == IF status[i] \in OpenStatus THEN "superseded" ELSE status[i]
           o == IF outbox[i] \in {"pending", "retry"} THEN "dead_letter"
                                                      ELSE outbox[i]
<1>1. /\ worker[w].pc = "supersede" /\ i \in Item
      /\ status[i] \in WorkStatus /\ outbox[i] \in OutboxStatus
      /\ UNCHANGED <<staged, attempts, bound, cmd>>
  BY DEF Supersede, At, QueueInv, QueueTypes, DrainInv
<1>2. CASE Goto(w, "retry") /\ UNCHANGED <<status, outbox>>
 <2>1. QueueInv'
   BY <1>1, <1>2, GotoMoves, DrainMoves DEF QueueInv, Step
 <2>2. Course
   BY <1>1, <1>2 DEF Course
 <2> QED
   BY <2>1, <2>2
<1>3. CASE /\ ~Issued(i) /\ Return(w)
           /\ status' = [status EXCEPT ![i] = s]
           /\ outbox' = [outbox EXCEPT ![i] = o]
 <2>1. s \in WorkStatus /\ o \in OutboxStatus
   BY <1>1 DEF WorkStatus, OutboxStatus
 <2>2. /\ s = status[i] \/ (status[i] \in OpenStatus /\ ~Issued(i))
       /\ \/ o = outbox[i]
          \/ /\ outbox[i] \notin {"none", "published"} /\ o # "none"
             /\ o \notin InFlight
   BY <1>3 DEF InFlight
 <2> HIDE DEF s, o
 <2> QED
   BY <1>1, <1>3, <2>1, <2>2, FinishStep
<1> QED
  BY <1>2, <1>3 DEF Supersede

LEMMA FailStep ==
  ASSUME QueueInv, NEW w \in Worker, Fail(w)
  PROVE  QueueInv' /\ Course
<1> DEFINE i == worker[w].item
<1>1. /\ worker[w].pc # "idle" /\ Return(w) /\ i \in Item
      /\ status \in [Item -> WorkStatus] /\ outbox \in [Item -> OutboxStatus]
      /\ UNCHANGED <<staged, attempts, bound, cmd>>
  BY DEF Fail, At, QueueInv, QueueTypes, DrainInv
<1>2. CASE UNCHANGED <<status, outbox>>
  BY <1>1, <1>2, FinishStep
<1>3. ASSUME status[i] \in OpenStatus,
             NEW s \in {"retry", "dead_letter"},
             status' = [status EXCEPT ![i] = s],
             outbox' = [outbox EXCEPT ![i] =
                          IF @ \in {"none", "published", "acknowledged"} THEN @
                          ELSE s]
      PROVE  QueueInv' /\ Course
 <2> DEFINE o == IF outbox[i] \in {"none", "published", "acknowledged"}
                   THEN outbox[i] ELSE s
 <2>1. /\ s \in WorkStatus /\ o \in OutboxStatus /\ s # "superseded"
       /\ o = outbox[i] \/ (outbox[i] \notin {"none", "published"} /\ o # "none")
       /\ outbox' = [outbox EXCEPT ![i] = o]
   BY <1>1, <1>3 DEF WorkStatus, OpenStatus, OutboxStatus, InFlight
 <2> HIDE DEF o
 <2> QED
   BY <1>1, <1>3, <2>1, FinishStep
<1>4. CASE status[i] \in Failable
 <2> DEFINE s == IF At(w, "retry") /\ worker[w].attempt < MaxAttempts
                   THEN "retry" ELSE "dead_letter"
 <2>1. /\ s \in {"retry", "dead_letter"} /\ status' = [status EXCEPT ![i] = s]
       /\ outbox' = [outbox EXCEPT ![i] =
                        IF @ \in {"none", "published", "acknowledged"} THEN @
                        ELSE s]
   BY <1>1, <1>4 DEF Fail
 <2> HIDE DEF s
 <2> QED
   BY <1>3, <1>4, <2>1 DEF Failable
<1> QED
  BY <1>2, <1>4 DEF Fail

\* The drain reads and moves on without writing.
LEMMA PlanStep ==
  ASSUME QueueInv, NEW w \in Worker, Plan(w)
  PROVE  QueueInv' /\ Course
<1> DEFINE to == {"persist", "retry", "dead", "supersede", "complete"}
<1>1. worker[w].pc = "plan" /\ UNCHANGED <<staged, status, attempts, outbox, bound, cmd>>
  BY DEF Plan, At, queueVars, outboxVars
<1>2. Course
  BY <1>1 DEF Course
<1>3. CASE \E pc \in to : Goto(w, pc)
 <2>1. QueueInv'
   BY <1>1, <1>3, GotoMoves, DrainMoves DEF QueueInv, Step
 <2> QED
   BY <1>2, <2>1
<1>4. CASE \E l, t : worker' = [worker EXCEPT ![w].pc = "adopt", ![w].link = l,
                                            ![w].ticket = t]
 <2>1. PICK l, t : worker' = [worker EXCEPT ![w].pc = "adopt", ![w].link = l,
                                           ![w].ticket = t]
   BY <1>4
 <2>2. /\ DOMAIN worker' = Worker
       /\ \A v \in Worker \ {w} : worker'[v] = worker[v]
       /\ worker'[w].pc = "adopt" /\ worker'[w].item = worker[w].item
       /\ worker'[w] \in [pc : Step, item : 0 .. MaxWork, attempt : Nat,
                          link : {worker'[w].link}, ticket : {worker'[w].ticket}]
   BY <2>1 DEF QueueInv, DrainTypes, Step
 <2>3. DrainTypes'
   BY <2>2 DEF QueueInv, DrainTypes
 <2> QED
   BY <1>1, <1>2, <2>2, <2>3, DrainMoves
<1>5. CASE \E t : worker' = [worker EXCEPT ![w].pc = "persist", ![w].ticket = t]
 <2>1. PICK t : worker' = [worker EXCEPT ![w].pc = "persist", ![w].ticket = t]
   BY <1>5
 <2>2. /\ DOMAIN worker' = Worker
       /\ \A v \in Worker \ {w} : worker'[v] = worker[v]
       /\ worker'[w].pc = "persist" /\ worker'[w].item = worker[w].item
       /\ worker'[w] \in [pc : Step, item : 0 .. MaxWork, attempt : Nat,
                          link : {worker'[w].link}, ticket : {worker'[w].ticket}]
   BY <2>1 DEF QueueInv, DrainTypes, Step
 <2>3. DrainTypes'
   BY <2>2 DEF QueueInv, DrainTypes
 <2> QED
   BY <1>1, <1>2, <2>2, <2>3, DrainMoves
<1> QED
  BY <1>3, <1>4, <1>5
  DEF Plan, PlanAdoption, PlanFill, PlanFresh, PlanOrder, PlanLifecycle

-----------------------------------------------------------------------------
(* Staging, reports, reconciliation and the user.                          *)

\* Steps that leave every drain where it is: rows are only added, superseded,
\* settled or archived.
LEMMA RowsStep ==
  ASSUME QueueInv, UNCHANGED <<attempts, bound, worker>>,
         QueueTypes', staged' >= staged,
         \A i \in Item :
           /\ \/ status'[i] = status[i]
              \/ i > staged /\ i <= staged' /\ status'[i] = "pending"
              \/ /\ i <= staged /\ status[i] \in OpenStatus
                 /\ status'[i] = "superseded"
                 /\ ~Issued(i) \/ ~enabled'
           /\ \/ outbox'[i] = outbox[i]
              \/ /\ outbox[i] # "none" /\ outbox'[i] # "none"
                 /\ outbox'[i] \notin InFlight \/ outbox[i] \in InFlight
                 /\ cmd'[i] = "queued" => outbox[i] # "published" \/ ~bound[i]
           /\ cmd[i] = "none" <=> cmd'[i] = "none"
           /\ cmd'[i] = "queued" => cmd[i] = "queued"
  PROVE  QueueInv' /\ Course
<1> USE CopierAssumption DEF QueueInv, Item
<1>1. staged \in Nat /\ staged' \in Nat /\ attempts \in [Item -> Nat]
  BY DEF QueueTypes
<1>2. ClaimedInOrder'
 <2> SUFFICES ASSUME NEW j \in Item, attempts[j] > 0
              PROVE  /\ j <= staged'
                     /\ \A h \in 1 .. j - 1 : status'[h] \notin OpenStatus
                                                /\ outbox'[h] \notin InFlight
   BY DEF ClaimedInOrder
 <2>1. /\ j <= staged
       /\ \A h \in 1 .. j - 1 : /\ h \in Item /\ h <= staged
                                 /\ status[h] \notin OpenStatus
                                 /\ outbox[h] \notin InFlight
   BY <1>1 DEF ClaimedInOrder
 <2> QED
   BY <1>1, <2>1
<1>3. DrainTypes' /\ DrainInv'
  BY DEF DrainTypes, DrainInv
<1>4. CommandInv'
  BY DEF CommandInv
<1>5. UnstagedInv'
  BY <1>1 DEF UnstagedInv
<1>6. Course
  BY <1>1 DEF Course, UnstagedInv, CommandInv, Issued
<1> QED
  BY <1>2, <1>3, <1>4, <1>5, <1>6

\* Staging adds items at the end of the queue and supersedes unissued ones.
LEMMA StageStep ==
  ASSUME QueueInv, NEW c, NEW e, NEW p, Stage(c, e, p), UNCHANGED <<worker, cmd>>
  PROVE  QueueInv' /\ Course
<1> DEFINE gone == Obsolete(c, e)
<1>1. PICK f \in NewItems(c, e, p) :
        LET new == staged + 1 .. staged + Len(f) IN
        /\ staged + Len(f) <= MaxWork
        /\ staged' = staged + Len(f)
        /\ status' = [i \in Item |-> IF i \in gone THEN "superseded"
                                     ELSE IF i \in new THEN "pending"
                                     ELSE status[i]]
        /\ outbox' = [i \in Item |->
                        IF i \in gone /\ outbox[i] \notin {"none", "acknowledged"}
                          THEN "dead_letter" ELSE outbox[i]]
        /\ UNCHANGED <<attempts, bound>>
  BY DEF Stage
<1>2. Len(f) \in Nat
  BY ArrangementLen DEF NewItems
<1>3. \A i \in gone : i <= staged /\ status[i] \in OpenStatus /\ ~Issued(i)
  BY DEF Obsolete, QueueInv, QueueTypes
<1>4. /\ staged \in Nat /\ status \in [Item -> WorkStatus]
      /\ outbox \in [Item -> OutboxStatus]
  BY DEF QueueInv, QueueTypes
<1>5. QueueTypes'
  BY <1>1, <1>2, <1>4, CopierAssumption
  DEF QueueInv, QueueTypes, WorkStatus, OpenStatus, OutboxStatus
<1>6. \A i \in Item :
        /\ \/ status'[i] = status[i]
           \/ i > staged /\ i <= staged' /\ status'[i] = "pending"
           \/ /\ i <= staged /\ status[i] \in OpenStatus
              /\ status'[i] = "superseded" /\ ~Issued(i)
        /\ \/ outbox'[i] = outbox[i]
           \/ /\ outbox[i] # "none" /\ outbox'[i] # "none"
              /\ outbox'[i] \notin InFlight /\ cmd[i] = "none"
  BY <1>1, <1>2, <1>3, <1>4 DEF Item, InFlight, Issued
<1> QED
  BY <1>1, <1>2, <1>4, <1>5, <1>6, RowsStep

LEMMA SourceStep ==
  ASSUME QueueInv, SourceChange
  PROVE  QueueInv' /\ Course
<1>1. PICK c, e, p, after : Snapshot(c, e, p, after)
  BY DEF SourceChange
<1>2. CASE Stage(c, e, p)
  BY <1>1, <1>2, StageStep DEF Snapshot
<1>3. CASE UNCHANGED <<queueVars, outboxVars>>
  BY <1>1, <1>3
  DEF Snapshot, queueVars, outboxVars, QueueInv, QueueTypes, DrainTypes,
      ClaimedInOrder, DrainInv, CommandInv, UnstagedInv, Course
<1> QED
  BY <1>1, <1>2, <1>3 DEF Snapshot

LEMMA ReconcileStep ==
  ASSUME QueueInv, ReconcileWrite
  PROVE  QueueInv' /\ Course
<1> DEFINE S == {Repair(l) : l \in {l \in DOMAIN recon.next :
                                      recon.next[l] = "repair"} \ repaired}
<1>1. PICK f \in Arrangements(S) :
        LET new == staged + 1 .. staged + Len(f) IN
        /\ staged + Len(f) <= MaxWork
        /\ staged' = staged + Len(f)
        /\ status' = [i \in Item |-> IF i \in new THEN "pending" ELSE status[i]]
  BY DEF ReconcileWrite
<1>2. Len(f) \in Nat /\ UNCHANGED <<attempts, outbox, bound, cmd, worker>>
  BY ArrangementLen DEF ReconcileWrite, outboxVars
<1>3. staged \in Nat /\ status \in [Item -> WorkStatus]
  BY DEF QueueInv, QueueTypes
<1>4. QueueTypes'
  BY <1>1, <1>2, <1>3, CopierAssumption DEF QueueInv, QueueTypes, WorkStatus, OpenStatus
<1>5. \A i \in Item : \/ status'[i] = status[i]
                      \/ i > staged /\ i <= staged' /\ status'[i] = "pending"
  BY <1>1, <1>2, <1>3 DEF Item
<1> QED
  BY <1>1, <1>2, <1>3, <1>4, <1>5, RowsStep

LEMMA ArchiveStep ==
  ASSUME QueueInv, Archive
  PROVE  QueueInv' /\ Course
<1> DEFINE open == {i \in 1 .. staged : status[i] \in OpenStatus}
<1>1. /\ status' = [i \in Item |-> IF i \in open THEN "superseded" ELSE status[i]]
      /\ outbox' = [i \in Item |->
                      IF i \in open /\ outbox[i] \in {"pending", "retry"}
                        THEN "dead_letter" ELSE outbox[i]]
      /\ UNCHANGED <<staged, attempts, bound, cmd, worker>> /\ enabled' = FALSE
  BY DEF Archive
<1>2. /\ staged \in Nat /\ status \in [Item -> WorkStatus]
      /\ outbox \in [Item -> OutboxStatus]
  BY DEF QueueInv, QueueTypes
<1>3. QueueTypes'
  BY <1>1, <1>2 DEF QueueInv, QueueTypes, WorkStatus, OutboxStatus
<1>4. \A i \in Item :
        /\ \/ status'[i] = status[i]
           \/ /\ i <= staged /\ status[i] \in OpenStatus
              /\ status'[i] = "superseded"
        /\ \/ outbox'[i] = outbox[i]
           \/ /\ outbox[i] \in {"pending", "retry"}
              /\ outbox'[i] = "dead_letter"
  BY <1>1, <1>2
<1> QED
  BY <1>1, <1>2, <1>3, <1>4, RowsStep DEF InFlight

\* An outcome reaches the outbox row of a bound command only.  "unknown" reopens a
\* row that is in flight already, since a bound row whose command has no outcome
\* is published.
LEMMA ReportStep ==
  ASSUME QueueInv, NEW i \in Item,
         NEW outcome \in {"accepted", "unknown", "failed"},
         NEW state \in CommandStatus \ {"none", "queued"},
         cmd[i] # "none", outcome = "unknown" => cmd[i] = "queued",
         Report(i, outcome, state)
  PROVE  QueueInv' /\ Course
<1>1. /\ cmd' = [cmd EXCEPT ![i] = state] /\ outbox' = OutboxAfter(i, outcome)
      /\ UNCHANGED <<staged, status, attempts, bound, worker>>
  BY DEF Report, queueVars
<1>2. /\ outbox \in [Item -> OutboxStatus] /\ cmd \in [Item -> CommandStatus]
      /\ staged \in Nat
      /\ bound[i] /\ outcome = "unknown" => outbox[i] = "published"
      /\ outbox[i] # "none"
  BY DEF QueueInv, QueueTypes, CommandInv
<1>3. /\ outbox' \in [Item -> OutboxStatus]
      /\ \A h \in Item \ {i} : outbox'[h] = outbox[h]
      /\ \/ outbox'[i] = outbox[i]
         \/ outbox'[i] \in {"acknowledged", "dead_letter"}
         \/ outbox'[i] = "retry" /\ outbox[i] = "published"
  BY <1>1, <1>2 DEF OutboxAfter, OutboxStatus, InFlight
<1>4. QueueTypes'
  BY <1>1, <1>2, <1>3 DEF QueueInv, QueueTypes
<1>5. \A h \in Item :
        /\ \/ outbox'[h] = outbox[h]
           \/ /\ outbox[h] # "none" /\ outbox'[h] # "none"
              /\ outbox'[h] \notin InFlight \/ outbox[h] \in InFlight
              /\ cmd'[h] # "queued"
        /\ cmd[h] = "none" <=> cmd'[h] = "none"
        /\ cmd'[h] = "queued" => cmd[h] = "queued"
  BY <1>1, <1>2, <1>3 DEF InFlight
<1> QED
  BY <1>1, <1>2, <1>4, <1>5, RowsStep

\* Steps that touch neither the queue, nor the outbox, nor the ledger, nor a drain.
LEMMA OutsideStep ==
  ASSUME QueueInv, UNCHANGED <<staged, status, attempts, outbox, bound, cmd, worker>>
  PROVE  QueueInv' /\ Course
  BY DEF QueueInv, QueueTypes, DrainTypes, ClaimedInOrder, DrainInv, CommandInv,
         UnstagedInv, Course

LEMMA TargetStep ==
  ASSUME QueueInv, NEW i \in Item,
         \/ Acknowledge(i) \/ AcknowledgeUnknown(i) \/ Resolve(i) \/ ExpireCommand(i)
  PROVE  QueueInv' /\ Course
<1>1. CASE Acknowledge(i)
  BY <1>1, ReportStep DEF Acknowledge, CommandStatus
<1>2. CASE AcknowledgeUnknown(i)
  BY <1>2, ReportStep DEF AcknowledgeUnknown, CommandStatus
<1>3. CASE Resolve(i)
  BY <1>3, ReportStep DEF Resolve, CommandStatus
<1>4. CASE ExpireCommand(i)
 <2>1. /\ cmd[i] = "queued" /\ cmd' = [cmd EXCEPT ![i] = "expired"]
       /\ UNCHANGED <<staged, status, attempts, outbox, bound, worker>>
   BY <1>4 DEF ExpireCommand, queueVars, outboxVars
 <2>2. QueueTypes' /\ staged \in Nat
   BY <2>1 DEF QueueInv, QueueTypes, CommandStatus
 <2>3. \A h \in Item : /\ cmd[h] = "none" <=> cmd'[h] = "none"
                       /\ cmd'[h] = "queued" => cmd[h] = "queued"
   BY <2>1 DEF QueueInv, QueueTypes
 <2> QED
   BY <2>1, <2>2, <2>3, RowsStep
<1> QED
  BY <1>1, <1>2, <1>3, <1>4

\* A drain that reads no answer of the queue: backpressure, adoption, a crash.
LEMMA QuietStep ==
  ASSUME QueueInv, NEW w \in Worker, QueueFull(w) \/ Adopt(w) \/ Crash(w)
  PROVE  QueueInv' /\ Course
<1>1. UNCHANGED <<staged, status, attempts, outbox, bound, cmd>>
  BY DEF QueueFull, Adopt, Crash, queueVars, outboxVars
<1>2. Course
  BY <1>1 DEF Course
<1>3. CASE QueueFull(w)
  BY <1>1, <1>2, <1>3, GotoMoves, DrainMoves DEF QueueInv, QueueFull, At, Step
<1>4. CASE Adopt(w)
  BY <1>1, <1>2, <1>4, GotoMoves, DrainMoves DEF QueueInv, Adopt, At, Step
<1>5. CASE Crash(w)
  BY <1>1, <1>2, <1>5, ReturnMoves, DrainMoves DEF QueueInv, Crash
<1> QED
  BY <1>3, <1>4, <1>5

\* The invariant is inductive, and every step keeps every item on its course.
LEMMA QueueStep ==
  ASSUME QueueInv, [Next]_vars
  PROVE  QueueInv' /\ Course
<1>1. CASE SourceChange
  BY <1>1, SourceStep
<1>2. ASSUME NEW w \in Worker, Work(w) \/ Crash(w) PROVE QueueInv' /\ Course
  BY <1>2, PlanStep, PersistStep, EnqueueStep, PublishStep, CompleteStep,
     SupersedeStep, FailStep, QuietStep DEF Work
<1>3. ASSUME NEW w \in Worker, NEW i \in Item, Claim(w, i) PROVE QueueInv' /\ Course
  BY <1>3, ClaimStep
<1>4. ASSUME NEW i \in Item,
             LeaseExpires(i) \/ TargetFills(i) \/ BrokerCloses(i)
      PROVE  QueueInv' /\ Course
  BY <1>4, OutsideStep DEF LeaseExpires, TargetFills, BrokerCloses, queueVars, outboxVars
<1>5. ASSUME NEW i \in Item,
             \/ Acknowledge(i) \/ AcknowledgeUnknown(i)
             \/ Resolve(i) \/ ExpireCommand(i)
      PROVE  QueueInv' /\ Course
  BY <1>5, TargetStep
<1>6. CASE TargetSnapshot \/ ReconcileRead \/ Pause \/ Resume
  BY <1>6, OutsideStep
  DEF TargetSnapshot, ReconcileRead, Pause, Resume, queueVars, outboxVars
<1>7. CASE ReconcileWrite
  BY <1>7, ReconcileStep
<1>8. CASE Archive
  BY <1>8, ArchiveStep
<1>9. CASE UNCHANGED vars
  BY <1>9, OutsideStep DEF vars, queueVars, outboxVars
<1> QED
  BY <1>1, <1>2, <1>3, <1>4, <1>5, <1>6, <1>7, <1>8, <1>9 DEF Next

LEMMA QueueInvariant == Spec => []QueueInv
<1>1. QueueInv /\ [Next]_vars => QueueInv'
  BY QueueStep
<1> QED
  BY <1>1, QueueInit, PTL DEF Spec

-----------------------------------------------------------------------------
(* The theorems.                                                           *)

\* Commands leave in queue order, whatever leases expired and whichever drain came
\* back late (the claim's NOT EXISTS prior and the gate of enqueue).
THEOREM CommandsInOrder == Spec => []Serialized
<1>1. QueueInv => Serialized
  BY CopierAssumption
  DEF QueueInv, QueueTypes, ClaimedInOrder, CommandInv, Serialized, Item
<1> QED
  BY <1>1, QueueInvariant, PTL

\* Work that a later change of the source superseded is never issued afterwards, and
\* only unissued work is superseded (supersede_unissued_copier_predecessors against
\* a drain that planned the item before).
THEOREM SupersededStaysUnissued == Spec => SupersededNeverIssued
<1>1. QueueInv /\ [Next]_vars =>
        [\A i \in Item :
           /\ status[i] = "superseded" /\ cmd[i] = "none" => cmd'[i] = "none"
           /\ status[i] # "superseded" /\ status'[i] = "superseded" /\ enabled'
                => cmd[i] = "none"]_vars
  BY QueueStep DEF Course
<1> QED
  BY <1>1, QueueInvariant, PTL DEF Spec, SupersededNeverIssued

\* A succeeded, dead or superseded item never changes its status again, though
\* complete, publish and fail do not ask who holds the lease.
THEOREM FinishedIsFinal == Spec => FinishedStaysFinished
<1>1. QueueInv /\ [Next]_vars =>
        [\A i \in Item : status[i] \in WorkStatus \ (OpenStatus \cup {"none"})
                            => status'[i] = status[i]]_vars
  BY QueueStep DEF Course
<1> QED
  BY <1>1, QueueInvariant, PTL DEF Spec, FinishedStaysFinished
=============================================================================
