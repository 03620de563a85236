------------------------- MODULE MCContinuousCopier -------------------------
(* TLC instances of ContinuousCopier.                                      *)
EXTENDS ContinuousCopier, TLC

\* Broker ids and drains are compared for equality only.
Symmetry == Permutations(Order) \cup Permutations(Position)
              \cup Permutations(Worker)

\* A reachable state to start from when the question is about a copy that exists:
\* the source's order o was copied and filled on both sides, item 1 (its placement)
\* ended as a dead letter after its command was accepted, and item 2 adopted the
\* target's position 1 as the copy of p.
Adopted(o, p) ==
  /\ source = {p} /\ spent = {o, p}
  /\ staged = 2
  /\ item = [i \in Item |->
       CASE i = 1 -> [op |-> "place_pending", change |-> "created", entity |-> o,
                      position |-> NoEntity, leg |-> 0]
         [] i = 2 -> [op |-> "open_market", change |-> "filled", entity |-> o,
                      position |-> p, leg |-> 0]
         [] OTHER -> NoItem]
  /\ status = [i \in Item |-> CASE i = 1 -> "dead_letter" [] i = 2 -> "succeeded"
                                [] OTHER -> "none"]
  /\ attempts = [i \in Item |-> CASE i = 1 -> MaxAttempts [] i = 2 -> 1
                                  [] OTHER -> 0]
  /\ lease = [i \in Item |-> "none"]
  /\ outbox = [i \in Item |-> IF i = 1 THEN "dead_letter" ELSE "none"]
  /\ bound = [i \in Item |-> FALSE]
  /\ payload = [i \in Item |-> 0]
  /\ cmd = [i \in Item |-> IF i = 1 THEN "accepted" ELSE "none"]
  /\ broker = [i \in Item |-> IF i = 1 THEN "position" ELSE "none"]
  /\ rows = broker
  /\ links = <<[src |-> p, status |-> "active", kind |-> "position", ticket |-> 1,
                expected |-> "pending_order", work |-> 1, last |-> 0,
                origin |-> o]>>
  /\ worker = [w \in Worker |-> Idle]
  /\ recon = NoRecon
  /\ repaired = {}
  /\ group = "running" /\ enabled = TRUE
  /\ faults = 0 /\ actions = 0

\* A reachable state one fill earlier: the target's copy of o still waits, its link
\* has not been acknowledged, and what can fail has failed.
Placed(o) ==
  /\ source = {o} /\ spent = {o}
  /\ staged = 1
  /\ item = [i \in Item |->
       IF i = 1 THEN [op |-> "place_pending", change |-> "created", entity |-> o,
                      position |-> NoEntity, leg |-> 0] ELSE NoItem]
  /\ status = [i \in Item |-> IF i = 1 THEN "dead_letter" ELSE "none"]
  /\ attempts = [i \in Item |-> IF i = 1 THEN MaxAttempts ELSE 0]
  /\ lease = [i \in Item |-> "none"]
  /\ outbox = [i \in Item |-> IF i = 1 THEN "dead_letter" ELSE "none"]
  /\ bound = [i \in Item |-> FALSE]
  /\ payload = [i \in Item |-> 0]
  /\ cmd = [i \in Item |-> IF i = 1 THEN "accepted" ELSE "none"]
  /\ broker = [i \in Item |-> IF i = 1 THEN "pending_order" ELSE "none"]
  /\ rows = broker
  /\ links = <<[src |-> o, status |-> "pending", kind |-> "NULL", ticket |-> 0,
                expected |-> "pending_order", work |-> 1, last |-> 0,
                origin |-> NoEntity]>>
  /\ worker = [w \in Worker |-> Idle]
  /\ recon = NoRecon
  /\ repaired = {}
  /\ group = "running" /\ enabled = TRUE
  /\ faults = MaxFaults /\ actions = MaxActions

AdoptedInit == \E o \in Order : Placed(o) \/ \E p \in Position : Adopted(o, p)
AdoptedSpec == AdoptedInit /\ [][Next]_vars

\* The start of a group whose source has traded before: every entity but x came and
\* went before the group was enabled, so the source has only x still to trade.
OnlyTrades(x) ==
  /\ source = {} /\ spent = Entity \ {x}
  /\ staged = 0
  /\ item = [i \in Item |-> NoItem]
  /\ status = [i \in Item |-> "none"]
  /\ attempts = [i \in Item |-> 0]
  /\ lease = [i \in Item |-> "none"]
  /\ outbox = [i \in Item |-> "none"]
  /\ bound = [i \in Item |-> FALSE]
  /\ payload = [i \in Item |-> 0]
  /\ cmd = [i \in Item |-> "none"]
  /\ broker = [i \in Item |-> "none"]
  /\ rows = broker
  /\ links = <<>>
  /\ worker = [w \in Worker |-> Idle]
  /\ recon = NoRecon
  /\ repaired = {}
  /\ group = "running" /\ enabled = TRUE
  /\ faults = 0 /\ actions = 0

OneEntityInit == \E x \in Entity : OnlyTrades(x)
OneEntityFairSpec == OneEntityInit /\ [][Next]_vars /\ Fairness
=============================================================================
