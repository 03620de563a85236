---------------------------- MODULE CommandOutcome ----------------------------
(***************************************************************************)
(* What command delivery promises the user of an account, with no gateway, *)
(* network or EA in sight: a command is requested, it is placed at the     *)
(* broker at most once, and it gets one final verdict that tells the truth *)
(* about that: "filled" only after it was placed, "void" only if it was    *)
(* not and never will be.  Short of a verdict the command may be flagged   *)
(* "ambiguous", for a human to reconcile with MT5.                         *)
(***************************************************************************)
CONSTANT Command

VARIABLES
  verdict,  \* what the gateway tells the user
  placed    \* the commands at the broker

vars == <<verdict, placed>>

Open(c) == verdict[c] \in {"open", "ambiguous"}

Init == verdict = [c \in Command |-> "none"] /\ placed = {}

Keep(c) == verdict'[c] = verdict[c] /\ (c \in placed' <=> c \in placed)

Request(c) == verdict[c] = "none" /\ verdict'[c] = "open" /\ c \notin placed'

Place(c) == Open(c) /\ c \notin placed /\ c \in placed'
              /\ verdict'[c] = verdict[c]

Flag(c) == verdict[c] = "open" /\ verdict'[c] = "ambiguous"
             /\ (c \in placed' <=> c \in placed)

Fill(c) == Open(c) /\ c \in placed /\ c \in placed' /\ verdict'[c] = "filled"

Void(c) == Open(c) /\ c \notin placed /\ c \notin placed'
             /\ verdict'[c] = "void"

\* One poll or one event batch may move several commands at once, each of them
\* along its own course.
Next == \A c \in Command : \/ Keep(c) \/ Request(c) \/ Place(c) \/ Flag(c)
                           \/ Fill(c) \/ Void(c)

Spec == Init /\ [][Next]_vars

\* Every request gets a verdict or is flagged for reconciliation.
Settles == \A c \in Command : verdict[c] = "open" ~> verdict[c] # "open"
=============================================================================
