-------------------------- MODULE MCCommandDelivery --------------------------
(* TLC instances of CommandDelivery.                                       *)
EXTENDS CommandDelivery, TLC

\* Command, session and terminal ids are compared for equality and nothing
\* else, so permuting them is sound for safety properties.
Symmetry == Permutations(Command) \cup Permutations(Session)
              \cup Permutations(Terminal)
=============================================================================
