---------------------------- MODULE MCRingEngine ----------------------------
(* Model-checking instance of RingEngine: the connections are model values *)
(* and every configuration flag is set in the run's .cfg file.             *)
EXTENDS RingEngine

\* The peers behave alike and nothing in the engine picks one by name, so
\* runs that check only invariants may identify states that differ by a
\* renaming of the connections.
ConnSymmetry == Permutations(Conns)
=============================================================================
