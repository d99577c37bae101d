---------------------------- MODULE MCEpollEngine ----------------------------
(* Model-checking instance of EpollEngine.  Word stands for 2^32: in the   *)
(* runs that pass it is larger than any to_write the bounds can reach, so  *)
(* the 32-bit cast in doWrite never truncates; a run that shows the cast   *)
(* at work gives Word a value the bounds can exceed.                       *)
EXTENDS EpollEngine

WordAboveBounds == 2^30

\* Connections are interchangeable: the engine never orders them.
ConnSymmetry == Permutations(Conns)
=============================================================================
