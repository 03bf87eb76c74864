--------------------------- MODULE MCReplayDeletion ---------------------------
(* Two archive processes over one faulty bucket: one carries the broadcast  *)
(* and both may open it and die; which of them run the caretaker's passes,  *)
(* and how many generations they may write, is the configuration's.         *)
EXTENDS ReplayDeletion

CONSTANTS p1, p2, i1, s1,
          Together    \* bound: generations written while every process is open

MCInitOf == [s \in Segments |-> i1]

\* Beyond Together generations the processes take turns: one of them is down.
Bounded == Newest <= Together \/ \E p \in Procs : phase[p] = "down"
=============================================================================
