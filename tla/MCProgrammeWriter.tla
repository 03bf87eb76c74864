-------------------------- MODULE MCProgrammeWriter --------------------------
(* Two processes over one volume, each writing up to two events in a life.  *)
EXTENDS ProgrammeWriter

CONSTANTS p1, p2
=============================================================================
