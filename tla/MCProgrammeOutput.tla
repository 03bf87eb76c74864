-------------------------- MODULE MCProgrammeOutput --------------------------
(* A host and the one that replaces it, with two sentences between them.    *)
EXTENDS ProgrammeOutput

TwoHosts == 1..2
OneHost == {1}
=============================================================================
