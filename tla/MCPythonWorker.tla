---------------------------- MODULE MCPythonWorker ----------------------------
(* Four requests, two slots and two places in the queue.                     *)
EXTENDS PythonWorker
=============================================================================
