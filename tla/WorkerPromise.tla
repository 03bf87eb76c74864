---------------------------- MODULE WorkerPromise ----------------------------
(***************************************************************************)
(* What PythonWorkerLike promises its caller: a request is refused at once *)
(* or accepted, and an accepted one is settled once and for all.           *)
(***************************************************************************)
CONSTANT Requests

VARIABLE outcome      \* "new", "pending", or how the request was settled

Refusals == {"queue-overflow", "disposed"}
Settled == {"ok", "python-error", "timeout", "worker-exited", "spawn-failed", "disposed"}
Outcomes == {"new", "pending"} \cup Refusals \cup Settled

Moves == ({"new"} \X ({"pending"} \cup Refusals)) \cup ({"pending"} \X Settled)

Init == outcome = [r \in Requests |-> "new"]

\* A dying process settles every request it was given in one step.
Next == /\ outcome' \in [Requests -> Outcomes]
        /\ \A r \in Requests : \/ outcome'[r] = outcome[r]
                               \/ <<outcome[r], outcome'[r]>> \in Moves

Spec == Init /\ [][Next]_outcome
=============================================================================
