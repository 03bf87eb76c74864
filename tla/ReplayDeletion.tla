---------------------------- MODULE ReplayDeletion ----------------------------
(***************************************************************************)
(* Removing a replay somebody asked to have removed: the operator's        *)
(* request (services/account/src/replay-routes.ts), the durable queue with *)
(* its claim lease (db/programme-replay-deletions-postgres.ts), and the    *)
(* worker that acts on it (packages/programme-replay/src/lifecycle-        *)
(* worker.ts), over the archive of ReplayArchive.  The broadcast's capture *)
(* is the archive's other caller.                                          *)
(*                                                                         *)
(* The queue's back-off times are not modelled: a pending request may be   *)
(* claimed, and a claim's lease may run out, at any moment.                *)
(***************************************************************************)
EXTENDS ReplayArchive

VARIABLES request,    \* the run's row in the deletion queue: "none" when nothing
                      \* is outstanding, never asked or settled as done
          worker      \* each process's deletion pass
queue == <<request, worker>>
allvars == <<vars, queue>>

DeletionInit == /\ Init
                /\ request = "none"
                /\ worker = [p \in Procs |-> "idle"]

\* An operator asks about a broadcast that kept a recording; a run with a request
\* outstanding has just one.
AskDelete == /\ request = "none" /\ docs # <<>>
             /\ request' = "pending"
             /\ UNCHANGED <<vars, worker>>

\* FOR UPDATE SKIP LOCKED and the lease; the answer may be lost.
Claim(p) == /\ phase[p] = "up" /\ worker[p] = "idle"
            /\ request = "pending"
            /\ request' = "claimed"
            /\ worker' \in {worker, [worker EXCEPT ![p] = "claimed"]}
            /\ UNCHANGED vars

LeaseLapses == /\ request = "claimed"
               /\ request' = "pending"
               /\ UNCHANGED <<vars, worker>>

\* queue.settle, which may fail and leave the row as it is.
Settle(p, as) == /\ request' \in {request, as}
                 /\ worker' = [worker EXCEPT ![p] = "idle"]

Wait(p, for) == /\ worker' = [worker EXCEPT ![p] = for]
                /\ UNCHANGED request

\* Broken variant: a broadcast on air is not waited for.
Judge_eager(p) ==
  /\ worker[p] = "claimed"
  /\ IF State(p).status \in {"none", "deleted"} THEN Settle(p, "none")
                                                ELSE Wait(p, "queued")
  /\ UNCHANGED vars

\* deleteOne: what describe answers decides.  A damaged run is described as
\* null, exactly as a run that never was.
Judge(p) ==
  /\ worker[p] = "claimed"
  /\ CASE State(p).status \in {"none", "deleted"} -> Settle(p, "none")
       [] State(p).status = "recording"           -> Settle(p, "pending")
       [] OTHER                                   -> Wait(p, "queued")
  /\ UNCHANGED vars

\* archive.delete, once the run's chain reaches it.
CallDelete(p) ==
  /\ worker[p] = "queued"
  /\ \/ Delete(p) /\ Wait(p, "deleting")
     \/ /\ op[p] = Idle /\ State(p).status = "deleted"
        /\ Settle(p, "none") /\ UNCHANGED vars

Answered(p) ==
  /\ worker[p] = "deleting" /\ op[p] = Idle
  /\ Settle(p, IF State(p).status = "deleted" THEN "none" ELSE "pending")
  /\ UNCHANGED vars

DeletionNext ==
  \/ AskDelete
  \/ LeaseLapses
  \/ \E p \in Procs :
       \/ (Capture(p) \/ Expire(p) \/ Request(p)) /\ UNCHANGED queue
       \/ Lifetime(p) /\ worker' = [worker EXCEPT ![p] = "idle"] /\ UNCHANGED request
       \/ Claim(p) \/ Judge(p) \/ CallDelete(p) \/ Answered(p)

DeletionSpec == DeletionInit /\ [][DeletionNext]_allvars

-----------------------------------------------------------------------------
DeletionTypeOK == /\ TypeOK
                  /\ request \in {"none", "pending", "claimed"}
                  /\ worker \in [Procs -> {"idle", "claimed", "queued", "deleting"}]

\* "A LIVE BROADCAST IS NEVER DESTROYED BY A BACKGROUND REQUEST": nothing but a
\* finished recording is ever recorded as deleted, wherever the worker's read of
\* the archive fell between the broadcast's own writes.
BroadcastNotDestroyed ==
  [][Truth'.status = "deleted" => Truth.status # "recording"]_allvars

\* "The instruction is 'make sure this is gone', and it is": when a request is
\* settled as done, no recording that could be served again remains.
DoneMeansGone ==
  [][request # "none" /\ request' = "none"
       => Truth.status \in {"none", "deleted"}]_allvars
=============================================================================
