----------------------------- MODULE PythonWorker -----------------------------
(***************************************************************************)
(* One long-lived python process answering requests over its pipes         *)
(* (services/media-ingest/src/persistent-python-worker.ts): a FIFO queue,  *)
(* a bounded number in flight, timers, and respawning after a crash.       *)
(*                                                                         *)
(* JavaScript runs a handler and the flush() it calls to the end before    *)
(* any other event.  While `flushing` holds, Flush is the only action      *)
(* enabled; each step of it is one turn of the loop in flush().            *)
(*                                                                         *)
(* A process is a number.  An event of a process is stale, and ignored by  *)
(* the worker, unless that process is the child: that is what comparing    *)
(* generations decides.  Every spawn is followed by a dispatch or fails,   *)
(* so there are never more processes than requests.                        *)
(***************************************************************************)
EXTENDS Naturals, Sequences, FiniteSets

CONSTANTS N,                \* requests are 1..N, in the order they are made
          MaxConcurrency, MaxQueueLength

ASSUME WorkerAssumption == /\ N \in Nat \ {0}
                           /\ MaxConcurrency \in Nat \ {0}
                           /\ MaxQueueLength \in Nat \ {0}

VARIABLES queue,            \* this.queue
          inFlight,         \* this.inFlight
          outcome,          \* what the caller's promise became
          child,            \* this.child, 0 for null
          spawned,          \* processes spawned so far
          alive,            \* processes that have not ended
          killed,           \* of those, the ones told to end
          served,           \* of those, the ones that have completed a request
          pipe,             \* what each process was sent and has not answered
          warmed, disposed, flushing,
          killOnTimeout
vars == <<queue, inFlight, outcome, child, spawned, alive, killed, served, pipe,
          warmed, disposed, flushing, killOnTimeout>>
os == <<spawned, alive, served, pipe>>

Requests == 1..N
Processes == 1..N
None == 0

Promise == INSTANCE WorkerPromise WITH Requests <- Requests, outcome <- outcome

Init == /\ queue = <<>> /\ inFlight = {}
        /\ outcome = [r \in Requests |-> "new"]
        /\ child = None /\ spawned = 0
        /\ alive = {} /\ killed = {} /\ served = {}
        /\ pipe = [p \in Processes |-> <<>>]
        /\ warmed = FALSE /\ disposed = FALSE /\ flushing = FALSE
        /\ killOnTimeout \in BOOLEAN

-----------------------------------------------------------------------------
InQueue == {queue[i] : i \in DOMAIN queue}
Settle(S, how) == outcome' = [r \in Requests |-> IF r \in S THEN how ELSE outcome[r]]

\* failInFlight and failAllRequests.
FailInFlight(how) == Settle(inFlight, how) /\ inFlight' = {} /\ UNCHANGED queue
FailAll(how) == Settle(inFlight \cup InQueue, how) /\ inFlight' = {} /\ queue' = <<>>

\* discardChild: the next process pays the model load again.
Discard == /\ child' = None
           /\ killed' = killed \cup ({child} \ {None})
           /\ warmed' = IF child = None THEN warmed ELSE FALSE

\* A process has ended; what it was sent goes with it.
Gone(p) == /\ alive' = alive \ {p}
           /\ killed' = killed \ {p}
           /\ served' = served \ {p}
           /\ pipe' = [pipe EXCEPT ![p] = <<>>]

Now == ~flushing
FlushNext == flushing' = TRUE

-----------------------------------------------------------------------------
request(r) ==
  /\ Now /\ outcome[r] = "new" /\ \A s \in 1..(r - 1) : outcome[s] # "new"
  /\ \/ /\ disposed
        /\ Settle({r}, "disposed") /\ UNCHANGED <<queue, flushing>>
     \/ /\ ~disposed /\ Len(queue) >= MaxQueueLength
        /\ Settle({r}, "queue-overflow") /\ UNCHANGED <<queue, flushing>>
     \/ /\ ~disposed /\ Len(queue) < MaxQueueLength
        /\ Settle({r}, "pending")
        /\ queue' = Append(queue, r)
        /\ FlushNext
  /\ UNCHANGED <<inFlight, child, killed, os, warmed, disposed, killOnTimeout>>

dispose ==
  /\ Now /\ ~disposed
  /\ disposed' = TRUE
  /\ FailAll("disposed") /\ Discard
  /\ UNCHANGED <<os, flushing, killOnTimeout>>

-----------------------------------------------------------------------------
(* One turn of the loop in flush().                                         *)

\* Broken variant: the limit is passed by one.
MayDispatch_over == ~disposed /\ queue # <<>> /\ Cardinality(inFlight) <= MaxConcurrency

MayDispatch == ~disposed /\ queue # <<>> /\ Cardinality(inFlight) < MaxConcurrency

FlushEnds == /\ flushing /\ ~MayDispatch
             /\ flushing' = FALSE
             /\ UNCHANGED <<queue, inFlight, outcome, child, killed, os, warmed,
                            disposed, killOnTimeout>>

SpawnFails == /\ flushing /\ MayDispatch /\ child = None
              /\ FailAll("spawn-failed")
              /\ flushing' = FALSE
              /\ UNCHANGED <<child, killed, os, warmed, disposed, killOnTimeout>>

\* ensureChild.
Spawn(p) == IF child = None
            THEN p = spawned + 1 /\ spawned' = p /\ alive' = alive \cup {p}
            ELSE p = child /\ UNCHANGED <<spawned, alive>>

Dispatch ==
  /\ flushing /\ MayDispatch
  /\ \E p \in Processes : /\ Spawn(p)
                          /\ child' = p
                          /\ pipe' = [pipe EXCEPT ![p] = Append(@, Head(queue))]
  /\ inFlight' = inFlight \cup {Head(queue)}
  /\ queue' = Tail(queue)
  /\ UNCHANGED <<outcome, killed, served, warmed, disposed, flushing, killOnTimeout>>

\* The write throws: the child is given up with everything it was sent, this
\* request included, and the rest of the queue is flushed to a new one.
WriteFails ==
  /\ flushing /\ MayDispatch
  /\ \E p \in Processes : Spawn(p) /\ killed' = killed \cup {p}
  /\ Settle(inFlight \cup {Head(queue)}, "worker-exited")
  /\ inFlight' = {} /\ queue' = Tail(queue)
  /\ child' = None /\ warmed' = FALSE
  /\ UNCHANGED <<served, pipe, disposed, flushing, killOnTimeout>>

Flush == FlushEnds \/ SpawnFails \/ Dispatch \/ WriteFails

-----------------------------------------------------------------------------
(* Events of a process, in the order its serial loop makes them.            *)

\* Broken variant: an answered request keeps its slot and its timer.
Answer_kept(p, ok) ==
  /\ Now /\ p \in alive /\ pipe[p] # <<>>
  /\ pipe' = [pipe EXCEPT ![p] = Tail(@)]
  /\ IF p = child /\ Head(pipe[p]) \in inFlight
     THEN /\ Settle({Head(pipe[p])}, IF ok THEN "ok" ELSE "python-error")
          /\ FlushNext
     ELSE UNCHANGED <<outcome, flushing>>
  /\ UNCHANGED <<queue, inFlight, child, killed, spawned, alive, served, warmed,
                 disposed, killOnTimeout>>

\* A line arrives.  Only an answer from the child to a request in flight
\* settles anything.
Answer(p, ok) ==
  /\ Now /\ p \in alive /\ pipe[p] # <<>>
  /\ pipe' = [pipe EXCEPT ![p] = Tail(@)]
  /\ served' = IF ok THEN served \cup {p} ELSE served
  /\ IF p = child /\ Head(pipe[p]) \in inFlight
     THEN /\ Settle({Head(pipe[p])}, IF ok THEN "ok" ELSE "python-error")
          /\ inFlight' = inFlight \ {Head(pipe[p])}
          /\ warmed' = (warmed \/ ok)
          /\ FlushNext
     ELSE UNCHANGED <<outcome, inFlight, warmed, flushing>>
  /\ UNCHANGED <<queue, child, killed, spawned, alive, disposed, killOnTimeout>>

\* Broken variant: the exit of a process already replaced is taken for the child's.
Exit_stale(p) ==
  /\ Now /\ p \in alive
  /\ Gone(p)
  /\ child' = None /\ FailInFlight("worker-exited") /\ FlushNext
  /\ UNCHANGED <<spawned, warmed, disposed, killOnTimeout>>

\* Broken variant: what is queued behind a crash is left for the next caller.
Exit_unflushed(p) ==
  /\ Now /\ p \in alive
  /\ Gone(p)
  /\ IF p = child THEN child' = None /\ FailInFlight("worker-exited")
                  ELSE UNCHANGED <<child, queue, inFlight, outcome>>
  /\ UNCHANGED <<flushing, spawned, warmed, disposed, killOnTimeout>>

\* handleChildExit.
Exit(p) ==
  /\ Now /\ p \in alive
  /\ Gone(p)
  /\ IF p = child
     THEN child' = None /\ FailInFlight("worker-exited") /\ FlushNext
     ELSE UNCHANGED <<child, queue, inFlight, outcome, flushing>>
  /\ UNCHANGED <<spawned, warmed, disposed, killOnTimeout>>

\* handleChildError: the executable could not be started after all.  (Node also
\* reports a kill that failed; this worker kills only a child it has given up,
\* whose events are stale by then.)
SpawnError(p) ==
  /\ Now /\ p \in alive /\ p \notin served
  /\ Gone(p)
  /\ IF p = child THEN child' = None /\ FailAll("spawn-failed")
                  ELSE UNCHANGED <<child, queue, inFlight, outcome>>
  /\ UNCHANGED <<spawned, warmed, disposed, flushing, killOnTimeout>>

\* handleWorkerFailure, for an error on one of the child's streams.
StreamError ==
  /\ Now /\ child # None
  /\ Discard /\ FailInFlight("worker-exited") /\ FlushNext
  /\ UNCHANGED <<os, disposed, killOnTimeout>>

\* Broken variant: the restart after a timeout forgets the other requests in flight.
Timeout_alone(r) ==
  /\ Now /\ r \in inFlight
  /\ Settle({r}, "timeout")
  /\ inFlight' = inFlight \ {r}
  /\ IF killOnTimeout THEN Discard ELSE UNCHANGED <<child, killed, warmed>>
  /\ FlushNext
  /\ UNCHANGED <<queue, os, disposed, killOnTimeout>>

\* Broken variant: without a restart, the timed out request is dropped unanswered.
Timeout_silent(r) ==
  /\ Now /\ r \in inFlight
  /\ inFlight' = inFlight \ {r}
  /\ FlushNext
  /\ UNCHANGED <<outcome, queue, child, killed, warmed, os, disposed, killOnTimeout>>

\* handleTimeout: by default the wedged process is replaced, which fails the
\* other requests it holds.
Timeout(r) ==
  /\ Now /\ r \in inFlight
  /\ IF killOnTimeout
     THEN /\ outcome' = [s \in Requests |-> IF s = r THEN "timeout"
                                            ELSE IF s \in inFlight THEN "worker-exited"
                                            ELSE outcome[s]]
          /\ inFlight' = {}
          /\ Discard
     ELSE /\ Settle({r}, "timeout")
          /\ inFlight' = inFlight \ {r}
          /\ UNCHANGED <<child, killed, warmed>>
  /\ FlushNext
  /\ UNCHANGED <<queue, os, disposed, killOnTimeout>>

Next == \/ \E r \in Requests : request(r) \/ Timeout(r)
        \/ dispose
        \/ Flush
        \/ \E p \in Processes : \/ \E ok \in BOOLEAN : Answer(p, ok)
                                \/ Exit(p) \/ SpawnError(p)
        \/ StreamError

\* A flush runs to its end, and a timer that is set fires.
Fairness == WF_vars(Flush) /\ \A r \in Requests : WF_vars(Timeout(r))

Spec == Init /\ [][Next]_vars /\ Fairness

-----------------------------------------------------------------------------
TypeOK ==
  /\ queue \in Seq(Requests) /\ Len(queue) <= MaxQueueLength
  /\ inFlight \subseteq Requests /\ Cardinality(inFlight) <= MaxConcurrency
  /\ outcome \in [Requests -> Promise!Outcomes]
  /\ child \in Processes \cup {None} /\ spawned \in 0..N
  /\ alive \subseteq Processes /\ killed \subseteq Processes /\ served \subseteq Processes
  /\ pipe \in [Processes -> Seq(Requests)]
  /\ <<warmed, disposed, flushing, killOnTimeout>> \in BOOLEAN \X BOOLEAN \X BOOLEAN \X BOOLEAN

\* A request in flight is one the present child was sent and can still answer:
\* whenever a process is given up, what it held is settled with it.
FlightIsCarried ==
  /\ inFlight # {} => child \in alive
  /\ \A r \in inFlight : \E i \in DOMAIN pipe[child] : pipe[child][i] = r

\* Nothing waits while a slot is free: between events the queue is empty or
\* every slot is taken.
WorkConserving ==
  ~flushing => queue = <<>> \/ Cardinality(inFlight) = MaxConcurrency

\* Every process but the child has been told to end: a model-holding process is
\* never left behind, however its events race the worker's own decisions.
NoStrayProcess == \A p \in alive : p = child \/ p \in killed

\* The cold-start minimum applies "while the worker has not yet completed a
\* request after a (re)spawn": a worker taken for warm has a child that is.
WarmIsServed == warmed /\ child # None => child \in served

\* Each request is refused or accepted, and settled once.
KeepsPromise == Promise!Spec

\* Every accepted request is settled, whatever the process does.
EveryRequestSettles ==
  \A r \in Requests : outcome[r] = "pending" ~> outcome[r] # "pending"
=============================================================================
