-------------------------- MODULE PythonWorkerProofs --------------------------
(***************************************************************************)
(* What PythonWorker promises for every number of requests and every limit: *)
(* a request in flight can still be answered, no process is lost sight of, *)
(* nothing waits while a slot is free, and every request is settled once.  *)
(* The last needs the first and that queue and flight share no request:    *)
(* only then is what a handler settles still pending.                      *)
(***************************************************************************)
EXTENDS PythonWorker, FiniteSetTheorems, SequenceTheorems, TLAPS

LEMMA FlightIsFinite ==
  ASSUME NEW S \in SUBSET Requests
  PROVE  /\ IsFiniteSet(S) /\ Cardinality(S) \in Nat
         /\ \A T \in SUBSET S : Cardinality(T) <= Cardinality(S)
         /\ \A r \in Requests : Cardinality(S \cup {r}) <= Cardinality(S) + 1
<1>1. IsFiniteSet(Requests)
  BY WorkerAssumption, FS_Interval DEF Requests
<1>2. IsFiniteSet(S) /\ Cardinality(S) \in Nat
  BY <1>1, FS_Subset, FS_CardinalityType
<1>3. \A T \in SUBSET S : Cardinality(T) <= Cardinality(S)
  BY <1>2, FS_Subset
<1>4. \A r \in Requests : Cardinality(S \cup {r}) <= Cardinality(S) + 1
  <2> TAKE r \in Requests
  <2>1. Cardinality(S \cup {r}) = IF r \in S THEN Cardinality(S) ELSE Cardinality(S) + 1
    BY <1>2, FS_AddElement
  <2> QED
    BY <1>2, <2>1
<1> QED
  BY <1>2, <1>3, <1>4

LEMMA QueueSteps ==
  ASSUME NEW S, NEW q \in Seq(S)
  PROVE  /\ Len(q) \in Nat /\ DOMAIN q = 1..Len(q)
         /\ q # <<>> => /\ Head(q) \in S /\ Head(q) = q[1] /\ 1 \in 1..Len(q)
                        /\ Tail(q) \in Seq(S) /\ Len(Tail(q)) = Len(q) - 1
                        /\ \A i \in 1..Len(Tail(q)) : /\ i + 1 \in 1..Len(q) /\ i + 1 # 1
                                                      /\ Tail(q)[i] = q[i + 1]
         /\ \A x \in S : /\ Append(q, x) \in Seq(S) /\ Len(Append(q, x)) = Len(q) + 1
                         /\ \A i \in 1..(Len(q) + 1) :
                              Append(q, x)[i] = IF i = Len(q) + 1 THEN x ELSE q[i]
<1>1. Len(q) \in Nat /\ DOMAIN q = 1..Len(q)
  BY LenProperties
<1>2. ASSUME q # <<>>
      PROVE  /\ Head(q) \in S /\ Head(q) = q[1] /\ 1 \in 1..Len(q)
             /\ Tail(q) \in Seq(S) /\ Len(Tail(q)) = Len(q) - 1
             /\ \A i \in 1..Len(Tail(q)) : /\ i + 1 \in 1..Len(q) /\ i + 1 # 1
                                           /\ Tail(q)[i] = q[i + 1]
  BY <1>1, <1>2, HeadTailProperties, EmptySeq
<1>3. \A x \in S : /\ Append(q, x) \in Seq(S) /\ Len(Append(q, x)) = Len(q) + 1
                   /\ \A i \in 1..(Len(q) + 1) :
                        Append(q, x)[i] = IF i = Len(q) + 1 THEN x ELSE q[i]
  BY <1>1
<1> QED
  BY <1>1, <1>2, <1>3

-----------------------------------------------------------------------------
Statuses == Promise!Outcomes

LEMMA SettleType ==
  ASSUME outcome \in [Requests -> Statuses], NEW S, NEW how \in Statuses, Settle(S, how)
  PROVE  outcome' \in [Requests -> Statuses]
BY DEF Settle

LEMMA NextTypeOK == TypeOK /\ [Next]_vars => TypeOK'
<1> SUFFICES ASSUME TypeOK, [Next]_vars PROVE TypeOK'
  OBVIOUS
<1> USE DEF os
<1>0. /\ queue \in Seq(Requests) /\ Len(queue) <= MaxQueueLength
      /\ inFlight \subseteq Requests /\ Cardinality(inFlight) <= MaxConcurrency
      /\ outcome \in [Requests -> Statuses]
      /\ {"pending", "queue-overflow", "disposed", "ok", "python-error", "timeout",
          "worker-exited", "spawn-failed"} \subseteq Statuses
      /\ pipe \in [Processes -> Seq(Requests)]
      /\ Len(queue) \in Nat /\ MaxQueueLength \in Nat /\ MaxConcurrency \in Nat /\ N \in Nat
  BY WorkerAssumption, QueueSteps
  DEF TypeOK, Statuses, Promise!Outcomes, Promise!Refusals, Promise!Settled
<1>1. ASSUME NEW r \in Requests, request(r) PROVE TypeOK'
  <2>1. outcome' \in [Requests -> Statuses]
    BY <1>0, <1>1, SettleType DEF request
  <2>2. queue' \in Seq(Requests) /\ Len(queue') <= MaxQueueLength
    <3>1. CASE UNCHANGED queue
      BY <1>0, <3>1
    <3>2. CASE Len(queue) < MaxQueueLength /\ queue' = Append(queue, r)
      <4>1. Append(queue, r) \in Seq(Requests) /\ Len(Append(queue, r)) = Len(queue) + 1
        BY <1>0, QueueSteps
      <4> QED
        BY <1>0, <3>2, <4>1
    <3> QED
      BY <1>1, <3>1, <3>2 DEF request
  <2> QED
    BY <1>1, <2>1, <2>2 DEF request, TypeOK, FlushNext, Statuses
<1>2. {} \subseteq Requests /\ Cardinality({}) <= MaxConcurrency
      /\ <<>> \in Seq(Requests) /\ Len(<<>>) <= MaxQueueLength
  BY <1>0, FS_EmptySet
<1>3. ASSUME Discard
      PROVE  /\ child' \in Processes \cup {None} /\ killed' \subseteq Processes
             /\ warmed' \in BOOLEAN
  BY <1>3 DEF Discard, TypeOK
<1>4. ASSUME NEW how \in Statuses, FailAll(how) \/ FailInFlight(how)
      PROVE  /\ queue' \in Seq(Requests) /\ Len(queue') <= MaxQueueLength
             /\ inFlight' \subseteq Requests /\ Cardinality(inFlight') <= MaxConcurrency
             /\ outcome' \in [Requests -> Statuses]
  BY <1>0, <1>2, <1>4, SettleType DEF FailAll, FailInFlight
<1>5. CASE dispose
  BY <1>0, <1>3, <1>4, <1>5 DEF dispose, TypeOK, Statuses
<1>6. CASE FlushEnds
  BY <1>6 DEF FlushEnds, TypeOK
<1>7. CASE SpawnFails
  BY <1>0, <1>4, <1>7 DEF SpawnFails, TypeOK, Statuses
<1>8. ASSUME MayDispatch
      PROVE  /\ Head(queue) \in Requests /\ Tail(queue) \in Seq(Requests)
             /\ Len(Tail(queue)) <= MaxQueueLength
  BY <1>0, <1>8, QueueSteps DEF MayDispatch
<1>9. ASSUME NEW p \in Processes, Spawn(p)
      PROVE  spawned' \in 0..N /\ alive' \subseteq Processes
  <2>1. p \in 0..N /\ alive \cup {p} \subseteq Processes /\ spawned \in 0..N
        /\ alive \subseteq Processes
    BY WorkerAssumption DEF Processes, TypeOK
  <2> QED
    BY <1>9, <2>1 DEF Spawn
<1>10. CASE Dispatch
  <2>1. PICK p \in Processes : /\ Spawn(p) /\ child' = p
                               /\ pipe' = [pipe EXCEPT ![p] = Append(@, Head(queue))]
    BY <1>10 DEF Dispatch
  <2>2. /\ inFlight' = inFlight \cup {Head(queue)} /\ queue' = Tail(queue)
        /\ Cardinality(inFlight) < MaxConcurrency /\ MayDispatch
    BY <1>10 DEF Dispatch, MayDispatch
  <2>3. inFlight' \subseteq Requests /\ Cardinality(inFlight') <= MaxConcurrency
    <3> DEFINE T == inFlight \cup {Head(queue)}
    <3>1. /\ Head(queue) \in Requests /\ T \subseteq Requests
          /\ inFlight \in SUBSET Requests /\ T \in SUBSET Requests
      BY <1>0, <1>8, <2>2
    <3>2. /\ Cardinality(inFlight) \in Nat /\ Cardinality(T) \in Nat
          /\ Cardinality(T) <= Cardinality(inFlight) + 1
      BY <3>1, FlightIsFinite
    <3>3. Cardinality(T) <= MaxConcurrency
      <4> HIDE DEF T
      <4> QED
        BY <1>0, <2>2, <3>2
    <3> QED
      BY <2>2, <3>1, <3>3
  <2>4. pipe' \in [Processes -> Seq(Requests)]
    BY <1>0, <1>8, <2>1, <2>2, QueueSteps
  <2>5. spawned' \in 0..N /\ alive' \subseteq Processes
    BY <1>9, <2>1
  <2> QED
    BY <1>8, <1>10, <2>1, <2>2, <2>3, <2>4, <2>5 DEF Dispatch, TypeOK
<1>11. CASE WriteFails
  <2>1. PICK p \in Processes : Spawn(p) /\ killed' = killed \cup {p}
    BY <1>11 DEF WriteFails
  <2>2. outcome' \in [Requests -> Statuses]
    BY <1>0, <1>11, SettleType DEF WriteFails
  <2>3. spawned' \in 0..N /\ alive' \subseteq Processes
    BY <1>9, <2>1
  <2> QED
    BY <1>2, <1>8, <1>11, <2>1, <2>2, <2>3 DEF WriteFails, TypeOK, Statuses
<1>12. ASSUME NEW S \in SUBSET inFlight, inFlight' = S
       PROVE  inFlight' \subseteq Requests /\ Cardinality(inFlight') <= MaxConcurrency
  <2>1. Cardinality(S) <= Cardinality(inFlight) /\ Cardinality(S) \in Nat
        /\ Cardinality(inFlight) \in Nat
    BY <1>0, FlightIsFinite
  <2> QED
    BY <1>0, <1>12, <2>1
<1>13. ASSUME NEW p \in Processes, NEW ok \in BOOLEAN, Answer(p, ok) PROVE TypeOK'
  <2>1. pipe' \in [Processes -> Seq(Requests)]
    BY <1>0, <1>13, QueueSteps DEF Answer
  <2>2. inFlight' \subseteq Requests /\ Cardinality(inFlight') <= MaxConcurrency
    BY <1>0, <1>12, <1>13 DEF Answer
  <2>3. outcome' \in [Requests -> Statuses]
    BY <1>0, <1>13, SettleType DEF Answer
  <2> QED
    BY <1>13, <2>1, <2>2, <2>3 DEF Answer, FlushNext, TypeOK, Statuses
<1>14. ASSUME NEW p \in Processes, Gone(p)
       PROVE  /\ alive' \subseteq Processes /\ killed' \subseteq Processes
              /\ served' \subseteq Processes /\ pipe' \in [Processes -> Seq(Requests)]
  BY <1>0, <1>2, <1>14 DEF Gone, TypeOK
<1>15. ASSUME NEW p \in Processes, Exit(p) PROVE TypeOK'
  <2>1. child' \in Processes \cup {None} /\ flushing' \in BOOLEAN
    BY <1>15 DEF Exit, FlushNext, TypeOK
  <2> QED
    BY <1>0, <1>4, <1>14, <1>15, <2>1 DEF Exit, TypeOK, Statuses
<1>16. ASSUME NEW p \in Processes, SpawnError(p) PROVE TypeOK'
  <2>1. child' \in Processes \cup {None}
    BY <1>16 DEF SpawnError, TypeOK
  <2> QED
    BY <1>0, <1>4, <1>14, <1>16, <2>1 DEF SpawnError, TypeOK, Statuses
<1>17. CASE StreamError
  BY <1>0, <1>3, <1>4, <1>17 DEF StreamError, FlushNext, TypeOK, Statuses
<1>18. ASSUME NEW r \in Requests, Timeout(r) PROVE TypeOK'
  <2>1. outcome' \in [Requests -> Statuses]
    BY <1>0, <1>18, SettleType DEF Timeout
  <2>2. inFlight' \subseteq Requests /\ Cardinality(inFlight') <= MaxConcurrency
    BY <1>12, <1>18 DEF Timeout
  <2>3. child' \in Processes \cup {None} /\ killed' \subseteq Processes /\ warmed' \in BOOLEAN
    BY <1>3, <1>18 DEF Timeout, TypeOK
  <2> QED
    BY <1>18, <2>1, <2>2, <2>3 DEF Timeout, FlushNext, TypeOK, Statuses
<1>19. CASE UNCHANGED vars
  BY <1>19 DEF vars, TypeOK
<1> QED
  BY <1>1, <1>5, <1>6, <1>7, <1>10, <1>11, <1>13, <1>15, <1>16, <1>17, <1>18, <1>19
  DEF Next, Flush

LEMMA InitTypeOK == Init => TypeOK
<1> SUFFICES ASSUME Init PROVE TypeOK
  OBVIOUS
<1>1. {} \subseteq Requests /\ Cardinality({}) <= MaxConcurrency
  BY FS_EmptySet, WorkerAssumption
<1>2. <<>> \in Seq(Requests) /\ Len(<<>>) <= MaxQueueLength
  BY WorkerAssumption
<1>3. outcome \in [Requests -> Promise!Outcomes]
  BY DEF Init, Promise!Outcomes
<1>4. pipe \in [Processes -> Seq(Requests)] /\ spawned \in 0..N
  BY <1>2, WorkerAssumption DEF Init
<1> QED
  BY <1>1, <1>2, <1>3, <1>4 DEF Init, TypeOK

\* Every field keeps its type, the queue and the flight their limits.
THEOREM TypeCorrect == Spec => []TypeOK
BY InitTypeOK, NextTypeOK, PTL DEF Spec

-----------------------------------------------------------------------------
(* The process and what it was sent.                                        *)

ChildLives == child # None => child \in alive
ChildInv == ChildLives /\ FlightIsCarried /\ NoStrayProcess

Holds(q, r) == \E i \in DOMAIN q : q[i] = r

LEMMA HoldsSteps ==
  ASSUME NEW q \in Seq(Requests), NEW r \in Requests
  PROVE  /\ Holds(Append(q, r), r)
         /\ \A s \in Requests : Holds(q, s) => Holds(Append(q, r), s)
         /\ \A s \in Requests : Holds(q, s) /\ q # <<>> /\ s # Head(q) => Holds(Tail(q), s)
<1>1. /\ Len(q) \in Nat /\ DOMAIN q = 1..Len(q)
      /\ Append(q, r) \in Seq(Requests) /\ DOMAIN Append(q, r) = 1..(Len(q) + 1)
      /\ \A i \in 1..(Len(q) + 1) : Append(q, r)[i] = IF i = Len(q) + 1 THEN r ELSE q[i]
  BY QueueSteps, LenProperties
<1>2. Holds(Append(q, r), r)
  BY <1>1 DEF Holds
<1>3. ASSUME NEW s \in Requests, Holds(q, s) PROVE Holds(Append(q, r), s)
  <2>1. PICK i \in 1..Len(q) : q[i] = s
    BY <1>1, <1>3 DEF Holds
  <2>2. i \in DOMAIN Append(q, r) /\ Append(q, r)[i] = s
    BY <1>1, <2>1
  <2> QED
    BY <2>2 DEF Holds
<1>4. ASSUME NEW s \in Requests, Holds(q, s), q # <<>>, s # Head(q) PROVE Holds(Tail(q), s)
  <2>1. PICK i \in 1..Len(q) : q[i] = s
    BY <1>1, <1>4 DEF Holds
  <2>2. /\ Head(q) = q[1] /\ Len(Tail(q)) = Len(q) - 1 /\ DOMAIN Tail(q) = 1..Len(Tail(q))
        /\ \A j \in 1..Len(Tail(q)) : Tail(q)[j] = q[j + 1]
    BY <1>4, QueueSteps, LenProperties
  <2>3. i - 1 \in DOMAIN Tail(q) /\ Tail(q)[i - 1] = s
    BY <1>1, <1>4, <2>1, <2>2
  <2> QED
    BY <2>3 DEF Holds
<1> QED
  BY <1>2, <1>3, <1>4

LEMMA NextChildInv == TypeOK /\ ChildInv /\ [Next]_vars => ChildInv'
<1> SUFFICES ASSUME TypeOK, ChildInv, [Next]_vars PROVE ChildInv'
  OBVIOUS
<1> USE DEF os
<1>0. /\ queue \in Seq(Requests) /\ inFlight \subseteq Requests
      /\ pipe \in [Processes -> Seq(Requests)]
      /\ alive \subseteq Processes /\ killed \subseteq Processes /\ None \notin Processes
      /\ child \in Processes \cup {None}
  BY DEF TypeOK, None, Processes
<1>1. /\ child # None => child \in alive
      /\ inFlight # {} => child \in alive
      /\ \A r \in inFlight : Holds(pipe[child], r)
      /\ \A p \in alive : p = child \/ p \in killed
  BY DEF ChildInv, ChildLives, FlightIsCarried, NoStrayProcess, Holds
<1>2. ASSUME child' # None => child' \in alive',
             inFlight' # {} => child' # None,
             \A r \in inFlight' : Holds(pipe'[child'], r),
             \A p \in alive' : p = child' \/ p \in killed'
      PROVE  ChildInv'
  BY <1>2 DEF ChildInv, ChildLives, FlightIsCarried, NoStrayProcess, Holds
<1>3. ASSUME UNCHANGED <<child, alive, killed, pipe>>, inFlight' \subseteq inFlight
      PROVE  ChildInv'
  BY <1>0, <1>1, <1>2, <1>3
<1>4. ASSUME Discard, UNCHANGED alive, inFlight' = {} PROVE ChildInv'
  BY <1>0, <1>1, <1>2, <1>4 DEF Discard
<1>5. ASSUME NEW r \in Requests, request(r) PROVE ChildInv'
  BY <1>3, <1>5 DEF request
<1>6. CASE dispose
  BY <1>4, <1>6 DEF dispose, FailAll
<1>7. CASE FlushEnds \/ SpawnFails
  BY <1>3, <1>7 DEF FlushEnds, SpawnFails, FailAll
<1>8. ASSUME NEW p \in Processes, Spawn(p)
      PROVE  /\ child = None \/ child = p
             /\ p \in alive' /\ \A q \in alive' : q = p \/ q \in killed
  BY <1>0, <1>1, <1>8 DEF Spawn
<1>9. CASE Dispatch
  <2>1. PICK p \in Processes : /\ Spawn(p) /\ child' = p
                               /\ pipe' = [pipe EXCEPT ![p] = Append(@, Head(queue))]
    BY <1>9 DEF Dispatch
  <2>2. /\ inFlight' = inFlight \cup {Head(queue)} /\ UNCHANGED killed
        /\ Head(queue) \in Requests
    BY <1>0, <1>9, QueueSteps DEF Dispatch, MayDispatch
  <2>3. pipe'[child'] = Append(pipe[p], Head(queue)) /\ pipe[p] \in Seq(Requests)
    BY <1>0, <2>1
  <2>4. ASSUME NEW r \in inFlight' PROVE Holds(pipe'[child'], r)
    <3>1. CASE r = Head(queue)
      BY <2>2, <2>3, <3>1, HoldsSteps
    <3>2. CASE r \in inFlight
      <4>1. child = p /\ Holds(pipe[p], r)
        BY <1>0, <1>1, <1>8, <2>1, <3>2
      <4> QED
        BY <1>0, <2>2, <2>3, <3>2, <4>1, HoldsSteps
    <3> QED
      BY <2>2, <3>1, <3>2
  <2> QED
    BY <1>0, <1>2, <1>8, <2>1, <2>2, <2>4
<1>10. CASE WriteFails
  <2>1. PICK p \in Processes : Spawn(p) /\ killed' = killed \cup {p}
    BY <1>10 DEF WriteFails
  <2> QED
    BY <1>2, <1>8, <1>10, <2>1 DEF WriteFails
<1>11. ASSUME NEW p \in Processes, NEW ok \in BOOLEAN, Answer(p, ok) PROVE ChildInv'
  <2>1. /\ UNCHANGED <<child, alive, killed>> /\ pipe[p] # <<>> /\ inFlight' \subseteq inFlight
        /\ pipe' = [pipe EXCEPT ![p] = Tail(@)]
        /\ p = child => Head(pipe[p]) \notin inFlight'
    BY <1>11 DEF Answer
  <2>2. ASSUME NEW r \in inFlight' PROVE Holds(pipe'[child'], r)
    <3>1. Holds(pipe[child], r) /\ child \in Processes /\ r \in Requests
      BY <1>0, <1>1, <2>1
    <3>2. CASE p = child
      <4>1. r # Head(pipe[p]) /\ pipe'[child'] = Tail(pipe[p]) /\ pipe[p] \in Seq(Requests)
        BY <1>0, <2>1, <3>1, <3>2
      <4> QED
        BY <2>1, <3>1, <3>2, <4>1, HoldsSteps
    <3>3. CASE p # child
      BY <1>0, <2>1, <3>1, <3>3
    <3> QED
      BY <3>2, <3>3
  <2> QED
    BY <1>0, <1>1, <1>2, <2>1, <2>2
<1>12. ASSUME NEW p \in Processes, Exit(p) \/ SpawnError(p) PROVE ChildInv'
  <2>1. /\ alive' = alive \ {p} /\ killed' = killed \ {p}
        /\ pipe' = [pipe EXCEPT ![p] = <<>>]
    BY <1>12 DEF Exit, SpawnError, Gone
  <2>2. CASE p = child
    BY <1>1, <1>2, <1>12, <2>1, <2>2 DEF Exit, SpawnError, FailInFlight, FailAll
  <2>3. CASE p # child
    <3>1. UNCHANGED <<child, inFlight>>
      BY <1>12, <2>3 DEF Exit, SpawnError
    <3>2. ASSUME NEW r \in inFlight' PROVE Holds(pipe'[child'], r)
      BY <1>0, <1>1, <2>1, <2>3, <3>1
    <3> QED
      BY <1>0, <1>1, <1>2, <2>1, <2>3, <3>1, <3>2
  <2> QED
    BY <2>2, <2>3
<1>13. CASE StreamError
  BY <1>4, <1>13 DEF StreamError, FailInFlight
<1>14. ASSUME NEW r \in Requests, Timeout(r) PROVE ChildInv'
  <2>1. CASE killOnTimeout
    BY <1>4, <1>14, <2>1 DEF Timeout
  <2>2. CASE ~killOnTimeout
    BY <1>3, <1>14, <2>2 DEF Timeout
  <2> QED
    BY <2>1, <2>2
<1>15. CASE UNCHANGED vars
  BY <1>3, <1>15 DEF vars
<1> QED
  BY <1>5, <1>6, <1>7, <1>9, <1>10, <1>11, <1>12, <1>13, <1>14, <1>15 DEF Next, Flush

\* Whatever a request in flight was sent to is the present child, alive, and has
\* not answered it; and every other process alive has been told to end:
\* handleWorkerFailure and handleChildExit, by generation.
THEOREM FlightAndProcesses == Spec => [](FlightIsCarried /\ NoStrayProcess)
<1>1. Init => ChildInv
  BY DEF Init, ChildInv, ChildLives, FlightIsCarried, NoStrayProcess
<1>2. ChildInv => FlightIsCarried /\ NoStrayProcess
  BY DEF ChildInv
<1> QED
  BY <1>1, <1>2, InitTypeOK, NextTypeOK, NextChildInv, PTL DEF Spec

\* No process is left behind: whatever is alive and is not the present child has
\* been told to end, by terminate on a timeout or on disposal.
THEOREM NoneLeftBehind == Spec => []NoStrayProcess
BY FlightAndProcesses, PTL

-----------------------------------------------------------------------------
(* The queue between events.                                                *)

DisposedIsEmpty == disposed => queue = <<>>
FlushInv == WorkConserving /\ DisposedIsEmpty

LEMMA NextFlushInv == TypeOK /\ FlushInv /\ [Next]_vars => FlushInv'
<1> SUFFICES ASSUME TypeOK, FlushInv, [Next]_vars PROVE FlushInv'
  OBVIOUS
<1> USE DEF os, FlushInv, WorkConserving, DisposedIsEmpty
<1>0. /\ Cardinality(inFlight) \in Nat /\ Cardinality(inFlight) <= MaxConcurrency
      /\ MaxConcurrency \in Nat
  BY FlightIsFinite, WorkerAssumption DEF TypeOK
<1>1. ASSUME NEW r \in Requests, request(r) PROVE FlushInv'
  BY <1>1 DEF request, FlushNext
<1>2. CASE dispose
  BY <1>2 DEF dispose, FailAll
<1>3. CASE FlushEnds
  BY <1>0, <1>3 DEF FlushEnds, MayDispatch
<1>4. CASE SpawnFails
  BY <1>4 DEF SpawnFails, FailAll
<1>5. CASE Dispatch \/ WriteFails
  BY <1>5 DEF Dispatch, WriteFails, MayDispatch
<1>6. ASSUME NEW p \in Processes, NEW ok \in BOOLEAN, Answer(p, ok) PROVE FlushInv'
  BY <1>6 DEF Answer, FlushNext
<1>7. ASSUME NEW p \in Processes, Exit(p) PROVE FlushInv'
  BY <1>7 DEF Exit, FailInFlight, FlushNext
<1>8. ASSUME NEW p \in Processes, SpawnError(p) PROVE FlushInv'
  BY <1>8 DEF SpawnError, FailAll
<1>9. ASSUME StreamError \/ \E r \in Requests : Timeout(r) PROVE FlushInv'
  <2>1. flushing' = TRUE /\ UNCHANGED <<queue, disposed>>
    BY <1>9 DEF StreamError, FailInFlight, Timeout, FlushNext
  <2> QED
    BY <2>1
<1>10. CASE UNCHANGED vars
  BY <1>10 DEF vars
<1> QED
  BY <1>1, <1>2, <1>3, <1>4, <1>5, <1>6, <1>7, <1>8, <1>9, <1>10 DEF Next, Flush

\* Between two events no request waits while a slot is free: every handler that
\* frees one ends in flush().
THEOREM NothingWaits == Spec => []WorkConserving
<1>1. Init => FlushInv
  BY DEF Init, FlushInv, WorkConserving, DisposedIsEmpty
<1>2. FlushInv => WorkConserving
  BY DEF FlushInv
<1> QED
  BY <1>1, <1>2, InitTypeOK, NextTypeOK, NextFlushInv, PTL DEF Spec

-----------------------------------------------------------------------------
(* Each request is settled once.  What waits and what is in flight is       *)
(* pending, and nothing is in both or twice in the queue.                   *)

PendingInv ==
  /\ \A r \in inFlight : outcome[r] = "pending"
  /\ \A i \in DOMAIN queue : outcome[queue[i]] = "pending" /\ queue[i] \notin inFlight
  /\ \A i, j \in DOMAIN queue : queue[i] = queue[j] => i = j

Pending(r) == outcome[r] = "pending"

\* A handler that settles pending requests makes moves the promise allows.
LEMMA SettledMoves ==
  ASSUME TypeOK, NEW S, \A r \in S : r \in Requests => Pending(r),
         NEW how \in Promise!Settled, Settle(S, how)
  PROVE  Promise!Next
<1>1. outcome' \in [Requests -> Promise!Outcomes]
  <2>1. how \in Promise!Outcomes
    BY DEF Promise!Outcomes, Promise!Settled
  <2> QED
    BY <2>1, SettleType DEF TypeOK, Statuses
<1>2. ASSUME NEW r \in Requests
      PROVE  \/ outcome'[r] = outcome[r]
             \/ <<outcome[r], outcome'[r]>> \in Promise!Moves
  <2>1. CASE r \in S
    <3>1. outcome'[r] = how /\ outcome[r] = "pending"
      BY <2>1 DEF Settle, Pending
    <3> QED
      BY <3>1 DEF Promise!Moves
  <2>2. CASE r \notin S
    BY <2>2 DEF Settle
  <2> QED
    BY <2>1, <2>2
<1> QED
  BY <1>1, <1>2 DEF Promise!Next

\* Handlers that take requests out of flight and leave the queue.
LEMMA FlightShrinks ==
  ASSUME TypeOK, PendingInv, UNCHANGED queue, inFlight' \subseteq inFlight,
         \A r \in Requests : outcome'[r] = outcome[r] \/ r \in inFlight \ inFlight'
  PROVE  PendingInv'
BY QueueSteps DEF PendingInv, TypeOK

LEMMA AllEmpty ==
  ASSUME queue' = <<>>, inFlight' = {}
  PROVE  PendingInv'
BY DEF PendingInv

\* Handlers that take the head of the queue.
LEMMA HeadTaken ==
  ASSUME TypeOK, PendingInv, queue # <<>>, queue' = Tail(queue),
         inFlight' \subseteq inFlight \cup {Head(queue)},
         \A r \in Requests : \/ outcome'[r] = outcome[r]
                             \/ r \in (inFlight \cup {Head(queue)}) \ inFlight'
  PROVE  PendingInv'
<1>1. /\ DOMAIN queue = 1..Len(queue) /\ DOMAIN queue' = 1..Len(queue')
      /\ Head(queue) = queue[1] /\ 1 \in DOMAIN queue /\ Head(queue) \in Requests
      /\ \A i \in DOMAIN queue' : /\ i + 1 \in DOMAIN queue /\ i + 1 # 1
                                  /\ queue'[i] = queue[i + 1] /\ i \in Nat
  BY QueueSteps DEF TypeOK
<1>2. \A i \in DOMAIN queue : queue[i] \in Requests
  BY QueueSteps DEF TypeOK
<1>3. \A i \in DOMAIN queue' : queue'[i] \notin inFlight \cup {Head(queue)}
  BY <1>1 DEF PendingInv
<1>4. \A r \in inFlight' : outcome'[r] = "pending"
  BY <1>1 DEF PendingInv, TypeOK
<1>5. \A i \in DOMAIN queue' : outcome'[queue'[i]] = "pending" /\ queue'[i] \notin inFlight'
  BY <1>1, <1>2, <1>3 DEF PendingInv
<1>6. \A i, j \in DOMAIN queue' : queue'[i] = queue'[j] => i = j
  BY <1>1 DEF PendingInv
<1> QED
  BY <1>4, <1>5, <1>6 DEF PendingInv

LEMMA NextPending ==
  ASSUME TypeOK, PendingInv, [Next]_vars
  PROVE  PendingInv' /\ [Promise!Next]_outcome
<1> USE DEF os
<1>0. /\ outcome \in [Requests -> Promise!Outcomes] /\ queue \in Seq(Requests)
      /\ \A r \in inFlight : Pending(r)
      /\ \A r \in InQueue : Pending(r)
      /\ queue # <<>> => Head(queue) \in Requests /\ Pending(Head(queue))
      /\ {"ok", "python-error", "timeout", "worker-exited", "spawn-failed", "disposed"}
           \subseteq Promise!Settled
  BY QueueSteps DEF TypeOK, PendingInv, Pending, InQueue, Promise!Settled
<1>1. ASSUME UNCHANGED outcome PROVE [Promise!Next]_outcome
  BY <1>1
<1>2. ASSUME NEW S, \A r \in S : r \in Requests => Pending(r), NEW how \in Promise!Settled,
             Settle(S, how)
      PROVE  /\ Promise!Next
             /\ \A r \in Requests : outcome'[r] = outcome[r] \/ r \in S
  BY <1>0, <1>2, SettledMoves DEF Settle
<1>3. ASSUME NEW how \in Promise!Settled, FailInFlight(how)
      PROVE  PendingInv' /\ Promise!Next
  <2>1. /\ Promise!Next
        /\ \A r \in Requests : outcome'[r] = outcome[r] \/ r \in inFlight
    BY <1>0, <1>2, <1>3 DEF FailInFlight
  <2> QED
    BY <1>3, <2>1, FlightShrinks DEF FailInFlight
<1>4. ASSUME NEW how \in Promise!Settled, FailAll(how)
      PROVE  PendingInv' /\ Promise!Next
  BY <1>0, <1>2, <1>4, AllEmpty DEF FailAll
<1>5. ASSUME NEW r \in Requests, request(r) PROVE PendingInv' /\ [Promise!Next]_outcome
  <2>0. outcome[r] = "new"
    BY <1>5 DEF request
  <2>1. ASSUME NEW how \in {"disposed", "queue-overflow", "pending"}, Settle({r}, how)
        PROVE  /\ outcome' = [outcome EXCEPT ![r] = how]
               /\ Promise!Next
    <3>1. outcome' = [outcome EXCEPT ![r] = how]
      BY <1>0, <2>1 DEF Settle
    <3>2. how \in Promise!Outcomes /\ <<"new", how>> \in Promise!Moves
      BY DEF Promise!Outcomes, Promise!Moves, Promise!Refusals
    <3> QED
      BY <1>0, <2>0, <3>1, <3>2 DEF Promise!Next
  <2>2. \A i \in DOMAIN queue : queue[i] # r
    BY <2>0 DEF PendingInv
  <2>3. r \notin inFlight
    BY <2>0 DEF PendingInv
  <2>4. CASE UNCHANGED queue
    <3>1. PICK how \in {"disposed", "queue-overflow", "pending"} : Settle({r}, how)
      BY <1>5 DEF request
    <3>2. \A s \in Requests : s # r => outcome'[s] = outcome[s]
      BY <1>0, <2>1, <3>1
    <3>3. PendingInv'
      BY <1>0, <1>5, <2>2, <2>3, <2>4, <3>2, QueueSteps DEF request, PendingInv, TypeOK
    <3> QED
      BY <2>1, <3>1, <3>3
  <2>5. CASE queue' = Append(queue, r) /\ Settle({r}, "pending")
    <3>1. /\ outcome' = [outcome EXCEPT ![r] = "pending"] /\ UNCHANGED inFlight
          /\ Promise!Next
      BY <1>5, <2>1, <2>5 DEF request
    <3>2. /\ DOMAIN queue = 1..Len(queue) /\ DOMAIN queue' = 1..(Len(queue) + 1)
          /\ Len(queue) \in Nat
          /\ \A i \in DOMAIN queue' : queue'[i] = IF i = Len(queue) + 1 THEN r ELSE queue[i]
          /\ \A i \in DOMAIN queue : queue[i] \in Requests
      BY <1>0, <2>5, QueueSteps, LenProperties
    <3>3. \A s \in inFlight' : outcome'[s] = "pending"
      BY <1>0, <3>1 DEF PendingInv
    <3>4. \A i \in DOMAIN queue' : outcome'[queue'[i]] = "pending" /\ queue'[i] \notin inFlight'
      BY <1>0, <2>3, <3>1, <3>2 DEF PendingInv
    <3>5. \A i, j \in DOMAIN queue' : queue'[i] = queue'[j] => i = j
      BY <2>2, <3>2 DEF PendingInv
    <3> QED
      BY <3>1, <3>3, <3>4, <3>5 DEF PendingInv
  <2> QED
    BY <1>5, <2>4, <2>5 DEF request
<1>6. CASE dispose
  BY <1>0, <1>4, <1>6 DEF dispose
<1>7. CASE FlushEnds
  BY <1>7, FlightShrinks DEF FlushEnds
<1>8. CASE SpawnFails
  BY <1>0, <1>4, <1>8 DEF SpawnFails
<1>9. CASE Dispatch
  BY <1>9, HeadTaken DEF Dispatch, MayDispatch
<1>10. CASE WriteFails
  <2>1. queue # <<>> /\ Settle(inFlight \cup {Head(queue)}, "worker-exited")
    BY <1>10 DEF WriteFails, MayDispatch
  <2>2. /\ Promise!Next
        /\ \A r \in Requests : outcome'[r] = outcome[r] \/ r \in inFlight \cup {Head(queue)}
    BY <1>0, <1>2, <2>1
  <2> QED
    BY <1>10, <2>1, <2>2, HeadTaken DEF WriteFails
<1>11. ASSUME NEW p \in Processes, NEW ok \in BOOLEAN, Answer(p, ok)
       PROVE  PendingInv' /\ [Promise!Next]_outcome
  <2>1. CASE p = child /\ Head(pipe[p]) \in inFlight
    <3>1. PICK how \in Promise!Settled : Settle({Head(pipe[p])}, how)
      BY <1>0, <1>11, <2>1 DEF Answer
    <3>2. /\ Promise!Next
          /\ \A r \in Requests : outcome'[r] = outcome[r] \/ r \in {Head(pipe[p])}
      BY <1>0, <1>2, <2>1, <3>1
    <3> QED
      BY <1>11, <2>1, <3>2, FlightShrinks DEF Answer
  <2>2. CASE ~(p = child /\ Head(pipe[p]) \in inFlight)
    BY <1>11, <2>2, FlightShrinks DEF Answer
  <2> QED
    BY <2>1, <2>2
<1>12. ASSUME NEW p \in Processes, Exit(p) PROVE PendingInv' /\ [Promise!Next]_outcome
  BY <1>0, <1>3, <1>12, FlightShrinks DEF Exit
<1>13. ASSUME NEW p \in Processes, SpawnError(p) PROVE PendingInv' /\ [Promise!Next]_outcome
  BY <1>0, <1>4, <1>13, FlightShrinks DEF SpawnError
<1>14. CASE StreamError
  BY <1>0, <1>3, <1>14 DEF StreamError
<1>15. ASSUME NEW r \in Requests, Timeout(r) PROVE PendingInv' /\ [Promise!Next]_outcome
  <2>1. CASE killOnTimeout
    <3>1. /\ \A s \in Requests : outcome'[s] = IF s = r THEN "timeout"
                                               ELSE IF s \in inFlight THEN "worker-exited"
                                               ELSE outcome[s]
          /\ outcome' = [s \in Requests |-> outcome'[s]]
          /\ inFlight' = {} /\ UNCHANGED queue /\ r \in inFlight
      BY <1>15, <2>1 DEF Timeout
    <3>2. {"timeout", "worker-exited"} \subseteq Promise!Outcomes
      BY DEF Promise!Outcomes, Promise!Settled
    <3>3. outcome' \in [Requests -> Promise!Outcomes]
      BY <1>0, <3>1, <3>2
    <3>4. \A s \in Requests : \/ outcome'[s] = outcome[s]
                              \/ <<outcome[s], outcome'[s]>> \in Promise!Moves
      BY <1>0, <3>1 DEF Pending, Promise!Moves
    <3>5. PendingInv'
      BY <3>1, FlightShrinks
    <3> QED
      BY <3>3, <3>4, <3>5 DEF Promise!Next
  <2>2. CASE ~killOnTimeout
    <3>1. Settle({r}, "timeout") /\ inFlight' = inFlight \ {r} /\ UNCHANGED queue /\ r \in inFlight
      BY <1>15, <2>2 DEF Timeout
    <3>2. /\ Promise!Next
          /\ \A s \in Requests : outcome'[s] = outcome[s] \/ s \in {r}
      BY <1>0, <1>2, <3>1
    <3> QED
      BY <3>1, <3>2, FlightShrinks
  <2> QED
    BY <2>1, <2>2
<1>16. CASE UNCHANGED vars
  BY <1>16, FlightShrinks DEF vars
<1> QED
  BY <1>5, <1>6, <1>7, <1>8, <1>9, <1>10, <1>11, <1>12, <1>13, <1>14, <1>15, <1>16
  DEF Next, Flush

\* The worker implements its promise: a request is refused or accepted, and an
\* accepted one is settled once and for all, whatever the process does.
THEOREM PromiseKept == Spec => KeepsPromise
<1>1. Init => PendingInv /\ Promise!Init
  BY DEF Init, PendingInv, Promise!Init
<1>2. TypeOK /\ PendingInv /\ [Next]_vars => PendingInv' /\ [Promise!Next]_outcome
  BY NextPending
<1> QED
  BY <1>1, <1>2, InitTypeOK, NextTypeOK, PTL DEF Spec, KeepsPromise, Promise!Spec
=============================================================================
