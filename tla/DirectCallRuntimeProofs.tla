----------------------- MODULE DirectCallRuntimeProofs -----------------------
(***************************************************************************)
(* Proofs about the runtime that drives the telephone: it never asks the   *)
(* telephone for a step its own specification does not have, every seat in *)
(* grace, and no other, has its reaper, a socket is in one call, and the   *)
(* telephone and the session tell the same story.                          *)
(***************************************************************************)
EXTENDS DirectCallRuntime, FiniteSetTheorems, TLAPS

\* A join under way is the join of a phone into a call, to a peer.
Joins == [step : {"idle", "authorizing", "resolving"}, call : Calls \cup {"-"},
          peer : Accounts \cup {Nobody}, open : BOOLEAN]
JoiningOK ==
  /\ joining \in [Phones -> Joins]
  /\ \A p \in Phones : joining[p].step # "idle" =>
       joining[p].call \in Calls /\ joining[p].peer \in Accounts

LEMMA IdleIsAJoin == Idle \in Joins /\ Idle.step = "idle"
BY DEF Idle, Joins

SeatsOK ==
  /\ seats \in [Calls -> [Phones -> Seat]]
  /\ reapers \in [Calls -> [Phones -> Nat]]

\* Only the join handlers and a closing socket write a join.
LEMMA JoiningStep ==
  ASSUME JoiningOK, [Next]_vars
  PROVE  JoiningOK'
<1> USE DEF JoiningOK
<1>1. CASE UNCHANGED vars
  BY <1>1 DEF vars
<1>2. ASSUME NEW c \in Calls, NEW p \in Phones, NEW peer \in Accounts,
             joinUnknown(c, p, peer)
      PROVE  JoiningOK'
  BY <1>2 DEF joinUnknown, Joins
<1>3. ASSUME NEW p \in Phones, joinAuthorized(p)
      PROVE  JoiningOK'
  <2>1. CASE joining' = [joining EXCEPT ![p] = Idle]
    BY <2>1, IdleIsAJoin
  <2>2. CASE joining' = [joining EXCEPT ![p].step = "resolving"]
    BY <1>3, <2>2 DEF joinAuthorized, Joins
  <2> QED BY <1>3, <2>1, <2>2 DEF joinAuthorized
<1>4. ASSUME NEW p \in Phones, joinResolved(p) \/ joinRefused(p)
      PROVE  JoiningOK'
  BY <1>4, IdleIsAJoin DEF joinResolved, joinRefused
<1>5. ASSUME NEW p \in Phones, disconnect(p)
      PROVE  JoiningOK'
  BY <1>5 DEF disconnect, Joins
<1>6. CASE UNCHANGED joining
  BY <1>6
<1>7. ASSUME NEW c \in Calls, NEW p \in Phones,
             joinExisting(c, p) \/ resume(c, p) \/ leave(c, p)
               \/ endCall(c, p) \/ reapSeat(c, p)
      PROVE  UNCHANGED joining
  BY <1>7 DEF joinExisting, resume, leave, endCall, reapSeat, finalizeLeave,
              Teardown
<1>8. ASSUME NEW c \in Calls, NEW n, NEW a,
             ringResult(c, n) \/ overHttp(c, a) \/ probeFlows(c)
               \/ probeStalls(c) \/ telephoneTimer(c) \/ forgetTimer(c)
      PROVE  UNCHANGED joining
  BY <1>8 DEF ringResult, overHttp, probeFlows, probeStalls, telephoneTimer,
              forgetTimer, session
<1>9. Tick => UNCHANGED joining
  BY DEF Tick
<1> QED
  BY <1>1, <1>2, <1>3, <1>4, <1>5, <1>6, <1>7, <1>8, <1>9 DEF Next

LEMMA JoiningTyped == Spec => []JoiningOK
<1>1. Init => JoiningOK
  BY IdleIsAJoin DEF Init, JoiningOK
<1>2. JoiningOK /\ [Next]_vars => JoiningOK'
  BY JoiningStep
<1> QED BY <1>1, <1>2, PTL DEF Spec

-----------------------------------------------------------------------------
(* The telephone's own steps, asked for by the runtime. *)

\* Both branches of create's busy flag are the telephone's.
LEMMA BusyIsBoolean == \A a : hasConnectedAccount(a) \in BOOLEAN
BY DEF hasConnectedAccount

LEMMA TeardownIsTelephone ==
  ASSUME NEW c \in Calls, NEW by \in Accounts \cup {Nobody}, Teardown(c, by)
  PROVE  Tel!Next
BY DEF Teardown, Tel!Next

LEMMA JoinedIsTelephone ==
  ASSUME NEW c \in Calls, NEW p \in Phones, Tel!peerJoined(c, AccountOf[p])
  PROVE  Tel!Next
BY PhonesAssumption DEF Tel!Next

LEMMA TelephoneStep ==
  ASSUME JoiningOK, [Next]_vars
  PROVE  [Tel!Next]_(Tel!vars)
<1> SUFFICES ASSUME Next
             PROVE  Tel!Next \/ UNCHANGED telephone
  BY DEF vars, Tel!vars, telephone
<1>1. ASSUME NEW c \in Calls, NEW p \in Phones,
             joinExisting(c, p) \/ resume(c, p)
      PROVE  Tel!Next
  BY <1>1, JoinedIsTelephone DEF joinExisting, resume, Joined
<1>2. ASSUME NEW c \in Calls, NEW p \in Phones,
             leave(c, p) \/ endCall(c, p) \/ reapSeat(c, p)
      PROVE  Tel!Next
  <2>1. AccountOf[p] \in Accounts
    BY PhonesAssumption
  <2>2. PICK by \in Accounts \cup {Nobody} : Teardown(c, by)
    BY <1>2, <2>1 DEF leave, endCall, reapSeat, finalizeLeave
  <2> QED BY <2>2, TeardownIsTelephone
<1>3. ASSUME NEW p \in Phones, joinAuthorized(p)
      PROVE  Tel!Next \/ UNCHANGED telephone
  <2>1. CASE joining[p].step = "authorizing" /\ Joined(joining[p].call, p, joining[p].open)
    <3>1. joining[p].call \in Calls
      BY <1>3 DEF JoiningOK, joinAuthorized
    <3> QED BY <2>1, <3>1, JoinedIsTelephone DEF Joined
  <2>2. CASE UNCHANGED telephone
    BY <2>2
  <2> QED BY <1>3, <2>1, <2>2 DEF joinAuthorized
<1>4. ASSUME NEW p \in Phones, joinResolved(p)
      PROVE  Tel!Next
  <2>1. joining[p].call \in Calls /\ joining[p].peer \in Accounts
    BY <1>4 DEF JoiningOK, joinResolved
  <2>2. AccountOf[p] \in Accounts
    BY PhonesAssumption
  <2>3. PICK busy \in BOOLEAN :
          Tel!create(joining[p].call, AccountOf[p], joining[p].peer, busy)
    BY <1>4, BusyIsBoolean DEF joinResolved
  <2> QED BY <2>1, <2>2, <2>3 DEF Tel!Next
<1>5. ASSUME NEW c \in Calls, NEW n \in Tel!Reach, ringResult(c, n)
      PROVE  Tel!Next
  BY <1>5 DEF ringResult, Tel!Next
<1>6. ASSUME NEW c \in Calls, NEW a \in Accounts, overHttp(c, a)
      PROVE  Tel!Next
  BY <1>6 DEF overHttp, Tel!Next
<1>7. ASSUME NEW c \in Calls, probeFlows(c) \/ probeStalls(c)
      PROVE  Tel!Next
  BY <1>7 DEF probeFlows, probeStalls, Tel!Next
<1>8. ASSUME NEW c \in Calls, telephoneTimer(c) \/ forgetTimer(c)
      PROVE  Tel!Next \/ UNCHANGED telephone
  <2>1. CASE telephoneTimer(c)
    BY <2>1 DEF telephoneTimer, Tel!Next
  <2>2. CASE forgetTimer(c)
    BY <2>2 DEF forgetTimer, Tel!Next
  <2> QED BY <1>8, <2>1, <2>2
<1>9. Tick => Tel!Next \/ UNCHANGED telephone
  BY DEF Tick, Tel!Next
<1>10. ASSUME NEW c \in Calls, NEW p \in Phones, NEW peer,
             joinUnknown(c, p, peer)
       PROVE  UNCHANGED telephone
  BY <1>10 DEF joinUnknown
<1>11. ASSUME NEW p \in Phones, joinRefused(p) \/ disconnect(p)
       PROVE  UNCHANGED telephone
  BY <1>11 DEF joinRefused, disconnect
<1> QED
  BY <1>1, <1>2, <1>3, <1>4, <1>5, <1>6, <1>7, <1>8, <1>9, <1>10, <1>11 DEF Next

\* Every behaviour of the runtime is, seen from the telephone, a behaviour the
\* telephone's own specification allows.
THEOREM RefinesTelephone == Spec => TelephoneRefined
<1>1. Init => Tel!Init
  BY DEF Init
<1>2. JoiningOK /\ [Next]_vars => [Tel!Next]_(Tel!vars)
  BY TelephoneStep
<1> QED BY <1>1, <1>2, JoiningTyped, PTL DEF Spec, TelephoneRefined, Tel!Spec

-----------------------------------------------------------------------------
(* Seats and their reapers. *)

GraceInv == SeatsOK /\ GraceIsReaped

\* The same of one call.
Reaped(s, r) == /\ s \in [Phones -> Seat] /\ r \in [Phones -> Nat]
                /\ \A q \in Phones : s[q] = "grace" <=> r[q] > 0

\* Taking a seat stops its reaper, and arms that of the seat it leaves.
LEMMA TakeSeatReaps ==
  ASSUME GraceInv, NEW c \in Calls, NEW p \in Phones, NEW open, TakeSeat(c, p, open)
  PROVE  GraceInv'
<1> DEFINE left == {d \in Calls \ {c} : open /\ seats[d][p] = "on"}
           taken == IF open THEN "on" ELSE "ghost"
<1> USE PhonesAssumption DEF GraceInv, SeatsOK, GraceIsReaped, Reaped
<1>1. taken \in {"on", "ghost"}
  OBVIOUS
<1>2. /\ seats' = [d \in Calls |->
            IF d = c THEN [seats[c] EXCEPT ![p] = taken]
            ELSE IF d \in left THEN [seats[d] EXCEPT ![p] = "grace"] ELSE seats[d]]
      /\ reapers' = [d \in Calls |->
            IF d = c THEN [reapers[c] EXCEPT ![p] = 0]
            ELSE IF d \in left THEN [reapers[d] EXCEPT ![p] = DisconnectGrace + 1]
            ELSE reapers[d]]
  BY DEF TakeSeat
<1> HIDE DEF left, taken
<1>3. ASSUME NEW d \in Calls
      PROVE  Reaped(seats'[d], reapers'[d])
  <2>1. CASE d = c
    BY <1>1, <1>2, <2>1 DEF Seat
  <2>2. CASE d # c /\ d \in left
    BY <1>2, <2>2 DEF Seat
  <2>3. CASE d # c /\ d \notin left
    BY <1>2, <2>3
  <2> QED BY <2>1, <2>2, <2>3
<1> QED BY <1>2, <1>3

\* A call that is torn down leaves neither seats nor reapers.
LEMMA TeardownReaps ==
  ASSUME GraceInv, NEW c \in Calls, NEW by, Teardown(c, by)
  PROVE  GraceInv'
BY DEF GraceInv, GraceIsReaped, SeatsOK, Seat, Teardown

LEMMA DisconnectReaps ==
  ASSUME GraceInv, NEW p \in Phones, disconnect(p)
  PROVE  GraceInv'
<1> DEFINE on == {c \in Calls : seats[c][p] = "on"}
<1> USE PhonesAssumption DEF GraceInv, SeatsOK, GraceIsReaped, Reaped
<1>1. /\ seats' = [c \in Calls |->
            IF c \in on THEN [seats[c] EXCEPT ![p] = "grace"] ELSE seats[c]]
      /\ reapers' = [c \in Calls |->
            IF c \in on THEN [reapers[c] EXCEPT ![p] = DisconnectGrace + 1]
            ELSE reapers[c]]
  BY DEF disconnect
<1> HIDE DEF on
<1>2. ASSUME NEW d \in Calls
      PROVE  Reaped(seats'[d], reapers'[d])
  <2>1. CASE d \in on
    BY <1>1, <2>1 DEF Seat
  <2>2. CASE d \notin on
    BY <1>1, <2>2
  <2> QED BY <2>1, <2>2
<1> QED BY <1>1, <1>2

\* A tick never takes a reaper from due to disarmed.
LEMMA TickReaps ==
  ASSUME GraceInv, Tick
  PROVE  GraceInv'
<1>1. \A c \in Calls, p \in Phones :
        /\ reapers'[c][p] \in Nat
        /\ reapers'[c][p] > 0 <=> reapers[c][p] > 0
  BY DEF Tick, Tel!Passed, GraceInv, SeatsOK
<1>2. reapers' \in [Calls -> [Phones -> Nat]]
  BY <1>1 DEF Tick
<1> QED BY <1>1, <1>2 DEF Tick, GraceInv, SeatsOK, GraceIsReaped

LEMMA GraceStep ==
  ASSUME GraceInv, JoiningOK, [Next]_vars
  PROVE  GraceInv'
<1>1. CASE UNCHANGED <<seats, reapers>>
  BY <1>1 DEF GraceInv, SeatsOK, GraceIsReaped
<1>2. ASSUME NEW c \in Calls, NEW p \in Phones,
             joinExisting(c, p) \/ resume(c, p)
      PROVE  GraceInv'
  BY <1>2, TakeSeatReaps DEF joinExisting, resume, Joined
<1>3. ASSUME NEW c \in Calls, NEW p \in Phones,
             leave(c, p) \/ endCall(c, p) \/ reapSeat(c, p)
      PROVE  GraceInv'
  BY <1>3, TeardownReaps DEF leave, endCall, reapSeat, finalizeLeave
<1>4. ASSUME NEW p \in Phones, joinAuthorized(p)
      PROVE  GraceInv'
  <2>1. CASE UNCHANGED <<telephone, seats, reapers, forgets, probe>>
    BY <1>1, <2>1
  <2>2. CASE Joined(joining[p].call, p, joining[p].open)
    <3>1. joining[p].call \in Calls
      BY <1>4 DEF joinAuthorized, JoiningOK
    <3> QED BY <2>2, <3>1, TakeSeatReaps DEF Joined
  <2> QED BY <1>4, <2>1, <2>2 DEF joinAuthorized
<1>5. ASSUME NEW p \in Phones, joinResolved(p)
      PROVE  GraceInv'
  <2>1. joining[p].call \in Calls
    BY <1>5 DEF joinResolved, JoiningOK
  <2> QED BY <1>5, <2>1, TakeSeatReaps DEF joinResolved
<1>6. ASSUME NEW p \in Phones, joinRefused(p)
      PROVE  UNCHANGED <<seats, reapers>>
  BY <1>6 DEF joinRefused
<1>7. ASSUME NEW c \in Calls, NEW p \in Phones, NEW peer, joinUnknown(c, p, peer)
      PROVE  UNCHANGED <<seats, reapers>>
  BY <1>7 DEF joinUnknown
<1>8. ASSUME NEW c \in Calls, NEW n, NEW a,
             ringResult(c, n) \/ overHttp(c, a) \/ probeFlows(c)
               \/ probeStalls(c) \/ telephoneTimer(c) \/ forgetTimer(c)
      PROVE  UNCHANGED <<seats, reapers>>
  BY <1>8 DEF ringResult, overHttp, probeFlows, probeStalls, telephoneTimer,
              forgetTimer, session
<1>9. UNCHANGED vars => UNCHANGED <<seats, reapers>>
  BY DEF vars
<1> QED
  BY <1>1, <1>2, <1>3, <1>4, <1>5, <1>6, <1>7, <1>8, <1>9, DisconnectReaps,
     TickReaps
  DEF Next

\* However phones join, drop, resume, leave and are torn down, a seat in grace
\* has its reaper, and no other seat has one.
THEOREM GraceReaped == Spec => []GraceIsReaped
<1>1. Init => GraceInv
  BY DEF Init, GraceInv, SeatsOK, Seat, GraceIsReaped
<1>2. GraceInv /\ JoiningOK /\ [Next]_vars => GraceInv'
  BY GraceStep
<1>3. GraceInv => GraceIsReaped
  BY DEF GraceInv
<1> QED BY <1>1, <1>2, <1>3, JoiningTyped, PTL DEF Spec

-----------------------------------------------------------------------------
(* One call to a socket.                                                    *)

OneSeatInv ==
  /\ SeatsOK
  /\ \A p \in Phones : \A d, e \in Calls :
       seats[d][p] = "on" /\ seats[e][p] = "on" => d = e

\* Whoever takes a seat on an open socket has left every other; a join that
\* comes after its socket closed seats nobody on it.
LEMMA TakeSeatLeaves ==
  ASSUME SeatsOK, NEW c \in Calls, NEW p \in Phones, NEW open \in BOOLEAN,
         TakeSeat(c, p, open)
  PROVE  \A d \in Calls : \A q \in Phones : seats'[d][q] = "on" =>
           \/ seats[d][q] = "on" /\ (q = p => ~open)
           \/ q = p /\ open /\ d = c
<1> DEFINE left == {d \in Calls \ {c} : open /\ seats[d][p] = "on"}
           taken == IF open THEN "on" ELSE "ghost"
<1>1. seats' = [d \in Calls |->
            IF d = c THEN [seats[c] EXCEPT ![p] = taken]
            ELSE IF d \in left THEN [seats[d] EXCEPT ![p] = "grace"] ELSE seats[d]]
  BY DEF TakeSeat
<1> SUFFICES ASSUME NEW d \in Calls, NEW q \in Phones, seats'[d][q] = "on"
             PROVE  \/ seats[d][q] = "on" /\ (q = p => ~open)
                    \/ q = p /\ open /\ d = c
  OBVIOUS
<1>2. seats[d] \in [Phones -> Seat]
  BY DEF SeatsOK
<1>3. CASE d = c
  BY <1>1, <1>2, <1>3
<1>4. CASE d # c /\ d \in left
  BY <1>1, <1>2, <1>4
<1>5. CASE d # c /\ d \notin left
  BY <1>1, <1>2, <1>5
<1> QED
  BY <1>3, <1>4, <1>5

LEMMA OneSeatKept ==
  ASSUME OneSeatInv, SeatsOK', JoiningOK, [Next]_vars
  PROVE  OneSeatInv'
<1>1. ASSUME \A d \in Calls : \A q \in Phones :
               seats'[d][q] = "on" => seats[d][q] = "on"
      PROVE  OneSeatInv'
  BY <1>1 DEF OneSeatInv
<1>2. ASSUME UNCHANGED seats PROVE OneSeatInv'
  BY <1>2 DEF OneSeatInv
<1>3. ASSUME NEW c \in Calls, NEW p \in Phones, NEW open \in BOOLEAN,
             TakeSeat(c, p, open)
      PROVE  OneSeatInv'
  BY <1>3, TakeSeatLeaves DEF OneSeatInv
<1>4. ASSUME NEW c \in Calls, NEW by, Teardown(c, by) PROVE OneSeatInv'
  <2>1. \A d \in Calls : \A q \in Phones : seats'[d][q] = "on" => seats[d][q] = "on"
    BY <1>4 DEF Teardown, OneSeatInv, SeatsOK
  <2> QED
    BY <1>1, <2>1
<1>5. ASSUME NEW p \in Phones, disconnect(p) PROVE OneSeatInv'
  <2>1. seats' = [c \in Calls |->
           IF seats[c][p] = "on" THEN [seats[c] EXCEPT ![p] = "grace"] ELSE seats[c]]
    BY <1>5 DEF disconnect
  <2>2. \A d \in Calls : \A q \in Phones : seats'[d][q] = "on" => seats[d][q] = "on"
    BY <2>1 DEF OneSeatInv, SeatsOK
  <2> QED
    BY <1>1, <2>2
<1>6. ASSUME NEW c \in Calls, NEW p \in Phones, joinExisting(c, p) \/ resume(c, p)
      PROVE  OneSeatInv'
  BY <1>3, <1>6 DEF joinExisting, resume, Joined
<1>7. ASSUME NEW c \in Calls, NEW p \in Phones,
             leave(c, p) \/ endCall(c, p) \/ reapSeat(c, p)
      PROVE  OneSeatInv'
  BY <1>4, <1>7 DEF leave, endCall, reapSeat, finalizeLeave
<1>8. ASSUME NEW p \in Phones, joinAuthorized(p) \/ joinResolved(p)
      PROVE  OneSeatInv'
  <2>1. joining[p].open \in BOOLEAN
    BY DEF JoiningOK, Joins
  <2>2. joining[p].call \in Calls
    BY <1>8 DEF joinAuthorized, joinResolved, JoiningOK
  <2> QED
    BY <1>2, <1>3, <1>8, <2>1, <2>2 DEF joinAuthorized, joinResolved, Joined
<1>9. ASSUME NEW c, NEW p, NEW peer, joinUnknown(c, p, peer) \/ joinRefused(p)
      PROVE  UNCHANGED seats
  BY <1>9 DEF joinUnknown, joinRefused
<1>10. ASSUME NEW c, NEW n, NEW a,
              ringResult(c, n) \/ overHttp(c, a) \/ probeFlows(c)
                \/ probeStalls(c) \/ telephoneTimer(c) \/ forgetTimer(c)
      PROVE  UNCHANGED seats
  BY <1>10 DEF ringResult, overHttp, probeFlows, probeStalls, telephoneTimer,
               forgetTimer, session
<1>11. CASE Tick \/ UNCHANGED vars
  BY <1>2, <1>11 DEF Tick, vars
<1> QED
  BY <1>2, <1>5, <1>6, <1>7, <1>8, <1>9, <1>10, <1>11 DEF Next

\* No socket is in two calls at once: completeJoin abandons the seat it had, and
\* a join that outlived its socket takes none on it.
THEOREM OneSocketOneCall == Spec => []OneCallPerSocket
<1>1. Init => OneSeatInv
  BY DEF Init, OneSeatInv, SeatsOK, Seat
<1>2. GraceInv => SeatsOK
  BY DEF GraceInv
<1>3. OneSeatInv => OneCallPerSocket
  <2> SUFFICES ASSUME OneSeatInv, NEW p \in Phones
               PROVE  Cardinality({c \in Calls : seats[c][p] = "on"}) <= 1
    BY DEF OneCallPerSocket
  <2> DEFINE here == {c \in Calls : seats[c][p] = "on"}
  <2> SUFFICES Cardinality(here) <= 1
    OBVIOUS
  <2>1. CASE here = {}
    BY <2>1, FS_EmptySet
  <2>2. CASE here # {}
    <3>1. PICK c \in here : TRUE
      BY <2>2
    <3>2. here = {c}
      <4>1. \A d \in here : d = c
        BY <3>1 DEF OneSeatInv
      <4> QED
        BY <3>1, <4>1
    <3>3. Cardinality({c}) = 1
      BY FS_Singleton
    <3> HIDE DEF here
    <3>4. Cardinality(here) = 1
      BY <3>2, <3>3
    <3> QED
      BY <3>4
  <2> QED
    BY <2>1, <2>2
<1>4. Init => GraceInv
  BY DEF Init, GraceInv, SeatsOK, Seat, GraceIsReaped
<1>5. GraceInv /\ JoiningOK /\ [Next]_vars => GraceInv'
  BY GraceStep
<1>6. OneSeatInv /\ SeatsOK' /\ JoiningOK /\ [Next]_vars => OneSeatInv'
  BY OneSeatKept
<1> QED
  BY <1>1, <1>2, <1>3, <1>4, <1>5, <1>6, JoiningTyped, PTL DEF Spec

-----------------------------------------------------------------------------
(* What the telephone promises on its own, it keeps here.                  *)

TelP == INSTANCE DirectCallProofs

LEMMA SameTelephone == Tel!Spec => TelP!Spec
BY
DEF Tel!Unanswered, TelP!Unanswered, Tel!TERMINAL_STATES,
    TelP!TERMINAL_STATES, Tel!NoRecord, TelP!NoRecord, Tel!Reach,
    TelP!Reach, Tel!NoTimers, TelP!NoTimers, Tel!Exists, TelP!Exists,
    Tel!Live, TelP!Live, Tel!RingDisarmed, TelP!RingDisarmed,
    Tel!RingArmed, TelP!RingArmed, Tel!Claimed, TelP!Claimed,
    Tel!ReconnectSet, TelP!ReconnectSet, Tel!ReconnectDisarmed,
    TelP!ReconnectDisarmed, Tel!ReconnectArmed, TelP!ReconnectArmed,
    Tel!Disarmed, TelP!Disarmed, Tel!Moved, TelP!Moved, Tel!Finish,
    TelP!Finish, Tel!create, TelP!create, Tel!noteRingDispatch,
    TelP!noteRingDispatch, Tel!ringingAck, TelP!ringingAck, Tel!answering,
    TelP!answering, Tel!decline, TelP!decline, Tel!peerJoined,
    TelP!peerJoined, Tel!twoWayAudioFlows, TelP!twoWayAudioFlows,
    Tel!twoWayAudioStalls, TelP!twoWayAudioStalls, Tel!noteTwoWayAudio,
    TelP!noteTwoWayAudio, Tel!ended, TelP!ended, Tel!forget, TelP!forget,
    Tel!ringingWindowExpires, TelP!ringingWindowExpires,
    Tel!reconnectWindowExpires, TelP!reconnectWindowExpires,
    Tel!strayWindowExpires, TelP!strayWindowExpires, Tel!Expire,
    TelP!Expire, Tel!Passed, TelP!Passed, Tel!TickPassed, TelP!TickPassed,
    Tel!Tick, TelP!Tick, Tel!vars, TelP!vars, Tel!Init, TelP!Init,
    Tel!Next, TelP!Next, Tel!Spec, TelP!Spec

LEMMA SameTypes == TelP!TypeOK => Tel!TypeOK
BY DEF Tel!TypeOK, TelP!TypeOK, Tel!DirectCallRecord, TelP!DirectCallRecord,
       Tel!DirectCallState, TelP!DirectCallState, Tel!Unanswered,
       TelP!Unanswered, Tel!TERMINAL_STATES, TelP!TERMINAL_STATES, Tel!Reach,
       TelP!Reach, Tel!Timers, TelP!Timers

LEMMA SameAccount == TelP!CallIsAccounted => Tel!CallIsAccounted
BY DEF Tel!CallIsAccounted, TelP!CallIsAccounted, Tel!OutcomeOncePerCall,
       TelP!OutcomeOncePerCall, Tel!WaitingIsTimed, TelP!WaitingIsTimed,
       Tel!WordMatchesCall, TelP!WordMatchesCall, Tel!Unanswered,
       TelP!Unanswered, Tel!TERMINAL_STATES, TelP!TERMINAL_STATES

\* Driven by the runtime, every call is accounted for and well formed.
THEOREM TelephoneKept == Spec => [](Tel!TypeOK /\ Tel!CallIsAccounted)
<1>1. TelP!Spec => []TelP!TypeOK
  BY TelP!TypeCorrect, TelephoneAssumption
<1>2. TelP!Spec => []TelP!CallIsAccounted
  BY TelP!Safety, TelephoneAssumption
<1>3. Tel!Spec => TelP!Spec
  BY SameTelephone
<1>4. Spec => Tel!Spec
  BY RefinesTelephone DEF TelephoneRefined
<1> QED BY <1>1, <1>2, <1>3, <1>4, SameTypes, SameAccount, PTL

-----------------------------------------------------------------------------
(* What a step of the telephone can do with a record.                      *)

Talking == {"connecting", "connected", "reconnecting"}

TelOK == Tel!TypeOK /\ Tel!CallIsAccounted

\* The record of c moves on without being answered, hung up or replaced.
Kept(c) ==
  /\ rec'[c].state = "none" \/
       /\ rec'[c].caller = rec[c].caller /\ rec'[c].peer = rec[c].peer
       /\ rec'[c].answered = rec[c].answered /\ rec'[c].endedBy = rec[c].endedBy
  /\ Tel!Live(c)' => Tel!Live(c)
  /\ rec'[c].state \in Tel!Unanswered => rec[c].state \in Tel!Unanswered
  /\ rec'[c].state \in Talking => rec[c].state \in Talking
  /\ rec'[c].state = "ended" => rec[c].state = "ended"
  /\ timers'[c].stray = "armed" => timers[c].stray = "armed"

\* The records of the other calls and their timers stay.
Elsewhere(c) == \A d \in Calls \ {c} : rec'[d] = rec[d] /\ timers'[d] = timers[d]

LEMMA StatesDiffer ==
  /\ \A s \in Tel!TERMINAL_STATES :
       s \notin Tel!Unanswered /\ s \notin Talking /\ s # "none"
  /\ \A s \in Tel!Unanswered : s \notin Talking /\ s # "none" /\ s # "ended"
  /\ \A s \in Talking : s # "none" /\ s # "ended"
BY DEF Tel!TERMINAL_STATES, Tel!Unanswered, Talking

LEMMA StrayStays ==
  ASSUME NEW t \in Tel!Timers, NEW n \in Nat, NEW g \in BOOLEAN
  PROVE  /\ Tel!Disarmed(t).stray = "armed" => t.stray = "armed"
         /\ Tel!RingDisarmed(t).stray = t.stray
         /\ Tel!RingArmed(t, n, g).stray = t.stray
         /\ Tel!ReconnectDisarmed(t).stray = "armed" => t.stray = "armed"
         /\ Tel!ReconnectArmed(t).stray = "armed" => t.stray = "armed"
BY DEF Tel!Timers, Tel!Disarmed, Tel!RingDisarmed, Tel!RingArmed,
       Tel!ReconnectDisarmed, Tel!ReconnectArmed, Tel!ReconnectSet, Tel!Claimed

\* The inputs that neither answer a call nor hang it up.
LEMMA KeptByFinish ==
  ASSUME TelOK, NEW c \in Calls, NEW s \in Tel!TERMINAL_STATES \ {"ended"},
         Tel!Finish(c, s, rec[c].endedBy)
  PROVE  Kept(c) /\ Elsewhere(c)
<1>1. timers[c] \in Tel!Timers
  BY DEF TelOK, Tel!TypeOK
<1>2. Elsewhere(c)
  BY DEF Tel!Finish, Elsewhere, TelOK, Tel!TypeOK
<1>3. /\ rec'[c] = Tel!Moved(rec[c], s, rec[c].answered, rec[c].connected, rec[c].endedBy)
      /\ timers'[c] = Tel!Disarmed(timers[c])
  BY DEF Tel!Finish, TelOK, Tel!TypeOK
<1>4. /\ rec'[c].state = s
      /\ rec'[c].caller = rec[c].caller /\ rec'[c].peer = rec[c].peer
      /\ rec'[c].answered = rec[c].answered /\ rec'[c].endedBy = rec[c].endedBy
  BY <1>3 DEF Tel!Moved
<1>5. timers'[c].stray = "armed" => timers[c].stray = "armed"
  BY <1>1, <1>3, StrayStays
<1> QED BY <1>2, <1>4, <1>5, StatesDiffer DEF Kept, Tel!Live

LEMMA KeptUnchanged ==
  ASSUME NEW c \in Calls, UNCHANGED Tel!vars
  PROVE  Kept(c) /\ Elsewhere(c)
BY DEF Tel!vars, Kept, Elsewhere, Tel!Live, Tel!Exists

\* Only the state changes, among those that say the same.
LEMMA KeptByState ==
  ASSUME TelOK, NEW c \in Calls, NEW s,
         \/ s \in Tel!Unanswered /\ rec[c].state \in Tel!Unanswered
         \/ s \in Talking /\ rec[c].state \in Talking,
         rec' = [rec EXCEPT ![c].state = s],
         \E t \in {timers[c], Tel!RingArmed(timers[c], AnswerGrace, TRUE),
                   Tel!ReconnectArmed(timers[c])} :
           timers' = [timers EXCEPT ![c] = t]
  PROVE  Kept(c) /\ Elsewhere(c)
<1>1. timers[c] \in Tel!Timers
  BY DEF TelOK, Tel!TypeOK
<1>2. Elsewhere(c)
  BY DEF Elsewhere, TelOK, Tel!TypeOK
<1>3. /\ rec'[c].state = s
      /\ rec'[c].caller = rec[c].caller /\ rec'[c].peer = rec[c].peer
      /\ rec'[c].answered = rec[c].answered /\ rec'[c].endedBy = rec[c].endedBy
  BY DEF TelOK, Tel!TypeOK, Tel!DirectCallRecord
<1>4. timers'[c] \in {timers[c], Tel!RingArmed(timers[c], AnswerGrace, TRUE),
                     Tel!ReconnectArmed(timers[c])}
  BY DEF TelOK, Tel!TypeOK
<1>5. timers'[c].stray = "armed" => timers[c].stray = "armed"
  <2>1. AnswerGrace \in Nat /\ TRUE \in BOOLEAN
    BY TelephoneAssumption
  <2>2. CASE timers'[c] = timers[c]
    BY <2>2
  <2>3. CASE timers'[c] = Tel!RingArmed(timers[c], AnswerGrace, TRUE)
    BY <1>1, <2>1, <2>3, StrayStays
  <2>4. CASE timers'[c] = Tel!ReconnectArmed(timers[c])
    BY <1>1, <2>1, <2>4, StrayStays
  <2> QED BY <1>4, <2>2, <2>3, <2>4
<1>6. Tel!Live(c)
  BY StatesDiffer DEF Tel!Live, Tel!Exists
<1> QED BY <1>2, <1>3, <1>5, <1>6, StatesDiffer DEF Kept

LEMMA KeptByInput ==
  ASSUME TelOK, NEW c \in Calls, NEW a, NEW n \in Tel!Reach,
         \/ Tel!noteRingDispatch(c, n) \/ Tel!ringingAck(c, a)
         \/ Tel!answering(c, a) \/ Tel!decline(c, a)
  PROVE  Kept(c) /\ Elsewhere(c)
<1>1. CASE Tel!ringingAck(c, a)
  <2>1. timers' = [timers EXCEPT ![c] = timers[c]]
    BY <1>1 DEF Tel!ringingAck, TelOK, Tel!TypeOK
  <2> QED BY <1>1, <2>1, KeptByState DEF Tel!ringingAck, Tel!Unanswered
<1>2. CASE Tel!answering(c, a)
  <2>1. timers' = [timers EXCEPT ![c] = Tel!RingArmed(timers[c], AnswerGrace, TRUE)]
    BY <1>2 DEF Tel!answering
  <2> QED BY <1>2, <2>1, KeptByState DEF Tel!answering, Tel!Unanswered
<1>3. CASE Tel!decline(c, a)
  BY <1>3, KeptByFinish DEF Tel!decline, Tel!TERMINAL_STATES
<1>4. CASE Tel!noteRingDispatch(c, n)
  <2>1. rec[c].state # "none" /\ rec[c] \in Tel!DirectCallRecord
    BY <1>4 DEF Tel!noteRingDispatch, Tel!Live, Tel!Exists, TelOK, Tel!TypeOK
  <2>2. timers[c] \in Tel!Timers
    BY DEF TelOK, Tel!TypeOK
  <2>3. CASE n = "zero" /\ rec[c].state = "calling"
    <3>1. /\ rec'[c].state = "unavailable"
          /\ rec'[c].caller = rec[c].caller /\ rec'[c].peer = rec[c].peer
          /\ rec'[c].answered = rec[c].answered /\ rec'[c].endedBy = rec[c].endedBy
          /\ timers'[c] = Tel!Disarmed(timers[c])
      BY <1>4, <2>1, <2>3
      DEF Tel!noteRingDispatch, Tel!Moved, TelOK, Tel!TypeOK, Tel!DirectCallRecord
    <3>2. Elsewhere(c)
      BY <1>4, <2>3 DEF Tel!noteRingDispatch, Elsewhere, TelOK, Tel!TypeOK
    <3>3. Tel!Live(c)
      BY <1>4 DEF Tel!noteRingDispatch
    <3> QED BY <2>2, <3>1, <3>2, <3>3, StrayStays, StatesDiffer
            DEF Kept, Tel!Unanswered, Talking
  <2>4. CASE ~(n = "zero" /\ rec[c].state = "calling")
    <3>1. /\ rec'[c].state = rec[c].state
          /\ rec'[c].caller = rec[c].caller /\ rec'[c].peer = rec[c].peer
          /\ rec'[c].answered = rec[c].answered /\ rec'[c].endedBy = rec[c].endedBy
          /\ timers' = timers
      BY <1>4, <2>1, <2>4
      DEF Tel!noteRingDispatch, TelOK, Tel!TypeOK, Tel!DirectCallRecord
    <3>2. Elsewhere(c)
      BY <1>4, <2>4 DEF Tel!noteRingDispatch, Elsewhere, TelOK, Tel!TypeOK
    <3> QED BY <3>1, <3>2 DEF Kept, Tel!Live, Tel!Exists
  <2> QED BY <2>3, <2>4
<1> QED BY <1>1, <1>2, <1>3, <1>4

LEMMA KeptByMedia ==
  ASSUME TelOK, NEW c \in Calls, NEW twoWay \in BOOLEAN,
         Tel!noteTwoWayAudio(c, twoWay)
  PROVE  Kept(c) /\ Elsewhere(c)
<1>1. CASE twoWay /\ rec[c].state \in {"connecting", "reconnecting"}
  <2>1. timers[c] \in Tel!Timers /\ rec[c] \in Tel!DirectCallRecord
    BY DEF TelOK, Tel!TypeOK
  <2>2. /\ rec'[c].state = "connected"
        /\ rec'[c].caller = rec[c].caller /\ rec'[c].peer = rec[c].peer
        /\ rec'[c].answered = rec[c].answered /\ rec'[c].endedBy = rec[c].endedBy
        /\ timers'[c] = Tel!ReconnectDisarmed(timers[c])
    BY <1>1 DEF Tel!noteTwoWayAudio, Tel!twoWayAudioFlows, Tel!Moved, TelOK, Tel!TypeOK
  <2>3. Elsewhere(c)
    BY <1>1 DEF Tel!noteTwoWayAudio, Tel!twoWayAudioFlows, Elsewhere, TelOK, Tel!TypeOK
  <2>4. Tel!Live(c)
    BY <1>1 DEF Tel!Live, Tel!Exists, Tel!TERMINAL_STATES
  <2> QED BY <1>1, <2>1, <2>2, <2>3, <2>4, StrayStays DEF Kept, Tel!Unanswered, Talking
<1>2. CASE ~twoWay /\ rec[c].state = "connected"
  BY <1>2, KeptByState DEF Tel!noteTwoWayAudio, Tel!twoWayAudioStalls, Talking
<1>3. CASE UNCHANGED Tel!vars
  BY <1>3, KeptUnchanged
<1> QED BY <1>1, <1>2, <1>3
        DEF Tel!noteTwoWayAudio, Tel!twoWayAudioFlows, Tel!twoWayAudioStalls

LEMMA KeptByExpiry ==
  ASSUME TelOK, NEW c \in Calls, Tel!Expire(c)
  PROVE  Kept(c) /\ Elsewhere(c)
<1>1. CASE Tel!ringingWindowExpires(c)
  BY <1>1, KeptByFinish DEF Tel!ringingWindowExpires, Tel!TERMINAL_STATES
<1>2. CASE Tel!reconnectWindowExpires(c)
  BY <1>2, KeptByFinish DEF Tel!reconnectWindowExpires, Tel!TERMINAL_STATES
<1>3. CASE Tel!strayWindowExpires(c)
  BY <1>3 DEF Tel!strayWindowExpires, TelOK, Tel!TypeOK, Kept, Elsewhere, Tel!Live,
              Tel!Exists
<1> QED BY <1>1, <1>2, <1>3 DEF Tel!Expire

LEMMA KeptByForget ==
  ASSUME TelOK, NEW c \in Calls, Tel!forget(c)
  PROVE  Kept(c) /\ Elsewhere(c)
<1>1. rec'[c].state = "none" /\ timers'[c].stray = "no"
  BY DEF Tel!forget, TelOK, Tel!TypeOK, Tel!NoRecord, Tel!NoTimers
<1>2. Elsewhere(c)
  BY DEF Tel!forget, Elsewhere, TelOK, Tel!TypeOK
<1> QED BY <1>1, <1>2, StatesDiffer DEF Kept, Tel!Live, Tel!Exists

\* A verified join answers the call or changes nothing.
LEMMA JoinEffect ==
  ASSUME TelOK, NEW c \in Calls, NEW a, Tel!peerJoined(c, a)
  PROVE  /\ Elsewhere(c)
         /\ timers'[c].stray = timers[c].stray
         /\ IF Tel!Exists(c) /\ rec[c].peer = a /\ rec[c].state \in Tel!Unanswered
            THEN /\ rec'[c].state = "connecting" /\ rec'[c].answered
                 /\ rec'[c].caller = rec[c].caller /\ rec'[c].peer = rec[c].peer
            ELSE rec'[c] = rec[c]
<1>1. CASE UNCHANGED Tel!vars /\ ~(Tel!Exists(c) /\ rec[c].peer = a
                                  /\ rec[c].state \in Tel!Unanswered)
  BY <1>1 DEF Elsewhere, Tel!vars
<1>2. CASE Tel!Exists(c) /\ rec[c].peer = a /\ rec[c].state \in Tel!Unanswered
  <2>1. /\ rec' = [rec EXCEPT ![c] = Tel!Moved(rec[c], "connecting", TRUE,
                                        rec[c].connected, rec[c].endedBy)]
        /\ timers' = [timers EXCEPT ![c] = Tel!RingDisarmed(timers[c])]
    BY <1>2 DEF Tel!peerJoined
  <2>2. timers[c] \in Tel!Timers
    BY DEF TelOK, Tel!TypeOK
  <2>3. timers'[c].stray = timers[c].stray
    BY <2>1, <2>2 DEF Tel!RingDisarmed, TelOK, Tel!TypeOK, Tel!Timers
  <2>4. Elsewhere(c)
    BY <2>1 DEF Elsewhere, TelOK, Tel!TypeOK
  <2>5. /\ rec'[c].state = "connecting" /\ rec'[c].answered
        /\ rec'[c].caller = rec[c].caller /\ rec'[c].peer = rec[c].peer
    BY <2>1 DEF Tel!Moved, TelOK, Tel!TypeOK
  <2> QED BY <1>2, <2>3, <2>4, <2>5
<1> QED BY <1>1, <1>2 DEF Tel!peerJoined

\* A hang-up finishes a live call in the name given, and changes no other.
LEMMA EndEffect ==
  ASSUME TelOK, NEW c \in Calls, NEW by, Tel!ended(c, by)
  PROVE  /\ Elsewhere(c)
         /\ timers'[c].stray = "armed" => timers[c].stray = "armed"
         /\ IF Tel!Live(c)
            THEN /\ rec'[c].state = IF rec[c].answered THEN "ended" ELSE "no_answer"
                 /\ rec'[c].caller = rec[c].caller /\ rec'[c].peer = rec[c].peer
                 /\ rec'[c].endedBy = by
            ELSE rec'[c] = rec[c]
<1>1. CASE UNCHANGED Tel!vars /\ ~Tel!Live(c)
  BY <1>1 DEF Elsewhere, Tel!vars
<1>2. CASE Tel!Live(c)
  <2> DEFINE s == IF rec[c].answered THEN "ended" ELSE "no_answer"
  <2>1. Tel!Finish(c, s, by)
    BY <1>2 DEF Tel!ended
  <2> HIDE DEF s
  <2>2. /\ rec' = [rec EXCEPT ![c] = Tel!Moved(rec[c], s, rec[c].answered,
                                        rec[c].connected, by)]
        /\ timers' = [timers EXCEPT ![c] = Tel!Disarmed(timers[c])]
    BY <2>1 DEF Tel!Finish
  <2>3. timers[c] \in Tel!Timers
    BY DEF TelOK, Tel!TypeOK
  <2>4. timers'[c].stray = "armed" => timers[c].stray = "armed"
    <3>1. timers'[c] = Tel!Disarmed(timers[c])
      BY <2>2 DEF TelOK, Tel!TypeOK
    <3> QED BY <2>3, <3>1, StrayStays
  <2>5. Elsewhere(c)
    BY <2>2 DEF Elsewhere, TelOK, Tel!TypeOK
  <2>6. /\ rec'[c].state = s /\ rec'[c].endedBy = by
        /\ rec'[c].caller = rec[c].caller /\ rec'[c].peer = rec[c].peer
    BY <2>2 DEF Tel!Moved, TelOK, Tel!TypeOK
  <2> QED BY <1>2, <2>4, <2>5, <2>6 DEF s
<1> QED BY <1>1, <1>2 DEF Tel!ended

\* A new record names its parties and waits, unless the peer is busy; only a
\* call that reconnects leaves a window behind.
LEMMA CreateEffect ==
  ASSUME TelOK, NEW c \in Calls, NEW a, NEW b, NEW busy \in BOOLEAN,
         Tel!create(c, a, b, busy)
  PROVE  /\ Elsewhere(c)
         /\ rec[c].state # "reconnecting" /\ timers[c].stray # "armed"
              => timers'[c].stray # "armed"
         /\ rec'[c].state = IF busy THEN "busy" ELSE "calling"
         /\ rec'[c].caller = a /\ rec'[c].peer = b /\ ~rec'[c].answered
<1> DEFINE kept == [timers[c] EXCEPT !.stray =
              IF rec[c].state = "reconnecting" /\ timers[c].reconnect > 0
              THEN "armed" ELSE IF @ = "fired" THEN "no" ELSE @]
<1>1. timers[c] \in Tel!Timers
  BY DEF TelOK, Tel!TypeOK
<1>2. kept \in Tel!Timers
  BY <1>1 DEF Tel!Timers
<1>3. rec[c].state # "reconnecting" /\ timers[c].stray # "armed" => kept.stray # "armed"
  BY <1>1 DEF Tel!Timers
<1>4. timers' = [timers EXCEPT ![c] = IF busy THEN Tel!Disarmed(kept)
                                     ELSE Tel!RingArmed(kept, RingingWindow, FALSE)]
  BY DEF Tel!create
<1> HIDE DEF kept
<1>5. timers'[c].stray = "armed" => kept.stray = "armed"
  <2>1. RingingWindow \in Nat /\ FALSE \in BOOLEAN
    BY TelephoneAssumption
  <2>2. CASE busy
    <3>1. timers'[c] = Tel!Disarmed(kept)
      BY <1>4, <2>2 DEF TelOK, Tel!TypeOK
    <3> QED BY <1>2, <3>1, <2>1, StrayStays
  <2>3. CASE ~busy
    <3>1. timers'[c] = Tel!RingArmed(kept, RingingWindow, FALSE)
      BY <1>4, <2>3 DEF TelOK, Tel!TypeOK
    <3> QED BY <1>2, <3>1, <2>1, StrayStays
  <2> QED BY <2>2, <2>3
<1>6. Elsewhere(c)
  BY <1>4 DEF Tel!create, Elsewhere, TelOK, Tel!TypeOK
<1>7. /\ rec'[c].state = IF busy THEN "busy" ELSE "calling"
      /\ rec'[c].caller = a /\ rec'[c].peer = b /\ ~rec'[c].answered
  BY DEF Tel!create, TelOK, Tel!TypeOK
<1> QED BY <1>3, <1>5, <1>6, <1>7

-----------------------------------------------------------------------------
(* The telephone and the session tell the same story.                      *)

\* At most two parties, one seat each.
Crowd(c) ==
  /\ IsFiniteSet(Seated(c))
  /\ \A p, q, r \in Seated(c) : p = q \/ p = r \/ q = r
  /\ \A p, q \in Seated(c) : AccountOf[p] = AccountOf[q] => p = q

HasSeat(c, a) == \E p \in Seated(c) : AccountOf[p] = a

Story(c) ==
  /\ Tel!Live(c) => HasSeat(c, rec[c].caller) /\ rec[c].caller # rec[c].peer
  /\ Tel!Live(c) /\ rec[c].answered => HasSeat(c, rec[c].peer)
  /\ rec[c].state \in Tel!Unanswered =>
       \A p \in Phones : seats[c][p] \in Connected => AccountOf[p] # rec[c].peer
  /\ rec[c].state = "ended" => rec[c].endedBy \in {rec[c].caller, rec[c].peer}
  /\ rec[c].state \in Talking => probe[c].on
  /\ timers[c].stray # "armed"

\* Nobody calls itself.
PeersDiffer ==
  \A p \in Phones : joining[p].step # "idle" => joining[p].peer # AccountOf[p]

Probes == [on : BOOLEAN, flowed : BOOLEAN, caller : Accounts \cup {Nobody},
           peer : Accounts \cup {Nobody}]
ProbeOK == probe \in [Calls -> Probes]

StoryInv ==
  /\ SeatsOK /\ JoiningOK /\ PeersDiffer
  /\ ProbeOK
  /\ \A c \in Calls : Crowd(c) /\ Story(c)

LEMMA StoryAgrees ==
  ASSUME StoryInv
  PROVE  TelephoneAndSessionAgree
<1>1. NoTelephoneWithoutSession
  BY DEF StoryInv, Story, HasSeat, NoTelephoneWithoutSession, Session
<1>2. PeerInCallIsAnswer
  BY DEF StoryInv, Story, PeerInCallIsAnswer
<1>3. AnsweredHasBothSeats
  BY DEF StoryInv, Story, HasSeat, AnsweredHasBothSeats, SeatsOf
<1>4. CompletedNamesWhoHungUp
  BY DEF StoryInv, Story, CompletedNamesWhoHungUp
<1>5. ProbeRunsWhileAnswered
  BY DEF StoryInv, Story, Talking, ProbeRunsWhileAnswered
<1> QED BY <1>1, <1>2, <1>3, <1>4, <1>5 DEF TelephoneAndSessionAgree

\* A call whose seats did not grow and whose connected seats did not either,
\* and whose record was kept.
LEMMA StoryKept ==
  ASSUME NEW c \in Calls, Story(c), Kept(c),
         Seated(c)' = Seated(c),
         \A p \in Phones : seats'[c][p] \in Connected => seats[c][p] \in Connected,
         rec'[c].state \in Talking => probe'[c].on
  PROVE  Story(c)'
<1>1. CASE rec'[c].state = "none"
  BY <1>1, StatesDiffer DEF Story, Kept, Tel!Live, Tel!Exists
<1>2. CASE rec'[c].state # "none"
  BY <1>2 DEF Story, Kept, HasSeat
<1> QED BY <1>1, <1>2

\* The same of a call no step touches but to move its sockets elsewhere.
LEMMA StoryElsewhere ==
  ASSUME NEW c \in Calls, Story(c),
         rec'[c] = rec[c], timers'[c].stray = timers[c].stray, probe'[c] = probe[c],
         Seated(c)' = Seated(c),
         \A p \in Phones : seats'[c][p] \in Connected => seats[c][p] \in Connected
  PROVE  Story(c)'
BY DEF Story, HasSeat, Tel!Live, Tel!Exists

\* A call with a free seat has one party at most.
LEMMA FreeSeat ==
  ASSUME NEW c \in Calls, Crowd(c), NEW p \in Phones, Admits(c, p)
  PROVE  /\ \A q, r \in Seated(c) : q = r
         /\ \A q \in Seated(c) : AccountOf[q] # AccountOf[p]
<1>1. ASSUME NEW q \in Seated(c), NEW r \in Seated(c), q # r
      PROVE  FALSE
  <2>1. {q, r} \subseteq Seated(c) /\ IsFiniteSet(Seated(c))
    BY DEF Crowd
  <2>2. Cardinality({q, r}) = 2
    <3>1. IsFiniteSet({q}) /\ Cardinality({q}) = 1
      BY FS_Singleton
    <3>2. \A x : Cardinality({q} \cup {x}) =
                  IF x \in {q} THEN Cardinality({q}) ELSE Cardinality({q}) + 1
      BY <3>1, FS_AddElement
    <3>3. r \notin {q} /\ {q} \cup {r} = {q, r}
      BY <1>1
    <3>4. Cardinality({q, r}) = Cardinality({q}) + 1
      BY <3>2, <3>3, Zenon
    <3> QED BY <3>1, <3>4
  <2>3. Cardinality({q, r}) <= Cardinality(Seated(c))
    BY <2>1, FS_Subset
  <2>4. Cardinality(Seated(c)) \in Nat
    BY <2>1, FS_CardinalityType
  <2> QED BY <2>2, <2>3, <2>4 DEF Admits, PERSONAL_CALL_SEATS
<1> QED BY <1>1 DEF Admits, SeatsOf

\* The parties of an answered call are the only ones seated, and both are.
LEMMA BothParties ==
  ASSUME NEW c \in Calls, Crowd(c), Story(c), Tel!Live(c), rec[c].answered
  PROVE  \A p \in Seated(c) : /\ AccountOf[p] \in {rec[c].caller, rec[c].peer}
                             /\ Seated(c) # {p}
BY DEF Crowd, Story, HasSeat

LEMMA TakeSeatEffect ==
  ASSUME SeatsOK, NEW c \in Calls, NEW p \in Phones, NEW open, TakeSeat(c, p, open)
  PROVE  /\ Seated(c)' = Seated(c) \cup {p}
         /\ \A d \in Calls \ {c} : Seated(d)' = Seated(d)
         /\ \A d \in Calls, q \in Phones : seats'[d][q] \in Connected =>
              (d = c /\ q = p) \/ seats[d][q] \in Connected
<1> DEFINE left == {d \in Calls \ {c} : open /\ seats[d][p] = "on"}
           taken == IF open THEN "on" ELSE "ghost"
<1>1. taken \in {"on", "ghost"}
  OBVIOUS
<1>2. seats' = [d \in Calls |->
            IF d = c THEN [seats[c] EXCEPT ![p] = taken]
            ELSE IF d \in left THEN [seats[d] EXCEPT ![p] = "grace"] ELSE seats[d]]
  BY DEF TakeSeat
<1>3. \A d \in left : d # c /\ seats[d][p] = "on"
  OBVIOUS
<1> HIDE DEF left, taken
<1>4. \A q \in Phones : seats'[c][q] = IF q = p THEN taken ELSE seats[c][q]
  BY <1>2 DEF SeatsOK
<1>5. \A d \in Calls \ {c}, q \in Phones :
        seats'[d][q] = IF d \in left /\ q = p THEN "grace" ELSE seats[d][q]
  BY <1>2 DEF SeatsOK
<1>6. Seated(c)' = Seated(c) \cup {p}
  BY <1>1, <1>4 DEF Seated
<1>7. \A d \in Calls \ {c} : Seated(d)' = Seated(d)
  BY <1>3, <1>5 DEF Seated
<1>8. \A d \in Calls, q \in Phones : seats'[d][q] \in Connected =>
        (d = c /\ q = p) \/ seats[d][q] \in Connected
  BY <1>4, <1>5 DEF Connected
<1> QED BY <1>6, <1>7, <1>8

LEMMA CrowdGrows ==
  ASSUME NEW c \in Calls, Crowd(c), NEW p \in Phones,
         Admits(c, p) \/ p \in Seated(c), Seated(c)' = Seated(c) \cup {p}
  PROVE  Crowd(c)'
<1>1. CASE p \in Seated(c)
  <2>1. Seated(c)' = Seated(c)
    BY <1>1
  <2> QED BY <2>1 DEF Crowd
<1>2. CASE Admits(c, p)
  <2>1. IsFiniteSet(Seated(c)')
    BY FS_AddElement DEF Crowd
  <2>2. /\ \A q, r \in Seated(c) : q = r
        /\ \A q \in Seated(c) : AccountOf[q] # AccountOf[p]
    BY <1>2, FreeSeat
  <2> QED BY <2>1, <2>2 DEF Crowd
<1> QED BY <1>1, <1>2

\* The probe of c is on once its call talks, and the others' are left alone.
LEMMA ProbeEffect ==
  ASSUME ProbeOK, TelOK', NEW c \in Calls, ProbeFollows(c)
  PROVE  /\ ProbeOK'
         /\ \A d \in Calls \ {c} : probe'[d] = probe[d]
         /\ (/\ rec[c].state \in Talking => probe[c].on
             /\ rec[c].state \in Talking \/ rec'[c].state = "connecting"
             /\ rec'[c].state \in Talking)
               => probe'[c].on
<1> DEFINE started == [on |-> TRUE, flowed |-> FALSE,
                       caller |-> rec'[c].caller, peer |-> rec'[c].peer]
           starts == rec'[c].state = "connecting" /\ rec[c].state # "connecting"
           stops == outcomes'[c] = 1 /\ (outcomes[c] = 0 \/ rec'[c].state = "busy")
<1>0. rec'[c].state \in Talking => ~stops
  BY StatesDiffer DEF TelOK, Tel!CallIsAccounted, Tel!OutcomeOncePerCall
<1>1. PICK now : /\ probe' = [probe EXCEPT ![c] = now]
                 /\ \/ starts /\ now = started
                    \/ ~starts /\ stops /\ now = NoProbe
                    \/ ~starts /\ ~stops /\ now = probe[c]
  <2>1. CASE starts
    <3>1. probe' = [probe EXCEPT ![c] = started]
      BY <1>0, <2>1 DEF Talking, ProbeFollows
    <3> QED BY <2>1, <3>1
  <2>2. CASE ~starts /\ stops
    BY <2>2 DEF ProbeFollows
  <2>3. CASE ~starts /\ ~stops
    <3>1. probe' = [probe EXCEPT ![c] = probe[c]]
      BY <2>3 DEF ProbeFollows, ProbeOK
    <3> QED BY <2>3, <3>1
  <2> QED BY <2>1, <2>2, <2>3
<1>2. started \in Probes /\ started.on /\ NoProbe \in Probes
  BY DEF Probes, NoProbe, TelOK, Tel!TypeOK, Tel!DirectCallRecord
<1> HIDE DEF started, stops
<1>3. now \in Probes
  BY <1>1, <1>2 DEF ProbeOK
<1>4. ProbeOK' /\ \A d \in Calls \ {c} : probe'[d] = probe[d]
  BY <1>1, <1>3 DEF ProbeOK
<1>5. ASSUME rec[c].state \in Talking => probe[c].on,
             rec[c].state \in Talking \/ rec'[c].state = "connecting",
             rec'[c].state \in Talking
      PROVE  probe'[c].on
  <2>1. ~stops
    BY <1>0, <1>5
  <2>2. probe'[c] = now
    BY <1>1 DEF ProbeOK
  <2>3. CASE starts
    BY <1>1, <1>2, <2>2, <2>3
  <2>4. CASE ~starts
    BY <1>1, <1>5, <2>1, <2>2, <2>4 DEF Talking
  <2> QED BY <2>3, <2>4
<1> QED BY <1>4, <1>5

\* One call moves, the others are at most left by a socket.
LEMMA OthersKeepStory ==
  ASSUME \A d \in Calls : Crowd(d) /\ Story(d), NEW c \in Calls, Elsewhere(c),
         \A d \in Calls \ {c} :
           /\ probe'[d] = probe[d] /\ Seated(d)' = Seated(d)
           /\ \A p \in Phones : seats'[d][p] \in Connected => seats[d][p] \in Connected
  PROVE  \A d \in Calls \ {c} : Crowd(d)' /\ Story(d)'
<1> TAKE d \in Calls \ {c}
<1>1. Crowd(d)'
  BY DEF Crowd
<1>2. Story(d)'
  BY StoryElsewhere DEF Elsewhere
<1> QED BY <1>1, <1>2

\* A verified join, fresh or resumed.
LEMMA JoinKeepsStory ==
  ASSUME StoryInv, TelOK, TelOK', NEW c \in Calls, NEW p \in Phones, NEW open,
         Admits(c, p) \/ p \in Seated(c),
         Tel!peerJoined(c, AccountOf[p]), TakeSeat(c, p, open), ProbeFollows(c)
  PROVE  ProbeOK' /\ \A d \in Calls : Crowd(d)' /\ Story(d)'
<1>1. /\ Crowd(c) /\ Story(c) /\ ProbeOK /\ SeatsOK
      /\ \A d \in Calls : Crowd(d) /\ Story(d)
  BY DEF StoryInv
<1>2. /\ Seated(c)' = Seated(c) \cup {p}
      /\ \A d \in Calls \ {c} : Seated(d)' = Seated(d)
      /\ \A d \in Calls, q \in Phones : seats'[d][q] \in Connected =>
           (d = c /\ q = p) \/ seats[d][q] \in Connected
  BY <1>1, TakeSeatEffect
<1>3. Crowd(c)'
  BY <1>1, <1>2, CrowdGrows
<1>4. /\ ProbeOK'
      /\ \A d \in Calls \ {c} : probe'[d] = probe[d]
      /\ (/\ rec[c].state \in Talking => probe[c].on
          /\ rec[c].state \in Talking \/ rec'[c].state = "connecting"
          /\ rec'[c].state \in Talking)
            => probe'[c].on
  BY <1>1, ProbeEffect
<1>5. /\ Elsewhere(c)
      /\ timers'[c].stray = timers[c].stray
      /\ IF Tel!Exists(c) /\ rec[c].peer = AccountOf[p] /\ rec[c].state \in Tel!Unanswered
         THEN /\ rec'[c].state = "connecting" /\ rec'[c].answered
              /\ rec'[c].caller = rec[c].caller /\ rec'[c].peer = rec[c].peer
         ELSE rec'[c] = rec[c]
  BY JoinEffect
<1>6. Story(c)'
  <2>1. CASE Tel!Exists(c) /\ rec[c].peer = AccountOf[p] /\ rec[c].state \in Tel!Unanswered
    <3>1. Tel!Live(c)
      BY <2>1, StatesDiffer DEF Tel!Live
    <3>2. "connecting" \in Talking
      BY DEF Talking
    <3>3. probe'[c].on
      BY <1>1, <1>4, <1>5, <2>1, <3>2 DEF Story
    <3>4. /\ \E q \in Seated(c)' : AccountOf[q] = rec'[c].peer
          /\ \E q \in Seated(c)' : AccountOf[q] = rec'[c].caller
      BY <1>1, <1>2, <1>5, <2>1, <3>1 DEF HasSeat, Story
    <3> QED BY <1>1, <1>5, <2>1, <3>1, <3>2, <3>3, <3>4, StatesDiffer
            DEF Story, HasSeat
  <2>2. CASE ~(Tel!Exists(c) /\ rec[c].peer = AccountOf[p]
               /\ rec[c].state \in Tel!Unanswered)
    <3>1. rec'[c] = rec[c]
      BY <1>5, <2>2
    <3>2. Tel!Live(c)' = Tel!Live(c)
      BY <3>1 DEF Tel!Live, Tel!Exists
    <3>3. \A a : HasSeat(c, a) => \E q \in Seated(c)' : AccountOf[q] = a
      BY <1>2 DEF HasSeat
    <3>4. rec'[c].state \in Talking => probe'[c].on
      BY <1>1, <1>4, <3>1 DEF Story
    <3>5. rec'[c].state \in Tel!Unanswered =>
            \A q \in Phones : seats'[c][q] \in Connected => AccountOf[q] # rec'[c].peer
      BY <1>1, <1>2, <2>2, <3>1, StatesDiffer DEF Story, Tel!Exists
    <3> QED BY <1>1, <1>5, <3>1, <3>2, <3>3, <3>4, <3>5 DEF Story, HasSeat
  <2> QED BY <2>1, <2>2
<1>7. \A d \in Calls \ {c} : Crowd(d)' /\ Story(d)'
  BY <1>1, <1>2, <1>4, <1>5, OthersKeepStory
<1> QED BY <1>3, <1>4, <1>6, <1>7

\* A call that begins: a session of one, and a telephone that is calling.
LEMMA CreateKeepsStory ==
  ASSUME StoryInv, TelOK, TelOK', NEW c \in Calls, NEW p \in Phones, NEW open,
         NEW peer \in Accounts, peer # AccountOf[p], Admits(c, p),
         Tel!create(c, AccountOf[p], peer, hasConnectedAccount(peer)),
         TakeSeat(c, p, open), ProbeFollows(c)
  PROVE  ProbeOK' /\ \A d \in Calls : Crowd(d)' /\ Story(d)'
<1>1. /\ Crowd(c) /\ Story(c) /\ ProbeOK /\ SeatsOK
      /\ \A d \in Calls : Crowd(d) /\ Story(d)
  BY DEF StoryInv
<1>2. /\ Seated(c)' = Seated(c) \cup {p}
      /\ \A d \in Calls \ {c} : Seated(d)' = Seated(d)
      /\ \A d \in Calls, q \in Phones : seats'[d][q] \in Connected =>
           (d = c /\ q = p) \/ seats[d][q] \in Connected
  BY <1>1, TakeSeatEffect
<1>3. Crowd(c)'
  BY <1>1, <1>2, CrowdGrows
<1>4. ProbeOK' /\ \A d \in Calls \ {c} : probe'[d] = probe[d]
  BY <1>1, ProbeEffect
<1>5. PICK busy \in BOOLEAN : /\ busy = hasConnectedAccount(peer)
                              /\ Tel!create(c, AccountOf[p], peer, busy)
  BY BusyIsBoolean
<1>6. /\ Elsewhere(c)
      /\ rec[c].state # "reconnecting" /\ timers[c].stray # "armed"
           => timers'[c].stray # "armed"
      /\ rec'[c].state = IF busy THEN "busy" ELSE "calling"
      /\ rec'[c].caller = AccountOf[p] /\ rec'[c].peer = peer /\ ~rec'[c].answered
  BY <1>5, CreateEffect
<1>7. rec[c].state # "reconnecting"
  <2> SUFFICES ASSUME rec[c].state = "reconnecting" PROVE FALSE
    OBVIOUS
  <2>1. Tel!Live(c)
    BY DEF Tel!Live, Tel!Exists, Tel!TERMINAL_STATES
  <2>2. rec[c].answered
    BY DEF TelOK, Tel!CallIsAccounted, Tel!WordMatchesCall
  <2>3. \A q, r \in Seated(c) : q = r
    BY <1>1, FreeSeat
  <2> QED BY <1>1, <2>1, <2>2, <2>3 DEF Story, HasSeat
<1>8. Story(c)'
  <2>1. \E q \in Seated(c)' : AccountOf[q] = rec'[c].caller
    BY <1>2, <1>6 DEF HasSeat
  <2>2. rec'[c].state \in Tel!Unanswered =>
          \A q \in Phones : seats'[c][q] \in Connected => AccountOf[q] # rec'[c].peer
    <3> SUFFICES ASSUME ~busy
                 PROVE  \A q \in Phones :
                          seats'[c][q] \in Connected => AccountOf[q] # rec'[c].peer
      BY <1>6 DEF Tel!Unanswered
    <3> QED BY <1>2, <1>5, <1>6 DEF hasConnectedAccount
  <2>3. rec'[c].state \notin Talking /\ rec'[c].state # "ended"
    BY <1>6 DEF Talking
  <2>4. timers'[c].stray # "armed"
    BY <1>1, <1>6, <1>7 DEF Story
  <2> QED BY <1>6, <2>1, <2>2, <2>3, <2>4 DEF Story, HasSeat
<1>9. \A d \in Calls \ {c} : Crowd(d)' /\ Story(d)'
  BY <1>1, <1>2, <1>4, <1>6, OthersKeepStory
<1> QED BY <1>3, <1>4, <1>8, <1>9

\* A call torn down is hung up by one of its parties, if it was answered.
LEMMA TeardownKeepsStory ==
  ASSUME StoryInv, TelOK, TelOK', NEW c \in Calls, NEW by, Teardown(c, by),
         Tel!Live(c) /\ rec[c].answered => by \in {rec[c].caller, rec[c].peer}
  PROVE  ProbeOK' /\ \A d \in Calls : Crowd(d)' /\ Story(d)'
<1>1. /\ Crowd(c) /\ Story(c) /\ ProbeOK /\ SeatsOK
      /\ \A d \in Calls : Crowd(d) /\ Story(d)
  BY DEF StoryInv
<1>2. /\ \A d \in Calls \ {c} : seats'[d] = seats[d] /\ probe'[d] = probe[d]
      /\ \A p \in Phones : seats'[c][p] = "none"
      /\ ProbeOK'
  BY <1>1 DEF Teardown, SeatsOK, ProbeOK, Probes, NoProbe
<1>3. Seated(c)' = {} /\ \A d \in Calls \ {c} : Seated(d)' = Seated(d)
  BY <1>2 DEF Seated
<1>4. Crowd(c)'
  BY <1>3, FS_EmptySet DEF Crowd
<1>5. /\ Elsewhere(c)
      /\ timers'[c].stray = "armed" => timers[c].stray = "armed"
      /\ IF Tel!Live(c)
         THEN /\ rec'[c].state = IF rec[c].answered THEN "ended" ELSE "no_answer"
              /\ rec'[c].caller = rec[c].caller /\ rec'[c].peer = rec[c].peer
              /\ rec'[c].endedBy = by
         ELSE rec'[c] = rec[c]
  BY EndEffect DEF Teardown
<1>6. ~Tel!Live(c)'
  <2>1. CASE Tel!Live(c)
    BY <1>5, <2>1 DEF Tel!Live, Tel!TERMINAL_STATES
  <2>2. CASE ~Tel!Live(c)
    BY <1>5, <2>2 DEF Tel!Live, Tel!Exists
  <2> QED BY <2>1, <2>2
<1>7. rec'[c].state \notin Tel!Unanswered /\ rec'[c].state \notin Talking
  BY <1>6, StatesDiffer DEF Tel!Live, Tel!Exists
<1>8. rec'[c].state = "ended" => rec'[c].endedBy \in {rec'[c].caller, rec'[c].peer}
  <2>1. CASE Tel!Live(c)
    BY <1>5, <2>1
  <2>2. CASE ~Tel!Live(c)
    BY <1>1, <1>5, <2>2 DEF Story
  <2> QED BY <2>1, <2>2
<1>9. Story(c)'
  BY <1>1, <1>5, <1>6, <1>7, <1>8 DEF Story
<1>10. \A d \in Calls \ {c} : Crowd(d)' /\ Story(d)'
  BY <1>1, <1>2, <1>3, <1>5, OthersKeepStory
<1> QED BY <1>2, <1>4, <1>9, <1>10

LEMMA LeavingKeepsStory ==
  ASSUME StoryInv, TelOK, TelOK', NEW c \in Calls, NEW p \in Phones,
         leave(c, p) \/ endCall(c, p) \/ reapSeat(c, p)
  PROVE  ProbeOK' /\ \A d \in Calls : Crowd(d)' /\ Story(d)'
<1>1. p \in Seated(c)
  BY DEF leave, endCall, reapSeat, Seated
<1>2. Tel!Live(c) /\ rec[c].answered =>
        AccountOf[p] \in {rec[c].caller, rec[c].peer} /\ Seated(c) # {p}
  BY <1>1, BothParties DEF StoryInv
<1>3. PICK by : /\ Teardown(c, by)
                /\ by = AccountOf[p] \/ Seated(c) = {p}
  BY DEF leave, endCall, reapSeat, finalizeLeave
<1> QED BY <1>2, <1>3, TeardownKeepsStory

\* A step of the telephone alone.
LEMMA InputKeepsStory ==
  ASSUME StoryInv, TelOK, TelOK', NEW c \in Calls, Kept(c), Elsewhere(c),
         UNCHANGED seats,
         ProbeOK', \A d \in Calls \ {c} : probe'[d] = probe[d],
         rec'[c].state \in Talking => probe'[c].on
  PROVE  ProbeOK' /\ \A d \in Calls : Crowd(d)' /\ Story(d)'
<1>1. \A d \in Calls : Seated(d)' = Seated(d)
  BY DEF Seated
<1>2. Crowd(c)'
  BY <1>1 DEF StoryInv, Crowd
<1>3. Story(c)'
  BY <1>1, StoryKept DEF StoryInv
<1>4. \A d \in Calls \ {c} : Crowd(d)' /\ Story(d)'
  BY <1>1, OthersKeepStory DEF StoryInv
<1> QED BY <1>2, <1>3, <1>4

LEMMA InputsKeepStory ==
  ASSUME StoryInv, TelOK, TelOK', NEW c \in Calls, NEW n \in Tel!Reach, NEW a,
         \/ ringResult(c, n) \/ overHttp(c, a) \/ probeFlows(c)
         \/ probeStalls(c) \/ telephoneTimer(c) \/ forgetTimer(c)
  PROVE  ProbeOK' /\ \A d \in Calls : Crowd(d)' /\ Story(d)'
<1>0. /\ Story(c) /\ ProbeOK
      /\ rec[c].state \in Talking => probe[c].on
  BY DEF StoryInv, Story
<1>1. CASE ringResult(c, n) \/ overHttp(c, a)
  <2>1. Kept(c) /\ Elsewhere(c) /\ ProbeFollows(c) /\ UNCHANGED seats
    BY <1>1, KeptByInput DEF ringResult, overHttp
  <2>2. rec'[c].state \in Talking => rec[c].state \in Talking
    BY <2>1 DEF Kept
  <2> QED BY <1>0, <2>1, <2>2, ProbeEffect, InputKeepsStory
<1>2. CASE probeFlows(c)
  <2>1. Kept(c) /\ Elsewhere(c)
    BY <1>2, KeptByMedia DEF probeFlows
  <2>2. /\ ProbeOK' /\ probe'[c].on = probe[c].on
        /\ \A d \in Calls \ {c} : probe'[d] = probe[d]
    BY <1>0, <1>2 DEF probeFlows, ProbeOK, Probes
  <2>3. rec'[c].state \in Talking => probe'[c].on
    BY <1>0, <2>1, <2>2 DEF Kept
  <2> QED BY <1>2, <2>1, <2>2, <2>3, InputKeepsStory DEF probeFlows
<1>3. CASE probeStalls(c)
  <2>1. Kept(c) /\ Elsewhere(c)
    BY <1>3, KeptByMedia DEF probeStalls
  <2>2. UNCHANGED <<seats, probe>>
    BY <1>3 DEF probeStalls, session
  <2>3. ProbeOK' /\ (rec'[c].state \in Talking => probe'[c].on)
    BY <1>0, <2>1, <2>2 DEF Kept, ProbeOK
  <2> QED BY <2>1, <2>2, <2>3, InputKeepsStory
<1>4. CASE telephoneTimer(c)
  <2>1. Kept(c) /\ Elsewhere(c)
    BY <1>4, KeptByExpiry DEF telephoneTimer
  <2>2. rec'[c].state \notin Talking
    <3>1. ~Tel!strayWindowExpires(c)
      BY <1>0 DEF Story, Tel!strayWindowExpires
    <3>2. PICK s \in Tel!TERMINAL_STATES : Tel!Finish(c, s, rec[c].endedBy)
      BY <1>4, <3>1 DEF telephoneTimer, Tel!Expire, Tel!ringingWindowExpires,
                        Tel!reconnectWindowExpires, Tel!TERMINAL_STATES
    <3>3. rec'[c].state = s
      BY <3>2 DEF Tel!Finish, Tel!Moved, TelOK, Tel!TypeOK
    <3> QED BY <3>3, StatesDiffer
  <2>3. /\ ProbeOK' /\ \A d \in Calls \ {c} : probe'[d] = probe[d]
    BY <1>0, <1>4 DEF telephoneTimer, ProbeOK, Probes, NoProbe
  <2> QED BY <1>4, <2>1, <2>2, <2>3, InputKeepsStory DEF telephoneTimer
<1>5. CASE forgetTimer(c)
  <2>1. Kept(c) /\ Elsewhere(c)
    BY <1>5, KeptByForget, KeptUnchanged DEF forgetTimer, telephone, Tel!vars
  <2>2. UNCHANGED <<seats, probe>>
    BY <1>5 DEF forgetTimer
  <2>3. ProbeOK' /\ (rec'[c].state \in Talking => probe'[c].on)
    BY <1>0, <2>1, <2>2 DEF Kept, ProbeOK
  <2> QED BY <2>1, <2>2, <2>3, InputKeepsStory
<1> QED BY <1>1, <1>2, <1>3, <1>4, <1>5

\* Time passes, a socket closes, a join goes on: no story changes.
LEMMA NothingTold ==
  ASSUME StoryInv, TelOK, UNCHANGED <<rec, probe>>,
         \A c \in Calls : timers'[c].stray = timers[c].stray,
         \A c \in Calls : Seated(c)' = Seated(c),
         \A c \in Calls, p \in Phones :
           seats'[c][p] \in Connected => seats[c][p] \in Connected
  PROVE  ProbeOK' /\ \A d \in Calls : Crowd(d)' /\ Story(d)'
<1>1. ProbeOK'
  BY DEF StoryInv, ProbeOK
<1>2. ASSUME NEW d \in Calls PROVE Crowd(d)' /\ Story(d)'
  <2>1. Crowd(d)'
    BY DEF StoryInv, Crowd
  <2>2. Story(d)'
    BY StoryElsewhere DEF StoryInv
  <2> QED BY <2>1, <2>2
<1> QED BY <1>1, <1>2

LEMMA TickTellsNothing ==
  ASSUME StoryInv, TelOK, Tick
  PROVE  ProbeOK' /\ \A d \in Calls : Crowd(d)' /\ Story(d)'
<1>1. UNCHANGED <<rec, probe, seats>>
  BY DEF Tick, Tel!Tick, telephone
<1>2. \A c \in Calls : timers'[c].stray = timers[c].stray
  BY DEF Tick, Tel!Tick, Tel!TickPassed, telephone
<1> QED BY <1>1, <1>2, NothingTold DEF Seated

LEMMA DisconnectTellsNothing ==
  ASSUME StoryInv, TelOK, NEW p \in Phones, disconnect(p)
  PROVE  ProbeOK' /\ \A d \in Calls : Crowd(d)' /\ Story(d)'
<1>1. UNCHANGED <<rec, timers, probe>>
  BY DEF disconnect, telephone
<1>2. \A c \in Calls, q \in Phones :
        \/ seats'[c][q] = seats[c][q]
        \/ seats[c][q] = "on" /\ seats'[c][q] = "grace"
  BY DEF disconnect, StoryInv, SeatsOK
<1>3. /\ \A c \in Calls : Seated(c)' = Seated(c)
      /\ \A c \in Calls, q \in Phones :
           seats'[c][q] \in Connected => seats[c][q] \in Connected
  BY <1>2 DEF Seated, Connected
<1> QED BY <1>1, <1>3, NothingTold

LEMMA PeersDifferStep ==
  ASSUME JoiningOK, PeersDiffer, [Next]_vars
  PROVE  PeersDiffer'
<1> USE DEF JoiningOK, PeersDiffer
<1>1. CASE UNCHANGED joining
  BY <1>1
<1>2. ASSUME NEW c \in Calls, NEW p \in Phones, NEW peer \in Accounts,
             joinUnknown(c, p, peer)
      PROVE  PeersDiffer'
  BY <1>2 DEF joinUnknown
<1>3. ASSUME NEW p \in Phones, joinAuthorized(p)
      PROVE  PeersDiffer'
  <2>1. CASE joining' = [joining EXCEPT ![p] = Idle]
    BY <2>1, IdleIsAJoin
  <2>2. CASE joining' = [joining EXCEPT ![p].step = "resolving"]
    BY <1>3, <2>2 DEF joinAuthorized, Joins
  <2> QED BY <1>3, <2>1, <2>2 DEF joinAuthorized
<1>4. ASSUME NEW p \in Phones, joinResolved(p) \/ joinRefused(p)
      PROVE  PeersDiffer'
  BY <1>4, IdleIsAJoin DEF joinResolved, joinRefused
<1>5. ASSUME NEW p \in Phones, disconnect(p)
      PROVE  PeersDiffer'
  BY <1>5 DEF disconnect, Joins
<1>6. ASSUME NEW c \in Calls, NEW p \in Phones,
             joinExisting(c, p) \/ resume(c, p) \/ leave(c, p)
               \/ endCall(c, p) \/ reapSeat(c, p)
      PROVE  UNCHANGED joining
  BY <1>6 DEF joinExisting, resume, leave, endCall, reapSeat, finalizeLeave,
              Teardown
<1>7. ASSUME NEW c \in Calls, NEW n, NEW a,
             ringResult(c, n) \/ overHttp(c, a) \/ probeFlows(c)
               \/ probeStalls(c) \/ telephoneTimer(c) \/ forgetTimer(c)
      PROVE  UNCHANGED joining
  BY <1>7 DEF ringResult, overHttp, probeFlows, probeStalls, telephoneTimer,
              forgetTimer, session
<1>8. Tick \/ UNCHANGED vars => UNCHANGED joining
  BY DEF Tick, vars
<1> QED
  BY <1>1, <1>2, <1>3, <1>4, <1>5, <1>6, <1>7, <1>8 DEF Next

LEMMA StoryStep ==
  ASSUME StoryInv, GraceInv', TelOK, TelOK', [Next]_vars
  PROVE  StoryInv'
<1>1. SeatsOK' /\ JoiningOK' /\ PeersDiffer'
  BY JoiningStep, PeersDifferStep DEF StoryInv, GraceInv
<1> DEFINE Told == ProbeOK' /\ \A d \in Calls : Crowd(d)' /\ Story(d)'
<1>2. ASSUME UNCHANGED <<rec, timers, probe, seats>>
      PROVE  Told
  BY <1>2, NothingTold DEF Seated
<1>3. ASSUME NEW c \in Calls, NEW p \in Phones,
             joinExisting(c, p) \/ resume(c, p)
      PROVE  Told
  <2>1. CASE joinExisting(c, p)
    BY <2>1, JoinKeepsStory DEF joinExisting, Joined
  <2>2. CASE resume(c, p)
    <3>1. p \in Seated(c)
      BY <2>2 DEF resume, Seated
    <3> QED BY <2>2, <3>1, JoinKeepsStory DEF resume
  <2> QED BY <1>3, <2>1, <2>2
<1>4. ASSUME NEW c \in Calls, NEW p \in Phones,
             leave(c, p) \/ endCall(c, p) \/ reapSeat(c, p)
      PROVE  Told
  BY <1>4, LeavingKeepsStory
<1>5. ASSUME NEW p \in Phones, joinAuthorized(p)
      PROVE  Told
  <2>1. CASE UNCHANGED <<telephone, seats, reapers, forgets, probe>>
    BY <1>2, <2>1 DEF telephone
  <2>2. CASE Joined(joining[p].call, p, joining[p].open)
    <3>1. joining[p].call \in Calls
      BY <1>5 DEF joinAuthorized, JoiningOK, StoryInv
    <3> QED BY <2>2, <3>1, JoinKeepsStory DEF Joined
  <2> QED BY <1>5, <2>1, <2>2 DEF joinAuthorized
<1>6. ASSUME NEW p \in Phones, joinResolved(p)
      PROVE  Told
  <2>1. /\ joining[p].call \in Calls /\ joining[p].peer \in Accounts
        /\ joining[p].peer # AccountOf[p]
    BY <1>6 DEF joinResolved, JoiningOK, PeersDiffer, StoryInv
  <2> QED BY <1>6, <2>1, CreateKeepsStory DEF joinResolved
<1>7. ASSUME NEW p \in Phones, joinRefused(p)
      PROVE  UNCHANGED <<rec, timers, probe, seats>>
  BY <1>7 DEF joinRefused, telephone
<1>8. ASSUME NEW c \in Calls, NEW p \in Phones, NEW peer, joinUnknown(c, p, peer)
      PROVE  UNCHANGED <<rec, timers, probe, seats>>
  BY <1>8 DEF joinUnknown, telephone
<1>9. ASSUME NEW c \in Calls, NEW n \in Tel!Reach, NEW a,
             \/ ringResult(c, n) \/ overHttp(c, a) \/ probeFlows(c)
             \/ probeStalls(c) \/ telephoneTimer(c) \/ forgetTimer(c)
      PROVE  Told
  BY <1>9, InputsKeepStory
<1>10. UNCHANGED vars => UNCHANGED <<rec, timers, probe, seats>>
  BY DEF vars
<1>11. "unknown" \in Tel!Reach
  BY DEF Tel!Reach
<1>12. Tick => Told
  BY TickTellsNothing
<1>13. \A p \in Phones : disconnect(p) => Told
  BY DisconnectTellsNothing
<1> HIDE DEF Told
<1>14. Told
  BY <1>2, <1>3, <1>4, <1>5, <1>6, <1>7, <1>8, <1>9, <1>10, <1>11,
     <1>12, <1>13
  DEF Next
<1> QED BY <1>1, <1>14 DEF StoryInv, Told

LEMMA StoryHolds == Spec => [](StoryInv /\ TelOK)
<1>1. Init => GraceInv
  BY DEF Init, GraceInv, SeatsOK, Seat, GraceIsReaped
<1>2. GraceInv /\ JoiningOK /\ [Next]_vars => GraceInv'
  BY GraceStep
<1>3. Init => StoryInv
  <2> SUFFICES ASSUME Init PROVE StoryInv
    OBVIOUS
  <2>1. SeatsOK /\ JoiningOK /\ PeersDiffer /\ ProbeOK
    BY IdleIsAJoin DEF Init, SeatsOK, Seat, JoiningOK, PeersDiffer, ProbeOK, Probes,
                       NoProbe
  <2>2. \A c \in Calls : Seated(c) = {}
    BY DEF Init, Seated
  <2>3. \A c \in Calls : Crowd(c)
    BY <2>2, FS_EmptySet DEF Crowd
  <2>4. \A c \in Calls : rec[c].state = "none" /\ timers[c].stray = "no"
    BY DEF Init, Tel!Init, Tel!NoRecord, Tel!NoTimers
  <2>5. \A c \in Calls : Story(c)
    BY <2>4, StatesDiffer DEF Story, Tel!Live, Tel!Exists
  <2> QED BY <2>1, <2>3, <2>5 DEF StoryInv
<1>4. StoryInv /\ GraceInv' /\ TelOK /\ TelOK' /\ [Next]_vars => StoryInv'
  BY StoryStep
<1>5. Spec => []TelOK
  BY TelephoneKept DEF TelOK
<1> QED BY <1>1, <1>2, <1>3, <1>4, <1>5, JoiningTyped, PTL DEF Spec

\* In every call, however it was joined and however it ends, the telephone and
\* the session tell the same story, whatever joins are under way meanwhile.
THEOREM SameStory == Spec => []TelephoneAndSessionAgree
<1>1. StoryInv => TelephoneAndSessionAgree
  BY StoryAgrees
<1> QED BY <1>1, StoryHolds, PTL

-----------------------------------------------------------------------------
(* Every state of the runtime is well formed.                              *)

ClocksOK == /\ reapers \in [Calls -> [Phones -> 0 .. DisconnectGrace + 1]]
            /\ forgets \in [Calls -> SUBSET (1 .. ForgetDelay + 1)]

LEMMA TakeSeatClocks ==
  ASSUME ClocksOK, NEW c \in Calls, NEW p \in Phones, NEW open, TakeSeat(c, p, open)
  PROVE  reapers' \in [Calls -> [Phones -> 0 .. DisconnectGrace + 1]]
<1> DEFINE left == {d \in Calls \ {c} : open /\ seats[d][p] = "on"}
<1>1. reapers' = [d \in Calls |->
            IF d = c THEN [reapers[c] EXCEPT ![p] = 0]
            ELSE IF d \in left THEN [reapers[d] EXCEPT ![p] = DisconnectGrace + 1]
            ELSE reapers[d]]
  BY DEF TakeSeat
<1> HIDE DEF left
<1>2. DisconnectGrace + 1 \in 0 .. DisconnectGrace + 1 /\ 0 \in 0 .. DisconnectGrace + 1
  BY PhonesAssumption
<1> HIDE DEF ClocksOK
<1>3. ASSUME NEW d \in Calls
      PROVE  reapers'[d] \in [Phones -> 0 .. DisconnectGrace + 1]
  <2>1. CASE d = c
    BY <1>1, <1>2, <2>1 DEF ClocksOK
  <2>2. CASE d # c /\ d \in left
    BY <1>1, <1>2, <2>2 DEF ClocksOK
  <2>3. CASE d # c /\ d \notin left
    BY <1>1, <2>3 DEF ClocksOK
  <2> QED BY <2>1, <2>2, <2>3
<1> QED BY <1>1, <1>3

LEMMA ClocksStep ==
  ASSUME ClocksOK, JoiningOK, [Next]_vars
  PROVE  ClocksOK'
<1>1. CASE UNCHANGED <<reapers, forgets>>
  BY <1>1 DEF ClocksOK
<1>2. ASSUME NEW c \in Calls, NEW p \in Phones, joinExisting(c, p) \/ resume(c, p)
      PROVE  ClocksOK'
  BY <1>2, TakeSeatClocks DEF joinExisting, resume, Joined, ClocksOK
<1>3. ASSUME NEW c \in Calls, NEW p \in Phones,
             leave(c, p) \/ endCall(c, p) \/ reapSeat(c, p)
      PROVE  ClocksOK'
  <2>1. PICK by : Teardown(c, by)
    BY <1>3 DEF leave, endCall, reapSeat, finalizeLeave
  <2>2. ForgetDelay + 1 \in 1 .. ForgetDelay + 1 /\ 0 \in 0 .. DisconnectGrace + 1
    BY PhonesAssumption
  <2>3. [p1 \in Phones |-> 0] \in [Phones -> 0 .. DisconnectGrace + 1]
    BY <2>2
  <2> QED BY <2>1, <2>2, <2>3 DEF Teardown, ClocksOK
<1>4. ASSUME NEW p \in Phones, joinAuthorized(p)
      PROVE  ClocksOK'
  <2>1. CASE UNCHANGED <<telephone, seats, reapers, forgets, probe>>
    BY <1>1, <2>1
  <2>2. CASE Joined(joining[p].call, p, joining[p].open) /\ UNCHANGED forgets
    <3>1. joining[p].call \in Calls
      BY <1>4 DEF joinAuthorized, JoiningOK
    <3> QED BY <2>2, <3>1, TakeSeatClocks DEF Joined, ClocksOK
  <2> QED BY <1>4, <2>1, <2>2 DEF joinAuthorized
<1>5. ASSUME NEW p \in Phones, joinResolved(p)
      PROVE  ClocksOK'
  <2>1. joining[p].call \in Calls
    BY <1>5 DEF joinResolved, JoiningOK
  <2> QED BY <1>5, <2>1, TakeSeatClocks DEF joinResolved, ClocksOK
<1>6. ASSUME NEW p \in Phones, disconnect(p)
      PROVE  ClocksOK'
  <2>1. DisconnectGrace + 1 \in 0 .. DisconnectGrace + 1
    BY PhonesAssumption
  <2>2. \A c \in Calls : reapers'[c] \in
          {reapers[c], [reapers[c] EXCEPT ![p] = DisconnectGrace + 1]}
    BY <1>6 DEF disconnect
  <2>3. \A c \in Calls : reapers'[c] \in [Phones -> 0 .. DisconnectGrace + 1]
    BY <2>1, <2>2 DEF ClocksOK
  <2> QED BY <1>6, <2>3 DEF disconnect, ClocksOK
<1>7. ASSUME Tick PROVE ClocksOK'
  <2>1. \A n \in 0 .. DisconnectGrace + 1 : Tel!Passed(n) \in 0 .. DisconnectGrace + 1
    BY PhonesAssumption DEF Tel!Passed
  <2>2. \A n \in 1 .. ForgetDelay + 1 : Tel!Passed(n) \in 1 .. ForgetDelay + 1
    BY PhonesAssumption DEF Tel!Passed
  <2>3. reapers' \in [Calls -> [Phones -> 0 .. DisconnectGrace + 1]]
    BY <1>7, <2>1 DEF Tick, ClocksOK
  <2>4. forgets' \in [Calls -> SUBSET (1 .. ForgetDelay + 1)]
    BY <1>7, <2>2 DEF Tick, ClocksOK
  <2> QED BY <2>3, <2>4 DEF ClocksOK
<1>8. ASSUME NEW c \in Calls, NEW n, NEW a,
             ringResult(c, n) \/ overHttp(c, a) \/ probeFlows(c)
               \/ probeStalls(c) \/ telephoneTimer(c)
      PROVE  UNCHANGED <<reapers, forgets>>
  BY <1>8 DEF ringResult, overHttp, probeFlows, probeStalls, telephoneTimer, session
<1>9. ASSUME NEW c \in Calls, forgetTimer(c)
      PROVE  ClocksOK'
  BY <1>9 DEF forgetTimer, ClocksOK
<1>10. ASSUME NEW p \in Phones, joinRefused(p)
       PROVE  UNCHANGED <<reapers, forgets>>
  BY <1>10 DEF joinRefused
<1>11. ASSUME NEW c \in Calls, NEW p \in Phones, NEW peer, joinUnknown(c, p, peer)
       PROVE  UNCHANGED <<reapers, forgets>>
  BY <1>11 DEF joinUnknown
<1>12. UNCHANGED vars => UNCHANGED <<reapers, forgets>>
  BY DEF vars
<1> QED
  BY <1>1, <1>2, <1>3, <1>4, <1>5, <1>6, <1>7, <1>8, <1>9, <1>10, <1>11, <1>12
  DEF Next

\* Every reachable state of the runtime, its seats, joins, timers, probes and
\* telephone records, is well formed.
THEOREM TypeCorrect == Spec => []TypeOK
<1>1. Init => ClocksOK
  BY PhonesAssumption DEF Init, ClocksOK
<1>2. ClocksOK /\ JoiningOK /\ [Next]_vars => ClocksOK'
  BY ClocksStep
<1>3. ClocksOK /\ StoryInv /\ TelOK => TypeOK
  BY DEF ClocksOK, StoryInv, SeatsOK, JoiningOK, Joins, ProbeOK, Probes, TelOK, TypeOK
<1> QED BY <1>1, <1>2, <1>3, JoiningTyped, StoryHolds, PTL DEF Spec
=============================================================================
