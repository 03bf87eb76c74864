------------------------- MODULE DirectCallRuntime -------------------------
(***************************************************************************)
(* How call-runtime.ts drives the telephone of DirectCall: direct calls    *)
(* only, each call a session of at most two seats, each phone a socket     *)
(* that joins, drops, resumes, leaves and hangs up.                        *)
(*                                                                         *)
(* handleJoin awaits twice before it touches the session store (who may    *)
(* host, then the pair's mode), so a join is up to three steps and other   *)
(* handlers run between them.  A phone has at most one join under way      *)
(* (PhonesJoinOnce, a bound); its account is verified; its display name is *)
(* its account's, so one account has one seat in a call.                   *)
(***************************************************************************)
EXTENDS Naturals, FiniteSets

CONSTANTS Calls, Accounts, Nobody, RingingWindow, AnswerGrace, ReconnectWindow,
          Phones,           \* devices
          AccountOf,        \* the account signed in on each phone
          DisconnectGrace,  \* disconnectGraceMs, in ticks
          ForgetDelay       \* how long teardownCall keeps the record

ASSUME PhonesAssumption ==
  /\ AccountOf \in [Phones -> Accounts]
  /\ DisconnectGrace \in Nat \ {0}
  /\ ForgetDelay \in Nat \ {0}

ASSUME TelephoneAssumption ==
  /\ {RingingWindow, AnswerGrace, ReconnectWindow} \subseteq Nat \ {0}
  /\ Nobody \notin Accounts

VARIABLES rec, timers, outcomes,  \* the telephone
          seats,    \* seats[c][p]: p's seat in call c
          reapers,  \* reapers[c][p]: the reaper of a seat in grace, 0 if none
          joining,  \* joining[p]: the join p's socket is awaiting
          forgets,  \* forgets[c]: teardownCall's pending forget timers
          probe     \* probe[c]: the media probe

Tel == INSTANCE DirectCall

telephone == <<rec, timers, outcomes>>
session   == <<seats, reapers, joining, forgets, probe>>
vars      == <<rec, timers, outcomes, seats, reapers, joining, forgets, probe>>

-----------------------------------------------------------------------------
\* "on" and "ghost" are connected seats; a ghost's socket closed before the
\* join that seated it resumed, so no disconnect will ever be reported for it.
Seat      == {"none", "on", "ghost", "grace"}
Connected == {"on", "ghost"}
PERSONAL_CALL_SEATS == 2

Idle  == [step |-> "idle", call |-> "-", peer |-> Nobody, open |-> FALSE]
NoProbe == [on |-> FALSE, flowed |-> FALSE, caller |-> Nobody, peer |-> Nobody]

Seated(c) == {p \in Phones : seats[c][p] # "none"}
Session(c) == Seated(c) # {}
SeatsOf(c, a) == {p \in Seated(c) : AccountOf[p] = a}
hasConnectedAccount(a) ==
  \E c \in Calls, p \in Phones : AccountOf[p] = a /\ seats[c][p] \in Connected

Init ==
  /\ Tel!Init
  /\ seats = [c \in Calls |-> [p \in Phones |-> "none"]]
  /\ reapers = [c \in Calls |-> [p \in Phones |-> 0]]
  /\ joining = [p \in Phones |-> Idle]
  /\ forgets = [c \in Calls |-> {}]
  /\ probe = [c \in Calls |-> NoProbe]

-----------------------------------------------------------------------------
(* Joining *)

\* createOrJoin takes a fresh join into c: capacity and duplicate names.
Admits(c, p) ==
  /\ Cardinality(Seated(c)) < PERSONAL_CALL_SEATS
  /\ SeatsOf(c, AccountOf[p]) = {}

\* Broken variants: a resume leaves its reaper armed; a socket that joins another
\* call keeps its seat in the first.
TakeSeat_keepsReaper(c, p, open) ==
  /\ seats' = [seats EXCEPT ![c][p] = IF open THEN "on" ELSE "ghost"]
  /\ UNCHANGED reapers
TakeSeat_keepsOther(c, p, open) ==
  /\ seats' = [seats EXCEPT ![c][p] = IF open THEN "on" ELSE "ghost"]
  /\ reapers' = [reapers EXCEPT ![c][p] = 0]

\* createOrJoin and completeJoin: the phone takes its seat, and a seat its
\* socket held elsewhere is abandoned to the reaper.
TakeSeat(c, p, open) ==
  LET left == {d \in Calls \ {c} : open /\ seats[d][p] = "on"}
  IN /\ seats' = [d \in Calls |->
            IF d = c THEN [seats[c] EXCEPT ![p] = IF open THEN "on" ELSE "ghost"]
            ELSE IF d \in left THEN [seats[d] EXCEPT ![p] = "grace"] ELSE seats[d]]
     /\ reapers' = [d \in Calls |->
            IF d = c THEN [reapers[c] EXCEPT ![p] = 0]
            ELSE IF d \in left THEN [reapers[d] EXCEPT ![p] = DisconnectGrace + 1]
            ELSE reapers[d]]

\* onState: entering connecting starts the probe.
ProbeFollows(c) ==
  probe' = [probe EXCEPT ![c] =
    CASE rec'[c].state = "connecting" /\ rec[c].state # "connecting" ->
           [on |-> TRUE, flowed |-> FALSE,
            caller |-> rec'[c].caller, peer |-> rec'[c].peer]
      [] outcomes'[c] = 1 /\ (outcomes[c] = 0 \/ rec'[c].state = "busy") -> NoProbe
      [] OTHER -> @]

\* A verified join into a call that exists.
Joined(c, p, open) ==
  /\ Admits(c, p)
  /\ Tel!peerJoined(c, AccountOf[p])
  /\ TakeSeat(c, p, open)
  /\ ProbeFollows(c)

joinExisting(c, p) ==
  /\ joining[p] = Idle
  /\ Session(c)
  /\ Joined(c, p, TRUE)
  /\ UNCHANGED <<joining, forgets>>

joinUnknown(c, p, peer) ==
  /\ joining[p] = Idle
  /\ ~Session(c)
  /\ peer # AccountOf[p]
  /\ joining' = [joining EXCEPT ![p] =
       [step |-> "authorizing", call |-> c, peer |-> peer, open |-> TRUE]]
  /\ UNCHANGED <<telephone, seats, reapers, forgets, probe>>

\* authorizeCallHost or the route check refuses, or createOrJoin does.
joinRefused(p) ==
  /\ joining[p].step # "idle"
  /\ joining' = [joining EXCEPT ![p] = Idle]
  /\ UNCHANGED <<telephone, seats, reapers, forgets, probe>>

\* authorizeCallHost said yes: creating is decided now.
joinAuthorized(p) ==
  LET c == joining[p].call
  IN /\ joining[p].step = "authorizing"
     /\ \/ /\ ~Session(c)
           /\ joining' = [joining EXCEPT ![p].step = "resolving"]
           /\ UNCHANGED <<telephone, seats, reapers, forgets, probe>>
        \/ /\ Session(c)
           /\ Joined(c, p, joining[p].open)
           /\ joining' = [joining EXCEPT ![p] = Idle]
           /\ UNCHANGED forgets

\* resolveDirectCallMode answered: creating is what it was before the await.
joinResolved(p) ==
  LET c == joining[p].call
      a == AccountOf[p]
  IN /\ joining[p].step = "resolving"
     /\ Admits(c, p)
     /\ Tel!create(c, a, joining[p].peer, hasConnectedAccount(joining[p].peer))
     /\ TakeSeat(c, p, joining[p].open)
     /\ ProbeFollows(c)
     /\ joining' = [joining EXCEPT ![p] = Idle]
     /\ UNCHANGED forgets

\* The seat's resume token re-takes it; it is a verified join as well.
resume(c, p) ==
  /\ joining[p] = Idle
  /\ seats[c][p] = "grace"
  /\ Tel!peerJoined(c, AccountOf[p])
  /\ TakeSeat(c, p, TRUE)
  /\ ProbeFollows(c)
  /\ UNCHANGED <<joining, forgets>>

-----------------------------------------------------------------------------
(* Leaving *)

\* Broken variant: the record is kept one tick too long.
Teardown_long(c, by) ==
  /\ seats' = [seats EXCEPT ![c] = [p \in Phones |-> "none"]]
  /\ reapers' = [reapers EXCEPT ![c] = [p \in Phones |-> 0]]
  /\ Tel!ended(c, by)
  /\ probe' = [probe EXCEPT ![c] = NoProbe]
  /\ forgets' = [forgets EXCEPT ![c] = @ \cup {ForgetDelay + 2}]
  /\ UNCHANGED joining

\* teardownCall: seats and reapers go, the telephone hangs up, and its record
\* is kept for ForgetDelay.
Teardown(c, by) ==
  /\ seats' = [seats EXCEPT ![c] = [p \in Phones |-> "none"]]
  /\ reapers' = [reapers EXCEPT ![c] = [p \in Phones |-> 0]]
  /\ Tel!ended(c, by)
  /\ probe' = [probe EXCEPT ![c] = NoProbe]
  /\ forgets' = [forgets EXCEPT ![c] = @ \cup {ForgetDelay + 1}]
  /\ UNCHANGED joining

\* Broken variant: as in a conference, only the one seat goes while another is
\* left.
finalizeLeave_conference(c, p) ==
  IF Seated(c) = {p} THEN Teardown(c, Nobody)
  ELSE /\ seats' = [seats EXCEPT ![c][p] = "none"]
       /\ reapers' = [reapers EXCEPT ![c][p] = 0]
       /\ UNCHANGED <<telephone, joining, forgets, probe>>

\* finalizeLeave: a personal call is over when either party leaves; the party
\* is named unless it was alone.
finalizeLeave(c, p) ==
  Teardown(c, IF Seated(c) = {p} THEN Nobody ELSE AccountOf[p])

leave(c, p) == seats[c][p] = "on" /\ finalizeLeave(c, p)

endCall(c, p) == seats[c][p] = "on" /\ Teardown(c, AccountOf[p])

reapSeat(c, p) ==
  /\ reapers[c][p] = 1
  /\ seats[c][p] = "grace"
  /\ finalizeLeave(c, p)

\* Broken variant: the reaper of a seat is never armed.
disconnect_unreaped(p) ==
  /\ \E c \in Calls : seats[c][p] = "on"
  /\ seats' = [c \in Calls |->
        IF seats[c][p] = "on" THEN [seats[c] EXCEPT ![p] = "grace"] ELSE seats[c]]
  /\ joining' = [joining EXCEPT ![p].open = FALSE]
  /\ UNCHANGED <<telephone, reapers, forgets, probe>>

\* The socket of p closes: its seat is kept for resume and its reaper armed; a
\* join it is awaiting goes on without it.
disconnect(p) ==
  LET on == {c \in Calls : seats[c][p] = "on"}
  IN /\ on # {} \/ joining[p].open
     /\ seats' = [c \in Calls |->
           IF c \in on THEN [seats[c] EXCEPT ![p] = "grace"] ELSE seats[c]]
     /\ reapers' = [c \in Calls |->
           IF c \in on THEN [reapers[c] EXCEPT ![p] = DisconnectGrace + 1]
           ELSE reapers[c]]
     /\ joining' = [joining EXCEPT ![p].open = FALSE]
     /\ UNCHANGED <<telephone, forgets, probe>>

-----------------------------------------------------------------------------
(* The telephone's other inputs *)

\* DIRECT_RING_RESULT, from a socket seated in the call.
ringResult(c, n) ==
  /\ \E p \in Phones : seats[c][p] = "on"
  /\ Tel!noteRingDispatch(c, n)
  /\ ProbeFollows(c)
  /\ UNCHANGED <<seats, reapers, joining, forgets>>

\* The HTTP routes: ringing, answering, decline.
overHttp(c, a) ==
  /\ Tel!ringingAck(c, a) \/ Tel!answering(c, a) \/ Tel!decline(c, a)
  /\ ProbeFollows(c)
  /\ UNCHANGED <<seats, reapers, joining, forgets>>

\* The probe samples: frames flow both ways only between two connected seats
\* with media, and may stop flowing at any time.
Probed(c) == /\ probe[c].on
             /\ SeatsOf(c, probe[c].caller) # {}
             /\ SeatsOf(c, probe[c].peer) # {}

probeFlows(c) ==
  /\ Probed(c)
  /\ \A a \in {probe[c].caller, probe[c].peer} :
       \E p \in SeatsOf(c, a) : seats[c][p] = "on"
  /\ Tel!noteTwoWayAudio(c, TRUE)
  /\ probe' = [probe EXCEPT ![c].flowed = TRUE]
  /\ UNCHANGED <<seats, reapers, joining, forgets>>

probeStalls(c) ==
  /\ Probed(c) /\ probe[c].flowed
  /\ Tel!noteTwoWayAudio(c, FALSE)
  /\ UNCHANGED session

telephoneTimer(c) ==
  /\ Tel!Expire(c)
  /\ probe' = [probe EXCEPT ![c] = NoProbe]
  /\ UNCHANGED <<seats, reapers, joining, forgets>>

\* Broken variant: the record goes and its timers stay armed.
forgetTimer_keepsTimers(c) ==
  /\ 1 \in forgets[c]
  /\ forgets' = [forgets EXCEPT ![c] = @ \ {1}]
  /\ rec' = [rec EXCEPT ![c] = Tel!NoRecord]
  /\ outcomes' = [outcomes EXCEPT ![c] = 0]
  /\ UNCHANGED <<timers, seats, reapers, joining, probe>>

forgetTimer(c) ==
  /\ 1 \in forgets[c]
  /\ forgets' = [forgets EXCEPT ![c] = @ \ {1}]
  /\ IF Tel!Exists(c) THEN Tel!forget(c) ELSE UNCHANGED telephone
  /\ UNCHANGED <<seats, reapers, joining, probe>>

Due == \E c \in Calls :
         \/ timers[c].ring = 1 \/ timers[c].reconnect = 1
         \/ 1 \in forgets[c] \/ \E p \in Phones : reapers[c][p] = 1

Waiting == \E c \in Calls :
         \/ timers[c].ring > 1 \/ timers[c].reconnect > 1
         \/ forgets[c] # {} \/ \E p \in Phones : reapers[c][p] > 1

Tick ==
  /\ Waiting /\ ~Due
  /\ IF \E c \in Calls : timers[c].ring > 1 \/ timers[c].reconnect > 1
     THEN Tel!Tick ELSE UNCHANGED telephone
  /\ reapers' = [c \in Calls |-> [p \in Phones |-> Tel!Passed(reapers[c][p])]]
  /\ forgets' = [c \in Calls |-> {Tel!Passed(n) : n \in forgets[c]}]
  /\ UNCHANGED <<seats, joining, probe>>

Next ==
  \/ \E c \in Calls, p \in Phones :
       \/ joinExisting(c, p) \/ resume(c, p)
       \/ \E peer \in Accounts : joinUnknown(c, p, peer)
       \/ leave(c, p) \/ endCall(c, p) \/ reapSeat(c, p)
  \/ \E p \in Phones :
       joinAuthorized(p) \/ joinResolved(p) \/ joinRefused(p) \/ disconnect(p)
  \/ \E c \in Calls :
       \/ \E n \in Tel!Reach : ringResult(c, n)
       \/ \E a \in Accounts : overHttp(c, a)
       \/ probeFlows(c) \/ probeStalls(c)
       \/ telephoneTimer(c) \/ forgetTimer(c)
  \/ Tick

Spec == Init /\ [][Next]_vars

-----------------------------------------------------------------------------
TypeOK ==
  /\ Tel!TypeOK
  /\ seats \in [Calls -> [Phones -> Seat]]
  /\ reapers \in [Calls -> [Phones -> 0 .. DisconnectGrace + 1]]
  /\ joining \in [Phones ->
       [step : {"idle", "authorizing", "resolving"}, call : Calls \cup {"-"},
        peer : Accounts \cup {Nobody}, open : BOOLEAN]]
  /\ forgets \in [Calls -> SUBSET (1 .. ForgetDelay + 1)]
  /\ probe \in [Calls -> [on : BOOLEAN, flowed : BOOLEAN,
                          caller : Accounts \cup {Nobody},
                          peer : Accounts \cup {Nobody}]]

\* The telephone hangs up with the session: however a call goes away, no phone
\* is left calling, ringing or connected to a call nobody is seated in.
NoTelephoneWithoutSession ==
  \A c \in Calls : Tel!Live(c) => Session(c)

\* A socket holds one call identity: no phone is connected in two calls at once
\* (the abandoned seat follows the disconnect path).
OneCallPerSocket ==
  \A p \in Phones : Cardinality({c \in Calls : seats[c][p] = "on"}) <= 1

\* Calling and Ringing are never said of a call the peer has already joined:
\* whatever surface, retry or resume brought the peer in, it counts as the
\* answer (the defect the comment in handleJoin tells of).
PeerInCallIsAnswer ==
  \A c \in Calls, p \in Phones :
    seats[c][p] \in Connected /\ rec[c].state \in Tel!Unanswered
      => AccountOf[p] # rec[c].peer

\* An answered call that is not over has both its parties seated, in grace at
\* worst: the probe and the hang-up never miss one of them.
AnsweredHasBothSeats ==
  \A c \in Calls :
    Tel!Live(c) /\ rec[c].answered =>
      SeatsOf(c, rec[c].caller) # {} /\ SeatsOf(c, rec[c].peer) # {}

\* A completed call names the party that hung up, whether by ending the call,
\* by leaving it or by being reaped.
CompletedNamesWhoHungUp ==
  \A c \in Calls :
    rec[c].state = "ended" => rec[c].endedBy \in {rec[c].caller, rec[c].peer}

\* Exactly the seats in grace have a reaper: none is left to hold a call open
\* for ever and none can reap a seat that was resumed.
GraceIsReaped ==
  \A c \in Calls, p \in Phones : seats[c][p] = "grace" <=> reapers[c][p] > 0

\* The probe runs exactly while the telephone is past its answer and not over,
\* so a call that connects, stalls or recovers is always noticed.
ProbeRunsWhileAnswered ==
  \A c \in Calls : rec[c].state \in {"connecting", "connected", "reconnecting"}
    => probe[c].on

\* Telephone and session tell the same story of a call, along every way it can
\* be joined and every way it can end.
TelephoneAndSessionAgree ==
  /\ NoTelephoneWithoutSession
  /\ PeerInCallIsAnswer
  /\ AnsweredHasBothSeats
  /\ CompletedNamesWhoHungUp
  /\ ProbeRunsWhileAnswered

\* Whatever the runtime does, in whatever order, is something the telephone's
\* own specification allows.
TelephoneRefined == Tel!Spec

\* "A second joiner naming a peer changes nothing": a join into a session that
\* exists never replaces the call's record.
SecondJoinerChangesNothing ==
  [][\A c \in Calls :
       Session(c) /\ Tel!Exists(c) /\ Tel!Exists(c)' =>
         rec'[c].caller = rec[c].caller]_vars

\* "Terminal records linger, then go": no record is forgotten while its call is
\* alive.
OnlyFinishedForgotten ==
  [][\A c \in Calls : Tel!Live(c) => rec'[c].state # "none"]_vars

\* "Seats not resumed within this window are auto-left": no seat stays
\* connected on a socket that is gone.
NoSeatOnADeadSocket ==
  \A c \in Calls, p \in Phones : seats[c][p] # "ghost"

-----------------------------------------------------------------------------
(* Timers fire. *)
FairSpec ==
  /\ Spec
  /\ WF_vars(Tick)
  /\ \A c \in Calls : /\ WF_vars(telephoneTimer(c))
                      /\ WF_vars(forgetTimer(c))
                      /\ \A p \in Phones : WF_vars(reapSeat(c, p))

\* A phone that never comes back does not hold its call: its seat is resumed,
\* reaped or gone with the call.
GraceEnds ==
  \A c \in Calls, p \in Phones : seats[c][p] = "grace" ~> seats[c][p] # "grace"
=============================================================================
