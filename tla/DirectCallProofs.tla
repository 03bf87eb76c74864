-------------------------- MODULE DirectCallProofs --------------------------
(***************************************************************************)
(* What DirectCall promises for every set of calls and accounts and every  *)
(* length of its windows.  The four invariants are inductive together: the *)
(* word a call ends with is right because the states it passed through     *)
(* are, and a timer's expiry is only ever taken in the state it times      *)
(* because arming and disarming follow the state.                          *)
(***************************************************************************)
EXTENDS DirectCall, TLAPS

IInv == TypeOK /\ OutcomeOncePerCall /\ WaitingIsTimed /\ WordMatchesCall

LEMMA InitIInv == Init => IInv
BY NobodyAssumption
DEF Init, IInv, TypeOK, OutcomeOncePerCall, WaitingIsTimed, WordMatchesCall,
    DirectCallRecord, DirectCallState, Reach, NoRecord, NoTimers, Timers,
    TERMINAL_STATES, Unanswered

LEMMA RecordOperators ==
  ASSUME NEW r \in DirectCallRecord
  PROVE  /\ \A s \in DirectCallState, answered, connected \in BOOLEAN,
               by \in Accounts \cup {Nobody} :
              Moved(r, s, answered, connected, by) \in DirectCallRecord
         /\ \A n \in Reach : [r EXCEPT !.reached = n] \in DirectCallRecord
         /\ \A s \in DirectCallState : [r EXCEPT !.state = s] \in DirectCallRecord
         /\ r.answered \in BOOLEAN /\ r.connected \in BOOLEAN
         /\ r.endedBy \in Accounts \cup {Nobody}
BY DEF DirectCallRecord, Moved

LEMMA OngoingStates ==
  {"calling", "ringing", "connecting", "connected", "reconnecting"} \subseteq DirectCallState
BY DEF DirectCallState, Unanswered

LEMMA StateReplaced ==
  ASSUME rec \in [Calls -> DirectCallRecord], NEW c \in Calls, NEW s \in DirectCallState
  PROVE  [rec EXCEPT ![c].state = s] \in [Calls -> DirectCallRecord]
<1> DEFINE moved == [rec[c] EXCEPT !.state = s]
<1>1. moved \in DirectCallRecord
  BY RecordOperators
<1>2. [rec EXCEPT ![c].state = s] = [rec EXCEPT ![c] = moved]
  OBVIOUS
<1> HIDE DEF moved
<1> QED
  BY <1>1, <1>2

LEMMA TimerOperators ==
  ASSUME NEW t \in Timers
  PROVE  /\ RingDisarmed(t) \in Timers
         /\ \A n \in Nat, g \in BOOLEAN : RingArmed(t, n, g) \in Timers
         /\ ReconnectDisarmed(t) \in Timers
         /\ ReconnectArmed(t) \in Timers
         /\ Disarmed(t) \in Timers
         /\ TickPassed(t) \in Timers
         /\ NoTimers \in Timers
         /\ [NoTimers EXCEPT !.stray = "fired"] \in Timers
<1> USE DEF Timers
<1>1. ASSUME NEW u \in Timers
      PROVE  RingDisarmed(u) \in Timers /\ ReconnectDisarmed(u) \in Timers
  BY DEF RingDisarmed, ReconnectDisarmed, ReconnectSet, Claimed
<1>2. \A n \in Nat, g \in BOOLEAN : RingArmed(t, n, g) \in Timers
  BY DEF RingArmed
<1>3. ReconnectArmed(t) \in Timers
  BY WindowsAssumption DEF ReconnectArmed, ReconnectSet, Claimed
<1>4. Disarmed(t) \in Timers
  BY <1>1 DEF Disarmed
<1>5. TickPassed(t) \in Timers
  BY DEF Passed, TickPassed
<1>6. NoTimers \in Timers /\ [NoTimers EXCEPT !.stray = "fired"] \in Timers
  BY DEF NoTimers
<1> QED
  BY <1>1, <1>2, <1>3, <1>4, <1>5, <1>6

LEMMA FinishType ==
  ASSUME TypeOK, NEW c \in Calls, NEW s \in TERMINAL_STATES,
         NEW by \in Accounts \cup {Nobody}, Finish(c, s, by)
  PROVE  TypeOK'
<1>1. rec' \in [Calls -> DirectCallRecord]
  BY RecordOperators DEF Finish, TypeOK, DirectCallState
<1>2. timers' \in [Calls -> Timers]
  BY TimerOperators DEF Finish, TypeOK
<1>3. outcomes' \in [Calls -> Nat]
  BY DEF Finish, TypeOK
<1> QED
  BY <1>1, <1>2, <1>3 DEF TypeOK

LEMMA TypeStep == TypeOK /\ [Next]_vars => TypeOK'
<1> SUFFICES ASSUME TypeOK, [Next]_vars PROVE TypeOK'
  OBVIOUS
<1>1. ASSUME NEW c \in Calls, NEW caller \in Accounts, NEW peer \in Accounts,
             NEW busy \in BOOLEAN, create(c, caller, peer, busy)
      PROVE  TypeOK'
  <2> DEFINE kept == [timers[c] EXCEPT !.stray =
                  IF rec[c].state = "reconnecting" /\ timers[c].reconnect > 0
                  THEN "armed" ELSE IF @ = "fired" THEN "no" ELSE @]
  <2>1. kept \in Timers
    BY DEF TypeOK, Timers
  <2>2. timers' \in [Calls -> Timers]
    BY <1>1, <2>1, TimerOperators, WindowsAssumption DEF create, TypeOK
  <2>3. rec' \in [Calls -> DirectCallRecord]
    BY <1>1 DEF create, TypeOK, NoRecord, DirectCallRecord, DirectCallState, Reach,
                Unanswered, TERMINAL_STATES
  <2>4. outcomes' \in [Calls -> Nat]
    BY <1>1 DEF create, TypeOK
  <2> QED
    BY <2>2, <2>3, <2>4 DEF TypeOK
<1>2. ASSUME NEW c \in Calls, NEW n \in Reach, noteRingDispatch(c, n)
      PROVE  TypeOK'
  <2>1. CASE n = "zero" /\ rec[c].state = "calling"
    <3>1. rec' \in [Calls -> DirectCallRecord]
      <4> DEFINE reported == [rec[c] EXCEPT !.reached = n]
      <4>1. rec[c] \in DirectCallRecord /\ "unavailable" \in DirectCallState
        BY DEF TypeOK, DirectCallState, TERMINAL_STATES
      <4>2. reported \in DirectCallRecord
        BY <4>1, RecordOperators
      <4>3. Moved(reported, "unavailable", rec[c].answered, rec[c].connected,
                  rec[c].endedBy) \in DirectCallRecord
        BY <4>1, <4>2, RecordOperators
      <4> QED
        BY <1>2, <2>1, <4>3 DEF noteRingDispatch, TypeOK
    <3>2. timers' \in [Calls -> Timers]
      BY <1>2, <2>1, TimerOperators DEF noteRingDispatch, TypeOK
    <3>3. outcomes' \in [Calls -> Nat]
      BY <1>2, <2>1 DEF noteRingDispatch, TypeOK
    <3> QED
      BY <3>1, <3>2, <3>3 DEF TypeOK
  <2>2. CASE ~(n = "zero" /\ rec[c].state = "calling")
    BY <1>2, <2>2 DEF noteRingDispatch, TypeOK, DirectCallRecord
  <2> QED
    BY <2>1, <2>2
<1>3. ASSUME NEW c \in Calls, NEW a \in Accounts, ringingAck(c, a)
      PROVE  TypeOK'
  BY <1>3 DEF ringingAck, TypeOK, DirectCallRecord, DirectCallState, Unanswered
<1>4. ASSUME NEW c \in Calls, NEW a \in Accounts, answering(c, a)
      PROVE  TypeOK'
  <2>1. "ringing" \in DirectCallState
    BY OngoingStates
  <2>2. rec' \in [Calls -> DirectCallRecord]
    BY <1>4, <2>1, StateReplaced DEF answering, TypeOK
  <2>3. RingArmed(timers[c], AnswerGrace, TRUE) \in Timers
    BY TimerOperators, WindowsAssumption DEF TypeOK
  <2>4. timers' \in [Calls -> Timers]
    BY <1>4, <2>3 DEF answering, TypeOK
  <2> QED
    BY <1>4, <2>2, <2>4 DEF answering, TypeOK
<1>5. ASSUME NEW c \in Calls, NEW a \in Accounts, decline(c, a)
      PROVE  TypeOK'
  BY <1>5, FinishType DEF decline, TypeOK, DirectCallRecord, TERMINAL_STATES
<1>6. ASSUME NEW c \in Calls, NEW a \in Accounts, peerJoined(c, a)
      PROVE  TypeOK'
  <2>1. CASE Exists(c) /\ rec[c].peer = a /\ rec[c].state \in Unanswered
    <3>0. Moved(rec[c], "connecting", TRUE, rec[c].connected, rec[c].endedBy)
            \in DirectCallRecord
      BY RecordOperators DEF TypeOK, DirectCallState
    <3>1. rec' \in [Calls -> DirectCallRecord]
      BY <1>6, <2>1, <3>0 DEF peerJoined, TypeOK
    <3>2. timers' \in [Calls -> Timers]
      BY <1>6, <2>1, TimerOperators DEF peerJoined, TypeOK
    <3> QED
      BY <1>6, <2>1, <3>1, <3>2 DEF peerJoined, TypeOK
  <2>2. CASE ~(Exists(c) /\ rec[c].peer = a /\ rec[c].state \in Unanswered)
    BY <1>6, <2>2 DEF peerJoined, vars, TypeOK
  <2> QED
    BY <2>1, <2>2
<1>7. ASSUME NEW c \in Calls, NEW twoWay \in BOOLEAN, noteTwoWayAudio(c, twoWay)
      PROVE  TypeOK'
  <2>2. ASSUME twoWayAudioFlows(c), rec[c].state \in {"connecting", "reconnecting"}
        PROVE  TypeOK'
    <3>0. Moved(rec[c], "connected", rec[c].answered, TRUE, rec[c].endedBy)
            \in DirectCallRecord
      BY RecordOperators DEF TypeOK, DirectCallState
    <3>1. rec' \in [Calls -> DirectCallRecord]
      BY <2>2, <3>0 DEF twoWayAudioFlows, TypeOK
    <3>2. timers' \in [Calls -> Timers]
      BY <2>2, TimerOperators DEF twoWayAudioFlows, TypeOK
    <3> QED
      BY <2>2, <3>1, <3>2 DEF twoWayAudioFlows, TypeOK
  <2>3. ASSUME twoWayAudioStalls(c), rec[c].state = "connected" PROVE TypeOK'
    <3>0. "reconnecting" \in DirectCallState
      BY OngoingStates
    <3>1. rec' \in [Calls -> DirectCallRecord]
      BY <2>3, <3>0, StateReplaced DEF twoWayAudioStalls, TypeOK
    <3>2. timers' \in [Calls -> Timers]
      BY <2>3, TimerOperators DEF twoWayAudioStalls, TypeOK
    <3> QED
      BY <2>3, <3>1, <3>2 DEF twoWayAudioStalls, TypeOK
  <2>4. ASSUME UNCHANGED vars PROVE TypeOK'
    BY <2>4 DEF vars, TypeOK
  <2> QED
    BY <1>7, <2>2, <2>3, <2>4 DEF noteTwoWayAudio, twoWayAudioFlows, twoWayAudioStalls
<1>8. ASSUME NEW c \in Calls, NEW by \in Accounts \cup {Nobody}, ended(c, by)
      PROVE  TypeOK'
  BY <1>8, FinishType DEF ended, vars, TypeOK, TERMINAL_STATES
<1>9. ASSUME NEW c \in Calls, forget(c)
      PROVE  TypeOK'
  BY <1>9, TimerOperators
  DEF forget, TypeOK, NoRecord, DirectCallRecord, Reach
<1>10. ASSUME NEW c \in Calls, Expire(c)
       PROVE  TypeOK'
  <2>1. CASE ringingWindowExpires(c)
    BY <2>1, FinishType
    DEF ringingWindowExpires, TypeOK, DirectCallRecord, TERMINAL_STATES
  <2>2. CASE reconnectWindowExpires(c)
    BY <2>2, FinishType
    DEF reconnectWindowExpires, TypeOK, DirectCallRecord, TERMINAL_STATES
  <2>3. CASE strayWindowExpires(c)
    BY <2>3, TimerOperators DEF strayWindowExpires, TypeOK
  <2> QED
    BY <1>10, <2>1, <2>2, <2>3 DEF Expire
<1>11. CASE Tick
  BY <1>11, TimerOperators DEF Tick, TypeOK
<1>12. CASE UNCHANGED vars
  BY <1>12 DEF vars, TypeOK
<1> QED
  BY <1>1, <1>2, <1>3, <1>4, <1>5, <1>6, <1>7, <1>8, <1>9, <1>10, <1>11, <1>12
  DEF Next

\* Every reachable state is one the class can hold.
THEOREM TypeCorrect == Spec => []TypeOK
<1>1. Init => TypeOK
  BY InitIInv DEF IInv
<1> QED
  BY <1>1, TypeStep, PTL DEF Spec

-----------------------------------------------------------------------------
(* The three safety invariants speak of one call at a time.  CallInv says them   *)
(* of one call's record, timers and outcomes, so that a step has to be looked at *)
(* for the one call it acts on.                                                  *)
CallInv(r, t, o) ==
  /\ o = IF r.state \in TERMINAL_STATES THEN 1 ELSE 0
  /\ t.ring > 0 => r.state \in Unanswered
  /\ r.state \in Unanswered => t.ring > 0 \/ t.stray = "fired"
  /\ r.state = "reconnecting" => t.reconnect > 0 /\ t.stray # "armed"
  /\ t.reconnect > 0 => r.state = "reconnecting" \/ t.stray = "armed"
  /\ t.stray = "armed" => t.reconnect > 0
  /\ r.connected => r.answered
  /\ r.answered <=> r.state \in
       {"connecting", "connected", "reconnecting", "network", "ended"}
  /\ r.state \in {"connected", "reconnecting", "network"} => r.connected

SafetyInv == \A c \in Calls : CallInv(rec[c], timers[c], outcomes[c])

LEMMA SafetyParts ==
  SafetyInv <=> OutcomeOncePerCall /\ WaitingIsTimed /\ WordMatchesCall
BY DEF SafetyInv, CallInv, OutcomeOncePerCall, WaitingIsTimed, WordMatchesCall

\* Only call c is touched.
Only(c) ==
  \A d \in Calls \ {c} : /\ rec'[d] = rec[d]
                         /\ timers'[d] = timers[d]
                         /\ outcomes'[d] = outcomes[d]

LEMMA OneCall ==
  ASSUME SafetyInv, NEW c \in Calls, Only(c),
         CallInv(rec'[c], timers'[c], outcomes'[c])
  PROVE  SafetyInv'
<1> SUFFICES ASSUME NEW d \in Calls PROVE CallInv(rec'[d], timers'[d], outcomes'[d])
  BY DEF SafetyInv
<1>1. CASE d = c
  BY <1>1
<1>2. CASE d # c
  BY <1>2 DEF Only, SafetyInv
<1> QED
  BY <1>1, <1>2

\* What disarming and arming leave in the fields of the timers.
LEMMA TimerFields ==
  ASSUME NEW t \in Timers
  PROVE  /\ RingDisarmed(t).ring = 0
         /\ RingDisarmed(t).reconnect = t.reconnect /\ RingDisarmed(t).stray = t.stray
         /\ ReconnectDisarmed(t).ring = t.ring /\ ReconnectDisarmed(t).reconnect = 0
         /\ ReconnectDisarmed(t).stray # "armed"
         /\ t.stray = "fired" => ReconnectDisarmed(t).stray = "fired"
         /\ ReconnectArmed(t).ring = t.ring /\ ReconnectArmed(t).reconnect > 0
         /\ ReconnectArmed(t).stray # "armed"
         /\ Disarmed(t).ring = 0 /\ Disarmed(t).reconnect = 0
         /\ Disarmed(t).stray # "armed"
<1> USE DEF Timers
<1>1. /\ RingDisarmed(t).ring = 0
      /\ RingDisarmed(t).reconnect = t.reconnect /\ RingDisarmed(t).stray = t.stray
  BY DEF RingDisarmed
<1>2. ASSUME NEW u \in Timers
      PROVE  /\ ReconnectDisarmed(u).ring = u.ring /\ ReconnectDisarmed(u).reconnect = 0
             /\ ReconnectDisarmed(u).stray # "armed"
             /\ u.stray = "fired" => ReconnectDisarmed(u).stray = "fired"
  BY DEF ReconnectDisarmed, ReconnectSet, Claimed
<1>3. /\ ReconnectArmed(t).ring = t.ring /\ ReconnectArmed(t).reconnect > 0
      /\ ReconnectArmed(t).stray # "armed"
  BY WindowsAssumption DEF ReconnectArmed, ReconnectSet, Claimed
<1>4. /\ Disarmed(t).ring = 0 /\ Disarmed(t).reconnect = 0
      /\ Disarmed(t).stray # "armed"
  BY <1>1, <1>2, TimerOperators DEF Disarmed
<1> QED
  BY <1>1, <1>2, <1>3, <1>4

LEMMA FinishSafety ==
  ASSUME TypeOK, SafetyInv, NEW c \in Calls, NEW s \in TERMINAL_STATES, NEW by,
         Finish(c, s, by), Live(c),
         rec[c].answered <=> s \in {"network", "ended"},
         s = "network" => rec[c].connected
  PROVE  SafetyInv'
<1>1. /\ rec'[c] = Moved(rec[c], s, rec[c].answered, rec[c].connected, by)
      /\ timers'[c] = Disarmed(timers[c])
      /\ outcomes'[c] = outcomes[c] + 1
      /\ Only(c)
  BY DEF Finish, TypeOK, Only
<1>2. timers[c] \in Timers
  BY DEF TypeOK
<1>3. /\ outcomes[c] = 0
      /\ rec[c].connected => rec[c].answered
  BY DEF SafetyInv, CallInv, Live
<1>4. /\ Disarmed(timers[c]).ring = 0 /\ Disarmed(timers[c]).reconnect = 0
      /\ Disarmed(timers[c]).stray # "armed"
  BY <1>2, TimerFields
<1>5. CallInv(rec'[c], timers'[c], outcomes'[c])
  BY <1>1, <1>3, <1>4 DEF CallInv, Moved, Unanswered, TERMINAL_STATES
<1> QED
  BY <1>1, <1>5, OneCall


LEMMA SafetyStep == TypeOK /\ SafetyInv /\ [Next]_vars => SafetyInv'
<1> SUFFICES ASSUME TypeOK, SafetyInv, [Next]_vars PROVE SafetyInv'
  OBVIOUS
<1>t. \A c \in Calls : timers[c] \in Timers /\ rec[c] \in DirectCallRecord
  BY DEF TypeOK
<1>i. \A c \in Calls : CallInv(rec[c], timers[c], outcomes[c])
  BY DEF SafetyInv
<1>1. ASSUME NEW c \in Calls, NEW caller \in Accounts, NEW peer \in Accounts,
             NEW busy \in BOOLEAN, create(c, caller, peer, busy)
      PROVE  SafetyInv'
  <2> DEFINE kept == [timers[c] EXCEPT !.stray =
                  IF rec[c].state = "reconnecting" /\ timers[c].reconnect > 0
                  THEN "armed" ELSE IF @ = "fired" THEN "no" ELSE @]
             fresh == [state |-> IF busy THEN "busy" ELSE "calling",
                       caller |-> caller, peer |-> peer, reached |-> "unknown",
                       answered |-> FALSE, connected |-> FALSE, endedBy |-> Nobody]
  <2>1. /\ kept \in Timers
        /\ kept.reconnect = timers[c].reconnect
        /\ kept.stray = "armed" <=> timers[c].reconnect > 0
    BY <1>t, <1>i DEF Timers, CallInv
  <2>2. /\ rec'[c] = fresh
        /\ timers'[c] = IF busy THEN Disarmed(kept) ELSE RingArmed(kept, RingingWindow, FALSE)
        /\ outcomes'[c] = IF busy THEN 1 ELSE 0
        /\ Only(c)
    BY <1>1 DEF create, TypeOK, Only
  <2>3. CASE busy
    <3>1. timers'[c].ring = 0 /\ timers'[c].reconnect = 0 /\ timers'[c].stray # "armed"
      BY <2>1, <2>2, <2>3, TimerFields
    <3> QED
      BY <2>2, <2>3, <3>1, OneCall DEF CallInv, Unanswered, TERMINAL_STATES
  <2>4. CASE ~busy
    <3>1. /\ timers'[c].ring > 0
          /\ timers'[c].reconnect = timers[c].reconnect
          /\ timers'[c].stray = kept.stray
      BY <2>1, <2>2, <2>4, WindowsAssumption DEF RingArmed
    <3>2. /\ rec'[c].state = "calling" /\ rec'[c].answered = FALSE
          /\ rec'[c].connected = FALSE /\ outcomes'[c] = 0
      BY <2>2, <2>4
    <3>3. /\ timers'[c].stray = "armed" => timers'[c].reconnect > 0
          /\ timers'[c].reconnect > 0 => timers'[c].stray = "armed"
      BY <2>1, <3>1
    <3>4. CallInv(rec'[c], timers'[c], outcomes'[c])
      BY <3>1, <3>2, <3>3 DEF CallInv, Unanswered, TERMINAL_STATES
    <3> QED
      BY <2>2, <3>4, OneCall
  <2> QED
    BY <2>3, <2>4
<1>2. ASSUME NEW c \in Calls, NEW n \in Reach, noteRingDispatch(c, n)
      PROVE  SafetyInv'
  <2> DEFINE reported == [rec[c] EXCEPT !.reached = n]
  <2>1. CASE n = "zero" /\ rec[c].state = "calling"
    <3>1. /\ rec'[c] = Moved(reported, "unavailable", rec[c].answered,
                             rec[c].connected, rec[c].endedBy)
          /\ timers'[c] = Disarmed(timers[c])
          /\ outcomes'[c] = outcomes[c] + 1
          /\ Only(c)
      BY <1>2, <2>1 DEF noteRingDispatch, TypeOK, Only
    <3>2. /\ timers'[c].ring = 0 /\ timers'[c].reconnect = 0
          /\ timers'[c].stray # "armed"
      BY <1>t, <3>1, TimerFields
    <3>3. /\ rec'[c].state = "unavailable" /\ rec'[c].answered = rec[c].answered
          /\ rec'[c].connected = rec[c].connected
      BY <3>1 DEF Moved
    <3>4. CallInv(rec'[c], timers'[c], outcomes'[c])
      BY <1>i, <2>1, <3>1, <3>2, <3>3 DEF CallInv, Unanswered, TERMINAL_STATES
    <3> QED
      BY <3>1, <3>4, OneCall
  <2>2. CASE ~(n = "zero" /\ rec[c].state = "calling")
    <3>1. /\ rec'[c] = reported /\ timers'[c] = timers[c] /\ outcomes'[c] = outcomes[c]
          /\ Only(c)
      BY <1>2, <2>2 DEF noteRingDispatch, TypeOK, Only
    <3>2. /\ reported.state = rec[c].state /\ reported.answered = rec[c].answered
          /\ reported.connected = rec[c].connected
      BY <1>t DEF DirectCallRecord
    <3>3. CallInv(rec'[c], timers'[c], outcomes'[c])
      BY <1>i, <3>1, <3>2 DEF CallInv
    <3> QED
      BY <3>1, <3>3, OneCall
  <2> QED
    BY <2>1, <2>2
<1>3. ASSUME NEW c \in Calls, NEW a \in Accounts, ringingAck(c, a)
      PROVE  SafetyInv'
  <2>1. /\ rec'[c].state = "ringing" /\ rec'[c].answered = rec[c].answered
        /\ rec'[c].connected = rec[c].connected
        /\ timers'[c] = timers[c] /\ outcomes'[c] = outcomes[c] /\ Only(c)
    BY <1>3, <1>t DEF ringingAck, TypeOK, Only, DirectCallRecord
  <2>2. CallInv(rec'[c], timers'[c], outcomes'[c])
    BY <1>3, <1>i, <2>1 DEF ringingAck, CallInv, Unanswered, TERMINAL_STATES
  <2> QED
    BY <2>1, <2>2, OneCall
<1>4. ASSUME NEW c \in Calls, NEW a \in Accounts, answering(c, a)
      PROVE  SafetyInv'
  <2>1. /\ rec'[c].state = "ringing" /\ rec'[c].answered = rec[c].answered
        /\ rec'[c].connected = rec[c].connected
        /\ outcomes'[c] = outcomes[c] /\ Only(c)
    BY <1>4, <1>t DEF answering, TypeOK, Only, DirectCallRecord
  <2>2. /\ timers'[c].ring > 0 /\ timers'[c].reconnect = timers[c].reconnect
        /\ timers'[c].stray = timers[c].stray
    BY <1>4, <1>t, WindowsAssumption DEF answering, TypeOK, RingArmed
  <2>3. CallInv(rec'[c], timers'[c], outcomes'[c])
    BY <1>4, <1>i, <2>1, <2>2 DEF answering, CallInv, Unanswered, TERMINAL_STATES
  <2> QED
    BY <2>1, <2>3, OneCall
<1>5. ASSUME NEW c \in Calls, NEW a \in Accounts, decline(c, a)
      PROVE  SafetyInv'
  <2>1. Live(c) /\ ~rec[c].answered
    BY <1>5, <1>i DEF decline, Live, CallInv, Unanswered, TERMINAL_STATES
  <2> QED
    BY <1>5, <2>1, FinishSafety DEF decline, TERMINAL_STATES
<1>6. ASSUME NEW c \in Calls, NEW a \in Accounts, peerJoined(c, a)
      PROVE  SafetyInv'
  <2>1. CASE Exists(c) /\ rec[c].peer = a /\ rec[c].state \in Unanswered
    <3>1. /\ rec'[c] = Moved(rec[c], "connecting", TRUE, rec[c].connected, rec[c].endedBy)
          /\ timers'[c] = RingDisarmed(timers[c]) /\ outcomes'[c] = outcomes[c]
          /\ Only(c)
      BY <1>6, <2>1 DEF peerJoined, TypeOK, Only
    <3>2. /\ timers'[c].ring = 0 /\ timers'[c].reconnect = timers[c].reconnect
          /\ timers'[c].stray = timers[c].stray
      BY <1>t, <3>1, TimerFields
    <3>3. CallInv(rec'[c], timers'[c], outcomes'[c])
      BY <1>i, <2>1, <3>1, <3>2 DEF CallInv, Moved, Unanswered, TERMINAL_STATES
    <3> QED
      BY <3>1, <3>3, OneCall
  <2>2. CASE ~(Exists(c) /\ rec[c].peer = a /\ rec[c].state \in Unanswered)
    BY <1>6, <2>2 DEF peerJoined, vars, SafetyInv
  <2> QED
    BY <2>1, <2>2
<1>7. ASSUME NEW c \in Calls, NEW twoWay \in BOOLEAN, noteTwoWayAudio(c, twoWay)
      PROVE  SafetyInv'
  <2>1. ASSUME twoWayAudioFlows(c), rec[c].state \in {"connecting", "reconnecting"}
        PROVE  SafetyInv'
    <3>1. /\ rec'[c] = Moved(rec[c], "connected", rec[c].answered, TRUE, rec[c].endedBy)
          /\ timers'[c] = ReconnectDisarmed(timers[c]) /\ outcomes'[c] = outcomes[c]
          /\ Only(c)
      BY <2>1 DEF twoWayAudioFlows, TypeOK, Only
    <3>2. /\ timers'[c].ring = timers[c].ring /\ timers'[c].reconnect = 0
          /\ timers'[c].stray # "armed"
      BY <1>t, <3>1, TimerFields
    <3>3. CallInv(rec'[c], timers'[c], outcomes'[c])
      BY <1>i, <2>1, <3>1, <3>2 DEF CallInv, Moved, Unanswered, TERMINAL_STATES
    <3> QED
      BY <3>1, <3>3, OneCall
  <2>2. ASSUME twoWayAudioStalls(c), rec[c].state = "connected"
        PROVE  SafetyInv'
    <3>1. /\ rec'[c].state = "reconnecting" /\ rec'[c].answered = rec[c].answered
          /\ rec'[c].connected = rec[c].connected
          /\ timers'[c] = ReconnectArmed(timers[c]) /\ outcomes'[c] = outcomes[c]
          /\ Only(c)
      BY <1>t, <2>2 DEF twoWayAudioStalls, TypeOK, Only, DirectCallRecord
    <3>2. /\ timers'[c].ring = timers[c].ring /\ timers'[c].reconnect > 0
          /\ timers'[c].stray # "armed"
      BY <1>t, <3>1, TimerFields
    <3>3. CallInv(rec'[c], timers'[c], outcomes'[c])
      BY <1>i, <2>2, <3>1, <3>2 DEF CallInv, Unanswered, TERMINAL_STATES
    <3> QED
      BY <3>1, <3>3, OneCall
  <2>3. ASSUME UNCHANGED vars PROVE SafetyInv'
    BY <2>3 DEF vars, SafetyInv
  <2> QED
    BY <1>7, <2>1, <2>2, <2>3 DEF noteTwoWayAudio, twoWayAudioFlows, twoWayAudioStalls
<1>8. ASSUME NEW c \in Calls, NEW by \in Accounts \cup {Nobody}, ended(c, by)
      PROVE  SafetyInv'
  <2>1. CASE Live(c)
    <3> DEFINE s == IF rec[c].answered THEN "ended" ELSE "no_answer"
    <3>1. s \in TERMINAL_STATES /\ Finish(c, s, by)
      BY <1>8, <2>1 DEF ended, TERMINAL_STATES
    <3>2. rec[c].answered \in BOOLEAN
      BY <1>t DEF DirectCallRecord
    <3>3. (rec[c].answered <=> s \in {"network", "ended"}) /\ s # "network"
      BY <3>2
    <3> QED
      BY <2>1, <3>1, <3>3, FinishSafety
  <2>2. CASE ~Live(c)
    BY <1>8, <2>2 DEF ended, vars, SafetyInv
  <2> QED
    BY <2>1, <2>2
<1>9. ASSUME NEW c \in Calls, forget(c)
      PROVE  SafetyInv'
  <2>1. rec'[c] = NoRecord /\ timers'[c] = NoTimers /\ outcomes'[c] = 0 /\ Only(c)
    BY <1>9 DEF forget, TypeOK, Only
  <2>2. CallInv(rec'[c], timers'[c], outcomes'[c])
    BY <2>1 DEF CallInv, NoRecord, NoTimers, Unanswered, TERMINAL_STATES
  <2> QED
    BY <2>1, <2>2, OneCall
<1>10. ASSUME NEW c \in Calls, Expire(c)
       PROVE  SafetyInv'
  <2>1. CASE ringingWindowExpires(c)
    <3>1. Live(c) /\ ~rec[c].answered
      BY <2>1, <1>i DEF ringingWindowExpires, Live, Exists, CallInv, Unanswered,
                        TERMINAL_STATES
    <3> QED
      BY <2>1, <3>1, FinishSafety DEF ringingWindowExpires, TERMINAL_STATES
  <2>2. CASE reconnectWindowExpires(c)
    <3>1. Live(c) /\ rec[c].answered /\ rec[c].connected
      BY <2>2, <1>i DEF reconnectWindowExpires, Live, Exists, CallInv, TERMINAL_STATES
    <3> QED
      BY <2>2, <3>1, FinishSafety DEF reconnectWindowExpires, TERMINAL_STATES
  <2>3. CASE strayWindowExpires(c)
    <3>1. /\ rec'[c] = rec[c] /\ outcomes'[c] = outcomes[c] /\ Only(c)
          /\ timers'[c] = [NoTimers EXCEPT !.stray = "fired"]
      BY <2>3 DEF strayWindowExpires, TypeOK, Only
    <3>2. /\ timers'[c].ring = 0 /\ timers'[c].reconnect = 0
          /\ timers'[c].stray = "fired"
      BY <3>1 DEF NoTimers
    <3>3. CallInv(rec'[c], timers'[c], outcomes'[c])
      BY <1>i, <2>3, <3>1, <3>2 DEF strayWindowExpires, CallInv
    <3> QED
      BY <3>1, <3>3, OneCall
  <2> QED
    BY <1>10, <2>1, <2>2, <2>3 DEF Expire
<1>11. CASE Tick
  <2> SUFFICES ASSUME NEW c \in Calls PROVE CallInv(rec'[c], timers'[c], outcomes'[c])
    BY DEF SafetyInv
  <2>1. /\ rec'[c] = rec[c] /\ outcomes'[c] = outcomes[c]
        /\ timers'[c] = TickPassed(timers[c])
    BY <1>11 DEF Tick
  <2>2. /\ timers'[c].stray = timers[c].stray
        /\ timers'[c].ring > 0 <=> timers[c].ring > 0
        /\ timers'[c].reconnect > 0 <=> timers[c].reconnect > 0
    BY <1>t, <2>1 DEF TickPassed, Passed, Timers
  <2> QED
    BY <1>i, <2>1, <2>2 DEF CallInv
<1>12. CASE UNCHANGED vars
  BY <1>12 DEF vars, SafetyInv
<1> QED
  BY <1>1, <1>2, <1>3, <1>4, <1>5, <1>6, <1>7, <1>8, <1>9, <1>10, <1>11, <1>12
  DEF Next

\* Whatever the callers do and however late the timers are, a call's history is
\* written exactly once, its waiting states are timed, and its word is right.
THEOREM Safety == Spec => []CallIsAccounted
<1>1. Init => TypeOK /\ SafetyInv
  BY InitIInv, SafetyParts DEF IInv
<1>2. TypeOK /\ SafetyInv /\ [Next]_vars => (TypeOK /\ SafetyInv)'
  BY TypeStep, SafetyStep
<1>3. TypeOK /\ SafetyInv => CallIsAccounted
  BY SafetyParts DEF CallIsAccounted
<1> QED
  BY <1>1, <1>2, <1>3, PTL DEF Spec

\* FinishedIsFinal, for one step and one call.
FinalHere(c) ==
  rec[c].state \in TERMINAL_STATES /\ rec'[c] # rec[c] =>
    rec'[c].state \in {"none", "calling", "busy"} /\ ~rec'[c].answered

LEMMA FinalStep == TypeOK /\ [Next]_vars => \A c \in Calls : FinalHere(c)
<1> SUFFICES ASSUME TypeOK, Next, NEW d \in Calls PROVE FinalHere(d)
  BY DEF vars, FinalHere
<1>1. ASSUME NEW c \in Calls, NEW caller \in Accounts, NEW peer \in Accounts,
             NEW busy \in BOOLEAN, create(c, caller, peer, busy)
      PROVE  FinalHere(d)
  BY <1>1 DEF create, TypeOK, FinalHere
<1>2. ASSUME NEW c \in Calls, NEW n \in Reach, noteRingDispatch(c, n)
      PROVE  FinalHere(d)
  <2>1. rec'[d] = rec[d] \/ (d = c /\ Live(d))
    BY <1>2 DEF noteRingDispatch, TypeOK
  <2> QED
    BY <2>1 DEF Live, FinalHere
<1>3. ASSUME NEW c \in Calls, NEW a \in Accounts,
             ringingAck(c, a) \/ answering(c, a) \/ decline(c, a) \/ peerJoined(c, a)
      PROVE  FinalHere(d)
  <2>1. rec'[d] = rec[d] \/ (d = c /\ rec[d].state \in Unanswered)
    BY <1>3 DEF ringingAck, answering, decline, Finish, peerJoined, vars, TypeOK,
                Unanswered
  <2> QED
    BY <2>1 DEF Unanswered, TERMINAL_STATES, FinalHere
<1>4. ASSUME NEW c \in Calls, NEW twoWay \in BOOLEAN, noteTwoWayAudio(c, twoWay)
      PROVE  FinalHere(d)
  <2>1. rec'[d] = rec[d] \/ rec[d].state \in {"connecting", "connected", "reconnecting"}
    BY <1>4 DEF noteTwoWayAudio, twoWayAudioFlows, twoWayAudioStalls, vars, TypeOK
  <2> QED
    BY <2>1 DEF TERMINAL_STATES, FinalHere
<1>5. ASSUME NEW c \in Calls, NEW by \in Accounts \cup {Nobody}, ended(c, by)
      PROVE  FinalHere(d)
  <2>1. rec'[d] = rec[d] \/ (d = c /\ Live(d))
    BY <1>5 DEF ended, Finish, vars, TypeOK
  <2> QED
    BY <2>1 DEF Live, FinalHere
<1>6. ASSUME NEW c \in Calls, forget(c)
      PROVE  FinalHere(d)
  BY <1>6 DEF forget, NoRecord, TypeOK, FinalHere
<1>7. ASSUME NEW c \in Calls, Expire(c)
      PROVE  FinalHere(d)
  <2>1. rec'[d] = rec[d] \/ rec[d].state \in Unanswered \cup {"reconnecting"}
    BY <1>7 DEF Expire, ringingWindowExpires, reconnectWindowExpires,
                strayWindowExpires, Finish, TypeOK
  <2> QED
    BY <2>1 DEF Unanswered, TERMINAL_STATES, FinalHere
<1>8. CASE Tick
  BY <1>8 DEF Tick, FinalHere
<1> QED
  BY <1>1, <1>2, <1>3, <1>4, <1>5, <1>6, <1>7, <1>8 DEF Next

\* No hang-up, late tap, late report or timer changes a call that has finished.
THEOREM FinishedStaysFinished == Spec => FinishedIsFinal
<1>1. Init => TypeOK
  BY InitIInv DEF IInv
<1>2. TypeOK /\ [Next]_vars => [\A c \in Calls : FinalHere(c)]_vars
  BY FinalStep
<1>3. FinishedIsFinal <=> [][\A c \in Calls : FinalHere(c)]_vars
  BY DEF FinishedIsFinal, FinalHere
<1> QED
  BY <1>1, <1>2, <1>3, TypeStep, PTL DEF Spec
=============================================================================
