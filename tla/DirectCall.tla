----------------------------- MODULE DirectCall -----------------------------
(***************************************************************************)
(* DirectCallLifecycle of services/realtime-gateway: the telephone a       *)
(* direct (person to person) call is, kept by the gateway and broadcast to *)
(* both phones.  One record per call id, two named timers per record.      *)
(*                                                                         *)
(* Every public method of the class is an operator here; Next is the class *)
(* driven by an arbitrary caller.  DirectCallRuntime drives the same       *)
(* operators the way call-runtime.ts does.                                 *)
(*                                                                         *)
(* Time is a count of ticks: a timer is 0 when it is not armed, 1 when it  *)
(* is due, and otherwise one more than the ticks it still has to wait.     *)
(* Tick waits for due timers but every other operation may overtake them,  *)
(* as an event loop that is late with its timers does.                     *)
(***************************************************************************)
EXTENDS Naturals

CONSTANTS Calls,            \* call ids
          Accounts,         \* account ids
          Nobody,           \* no account: the null of endedByAccountId
          RingingWindow,    \* RINGING_WINDOW_MS, in ticks
          AnswerGrace,      \* ANSWER_GRACE_MS
          ReconnectWindow   \* RECONNECT_WINDOW_MS

ASSUME WindowsAssumption ==
  /\ RingingWindow \in Nat \ {0}
  /\ AnswerGrace \in Nat \ {0}
  /\ ReconnectWindow \in Nat \ {0}

ASSUME NobodyAssumption == Nobody \notin Accounts

VARIABLES rec,       \* rec[c]: the record kept for c
          timers,    \* timers[c]: its ringing-window and reconnect-window
          outcomes   \* outcomes[c]: how many history records c's record wrote

vars == <<rec, timers, outcomes>>

-----------------------------------------------------------------------------
Unanswered == {"calling", "ringing"}
TERMINAL_STATES ==
  {"busy", "declined", "no_answer", "unavailable", "network", "ended"}
\* 'answered' is entered and left inside peerJoined: no other code sees it.
DirectCallState ==
  {"connecting", "connected", "reconnecting"} \cup Unanswered \cup TERMINAL_STATES

NoRecord ==
  [state |-> "none", caller |-> Nobody, peer |-> Nobody, reached |-> "unknown",
   answered |-> FALSE, connected |-> FALSE, endedBy |-> Nobody]

\* reached is reachedDevices: -1, 0, or more.
Reach == {"unknown", "zero", "some"}
DirectCallRecord ==
  [state : DirectCallState \cup {"none"},
   caller : Accounts \cup {Nobody}, peer : Accounts \cup {Nobody},
   reached : Reach, answered : BOOLEAN, connected : BOOLEAN,
   endedBy : Accounts \cup {Nobody}]

\* stray tells of a reconnect-window left armed by a record that create()
\* replaced: its callback holds the old record but shares the call's timer key.
NoTimers == [ring |-> 0, graced |-> FALSE, reconnect |-> 0, stray |-> "no"]
Timers == [ring : Nat, graced : BOOLEAN, reconnect : Nat,
           stray : {"no", "armed", "fired"}]

Exists(c) == rec[c].state # "none"
Live(c)   == Exists(c) /\ rec[c].state \notin TERMINAL_STATES

Init ==
  /\ rec = [c \in Calls |-> NoRecord]
  /\ timers = [c \in Calls |-> NoTimers]
  /\ outcomes = [c \in Calls |-> 0]

-----------------------------------------------------------------------------
(* arm and disarm, by the key "<call> <name>".  graced says whether answering()  *)
(* or create() armed the ringing-window last: their callbacks differ.            *)
RingDisarmed(t)      == [t EXCEPT !.ring = 0]
RingArmed(t, n, g)   == [ring |-> n + 1, graced |-> g,
                         reconnect |-> t.reconnect, stray |-> t.stray]
Claimed(stray)       == IF stray = "armed" THEN "no" ELSE stray
ReconnectSet(t, n)   == [ring |-> t.ring, graced |-> t.graced,
                         reconnect |-> n, stray |-> Claimed(t.stray)]
ReconnectDisarmed(t) == ReconnectSet(t, 0)
ReconnectArmed(t)    == ReconnectSet(t, ReconnectWindow + 1)
Disarmed(t)          == ReconnectDisarmed(RingDisarmed(t))

\* The record r moved on: its state, and what the move stamps on it.
Moved(r, s, answered, connected, by) ==
  [state |-> s, caller |-> r.caller, peer |-> r.peer, reached |-> r.reached,
   answered |-> answered, connected |-> connected, endedBy |-> by]

\* transition() into a terminal state: both timers go, one outcome is written.
Finish(c, s, by) ==
  /\ rec' = [rec EXCEPT ![c] = Moved(@, s, @.answered, @.connected, by)]
  /\ timers' = [timers EXCEPT ![c] = Disarmed(@)]
  /\ outcomes' = [outcomes EXCEPT ![c] = @ + 1]

create(c, caller, peer, peerBusy) ==
  LET fresh == [state |-> IF peerBusy THEN "busy" ELSE "calling",
                caller |-> caller, peer |-> peer, reached |-> "unknown",
                answered |-> FALSE, connected |-> FALSE, endedBy |-> Nobody]
      kept  == [timers[c] EXCEPT !.stray =
                  IF rec[c].state = "reconnecting" /\ timers[c].reconnect > 0
                  THEN "armed" ELSE IF @ = "fired" THEN "no" ELSE @]
  IN /\ rec' = [rec EXCEPT ![c] = fresh]
     /\ timers' = [timers EXCEPT ![c] =
                     IF peerBusy THEN Disarmed(kept)
                     ELSE RingArmed(kept, RingingWindow, FALSE)]
     /\ outcomes' = [outcomes EXCEPT ![c] = IF peerBusy THEN 1 ELSE 0]

noteRingDispatch(c, n) ==
  LET reported == [rec[c] EXCEPT !.reached = n]
  IN /\ Live(c)
     /\ IF n = "zero" /\ rec[c].state = "calling"
        THEN /\ rec' = [rec EXCEPT ![c] =
                    Moved(reported, "unavailable", @.answered, @.connected, @.endedBy)]
             /\ timers' = [timers EXCEPT ![c] = Disarmed(@)]
             /\ outcomes' = [outcomes EXCEPT ![c] = @ + 1]
        ELSE /\ rec' = [rec EXCEPT ![c] = reported]
             /\ UNCHANGED <<timers, outcomes>>

\* Broken variant: the acknowledgement stops the ringing-window.
ringingAck_disarms(c, a) ==
  /\ Exists(c) /\ rec[c].peer = a
  /\ rec[c].state = "calling"
  /\ rec' = [rec EXCEPT ![c].state = "ringing"]
  /\ timers' = [timers EXCEPT ![c] = RingDisarmed(@)]
  /\ UNCHANGED outcomes

ringingAck(c, a) ==
  /\ Exists(c) /\ rec[c].peer = a
  /\ rec[c].state = "calling"
  /\ rec' = [rec EXCEPT ![c].state = "ringing"]
  /\ UNCHANGED <<timers, outcomes>>

answering(c, a) ==
  /\ Exists(c) /\ rec[c].peer = a
  /\ rec[c].state \in Unanswered
  /\ rec' = [rec EXCEPT ![c].state = "ringing"]
  /\ timers' = [timers EXCEPT ![c] = RingArmed(@, AnswerGrace, TRUE)]
  /\ UNCHANGED outcomes

\* Broken variant: a Decline tap that arrives late still counts.
decline_late(c, a) ==
  /\ Exists(c) /\ rec[c].peer = a
  /\ rec' = [rec EXCEPT ![c].state = "declined"]
  /\ UNCHANGED <<timers, outcomes>>

decline(c, a) ==
  /\ Exists(c) /\ rec[c].peer = a
  /\ rec[c].state \in Unanswered
  /\ Finish(c, "declined", rec[c].endedBy)

\* The early returns of peerJoined leave everything as it was.
peerJoined(c, a) ==
  IF Exists(c) /\ rec[c].peer = a /\ rec[c].state \in Unanswered
  THEN /\ rec' = [rec EXCEPT ![c] = Moved(@, "connecting", TRUE, @.connected, @.endedBy)]
       /\ timers' = [timers EXCEPT ![c] = RingDisarmed(@)]
       /\ UNCHANGED outcomes
  ELSE UNCHANGED vars

twoWayAudioFlows(c) ==
  IF rec[c].state \in {"connecting", "reconnecting"}
  THEN /\ rec' = [rec EXCEPT ![c] = Moved(@, "connected", @.answered, TRUE, @.endedBy)]
       /\ timers' = [timers EXCEPT ![c] = ReconnectDisarmed(@)]
       /\ UNCHANGED outcomes
  ELSE UNCHANGED vars

twoWayAudioStalls(c) ==
  IF rec[c].state = "connected"
  THEN /\ rec' = [rec EXCEPT ![c].state = "reconnecting"]
       /\ timers' = [timers EXCEPT ![c] = ReconnectArmed(@)]
       /\ UNCHANGED outcomes
  ELSE UNCHANGED vars

noteTwoWayAudio(c, twoWay) ==
  IF twoWay THEN twoWayAudioFlows(c) ELSE twoWayAudioStalls(c)

\* Broken variant: without the early return for a finished call.
ended_again(c, by) ==
  IF Exists(c)
  THEN Finish(c, IF rec[c].answered THEN "ended" ELSE "no_answer", by)
  ELSE UNCHANGED vars

ended(c, by) ==
  IF Live(c)
  THEN Finish(c, IF rec[c].answered THEN "ended" ELSE "no_answer", by)
  ELSE UNCHANGED vars

forget(c) ==
  /\ Exists(c)
  /\ rec' = [rec EXCEPT ![c] = NoRecord]
  /\ timers' = [timers EXCEPT ![c] = NoTimers]
  /\ outcomes' = [outcomes EXCEPT ![c] = 0]

shouldRing(c, a) ==
  IF ~Exists(c) \/ rec[c].peer # a THEN "unknown"
  ELSE IF rec[c].state \in Unanswered THEN "ring" ELSE "expired"

-----------------------------------------------------------------------------
(* The timer callbacks. *)
ringingWindowExpires(c) ==
  /\ timers[c].ring = 1
  /\ rec[c].state \in Unanswered
  /\ Finish(c, IF rec[c].reached = "zero" /\ ~timers[c].graced
               THEN "unavailable" ELSE "no_answer", rec[c].endedBy)

reconnectWindowExpires(c) ==
  /\ timers[c].reconnect = 1 /\ timers[c].stray # "armed"
  /\ rec[c].state = "reconnecting"
  /\ Finish(c, "network", rec[c].endedBy)

\* The replaced record goes to NETWORK, and its transition disarms by the call's
\* keys: the current record loses its ringing-window.
strayWindowExpires(c) ==
  /\ timers[c].reconnect = 1 /\ timers[c].stray = "armed"
  /\ timers' = [timers EXCEPT ![c] = [NoTimers EXCEPT !.stray = "fired"]]
  /\ UNCHANGED <<rec, outcomes>>

Expire(c) == \/ ringingWindowExpires(c)
             \/ reconnectWindowExpires(c)
             \/ strayWindowExpires(c)

\* Broken variant: a timer that is not armed is counted down as well.
Passed_offByOne(n) == IF n > 1 THEN n - 2 ELSE n - 1

Passed(n) == IF n > 1 THEN n - 1 ELSE n
TickPassed(t) == [ring |-> Passed(t.ring), graced |-> t.graced,
                  reconnect |-> Passed(t.reconnect), stray |-> t.stray]

Tick ==
  /\ \E c \in Calls : timers[c].ring > 1 \/ timers[c].reconnect > 1
  /\ \A c \in Calls : timers[c].ring # 1 /\ timers[c].reconnect # 1
  /\ timers' = [c \in Calls |-> TickPassed(timers[c])]
  /\ UNCHANGED <<rec, outcomes>>

Next ==
  \/ \E c \in Calls :
       \/ \E caller, peer \in Accounts, busy \in BOOLEAN :
            create(c, caller, peer, busy)
       \/ \E n \in Reach : noteRingDispatch(c, n)
       \/ \E a \in Accounts :
            \/ ringingAck(c, a) \/ answering(c, a)
            \/ decline(c, a) \/ peerJoined(c, a)
       \/ \E twoWay \in BOOLEAN : noteTwoWayAudio(c, twoWay)
       \/ \E by \in Accounts \cup {Nobody} : ended(c, by)
       \/ forget(c)
       \/ Expire(c)
  \/ Tick

Spec == Init /\ [][Next]_vars

-----------------------------------------------------------------------------
TypeOK ==
  /\ rec \in [Calls -> DirectCallRecord]
  /\ timers \in [Calls -> Timers]
  /\ outcomes \in [Calls -> Nat]

\* Every terminal transition writes the call-history record exactly once, and
\* nothing else does: however many times an end is asked for, whichever of a
\* hang-up, a decline and a timer comes first (transition(), onOutcome).
OutcomeOncePerCall ==
  \A c \in Calls : outcomes[c] = IF rec[c].state \in TERMINAL_STATES THEN 1 ELSE 0

\* No waiting state is left unattended and no window outlives what it waits
\* for: a call that rings has its ringing-window armed, a call that reconnects
\* its reconnect-window, and neither runs otherwise.  The one way out is a
\* window that a replaced record left behind and that has fired.
WaitingIsTimed ==
  \A c \in Calls :
    /\ timers[c].ring > 0 => rec[c].state \in Unanswered
    /\ rec[c].state \in Unanswered => timers[c].ring > 0 \/ timers[c].stray = "fired"
    /\ rec[c].state = "reconnecting" =>
         timers[c].reconnect > 0 /\ timers[c].stray # "armed"
    /\ timers[c].reconnect > 0 =>
         rec[c].state = "reconnecting" \/ timers[c].stray = "armed"
    /\ timers[c].stray = "armed" => timers[c].reconnect > 0

\* What history says of a call agrees with what happened in it: completed and
\* network are said only of answered calls, network only of calls that were
\* connected; missed, declined, busy and unavailable only of unanswered ones.
WordMatchesCall ==
  \A c \in Calls :
    /\ rec[c].connected => rec[c].answered
    /\ rec[c].answered <=> rec[c].state \in
         {"connecting", "connected", "reconnecting", "network", "ended"}
    /\ rec[c].state \in {"connected", "reconnecting", "network"} => rec[c].connected

\* A call is accounted for at any moment: one history record, a timer wherever
\* somebody waits, and a word that agrees with what happened (onOutcome).
CallIsAccounted == OutcomeOncePerCall /\ WaitingIsTimed /\ WordMatchesCall

\* A finished call stays as it finished, whoever acts on it late: until it is
\* forgotten, or the id starts a new call, no step changes a word of it.
FinishedIsFinal ==
  [][\A c \in Calls :
       rec[c].state \in TERMINAL_STATES /\ rec'[c] # rec[c] =>
         rec'[c].state \in {"none", "calling", "busy"} /\ ~rec'[c].answered]_vars

-----------------------------------------------------------------------------
(* The timers fire: the event loop keeps running. *)
Fairness == WF_vars(Tick) /\ \A c \in Calls : WF_vars(Expire(c))
FairSpec == Spec /\ Fairness

\* A call that nobody answers ends within its window: unless the peer keeps
\* reporting Answer taps or the id is created over and over, no call rings for
\* ever.
RingingEnds ==
  \A c \in Calls :
    <>[][~ \E a, b \in Accounts, busy \in BOOLEAN :
             answering(c, a) \/ create(c, a, b, busy)]_vars
      => []<>(rec[c].state \notin Unanswered \/ timers[c].stray = "fired")

\* A call that lost its media does not reconnect for ever, unless the probe
\* reports frames again or the id starts a new call.
ReconnectingEnds ==
  \A c \in Calls : rec[c].state = "reconnecting" ~> rec[c].state # "reconnecting"

\* Whoever waits on a call, for an answer or for its media, does not wait for
\* ever: the windows of the lifecycle end both.
WaitingEnds == RingingEnds /\ ReconnectingEnds
=============================================================================
