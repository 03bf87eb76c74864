-------------------------- MODULE CallSessionProofs --------------------------
(***************************************************************************)
(* Proofs about the session store: one chair, the seats of a call kept      *)
(* straight from the door to the last leave, and everybody's audience       *)
(* served, for every set of calls, profiles, setups and bounds.             *)
(*                                                                         *)
(* Everything is stated of one call and the call an operation makes of it.  *)
(* The first half is about the seats (SessionInv), the second about the     *)
(* plans (AudienceInv), each with one lemma for an operation.               *)
(***************************************************************************)
EXTENDS CallSession, FiniteSetTheorems, TLAPS

\* A call as an operation makes it: its revisions may be past the bounds, and
\* then Store refuses it.
WideSeat == [name: Names, subject: Subjects, account: BOOLEAN,
             speak: Languages, auto: {"manual", "auto", "confirmed"},
             hear: Languages, audio: {"heard", "original"}, captions: BOOLEAN,
             connected: BOOLEAN, admission: {"admitted", "knocking"},
             role: Roles, media: Nat, lang: Nat]

SeatMap(m) == /\ m = [s \in DOMAIN m |-> m[s]]
              /\ DOMAIN m \subseteq Nat /\ IsFiniteSet(DOMAIN m)
              /\ \A s \in DOMAIN m : m[s] \in WideSeat

CallOK(call) ==
  /\ call = [type |-> call.type, mode |-> call.mode, privacy |-> call.privacy,
             owner |-> call.owner, next |-> call.next, seats |-> call.seats]
  /\ call.type \in {"personal", "conference"} /\ call.mode \in {"normal", "translated"}
  /\ call.privacy \in {"public", "private", "restricted"}
  /\ call.owner \in Nat /\ call.next \in Nat \ {0} /\ call.owner < call.next
  /\ SeatMap(call.seats)
  /\ \A s \in DOMAIN call.seats : s # 0 /\ s < call.next

\* The store's promises, of one call.
Chaired(call) ==
  \A s \in DOMAIN call.seats : call.seats[s].role = "chair" <=> s = call.owner
OncePerSubject(call) ==
  \A s, t \in DOMAIN call.seats :
    s # t /\ call.seats[s].connected /\ call.seats[t].connected
      /\ call.seats[s].subject # NoSubject
      => call.seats[s].subject # call.seats[t].subject
Filled(call) == /\ DOMAIN call.seats = {} => call.owner = 0
                /\ Cardinality(DOMAIN call.seats) <= capacityOf(call)
DoorFresh(call) == \A s \in Knocking(call) : call.seats[s].media = 1

Good(call) == /\ CallOK(call) /\ Chaired(call) /\ OncePerSubject(call)
              /\ Filled(call) /\ DoorFresh(call)

\* An operation that moves settings and revisions and nothing else.
Same(a, b) == /\ b \in WideSeat
              /\ a.role = b.role /\ a.subject = b.subject
              /\ a.admission = b.admission
              /\ b.connected => a.connected
              /\ a.admission = "knocking" => b.media = a.media

Retuned(call, after) ==
  /\ CallOK(after)
  /\ after.type = call.type /\ after.owner = call.owner /\ after.next = call.next
  /\ DOMAIN after.seats = DOMAIN call.seats
  /\ \A s \in DOMAIN call.seats : Same(call.seats[s], after.seats[s])

LEMMA RetunedIsGood ==
  ASSUME NEW call, NEW after, Good(call), Retuned(call, after)
  PROVE  Good(after)
<1>1. Chaired(after)
  BY DEF Good, Chaired, Retuned, Same
<1>2. OncePerSubject(after)
  BY DEF Good, OncePerSubject, Retuned, Same
<1>3. Filled(after)
  BY DEF Good, Filled, Retuned, capacityOf
<1>4. DoorFresh(after)
  BY DEF Good, DoorFresh, Retuned, Same, Knocking
<1> QED BY <1>1, <1>2, <1>3, <1>4 DEF Good, Retuned

-----------------------------------------------------------------------------
(* The operators the operations are built from.                            *)

LEMMA SeatsReplaced ==
  ASSUME NEW call, CallOK(call), NEW m, SeatMap(m),
         \A s \in DOMAIN m : s # 0 /\ s < call.next
  PROVE  /\ CallOK([call EXCEPT !.seats = m])
         /\ [call EXCEPT !.seats = m].seats = m
         /\ [call EXCEPT !.seats = m].type = call.type
         /\ [call EXCEPT !.seats = m].mode = call.mode
         /\ [call EXCEPT !.seats = m].owner = call.owner
         /\ [call EXCEPT !.seats = m].next = call.next
BY DEF CallOK

\* Putting a seat on its serial, and giving it up.
LEMMA PutSeat ==
  ASSUME NEW m, SeatMap(m), NEW s, s \in Nat, NEW seat, seat \in WideSeat
  PROVE  /\ SeatMap(Put(m, s, seat)) /\ DOMAIN Put(m, s, seat) = DOMAIN m \cup {s}
         /\ Put(m, s, seat)[s] = seat
         /\ \A t \in DOMAIN m \ {s} : Put(m, s, seat)[t] = m[t]
BY FS_AddElement DEF SeatMap, Put

LEMMA DropSeat ==
  ASSUME NEW m, SeatMap(m), NEW s
  PROVE  /\ SeatMap(Drop(m, s)) /\ DOMAIN Drop(m, s) = DOMAIN m \ {s}
         /\ \A t \in DOMAIN m \ {s} : Drop(m, s)[t] = m[t]
BY FS_RemoveElement DEF SeatMap, Drop, Restrict

LEMMA BumpedIsRetuned ==
  ASSUME NEW call, CallOK(call), NEW S, S \cap Knocking(call) = {}
  PROVE  Retuned(call, Bumped(call, S))
<1> DEFINE m == [s \in DOMAIN call.seats |->
                   IF s \in S THEN [call.seats[s] EXCEPT !.media = @ + 1]
                   ELSE call.seats[s]]
<1>1. \A s \in DOMAIN call.seats : m[s] \in WideSeat /\ Same(call.seats[s], m[s])
  <2> TAKE s \in DOMAIN call.seats
  <2>1. call.seats[s] \in WideSeat
    BY DEF CallOK, SeatMap
  <2>2. CASE s \in S
    <3>1. call.seats[s].admission # "knocking"
      BY <2>2 DEF Knocking
    <3>2. m[s] = [call.seats[s] EXCEPT !.media = @ + 1]
      BY <2>2
    <3> QED BY <2>1, <3>1, <3>2 DEF WideSeat, Same
  <2>3. CASE s \notin S
    BY <2>1, <2>3 DEF Same
  <2> QED BY <2>2, <2>3
<1> DEFINE after == [call EXCEPT !.seats = m]
<1>2. Bumped(call, S) = after
  BY DEF Bumped
<1>3. SeatMap(m) /\ DOMAIN m = DOMAIN call.seats
  BY <1>1 DEF CallOK, SeatMap
<1>4. \A s \in DOMAIN m : s # 0 /\ s < call.next
  BY <1>3 DEF CallOK
<1> HIDE DEF m
<1>5. /\ CallOK(after) /\ after.seats = m /\ after.type = call.type
      /\ after.owner = call.owner /\ after.next = call.next
  BY <1>3, <1>4, SeatsReplaced
<1> HIDE DEF after
<1>6. \A s \in DOMAIN call.seats : Same(call.seats[s], after.seats[s])
  BY <1>1, <1>5
<1> QED BY <1>2, <1>3, <1>5, <1>6 DEF Retuned

LEMMA LanguageMovedIsRetuned ==
  ASSUME NEW call, CallOK(call)
  PROVE  Retuned(call, LanguageMoved(call))
<1> DEFINE m == [s \in DOMAIN call.seats |-> [call.seats[s] EXCEPT !.lang = @ + 1]]
<1>1. \A s \in DOMAIN call.seats : m[s] \in WideSeat /\ Same(call.seats[s], m[s])
  <2> TAKE s \in DOMAIN call.seats
  <2>1. call.seats[s] \in WideSeat
    BY DEF CallOK, SeatMap
  <2>2. m[s] = [call.seats[s] EXCEPT !.lang = @ + 1]
    OBVIOUS
  <2> QED BY <2>1, <2>2 DEF WideSeat, Same
<1> DEFINE after == [call EXCEPT !.seats = m]
<1>2. LanguageMoved(call) = after
  BY DEF LanguageMoved
<1>3. SeatMap(m) /\ DOMAIN m = DOMAIN call.seats
  BY <1>1 DEF CallOK, SeatMap
<1>4. \A s \in DOMAIN m : s # 0 /\ s < call.next
  BY <1>3 DEF CallOK
<1> HIDE DEF m
<1>5. /\ CallOK(after) /\ after.seats = m /\ after.type = call.type
      /\ after.owner = call.owner /\ after.next = call.next
  BY <1>3, <1>4, SeatsReplaced
<1> HIDE DEF after
<1>6. \A s \in DOMAIN call.seats : Same(call.seats[s], after.seats[s])
  BY <1>1, <1>5
<1> QED BY <1>2, <1>3, <1>5, <1>6 DEF Retuned

\* What a retuned call keeps: the store's promises, the seats, the door.
LEMMA RetunedKeeps ==
  ASSUME NEW call, NEW after, Good(call), Retuned(call, after)
  PROVE  /\ Good(after) /\ DOMAIN after.seats = DOMAIN call.seats
         /\ Knocking(after) = Knocking(call)
BY RetunedIsGood DEF Retuned, Same, Knocking

\* What writing a seat makes of a call.
SeatedIn(call, s, seat, after) ==
  /\ CallOK(after) /\ after.type = call.type /\ after.owner = call.owner
  /\ after.next = call.next /\ DOMAIN after.seats = DOMAIN call.seats \cup {s}
  /\ after.seats[s] = seat
  /\ \A t \in DOMAIN call.seats \ {s} : after.seats[t] = call.seats[t]

LEMMA SeatWritten ==
  ASSUME NEW call, CallOK(call), NEW s, s \in Nat, s # 0, s < call.next,
         NEW seat \in WideSeat, NEW after, after = WithSeat(call, s, seat)
  PROVE  SeatedIn(call, s, seat, after)
<1> DEFINE m == Put(call.seats, s, seat)
<1>1. /\ SeatMap(m) /\ DOMAIN m = DOMAIN call.seats \cup {s} /\ m[s] = seat
      /\ \A t \in DOMAIN call.seats \ {s} : m[t] = call.seats[t]
  <2>1. SeatMap(call.seats)
    BY DEF CallOK
  <2>2. SeatMap(m)
    BY <2>1, PutSeat
  <2>3. DOMAIN m = DOMAIN call.seats \cup {s} /\ m[s] = seat
    BY <2>1 DEF Put
  <2>4. \A t \in DOMAIN call.seats \ {s} : m[t] = call.seats[t]
    BY <2>1 DEF Put
  <2> QED BY <2>2, <2>3, <2>4
<1>2. \A t \in DOMAIN m : t # 0 /\ t < call.next
  BY <1>1 DEF CallOK
<1>3. after = [call EXCEPT !.seats = m]
  BY DEF WithSeat
<1> HIDE DEF m
<1> QED BY <1>1, <1>2, <1>3, SeatsReplaced DEF SeatedIn

\* A seat that may be connected beside the others.
Apart(call, s, seat) ==
  seat.connected /\ seat.subject # NoSubject =>
    \A t \in DOMAIN call.seats \ {s} :
      call.seats[t].connected => call.seats[t].subject # seat.subject

\* One seat changes anything but its role; it never goes back to the door.
LEMMA SeatChanged ==
  ASSUME NEW call, Good(call), NEW s \in DOMAIN call.seats, NEW seat \in WideSeat,
         seat.role = call.seats[s].role, Apart(call, s, seat),
         seat.admission = "knocking" =>
           seat.media = 1 /\ call.seats[s].admission = "knocking",
         NEW after, after = WithSeat(call, s, seat)
  PROVE  /\ Good(after) /\ DOMAIN after.seats = DOMAIN call.seats
         /\ Knocking(after) \subseteq Knocking(call)
<1>1. CallOK(call) /\ s \in Nat /\ s # 0 /\ s < call.next
  BY DEF Good, CallOK, SeatMap
<1>2. /\ CallOK(after) /\ after.type = call.type /\ after.owner = call.owner
      /\ DOMAIN after.seats = DOMAIN call.seats /\ after.seats[s] = seat
      /\ \A t \in DOMAIN call.seats \ {s} : after.seats[t] = call.seats[t]
  <2>1. SeatedIn(call, s, seat, after)
    BY <1>1, SeatWritten
  <2> QED BY <2>1 DEF SeatedIn
<1>3. Chaired(after)
  BY <1>2 DEF Good, Chaired
<1>4. OncePerSubject(after)
  BY <1>2 DEF Good, OncePerSubject, Apart
<1>5. Filled(after)
  BY <1>2 DEF Good, Filled, capacityOf
<1>6. DoorFresh(after) /\ Knocking(after) \subseteq Knocking(call)
  BY <1>2 DEF Good, DoorFresh, Knocking
<1> QED BY <1>2, <1>3, <1>4, <1>5, <1>6 DEF Good

\* A seat is given up and somebody is left.
LEMMA SeatGone ==
  ASSUME NEW call, Good(call), NEW s, DOMAIN call.seats \ {s} # {},
         NEW rest, rest = [call EXCEPT !.seats = Drop(@, s)]
  PROVE  /\ Good(rest) /\ DOMAIN rest.seats = DOMAIN call.seats \ {s}
         /\ Knocking(rest) \subseteq Knocking(call)
<1> DEFINE m == Drop(call.seats, s)
<1>1. /\ SeatMap(m) /\ DOMAIN m = DOMAIN call.seats \ {s}
      /\ \A t \in DOMAIN call.seats \ {s} : m[t] = call.seats[t]
  BY DropSeat DEF Good, CallOK
<1>2. \A t \in DOMAIN m : t # 0 /\ t < call.next
  BY <1>1 DEF Good, CallOK
<1>4. rest = [call EXCEPT !.seats = m]
  OBVIOUS
<1> HIDE DEF m
<1>3. /\ CallOK(rest) /\ rest.seats = m /\ rest.type = call.type
      /\ rest.owner = call.owner
  <2>1. CallOK(call)
    BY DEF Good
  <2>2. SeatMap(m) /\ \A t \in DOMAIN m : t # 0 /\ t < call.next
    BY <1>1, <1>2
  <2> DEFINE made == [call EXCEPT !.seats = m]
  <2>3. CallOK(made) /\ made.seats = m /\ made.type = call.type /\ made.owner = call.owner
    BY <2>1, <2>2, SeatsReplaced
  <2> QED BY <2>3, <1>4
<1>5. Chaired(rest) /\ OncePerSubject(rest)
  BY <1>1, <1>3 DEF Good, Chaired, OncePerSubject
<1>6. Filled(rest)
  <2>1. Cardinality(DOMAIN m) <= Cardinality(DOMAIN call.seats)
    BY <1>1, FS_Subset DEF Good, CallOK, SeatMap
  <2>2. /\ Cardinality(DOMAIN m) \in Nat /\ Cardinality(DOMAIN call.seats) \in Nat
    BY <1>1, FS_CardinalityType DEF Good, CallOK, SeatMap
  <2>3. capacityOf(call) \in Nat /\ capacityOf(rest) = capacityOf(call)
    BY <1>3, SessionAssumption DEF capacityOf, PERSONAL_CALL_SEATS
  <2>4. Cardinality(DOMAIN call.seats) <= capacityOf(call) /\ DOMAIN m # {}
    BY <1>1 DEF Good, Filled
  <2>5. Cardinality(DOMAIN m) <= capacityOf(rest)
    BY <2>1, <2>2, <2>3, <2>4
  <2> QED BY <1>3, <2>4, <2>5 DEF Filled
<1>7. DoorFresh(rest) /\ Knocking(rest) \subseteq Knocking(call)
  BY <1>1, <1>3 DEF Good, DoorFresh, Knocking
<1> QED BY <1>1, <1>3, <1>5, <1>6, <1>7 DEF Good

-----------------------------------------------------------------------------
(* Newcomers.                                                              *)

\* A call whose serial and owner move, its seats as they are.
LEMMA SerialUsed ==
  ASSUME NEW call, CallOK(call), NEW o, o \in Nat, o < call.next + 1, NEW mid,
         mid = [call EXCEPT !.next = @ + 1, !.owner = o]
  PROVE  /\ CallOK(mid) /\ mid.type = call.type /\ mid.owner = o
         /\ mid.next = call.next + 1 /\ mid.seats = call.seats
<1>1. /\ mid.type = call.type /\ mid.mode = call.mode /\ mid.privacy = call.privacy
      /\ mid.owner = o /\ mid.next = call.next + 1 /\ mid.seats = call.seats
  BY DEF CallOK
<1>2. mid = [type |-> mid.type, mode |-> mid.mode, privacy |-> mid.privacy,
             owner |-> mid.owner, next |-> mid.next, seats |-> mid.seats]
  BY DEF CallOK
<1>3. \A s \in DOMAIN call.seats : s # 0 /\ s < call.next + 1
  BY DEF CallOK, SeatMap
<1>4. call.next + 1 \in Nat \ {0}
  BY DEF CallOK
<1> QED BY <1>1, <1>2, <1>3, <1>4 DEF CallOK

\* A newcomer takes the next serial: the first of a call is its chair and
\* owner, the others are not.
LEMMA Newcomer ==
  ASSUME NEW call, Good(call), NEW n, n \in Nat, n = call.next,
         Cardinality(DOMAIN call.seats) < capacityOf(call),
         NEW o, NEW mid, mid = [call EXCEPT !.next = @ + 1, !.owner = o],
         NEW seat \in WideSeat, Apart(call, n, seat),
         \/ call.owner = 0 /\ o = n /\ seat.role = "chair"
         \/ call.owner # 0 /\ o = call.owner /\ seat.role # "chair",
         seat.admission = "knocking" => seat.media = 1,
         NEW after, after = WithSeat(mid, n, seat)
  PROVE  /\ Good(after)
         /\ Knocking(after) \cap DOMAIN call.seats \subseteq Knocking(call)
<1>1. /\ CallOK(call) /\ n \in Nat /\ n # 0 /\ call.owner \in Nat /\ call.owner < n
      /\ \A s \in DOMAIN call.seats : s \in Nat /\ s # 0 /\ s < n
  BY DEF Good, CallOK, SeatMap
<1>2. o \in Nat /\ o < n + 1
  BY <1>1
<1>3. /\ CallOK(mid) /\ mid.type = call.type /\ mid.owner = o
      /\ mid.next = n + 1 /\ mid.seats = call.seats
  <2>1. CallOK(call) /\ o \in Nat /\ o < call.next + 1
    BY <1>1, <1>2
  <2>2. CallOK(mid)
    BY <2>1, SerialUsed
  <2>3. /\ mid.type = call.type /\ mid.owner = o
        /\ mid.next = call.next + 1 /\ mid.seats = call.seats
    BY <2>1 DEF CallOK
  <2> QED BY <2>2, <2>3
<1>4. n < mid.next
  BY <1>1, <1>3
<1>5. /\ CallOK(after) /\ after.type = call.type /\ after.owner = o
      /\ DOMAIN after.seats = DOMAIN call.seats \cup {n} /\ after.seats[n] = seat
      /\ \A t \in DOMAIN call.seats \ {n} : after.seats[t] = call.seats[t]
  <2>1. n \in Nat /\ n # 0 /\ n < mid.next /\ CallOK(mid)
    BY <1>1, <1>3, <1>4
  <2>2. SeatedIn(mid, n, seat, after)
    BY <2>1, SeatWritten
  <2> QED BY <2>2, <1>3 DEF SeatedIn
<1>6. n \notin DOMAIN call.seats /\ \A t \in DOMAIN call.seats : t # n
  BY <1>1
<1>7. Chaired(after)
  <2>1. \A s \in DOMAIN call.seats : s = o <=> s = call.owner
    BY <1>1, <1>6
  <2>2. seat.role = "chair" <=> n = o
    BY <1>1
  <2>3. \A s \in DOMAIN call.seats : call.seats[s].role = "chair" <=> s = call.owner
    BY DEF Good, Chaired
  <2>4. \A s \in DOMAIN call.seats : after.seats[s].role = "chair" <=> s = o
    BY <2>1, <2>3, <1>5, <1>6
  <2> SUFFICES ASSUME NEW s \in DOMAIN after.seats
               PROVE  after.seats[s].role = "chair" <=> s = after.owner
    BY DEF Chaired
  <2>5. CASE s = n
    BY <2>2, <2>5, <1>5
  <2>6. CASE s # n
    <3>1. s \in DOMAIN call.seats /\ after.owner = o
      BY <2>6, <1>5
    <3> QED BY <2>4, <3>1
  <2> QED BY <2>5, <2>6
<1>8. OncePerSubject(after)
  <2>1. OncePerSubject(call)
    BY DEF Good
  <2> SUFFICES ASSUME NEW s \in DOMAIN after.seats, NEW t \in DOMAIN after.seats, s # t,
                      after.seats[s].connected, after.seats[t].connected,
                      after.seats[s].subject # NoSubject
               PROVE  after.seats[s].subject # after.seats[t].subject
    BY DEF OncePerSubject
  <2>2. CASE s # n /\ t # n
    <3>1. s \in DOMAIN call.seats /\ t \in DOMAIN call.seats
      BY <2>2, <1>5
    <3>2. after.seats[s] = call.seats[s] /\ after.seats[t] = call.seats[t]
      BY <2>2, <3>1, <1>5
    <3> QED BY <3>1, <3>2, <2>1 DEF OncePerSubject
  <2>3. CASE s = n
    <3>1. t \in DOMAIN call.seats \ {n} /\ after.seats[t] = call.seats[t] /\ after.seats[s] = seat
      BY <2>3, <1>5
    <3> QED BY <3>1 DEF Apart
  <2>4. CASE t = n
    <3>1. s \in DOMAIN call.seats \ {n} /\ after.seats[s] = call.seats[s] /\ after.seats[t] = seat
      BY <2>4, <1>5
    <3>2. seat.connected /\ seat.subject = call.seats[s].subject => FALSE
      BY <3>1 DEF Apart
    <3> QED BY <3>1, <3>2
  <2> QED BY <2>2, <2>3, <2>4
<1>9. Filled(after)
  <2>1. IsFiniteSet(DOMAIN call.seats)
    BY <1>1 DEF CallOK, SeatMap
  <2>2. /\ Cardinality(DOMAIN after.seats) = Cardinality(DOMAIN call.seats) + 1
        /\ Cardinality(DOMAIN call.seats) \in Nat
    BY <1>5, <1>6, <2>1, FS_AddElement, FS_CardinalityType
  <2>3. capacityOf(call) \in Nat /\ capacityOf(after) = capacityOf(call)
    BY <1>5, SessionAssumption DEF capacityOf, PERSONAL_CALL_SEATS
  <2>4. Cardinality(DOMAIN after.seats) <= capacityOf(after)
    BY <2>2, <2>3
  <2>5. DOMAIN after.seats # {}
    BY <1>5
  <2> QED BY <2>4, <2>5 DEF Filled
<1>10. \A t \in DOMAIN call.seats : after.seats[t] = call.seats[t]
  BY <1>5, <1>6
<1>11. Knocking(after) \subseteq Knocking(call) \cup {n}
  BY <1>5, <1>10 DEF Knocking
<1>12. DoorFresh(after)
  <2> SUFFICES ASSUME NEW t \in Knocking(after) PROVE after.seats[t].media = 1
    BY DEF DoorFresh
  <2>1. CASE t = n
    BY <2>1, <1>5 DEF Knocking
  <2>2. CASE t # n
    <3>1. t \in Knocking(call) /\ t \in DOMAIN call.seats
      BY <2>2, <1>11 DEF Knocking
    <3>2. call.seats[t].media = 1
      BY <3>1 DEF Good, DoorFresh
    <3> QED BY <3>1, <3>2, <1>10
  <2> QED BY <2>1, <2>2
<1>13. Knocking(after) \cap DOMAIN call.seats \subseteq Knocking(call)
  BY <1>6, <1>11
<1> QED BY <1>5, <1>7, <1>8, <1>9, <1>12, <1>13 DEF Good

LEMMA NewSeatType ==
  ASSUME NEW p \in Profiles
  PROVE  /\ NewSeat(p) \in WideSeat /\ NewSeat(p).subject = p.subject
         /\ NewSeat(p).role = "participant" /\ NewSeat(p).media = 1
         /\ NewSeat(p).admission = "admitted"
BY SessionAssumption DEF NewSeat, WideSeat, Names, Subjects, Roles

LEMMA FreshCall ==
  ASSUME NEW setup \in Setups, NEW call,
         call = mintCall(setup) \/ call = createCall(setup)
  PROVE  Good(call) /\ DOMAIN call.seats = {} /\ call.owner = 0
<1>1. setup \in Setup
  BY SessionAssumption
<1>2. DOMAIN EmptyMap = {} /\ SeatMap(EmptyMap)
  BY FS_EmptySet DEF EmptyMap, SeatMap
<1>3. CallOK(call) /\ call.seats = EmptyMap /\ call.owner = 0
  <2>1. CASE call = mintCall(setup)
    BY <1>1, <1>2, <2>1 DEF mintCall, CallOK, Setup
  <2>2. CASE call = createCall(setup)
    BY <1>1, <1>2, <2>2 DEF createCall, mintCall, CallOK, Setup
  <2> QED BY <2>1, <2>2
<1>4. Filled(call)
  <2>1. Cardinality(DOMAIN call.seats) = 0
    BY <1>2, <1>3, FS_EmptySet
  <2>2. capacityOf(call) \in Nat
    BY SessionAssumption DEF capacityOf, PERSONAL_CALL_SEATS
  <2> QED BY <1>3, <2>1, <2>2 DEF Filled
<1>5. Chaired(call) /\ OncePerSubject(call) /\ DoorFresh(call)
  BY <1>2, <1>3 DEF Chaired, OncePerSubject, DoorFresh, Knocking
<1> QED BY <1>2, <1>3, <1>4, <1>5 DEF Good

-----------------------------------------------------------------------------
(* The invariant: every call is good, and only seats past the door, of calls *)
(* that live, have work.                                                     *)

SessionInv ==
  /\ DOMAIN calls \subseteq Calls
  /\ DOMAIN work = Calls
  /\ \A c \in DOMAIN calls : Good(calls[c])
  /\ \A c \in DOMAIN calls :
       DOMAIN work[c] \subseteq DOMAIN calls[c].seats \ Knocking(calls[c])
  /\ \A c \in Calls \ DOMAIN calls : DOMAIN work[c] = {}

\* Nobody who was past the door is put back to it.
OpensNoDoor(c, call) ==
  c \in DOMAIN calls =>
    Knocking(call) \cap DOMAIN calls[c].seats \subseteq Knocking(calls[c])

LEMMA Stored ==
  ASSUME SessionInv, NEW c \in Calls, NEW call, NEW S, Store(c, call, S),
         Good(call), S \cap Knocking(call) = {}, OpensNoDoor(c, call)
  PROVE  SessionInv'
<1>1. /\ DOMAIN calls' = DOMAIN calls \cup {c} /\ calls'[c] = call
      /\ \A d \in DOMAIN calls \ {c} : calls'[d] = calls[d]
  BY DEF Store, Put
<1>2. /\ DOMAIN work' = Calls
      /\ DOMAIN work'[c] = DOMAIN call.seats \cap (DOMAIN work[c] \cup S)
      /\ \A d \in Calls \ {c} : work'[d] = work[d]
  BY DEF Store, Planned, SessionInv
<1>3. DOMAIN work'[c] \subseteq DOMAIN call.seats \ Knocking(call)
  <2>1. CASE c \in DOMAIN calls
    <3>1. DOMAIN work[c] \subseteq DOMAIN calls[c].seats \ Knocking(calls[c])
      BY <2>1 DEF SessionInv
    <3>2. Knocking(call) \cap DOMAIN calls[c].seats \subseteq Knocking(calls[c])
      BY <2>1 DEF OpensNoDoor
    <3> QED BY <3>1, <3>2, <1>2
  <2>2. CASE c \notin DOMAIN calls
    <3>1. DOMAIN work[c] = {}
      BY <2>2 DEF SessionInv
    <3> QED BY <3>1, <1>2
  <2> QED BY <2>1, <2>2
<1>4. \A d \in DOMAIN calls' : Good(calls'[d])
  BY <1>1 DEF SessionInv
<1>5. \A d \in DOMAIN calls' :
        DOMAIN work'[d] \subseteq DOMAIN calls'[d].seats \ Knocking(calls'[d])
  <2> TAKE d \in DOMAIN calls'
  <2>1. CASE d = c
    BY <2>1, <1>1, <1>3
  <2>2. CASE d # c
    <3>1. /\ d \in DOMAIN calls /\ d \in Calls \ {c}
          /\ calls'[d] = calls[d] /\ work'[d] = work[d]
      BY <2>2, <1>1, <1>2 DEF SessionInv
    <3> QED BY <3>1 DEF SessionInv
  <2> QED BY <2>1, <2>2
<1>6. \A d \in Calls \ DOMAIN calls' : DOMAIN work'[d] = {}
  BY <1>1, <1>2 DEF SessionInv
<1>7. DOMAIN calls' \subseteq Calls
  BY <1>1 DEF SessionInv
<1> QED BY <1>2, <1>4, <1>5, <1>6, <1>7 DEF SessionInv

LEMMA Superseded ==
  ASSUME SessionInv, NEW c \in Calls, NEW call, NEW T, NEW S,
         Store(c, Bumped(call, T), S), Good(call), T \cap Knocking(call) = {},
         S \cap Knocking(call) = {}, OpensNoDoor(c, call)
  PROVE  SessionInv'
<1> DEFINE after == Bumped(call, T)
<1>1. CallOK(call)
  BY DEF Good
<1>2. Retuned(call, after)
  BY <1>1, BumpedIsRetuned
<1> HIDE DEF after
<1>3. Good(after) /\ Knocking(after) = Knocking(call)
  BY <1>2, RetunedKeeps
<1>4. Store(c, after, S)
  BY DEF after
<1>5. OpensNoDoor(c, after)
  BY <1>3 DEF OpensNoDoor
<1>6. S \cap Knocking(after) = {}
  BY <1>3
<1> QED BY <1>3, <1>4, <1>5, <1>6, Stored

LEMMA Retired ==
  ASSUME SessionInv, NEW c \in Calls, retire(c)
  PROVE  SessionInv'
<1>1. /\ DOMAIN calls' = DOMAIN calls \ {c}
      /\ \A d \in DOMAIN calls \ {c} : calls'[d] = calls[d]
  BY DEF retire, Drop, Restrict
<1>2. /\ DOMAIN work' = Calls /\ DOMAIN work'[c] = {}
      /\ \A d \in Calls \ {c} : work'[d] = work[d]
  BY DEF retire, SessionInv, EmptyMap
<1>3. \A d \in DOMAIN calls' : Good(calls'[d])
  BY <1>1 DEF SessionInv
<1>4. \A d \in DOMAIN calls' :
        DOMAIN work'[d] \subseteq DOMAIN calls'[d].seats \ Knocking(calls'[d])
  <2> TAKE d \in DOMAIN calls'
  <2>1. /\ d \in DOMAIN calls /\ d \in Calls \ {c}
        /\ calls'[d] = calls[d] /\ work'[d] = work[d]
    BY <1>1, <1>2 DEF SessionInv
  <2> QED BY <2>1 DEF SessionInv
<1>5. \A d \in Calls \ DOMAIN calls' : DOMAIN work'[d] = {}
  BY <1>1, <1>2 DEF SessionInv
<1>6. DOMAIN calls' \subseteq Calls
  BY <1>1 DEF SessionInv
<1> QED BY <1>2, <1>3, <1>4, <1>5, <1>6 DEF SessionInv

\* The seated are past the door, and so is whoever the planner moved.
LEMMA SeatedPastDoor ==
  ASSUME NEW call
  PROVE  /\ Seated(call) \cap Knocking(call) = {}
         /\ \A s : Others(call, s) \cap Knocking(call) = {}
         /\ \A before : Moved(before, call) \cap Knocking(call) = {}
BY DEF Seated, isSeated, Knocking, Others, Moved

-----------------------------------------------------------------------------
(* The operations.                                                         *)

\* A live call is good, and its seats are typed.
LEMMA LiveCall ==
  ASSUME SessionInv, NEW c \in DOMAIN calls
  PROVE  /\ c \in Calls /\ Good(calls[c]) /\ CallOK(calls[c])
         /\ \A s \in DOMAIN calls[c].seats : calls[c].seats[s] \in WideSeat
BY DEF SessionInv, Good, CallOK, SeatMap

\* A seat's entry is replaced: beside the others as before, past the door
\* once past it.
Replaceable(call, s, seat) ==
  /\ seat \in WideSeat /\ seat.role = call.seats[s].role /\ Apart(call, s, seat)
  /\ seat.admission = "knocking" =>
       seat.media = 1 /\ call.seats[s].admission = "knocking"

LEMMA Replaced ==
  ASSUME SessionInv, NEW c \in DOMAIN calls, NEW s \in DOMAIN calls[c].seats,
         NEW seat, Replaceable(calls[c], s, seat),
         NEW after, after = WithSeat(calls[c], s, seat)
  PROVE  Good(after) /\ OpensNoDoor(c, after)
<1> DEFINE call == calls[c]
<1>1. /\ Good(call) /\ s \in DOMAIN call.seats /\ seat \in WideSeat
      /\ seat.role = call.seats[s].role /\ Apart(call, s, seat)
      /\ seat.admission = "knocking" =>
           seat.media = 1 /\ call.seats[s].admission = "knocking"
      /\ after = WithSeat(call, s, seat)
  BY LiveCall DEF Replaceable
<1> HIDE DEF call
<1>2. Good(after)
  BY <1>1, SeatChanged
<1>3. Knocking(after) \subseteq Knocking(call)
  BY <1>1, SeatChanged
<1> QED BY <1>2, <1>3 DEF OpensNoDoor, call

\* Settings and revisions may be replaced at will.
LEMMA SettingsReplaceable ==
  ASSUME NEW call, Good(call), NEW s \in DOMAIN call.seats, NEW seat,
         Same(call.seats[s], seat)
  PROVE  Replaceable(call, s, seat)
<1>1. Apart(call, s, seat)
  BY DEF Good, OncePerSubject, Apart, Same
<1>2. seat.admission = "knocking" =>
        seat.media = 1 /\ call.seats[s].admission = "knocking"
  BY DEF Good, DoorFresh, Knocking, Same
<1> QED BY <1>1, <1>2 DEF Replaceable, Same

\* The operations that replace one seat's settings: a change of settings, the
\* seat's own entry in the call, then the seats planned anew.
LEMMA SettingsKept ==
  ASSUME SessionInv, NEW c \in DOMAIN calls, NEW s \in DOMAIN calls[c].seats,
         NEW seat, Same(calls[c].seats[s], seat),
         NEW after, after = WithSeat(calls[c], s, seat)
  PROVE  Good(after) /\ OpensNoDoor(c, after)
<1>1. Good(calls[c])
  BY LiveCall
<1>2. Replaceable(calls[c], s, seat)
  BY <1>1, SettingsReplaceable
<1> QED BY <1>2, Replaced

LEMMA MarkDisconnectedKeeps ==
  ASSUME SessionInv, NEW c \in Calls, NEW s, markDisconnected(c, s)
  PROVE  SessionInv'
<1> DEFINE seat == [calls[c].seats[s] EXCEPT !.connected = FALSE]
<1> DEFINE after == WithSeat(calls[c], s, seat)
<1>1. c \in DOMAIN calls /\ s \in DOMAIN calls[c].seats /\ Store(c, after, {})
  BY DEF markDisconnected
<1>2. Same(calls[c].seats[s], seat)
  <2>1. calls[c].seats[s] \in WideSeat
    BY <1>1, LiveCall
  <2>2. seat \in WideSeat
    BY <2>1 DEF WideSeat
  <2> QED BY <2>1, <2>2 DEF Same, WideSeat
<1> HIDE DEF seat
<1>3. Good(after) /\ OpensNoDoor(c, after)
  BY <1>1, <1>2, SettingsKept
<1> HIDE DEF after
<1> QED BY <1>1, <1>3, Stored

LEMMA SetAudioModeKeeps ==
  ASSUME SessionInv, NEW c \in Calls, NEW s, NEW audio \in AudioModes,
         setAudioMode(c, s, audio)
  PROVE  SessionInv'
<1> DEFINE seat == [calls[c].seats[s] EXCEPT !.audio = audio]
<1> DEFINE set == WithSeat(calls[c], s, seat)
<1>1. /\ c \in DOMAIN calls /\ s \in DOMAIN calls[c].seats
      /\ Store(c, Bumped(set, Moved(calls[c], set)), Moved(calls[c], set))
  BY DEF setAudioMode, Seated
<1>2. Same(calls[c].seats[s], seat)
  <2>1. calls[c].seats[s] \in WideSeat /\ audio \in {"heard", "original"}
    BY <1>1, LiveCall, SessionAssumption
  <2>2. seat \in WideSeat
    BY <2>1 DEF WideSeat
  <2> QED BY <2>1, <2>2 DEF Same, WideSeat
<1> HIDE DEF seat
<1>3. Good(set) /\ OpensNoDoor(c, set)
  BY <1>1, <1>2, SettingsKept
<1> HIDE DEF set
<1>4. Moved(calls[c], set) \cap Knocking(set) = {}
  BY SeatedPastDoor
<1> QED BY <1>1, <1>3, <1>4, Superseded

LEMMA LanguageMovedGood ==
  ASSUME SessionInv, NEW c \in DOMAIN calls, NEW call, Good(call),
         OpensNoDoor(c, call)
  PROVE  /\ Good(LanguageMoved(call)) /\ OpensNoDoor(c, LanguageMoved(call))
         /\ Knocking(LanguageMoved(call)) = Knocking(call)
<1> DEFINE after == LanguageMoved(call)
<1>1. CallOK(call)
  BY DEF Good
<1>2. Retuned(call, after)
  BY <1>1, LanguageMovedIsRetuned
<1> HIDE DEF after
<1>3. Good(after) /\ Knocking(after) = Knocking(call)
  BY <1>2, RetunedKeeps
<1> QED BY <1>3 DEF OpensNoDoor, after

LEMMA SetCaptionLanguageKeeps ==
  ASSUME SessionInv, NEW c \in Calls, NEW s, NEW wanted \in Languages,
         setCaptionLanguage(c, s, wanted)
  PROVE  SessionInv'
<1> DEFINE seat == [calls[c].seats[s] EXCEPT !.hear = wanted]
<1> DEFINE heard == WithSeat(calls[c], s, seat)
<1> DEFINE T == Moved(calls[c], heard)
<1>1. /\ c \in DOMAIN calls /\ s \in DOMAIN calls[c].seats
      /\ Store(c, Bumped(LanguageMoved(heard), T), Seated(heard))
  BY DEF setCaptionLanguage, Seated
<1>2. Same(calls[c].seats[s], seat)
  <2>1. calls[c].seats[s] \in WideSeat
    BY <1>1, LiveCall
  <2>2. seat \in WideSeat
    BY <2>1 DEF WideSeat
  <2> QED BY <2>1, <2>2 DEF Same, WideSeat
<1> HIDE DEF seat
<1>3. Good(heard) /\ OpensNoDoor(c, heard)
  BY <1>1, <1>2, SettingsKept
<1>4. T \cap Knocking(heard) = {} /\ Seated(heard) \cap Knocking(heard) = {}
  BY SeatedPastDoor
<1> HIDE DEF heard, T
<1>5. /\ Good(LanguageMoved(heard)) /\ OpensNoDoor(c, LanguageMoved(heard))
      /\ Knocking(LanguageMoved(heard)) = Knocking(heard)
  BY <1>1, <1>3, LanguageMovedGood
<1> DEFINE moved == LanguageMoved(heard)
<1>6. /\ Good(moved) /\ OpensNoDoor(c, moved) /\ T \cap Knocking(moved) = {}
      /\ Seated(heard) \cap Knocking(moved) = {}
      /\ Store(c, Bumped(moved, T), Seated(heard))
  BY <1>1, <1>4, <1>5
<1> HIDE DEF moved
<1> QED BY <1>6, Superseded

LEMMA ApplyDetectedLanguageKeeps ==
  ASSUME SessionInv, NEW c \in Calls, NEW s, NEW detected \in Languages,
         applyDetectedLanguage(c, s, detected)
  PROVE  SessionInv'
<1> DEFINE seat == [calls[c].seats[s] EXCEPT !.speak = detected, !.auto = "confirmed"]
<1> DEFINE settled == WithSeat(calls[c], s, seat)
<1> DEFINE T == Moved(calls[c], settled) \cap {s}
<1>1. /\ c \in DOMAIN calls /\ s \in DOMAIN calls[c].seats
      /\ \/ Store(c, settled, Seated(settled))
         \/ Store(c, Bumped(LanguageMoved(settled), T), Seated(settled))
  BY DEF applyDetectedLanguage
<1>2. Same(calls[c].seats[s], seat)
  <2>1. calls[c].seats[s] \in WideSeat
    BY <1>1, LiveCall
  <2>2. seat \in WideSeat
    BY <2>1 DEF WideSeat
  <2> QED BY <2>1, <2>2 DEF Same, WideSeat
<1> HIDE DEF seat
<1>3. Good(settled) /\ OpensNoDoor(c, settled)
  BY <1>1, <1>2, SettingsKept
<1>4. T \cap Knocking(settled) = {} /\ Seated(settled) \cap Knocking(settled) = {}
  BY SeatedPastDoor
<1> HIDE DEF settled, T
<1>5. /\ Good(LanguageMoved(settled)) /\ OpensNoDoor(c, LanguageMoved(settled))
      /\ Knocking(LanguageMoved(settled)) = Knocking(settled)
  BY <1>1, <1>3, LanguageMovedGood
<1>6. CASE Store(c, settled, Seated(settled))
  BY <1>3, <1>4, <1>6, Stored
<1>7. CASE Store(c, Bumped(LanguageMoved(settled), T), Seated(settled))
  <2> DEFINE moved == LanguageMoved(settled)
  <2>1. /\ Good(moved) /\ OpensNoDoor(c, moved) /\ T \cap Knocking(moved) = {}
        /\ Seated(settled) \cap Knocking(moved) = {}
        /\ Store(c, Bumped(moved, T), Seated(settled))
    BY <1>4, <1>5, <1>7
  <2> HIDE DEF moved
  <2> QED BY <2>1, Superseded
<1> QED BY <1>1, <1>6, <1>7

LEMMA SetCallModeKeeps ==
  ASSUME SessionInv, NEW c \in Calls, NEW mode \in Modes,
         setCallModeByAuthority(c, mode)
  PROVE  SessionInv'
<1> DEFINE old == calls[c]
<1> DEFINE call == [old EXCEPT !.mode = mode]
<1>1. c \in DOMAIN calls /\ Store(c, Bumped(call, Seated(call)), Seated(call))
  BY DEF setCallModeByAuthority
<1>2. Good(old) /\ CallOK(old)
  BY <1>1, LiveCall
<1>3. Retuned(old, call)
  <2> HIDE DEF old
  <2>1. mode \in {"normal", "translated"}
    BY SessionAssumption
  <2>2. /\ call.type = old.type /\ call.mode = mode /\ call.privacy = old.privacy
        /\ call.owner = old.owner /\ call.next = old.next /\ call.seats = old.seats
    BY <1>2 DEF CallOK
  <2>3. call = [type |-> call.type, mode |-> call.mode, privacy |-> call.privacy,
                owner |-> call.owner, next |-> call.next, seats |-> call.seats]
    BY <1>2 DEF CallOK
  <2> HIDE DEF call
  <2>4. CallOK(call)
    BY <1>2, <2>1, <2>2, <2>3 DEF CallOK
  <2>5. \A s \in DOMAIN old.seats : old.seats[s] \in WideSeat
    BY <1>2 DEF CallOK, SeatMap
  <2> QED BY <2>2, <2>4, <2>5 DEF Retuned, Same
<1> HIDE DEF call
<1>4. Good(call) /\ Knocking(call) = Knocking(old)
  BY <1>2, <1>3, RetunedKeeps
<1>5. OpensNoDoor(c, call)
  BY <1>4 DEF OpensNoDoor
<1>6. Seated(call) \cap Knocking(call) = {}
  BY SeatedPastDoor
<1> QED BY <1>1, <1>4, <1>5, <1>6, Superseded

LEMMA ResumeKeeps ==
  ASSUME SessionInv, NEW c \in Calls, NEW s, NEW audio \in AudioModes,
         NEW captions \in CaptionChoices, resume(c, s, audio, captions)
  PROVE  SessionInv'
<1> DEFINE call == calls[c]
<1> DEFINE seat == [call.seats[s] EXCEPT !.audio = audio, !.captions = captions,
                                         !.media = @ + 1, !.connected = TRUE]
<1> DEFINE back == WithSeat(call, s, seat)
<1>1. /\ c \in DOMAIN calls /\ s \in DOMAIN call.seats
      /\ call.seats[s].admission = "admitted"
      /\ Store(c, Bumped(back, Others(back, s)), Seated(back))
  BY DEF resume
<1>2. call.seats[s].subject # NoSubject =>
        ~hasConnectedSubject([call EXCEPT !.seats = Drop(@, s)], call.seats[s].subject)
  BY DEF resume
<1>3. Good(call) /\ CallOK(call) /\ call.seats[s] \in WideSeat
  BY <1>1, LiveCall
<1>4. /\ seat \in WideSeat /\ seat.role = call.seats[s].role
      /\ seat.admission = "admitted" /\ seat.subject = call.seats[s].subject
  <2>1. audio \in {"heard", "original"} /\ captions \in BOOLEAN
    BY SessionAssumption
  <2>2. call.seats[s].media + 1 \in Nat
    BY <1>3 DEF WideSeat
  <2>3. PICK old : old = call.seats[s]
    OBVIOUS
  <2>4. /\ old \in WideSeat /\ old.admission = "admitted" /\ old.media + 1 \in Nat
        /\ seat = [old EXCEPT !.audio = audio, !.captions = captions,
                              !.media = old.media + 1, !.connected = TRUE]
    BY <1>1, <1>3, <2>2, <2>3
  <2> HIDE DEF call, seat
  <2>5. /\ seat \in WideSeat /\ seat.role = old.role
        /\ seat.admission = "admitted" /\ seat.subject = old.subject
    BY <2>1, <2>4 DEF WideSeat
  <2> QED BY <2>3, <2>5
<1>5. Apart(call, s, seat)
  <2> HIDE DEF call, seat
  <2>1. SUFFICES ASSUME seat.subject # NoSubject, NEW t \in DOMAIN call.seats \ {s},
                        call.seats[t].connected, call.seats[t].subject = seat.subject
                 PROVE  FALSE
    BY DEF Apart
  <2> DEFINE rest == [call EXCEPT !.seats = Drop(@, s)]
  <2>2. rest.seats = Drop(call.seats, s)
    BY <1>3 DEF CallOK
  <2>3. t \in DOMAIN rest.seats /\ rest.seats[t] = call.seats[t]
    BY <2>2 DEF Drop, Restrict
  <2>4. hasConnectedSubject(rest, call.seats[s].subject)
    BY <2>1, <2>3, <1>4 DEF hasConnectedSubject
  <2> QED BY <2>1, <2>4, <1>2, <1>4
<1> HIDE DEF seat
<1>6. Replaceable(calls[c], s, seat)
  BY <1>4, <1>5 DEF Replaceable
<1>7. Good(back) /\ OpensNoDoor(c, back)
  BY <1>1, <1>6, Replaced
<1>8. /\ Others(back, s) \cap Knocking(back) = {}
      /\ Seated(back) \cap Knocking(back) = {}
  BY SeatedPastDoor
<1> HIDE DEF back
<1> QED BY <1>1, <1>7, <1>8, Superseded

LEMMA AdmitKnockKeeps ==
  ASSUME SessionInv, NEW c \in Calls, NEW host, NEW s, admitKnock(c, host, s)
  PROVE  SessionInv'
<1> DEFINE call == calls[c]
<1> DEFINE seat == [call.seats[s] EXCEPT !.admission = "admitted"]
<1> DEFINE admitted == WithSeat(call, s, seat)
<1>1. /\ c \in DOMAIN calls /\ s \in DOMAIN call.seats
      /\ Store(c, Bumped(admitted, Others(admitted, s)), Seated(admitted))
  BY DEF admitKnock, knockGate, Knocking
<1>2. Good(call) /\ call.seats[s] \in WideSeat
  BY <1>1, LiveCall
<1>3. /\ seat \in WideSeat /\ seat.role = call.seats[s].role
      /\ seat.admission = "admitted" /\ seat.subject = call.seats[s].subject
      /\ seat.connected = call.seats[s].connected
  BY <1>2 DEF WideSeat
<1> HIDE DEF seat
<1>4. Apart(call, s, seat)
  BY <1>1, <1>2, <1>3 DEF Good, OncePerSubject, Apart
<1>5. Replaceable(calls[c], s, seat)
  BY <1>3, <1>4 DEF Replaceable
<1>6. Good(admitted) /\ OpensNoDoor(c, admitted)
  BY <1>1, <1>5, Replaced
<1>7. /\ Others(admitted, s) \cap Knocking(admitted) = {}
      /\ Seated(admitted) \cap Knocking(admitted) = {}
  BY SeatedPastDoor
<1> HIDE DEF admitted
<1> QED BY <1>1, <1>6, <1>7, Superseded

\* Somebody is left behind, whoever went.
LEMMA RestGood ==
  ASSUME SessionInv, NEW c \in DOMAIN calls, NEW s, DOMAIN calls[c].seats \ {s} # {},
         NEW rest, rest = [calls[c] EXCEPT !.seats = Drop(@, s)]
  PROVE  Good(rest) /\ OpensNoDoor(c, rest)
<1>1. Good(calls[c])
  BY LiveCall
<1>2. Good(rest)
  BY <1>1, SeatGone
<1>3. Knocking(rest) \subseteq Knocking(calls[c])
  BY <1>1, SeatGone
<1> QED BY <1>2, <1>3 DEF OpensNoDoor

LEMMA LeaveKeeps ==
  ASSUME SessionInv, NEW c \in Calls, NEW s, leave(c, s)
  PROVE  SessionInv'
<1> DEFINE call == calls[c]
<1> DEFINE present == WithSeat(call, s, [call.seats[s] EXCEPT !.connected = TRUE])
<1> DEFINE rest == [call EXCEPT !.seats = Drop(@, s)]
<1> DEFINE moved == IF call.seats[s].admission = "admitted" THEN Moved(present, rest)
                                                          ELSE {}
<1>1. /\ c \in DOMAIN calls
      /\ \/ retire(c)
         \/ DOMAIN rest.seats # {} /\ Store(c, Bumped(rest, moved), moved)
  BY DEF leave
<1>2. CASE retire(c)
  BY <1>2, Retired
<1>3. CASE DOMAIN rest.seats # {} /\ Store(c, Bumped(rest, moved), moved)
  <2>1. CallOK(call)
    BY <1>1, LiveCall
  <2>2. DOMAIN rest.seats = DOMAIN call.seats \ {s}
    BY <2>1 DEF CallOK, Drop, Restrict
  <2>3. moved \cap Knocking(rest) = {}
    BY SeatedPastDoor
  <2> HIDE DEF moved
  <2>4. Good(rest) /\ OpensNoDoor(c, rest)
    BY <1>1, <1>3, <2>2, RestGood
  <2> HIDE DEF rest
  <2> QED BY <1>3, <2>3, <2>4, Superseded
<1> QED BY <1>1, <1>2, <1>3

LEMMA DoorStepKeeps ==
  ASSUME SessionInv, NEW c \in Calls, NEW s,
         (\E host : refuseKnock(c, host, s)) \/ withdrawKnock(c, s)
  PROVE  SessionInv'
<1> DEFINE rest == [calls[c] EXCEPT !.seats = Drop(@, s)]
<1>1. /\ c \in DOMAIN calls
      /\ \/ retire(c)
         \/ DOMAIN calls[c].seats \ {s} # {} /\ Store(c, rest, {})
  <2>1. ASSUME NEW host, refuseKnock(c, host, s)
        PROVE  /\ c \in DOMAIN calls /\ Store(c, rest, {})
               /\ DOMAIN calls[c].seats \ {s} # {}
    BY <2>1 DEF refuseKnock, knockGate, Seated, isSeated, Knocking
  <2>2. ASSUME withdrawKnock(c, s)
        PROVE  /\ c \in DOMAIN calls
               /\ retire(c) \/ (DOMAIN calls[c].seats \ {s} # {} /\ Store(c, rest, {}))
    <3>1. c \in DOMAIN calls /\ s \in DOMAIN calls[c].seats
      BY <2>2 DEF withdrawKnock, Knocking
    <3>2. retire(c) \/ (DOMAIN calls[c].seats # {s} /\ Store(c, rest, {}))
      BY <2>2 DEF withdrawKnock
    <3> HIDE DEF rest
    <3> QED BY <3>1, <3>2
  <2> HIDE DEF rest
  <2> QED BY <2>1, <2>2
<1>2. CASE retire(c)
  BY <1>2, Retired
<1>3. CASE DOMAIN calls[c].seats \ {s} # {} /\ Store(c, rest, {})
  <2>1. Good(rest) /\ OpensNoDoor(c, rest)
    BY <1>1, <1>3, RestGood
  <2> HIDE DEF rest
  <2> QED BY <1>3, <2>1, Stored
<1> QED BY <1>1, <1>2, <1>3

LEMMA PreregisterKeeps ==
  ASSUME SessionInv, NEW c \in Calls, NEW setup \in Setups, preregisterCall(c, setup)
  PROVE  SessionInv'
<1> DEFINE call == mintCall(setup)
<1>1. c \notin DOMAIN calls /\ Store(c, call, {})
  BY DEF preregisterCall
<1>2. Good(call)
  BY FreshCall
<1>3. OpensNoDoor(c, call)
  BY <1>1 DEF OpensNoDoor
<1> HIDE DEF call
<1> QED BY <1>1, <1>2, <1>3, Stored

\* A fresh join keeps the promises, in a call just made or in a live one.
LEMMA TakeSeatKeeps ==
  ASSUME SessionInv, NEW c \in Calls, NEW p \in Profiles, NEW call, Good(call),
         Cardinality(DOMAIN call.seats) < capacityOf(call), SubjectIsFree(call, p),
         c \in DOMAIN calls => call = calls[c], TakeSeat(c, call, p)
  PROVE  SessionInv'
<1>1. PICK n \in Nat : n = call.next
  BY DEF Good, CallOK
<1>a. PICK o : o = IF call.owner = 0 THEN n ELSE call.owner
  OBVIOUS
<1>b. PICK seat : seat = [NewSeat(p) EXCEPT !.role = IF call.owner = 0 THEN "chair" ELSE @]
  OBVIOUS
<1>c. PICK mid : mid = [call EXCEPT !.next = @ + 1, !.owner = o]
  OBVIOUS
<1>d. PICK joined : joined = WithSeat(mid, n, seat)
  OBVIOUS
<1>2. Store(c, Bumped(joined, Others(joined, n)), Seated(joined))
  BY <1>1, <1>a, <1>b, <1>c, <1>d DEF TakeSeat
<1>3. /\ seat \in WideSeat /\ seat.subject = p.subject /\ seat.admission = "admitted"
      /\ seat.role = IF call.owner = 0 THEN "chair" ELSE "participant"
  BY <1>b, NewSeatType DEF WideSeat, Roles
<1>4. Apart(call, n, seat)
  BY <1>3 DEF SubjectIsFree, hasConnectedSubject, Apart
<1>5. \/ call.owner = 0 /\ o = n /\ seat.role = "chair"
      \/ call.owner # 0 /\ o = call.owner /\ seat.role # "chair"
  BY <1>a, <1>3
<1>6. Good(joined)
  BY <1>1, <1>3, <1>4, <1>5, <1>c, <1>d, Newcomer
<1>7. Knocking(joined) \cap DOMAIN call.seats \subseteq Knocking(call)
  BY <1>1, <1>3, <1>4, <1>5, <1>c, <1>d, Newcomer
<1>8. OpensNoDoor(c, joined)
  BY <1>7 DEF OpensNoDoor
<1>9. /\ Others(joined, n) \cap Knocking(joined) = {}
      /\ Seated(joined) \cap Knocking(joined) = {}
  BY SeatedPastDoor
<1> QED BY <1>2, <1>6, <1>8, <1>9, Superseded

LEMMA CreateByJoinKeeps ==
  ASSUME SessionInv, NEW c \in Calls, NEW p \in Profiles, NEW setup \in Setups,
         createByJoin(c, p, setup)
  PROVE  SessionInv'
<1> DEFINE call == createCall(setup)
<1>1. c \notin DOMAIN calls /\ TakeSeat(c, call, p)
  BY DEF createByJoin
<1>2. Good(call) /\ DOMAIN call.seats = {}
  BY FreshCall
<1>3. SubjectIsFree(call, p)
  BY <1>2 DEF SubjectIsFree, hasConnectedSubject
<1>4. Cardinality(DOMAIN call.seats) < capacityOf(call)
  <2> HIDE DEF call
  <2>1. Cardinality(DOMAIN call.seats) = 0
    BY <1>2, FS_EmptySet
  <2>2. capacityOf(call) \in Nat /\ capacityOf(call) >= 2
    BY SessionAssumption DEF capacityOf, PERSONAL_CALL_SEATS
  <2> QED BY <2>1, <2>2
<1> HIDE DEF call
<1> QED BY <1>1, <1>2, <1>3, <1>4, TakeSeatKeeps

LEMMA JoinCallKeeps ==
  ASSUME SessionInv, NEW c \in Calls, NEW p \in Profiles, joinCall(c, p)
  PROVE  SessionInv'
<1> DEFINE call == calls[c]
<1>1. /\ c \in DOMAIN calls /\ Cardinality(DOMAIN call.seats) < capacityOf(call)
      /\ SubjectIsFree(call, p) /\ TakeSeat(c, call, p)
  BY DEF joinCall, Admits
<1>2. Good(call)
  BY <1>1, LiveCall
<1> QED BY <1>1, <1>2, TakeSeatKeeps

LEMMA KnockKeeps ==
  ASSUME SessionInv, NEW c \in Calls, NEW p \in Profiles, knock(c, p)
  PROVE  SessionInv'
<1>1. PICK call : call = calls[c]
  OBVIOUS
<1>2. /\ c \in DOMAIN calls /\ Good(call)
      /\ Cardinality(DOMAIN call.seats) < capacityOf(call)
      /\ SubjectIsFree(call, p) /\ call.owner # 0
  BY <1>1, LiveCall DEF knock, Admits, MustKnock
<1>3. PICK n \in Nat : n = call.next
  BY <1>2 DEF Good, CallOK
<1> DEFINE seat == [NewSeat(p) EXCEPT !.admission = "knocking"]
<1>4. Store(c, WithSeat([call EXCEPT !.next = @ + 1], n, seat), {})
  BY <1>1, <1>3 DEF knock
<1>5. /\ seat \in WideSeat /\ seat.subject = p.subject /\ seat.media = 1
      /\ seat.role = "participant"
  BY NewSeatType DEF WideSeat
<1> HIDE DEF seat
<1>6. Apart(call, n, seat)
  BY <1>2, <1>5 DEF SubjectIsFree, hasConnectedSubject, Apart
<1>7. PICK o : o = call.owner
  OBVIOUS
<1>8. PICK mid : mid = [call EXCEPT !.next = @ + 1, !.owner = o]
  OBVIOUS
<1>9. mid = [call EXCEPT !.next = @ + 1]
  BY <1>2, <1>7, <1>8 DEF Good, CallOK
<1>10. PICK after : after = WithSeat(mid, n, seat)
  OBVIOUS
<1>11. call.owner # 0 /\ o = call.owner /\ seat.role # "chair"
  BY <1>2, <1>5, <1>7
<1>12. Good(after)
  BY <1>2, <1>3, <1>5, <1>6, <1>8, <1>10, <1>11, Newcomer
<1>13. Knocking(after) \cap DOMAIN call.seats \subseteq Knocking(call)
  BY <1>2, <1>3, <1>5, <1>6, <1>8, <1>10, <1>11, Newcomer
<1>14. OpensNoDoor(c, after)
  BY <1>1, <1>13 DEF OpensNoDoor
<1>15. Store(c, after, {})
  BY <1>4, <1>9, <1>10
<1> QED BY <1>12, <1>14, <1>15, Stored

\* The chair hands out roles: nobody else becomes chair unless the pointer
\* moves to them and the old chair steps down.
LEMMA ApplyGovernanceKeeps ==
  ASSUME SessionInv, NEW c \in Calls, NEW a, NEW t, NEW action \in GovernanceActions,
         applyGovernance(c, a, t, action)
  PROVE  SessionInv'
<1>1. PICK call : call = calls[c]
  OBVIOUS
<1>2. PICK seat : seat = [call.seats[t] EXCEPT !.role = nextTargetRole(action)]
  OBVIOUS
<1>3. PICK down : down = [call.seats[a] EXCEPT !.role = "participant"]
  OBVIOUS
<1>4. PICK given : given = WithSeat(call, t, seat)
  OBVIOUS
<1>5. PICK mid : mid = [given EXCEPT !.owner = t]
  OBVIOUS
<1>6. PICK passed : passed = WithSeat(mid, a, down)
  OBVIOUS
<1>7. /\ c \in DOMAIN calls /\ a \in DOMAIN call.seats
      /\ t \in DOMAIN call.seats /\ a # t
      /\ decideGovernance(call.seats[a], call.seats[t], action)
  BY <1>1 DEF applyGovernance, Seated
<1>8. Store(c, IF action = "transfer-chair" THEN passed ELSE given, {})
  BY <1>1, <1>2, <1>3, <1>4, <1>5, <1>6 DEF applyGovernance
<1>9. /\ Good(call) /\ CallOK(call) /\ call.seats[a] \in WideSeat
      /\ call.seats[t] \in WideSeat
  BY <1>1, <1>7, LiveCall
<1>10. /\ call.seats[a].role = "chair" /\ call.seats[t].role # "chair" /\ a = call.owner
  <2>1. call.seats[a].role = "chair"
    BY <1>7 DEF decideGovernance, Authorised
  <2>2. a = call.owner
    BY <1>7, <1>9, <2>1 DEF Good, Chaired
  <2>3. call.seats[t].role # "chair"
    BY <1>7, <1>9, <2>2 DEF Good, Chaired
  <2> QED BY <2>1, <2>2, <2>3
<1>11. /\ seat \in WideSeat /\ seat.role = nextTargetRole(action)
       /\ seat.subject = call.seats[t].subject /\ seat.connected = call.seats[t].connected
       /\ seat.admission = call.seats[t].admission /\ seat.media = call.seats[t].media
  <2>1. nextTargetRole(action) \in Roles
    BY DEF nextTargetRole, Roles
  <2> QED BY <1>2, <1>9, <2>1 DEF WideSeat
<1>12. /\ down \in WideSeat /\ down.role = "participant"
       /\ down.subject = call.seats[a].subject /\ down.connected = call.seats[a].connected
       /\ down.admission = call.seats[a].admission /\ down.media = call.seats[a].media
  BY <1>3, <1>9 DEF WideSeat, Roles
<1>13. /\ CallOK(given) /\ given.type = call.type /\ given.owner = call.owner
       /\ given.next = call.next /\ DOMAIN given.seats = DOMAIN call.seats
       /\ given.seats[t] = seat
       /\ \A s \in DOMAIN call.seats \ {t} : given.seats[s] = call.seats[s]
  <2>1. t \in Nat /\ t # 0 /\ t < call.next
    BY <1>7, <1>9 DEF CallOK, SeatMap
  <2>2. SeatedIn(call, t, seat, given)
    BY <1>4, <1>9, <1>11, <2>1, SeatWritten
  <2> QED BY <1>7, <2>2 DEF SeatedIn
<1>14. CASE action # "transfer-chair"
  <2>1. seat.role # "chair"
    BY <1>11, <1>14 DEF nextTargetRole, GovernanceActions
  <2>2. Chaired(given)
    BY <1>7, <1>9, <1>10, <1>13, <2>1 DEF Good, Chaired
  <2>3. OncePerSubject(given)
    BY <1>7, <1>9, <1>11, <1>13 DEF Good, OncePerSubject
  <2>4. Filled(given)
    BY <1>9, <1>13 DEF Good, Filled, capacityOf
  <2>5. DoorFresh(given) /\ Knocking(given) \subseteq Knocking(call)
    BY <1>7, <1>9, <1>11, <1>13 DEF Good, DoorFresh, Knocking
  <2>6. Good(given) /\ OpensNoDoor(c, given) /\ Store(c, given, {})
    BY <1>1, <1>8, <1>13, <1>14, <2>2, <2>3, <2>4, <2>5 DEF Good, OpensNoDoor
  <2> QED BY <2>6, Stored
<1>15. CASE action = "transfer-chair"
  <2>1. seat.role = "chair"
    BY <1>11, <1>15 DEF nextTargetRole
  <2>2. /\ CallOK(mid) /\ mid.type = call.type /\ mid.owner = t
        /\ mid.next = call.next /\ mid.seats = given.seats
    <3>1. /\ mid.type = given.type /\ mid.mode = given.mode
          /\ mid.privacy = given.privacy /\ mid.owner = t
          /\ mid.next = given.next /\ mid.seats = given.seats
      BY <1>5, <1>13 DEF CallOK
    <3>2. mid = [type |-> mid.type, mode |-> mid.mode, privacy |-> mid.privacy,
                 owner |-> mid.owner, next |-> mid.next, seats |-> mid.seats]
      BY <1>5, <1>13 DEF CallOK
    <3>3. t \in Nat /\ t < given.next
      BY <1>7, <1>9, <1>13 DEF CallOK, SeatMap
    <3>4. CallOK(mid)
      BY <1>13, <3>1, <3>2, <3>3 DEF CallOK
    <3> QED BY <1>13, <3>1, <3>4
  <2>3. /\ CallOK(passed) /\ passed.type = call.type /\ passed.owner = t
        /\ DOMAIN passed.seats = DOMAIN call.seats /\ passed.seats[a] = down
        /\ \A s \in DOMAIN call.seats \ {a} : passed.seats[s] = given.seats[s]
    <3>1. a \in Nat /\ a # 0 /\ a < mid.next
      BY <1>7, <1>9, <2>2 DEF CallOK, SeatMap
    <3>2. SeatedIn(mid, a, down, passed)
      BY <1>6, <1>12, <2>2, <3>1, SeatWritten
    <3> QED BY <1>7, <1>13, <2>2, <3>2 DEF SeatedIn
  <2>4. Chaired(passed)
    BY <1>7, <1>9, <1>10, <1>12, <1>13, <2>1, <2>3 DEF Good, Chaired
  <2>5. \A s \in DOMAIN call.seats :
          /\ passed.seats[s].subject = call.seats[s].subject
          /\ passed.seats[s].connected = call.seats[s].connected
          /\ passed.seats[s].admission = call.seats[s].admission
          /\ passed.seats[s].media = call.seats[s].media
    BY <1>7, <1>11, <1>12, <1>13, <2>3
  <2>6. OncePerSubject(passed)
    BY <1>9, <2>3, <2>5 DEF Good, OncePerSubject
  <2>7. Filled(passed)
    <3>1. DOMAIN call.seats # {}
      BY <1>7
    <3> QED BY <1>9, <2>3, <3>1 DEF Good, Filled, capacityOf
  <2>8. DoorFresh(passed) /\ Knocking(passed) \subseteq Knocking(call)
    BY <1>9, <2>3, <2>5 DEF Good, DoorFresh, Knocking
  <2>9. Good(passed) /\ OpensNoDoor(c, passed) /\ Store(c, passed, {})
    BY <1>1, <1>8, <1>15, <2>3, <2>4, <2>6, <2>7, <2>8 DEF Good, OpensNoDoor
  <2> QED BY <2>9, Stored
<1> QED BY <1>14, <1>15

-----------------------------------------------------------------------------
(* The theorems about the seats.                                           *)

LEMMA InvInitially == Init => SessionInv
BY DEF Init, SessionInv, EmptyMap

LEMMA InvKept == SessionInv /\ [Next]_vars => SessionInv'
<1> SUFFICES ASSUME SessionInv, [Next]_vars PROVE SessionInv'
  OBVIOUS
<1>1. CASE UNCHANGED vars
  BY <1>1 DEF vars, SessionInv
<1>2. ASSUME NEW c \in Calls, NEW setup \in Setups, preregisterCall(c, setup)
      PROVE  SessionInv'
  BY <1>2, PreregisterKeeps
<1>3. ASSUME NEW c \in Calls, NEW p \in Profiles, NEW setup \in Setups,
             createByJoin(c, p, setup)
      PROVE  SessionInv'
  BY <1>3, CreateByJoinKeeps
<1>4. ASSUME NEW c \in Calls, NEW p \in Profiles, joinCall(c, p) \/ knock(c, p)
      PROVE  SessionInv'
  BY <1>4, JoinCallKeeps, KnockKeeps
<1>5. ASSUME NEW c \in Calls, endCall(c) PROVE SessionInv'
  BY <1>5, Retired DEF endCall
<1>6. ASSUME NEW c \in Calls, NEW mode \in Modes, setCallModeByAuthority(c, mode)
      PROVE  SessionInv'
  BY <1>6, SetCallModeKeeps
<1>7. ASSUME NEW c \in Calls, NEW s, NEW audio \in AudioModes,
             NEW captions \in CaptionChoices, resume(c, s, audio, captions)
      PROVE  SessionInv'
  BY <1>7, ResumeKeeps
<1>8. ASSUME NEW c \in Calls, NEW s,
             \/ markDisconnected(c, s) \/ leave(c, s) \/ withdrawKnock(c, s)
             \/ endCallByParticipant(c, s)
      PROVE  SessionInv'
  BY <1>8, MarkDisconnectedKeeps, LeaveKeeps, DoorStepKeeps, Retired
     DEF endCallByParticipant
<1>9. ASSUME NEW c \in Calls, NEW s, NEW l \in Languages,
             applyDetectedLanguage(c, s, l) \/ setCaptionLanguage(c, s, l)
      PROVE  SessionInv'
  BY <1>9, ApplyDetectedLanguageKeeps, SetCaptionLanguageKeeps
<1>10. ASSUME NEW c \in Calls, NEW s, NEW audio \in AudioModes, setAudioMode(c, s, audio)
       PROVE  SessionInv'
  BY <1>10, SetAudioModeKeeps
<1>11. ASSUME NEW c \in Calls, NEW s, NEW t, admitKnock(c, s, t) \/ refuseKnock(c, s, t)
       PROVE  SessionInv'
  BY <1>11, AdmitKnockKeeps, DoorStepKeeps
<1>12. ASSUME NEW c \in Calls, NEW s, NEW t, NEW action \in GovernanceActions,
              applyGovernance(c, s, t, action)
       PROVE  SessionInv'
  BY <1>12, ApplyGovernanceKeeps
<1> QED BY <1>1, <1>2, <1>3, <1>4, <1>5, <1>6, <1>7, <1>8, <1>9, <1>10, <1>11, <1>12
        DEF Next

LEMMA InvAlways == Spec => []SessionInv
BY InvInitially, InvKept, PTL DEF Spec

\* In every state of every call there is at most one chair, the chair is the
\* owner the older checks ask for, and an owner who is still seated is the chair:
\* whatever the order of joins, appointments, transfers and leaves.
THEOREM ChairIsOwner == Spec => []OneChair
<1>1. SessionInv => OneChair
  BY DEF SessionInv, Good, Chaired, OneChair
<1> QED BY <1>1, InvAlways, PTL

\* The seats are kept straight from the door to the last leave: knockers have no
\* work and untouched revisions, a partner identity is connected once, a call
\* holds no more seats than it has places and is gone with the last of them.
THEOREM SeatsKeptStraight == Spec => []SeatsKept
<1>1. SessionInv => SeatsKept
  <2> SUFFICES ASSUME SessionInv PROVE SeatsKept
    OBVIOUS
  <2>1. KnockersUnplanned
    BY DEF SessionInv, Good, DoorFresh, KnockersUnplanned
  <2>2. OneConnectedPerSubject
    BY DEF SessionInv, Good, OncePerSubject, OneConnectedPerSubject
  <2>3. DiesWithLastSeat /\ WithinCapacity
    BY DEF SessionInv, Good, Filled, DiesWithLastSeat, WithinCapacity
  <2> QED BY <2>1, <2>2, <2>3 DEF SeatsKept
<1> QED BY <1>1, InvAlways, PTL

-----------------------------------------------------------------------------
(* The audience: what the seated want of a speaker, what the speaker's      *)
(* running order makes, and for whom.                                       *)

\* A call whose seats are records, whatever their numbers.
Shaped(call) ==
  /\ call = [type |-> call.type, mode |-> call.mode, privacy |-> call.privacy,
             owner |-> call.owner, next |-> call.next, seats |-> call.seats]
  /\ call.mode \in {"normal", "translated"}
  /\ \A s \in DOMAIN call.seats : call.seats[s] \in WideSeat

\* What was ordered makes what is wanted.
Covers(made, want) ==
  /\ want.targets \subseteq made.targets
  /\ want.targets \ want.textOnly \subseteq made.targets \ made.textOnly
  /\ want.captions => made.captions

\* The languages of the others that keep a translation of s alive: of seats past
\* the door that listen or read, present or in their grace.
Wants(seat) == seat.audio = "heard" \/ seat.captions
Supporters(call, s) ==
  {o \in DOMAIN call.seats \ {s} :
     /\ call.seats[o].admission = "admitted" /\ Wants(call.seats[o])
     /\ call.seats[o].hear # call.seats[s].speak}
Supported(call, s) == {call.seats[o].hear : o \in Supporters(call, s)}

\* An order that serves s's audience, and makes nothing for the departed.
Serves(order, call, s) ==
  /\ Covers(order, planSignature(call, s))
  /\ call.mode = "translated" /\ call.seats[s].auto # "confirmed"
       => order.targets \subseteq Supported(call, s)

\* The plans of a call: none is ahead of its seat, and each present speaker's
\* is the one of their revision and serves their audience.
Running(call, plans) ==
  /\ \A s \in DOMAIN plans : /\ s \in DOMAIN call.seats /\ plans[s].media \in Nat
                             /\ plans[s].media <= call.seats[s].media
  /\ \A s \in Seated(call) :
       /\ s \in DOMAIN plans /\ plans[s].media = call.seats[s].media
       /\ Serves(plans[s].order, call, s)

AudienceInv ==
  /\ \A c \in DOMAIN calls : Running(calls[c], work[c])
  /\ \A c \in DOMAIN calls : WithinBounds(calls[c]) /\ calls[c].next <= MaxSerial + 1
  /\ \A c \in Calls : \A s \in DOMAIN work[c] : work[c][s] \in Plan

LEMMA ShapedCall ==
  ASSUME NEW call, CallOK(call)
  PROVE  Shaped(call)
BY DEF CallOK, Shaped, SeatMap

\* Two seats that are the same listener, and the same speaker.
Alike(a, b) ==
  /\ a.hear = b.hear /\ a.audio = b.audio /\ a.captions = b.captions
  /\ a.connected = b.connected /\ a.admission = b.admission
SameVoice(a, b) == a.speak = b.speak /\ a.auto = b.auto

\* Two calls with the same listeners.
PlansAlike(call, after) ==
  /\ after.mode = call.mode /\ DOMAIN after.seats = DOMAIN call.seats
  /\ \A s \in DOMAIN call.seats : Alike(after.seats[s], call.seats[s])

LEMMA AlikeSeated ==
  ASSUME NEW call, NEW after, PlansAlike(call, after)
  PROVE  Seated(after) = Seated(call)
BY DEF PlansAlike, Alike, Seated, isSeated

LEMMA AlikePlanned ==
  ASSUME NEW call, NEW after, PlansAlike(call, after), NEW s \in DOMAIN call.seats,
         after.seats[s].speak = call.seats[s].speak
  PROVE  /\ planSignature(after, s) = planSignature(call, s)
         /\ Supported(after, s) = Supported(call, s)
<1>1. Seated(after) = Seated(call) /\ Others(after, s) = Others(call, s)
  BY AlikeSeated DEF Others
<1>2. Others(call, s) \subseteq DOMAIN call.seats
  BY DEF Others, Seated
<1>3. Abroad(after, s) = Abroad(call, s)
  BY <1>1, <1>2 DEF PlansAlike, Alike, Abroad
<1>4. planSignature(after, s) = planSignature(call, s)
  <2>1. {after.seats[o].hear : o \in {a \in Abroad(after, s) : after.seats[a].audio = "heard"}}
      = {call.seats[o].hear : o \in {a \in Abroad(call, s) : call.seats[a].audio = "heard"}}
    BY <1>2, <1>3 DEF PlansAlike, Alike, Abroad
  <2>2. {after.seats[o].hear : o \in {a \in Abroad(after, s) : after.seats[a].captions}}
      = {call.seats[o].hear : o \in {a \in Abroad(call, s) : call.seats[a].captions}}
    BY <1>2, <1>3 DEF PlansAlike, Alike, Abroad
  <2>3. (\E o \in Others(after, s) : after.seats[o].captions)
        <=> (\E o \in Others(call, s) : call.seats[o].captions)
    BY <1>1, <1>2 DEF PlansAlike, Alike
  <2>4. (\E o \in Others(after, s) \ Abroad(after, s) : after.seats[o].captions)
        <=> (\E o \in Others(call, s) \ Abroad(call, s) : call.seats[o].captions)
    BY <1>1, <1>2, <1>3 DEF PlansAlike, Alike
  <2>5. after.mode = call.mode /\ after.seats[s].connected = call.seats[s].connected
        /\ after.seats[s].captions = call.seats[s].captions
    BY DEF PlansAlike, Alike
  <2> QED BY <2>1, <2>2, <2>3, <2>4, <2>5 DEF planSignature
<1>5. Supporters(after, s) = Supporters(call, s)
  BY DEF PlansAlike, Alike, Supporters, Wants
<1>6. Supported(after, s) = Supported(call, s)
  BY <1>5 DEF Supported, PlansAlike, Alike, Supporters
<1> QED BY <1>4, <1>6


\* Every target has a supporter.
LEMMA TargetsSupported ==
  ASSUME NEW call, call.mode = "translated", NEW s \in DOMAIN call.seats
  PROVE  planSignature(call, s).targets \subseteq Supported(call, s)
<1> DEFINE voiced == {call.seats[o].hear : o \in {a \in Abroad(call, s) : call.seats[a].audio = "heard"}}
           read   == {call.seats[o].hear : o \in {a \in Abroad(call, s) : call.seats[a].captions}}
<1>1. planSignature(call, s).targets = voiced \cup read
  BY DEF planSignature
<1>2. voiced \subseteq Supported(call, s)
  BY DEF Abroad, Others, Seated, isSeated, Supported, Supporters, Wants
<1>3. read \subseteq Supported(call, s)
  BY DEF Abroad, Others, Seated, isSeated, Supported, Supporters, Wants
<1> QED BY <1>1, <1>2, <1>3

\* A plan freshly built serves its audience.
LEMMA SignatureServes ==
  ASSUME NEW call, NEW s \in DOMAIN call.seats
  PROVE  Serves(planSignature(call, s), call, s)
BY TargetsSupported DEF Serves, Covers

\* With fewer others, less is wanted.
LEMMA FewerWantLess ==
  ASSUME NEW call, NEW after, after.mode = call.mode, NEW s \in Seated(call),
         s \in Seated(after), Seated(after) \subseteq Seated(call),
         \A o \in Seated(after) : Alike(after.seats[o], call.seats[o]),
         after.seats[s].speak = call.seats[s].speak
  PROVE  Covers(planSignature(call, s), planSignature(after, s))
<1>1. Others(after, s) \subseteq Others(call, s) /\ Others(after, s) \subseteq Seated(after)
  BY DEF Others
<1>2. CASE call.mode = "normal"
  <2>1. planSignature(call, s).targets = {} /\ planSignature(after, s).targets = {}
    BY <1>2 DEF planSignature
  <2>2. planSignature(call, s).textOnly = {} /\ planSignature(after, s).textOnly = {}
    BY <1>2 DEF planSignature
  <2>3. planSignature(after, s).captions => planSignature(call, s).captions
    BY <1>1, <1>2 DEF planSignature, Alike
  <2> QED BY <2>1, <2>2, <2>3 DEF Covers
<1>3. CASE call.mode # "normal"
  <2> DEFINE voiced(x) == {x.seats[o].hear : o \in {a \in Abroad(x, s) : x.seats[a].audio = "heard"}}
             read(x)   == {x.seats[o].hear : o \in {a \in Abroad(x, s) : x.seats[a].captions}}
  <2>1. /\ planSignature(call, s).targets = voiced(call) \cup read(call)
        /\ planSignature(call, s).textOnly = read(call) \ voiced(call)
    BY <1>3 DEF planSignature
  <2>2. /\ planSignature(after, s).targets = voiced(after) \cup read(after)
        /\ planSignature(after, s).textOnly = read(after) \ voiced(after)
    BY <1>3 DEF planSignature
  <2>3. Abroad(after, s) = Abroad(call, s) \cap Others(after, s)
    BY <1>1 DEF Abroad, Alike
  <2>4. voiced(after) \subseteq voiced(call)
    BY <1>1, <2>3 DEF Alike
  <2>5. read(after) \subseteq read(call)
    BY <1>1, <2>3 DEF Alike
  <2>6. planSignature(after, s).captions => planSignature(call, s).captions
    BY <1>1, <1>3, <2>3 DEF planSignature, Alike
  <2> HIDE DEF voiced, read
  <2> QED BY <2>1, <2>2, <2>4, <2>5, <2>6 DEF Covers
<1> QED BY <1>2, <1>3

LEMMA CoversCarries ==
  ASSUME NEW made, NEW want, NEW less, Covers(made, want), Covers(want, less)
  PROVE  Covers(made, less)
BY DEF Covers

-----------------------------------------------------------------------------
(* What an operation must do for the seats of the call it makes.            *)

\* Speaker t's session is superseded by one planned for the call as it is now...
Anew(c, after, S, t) ==
  /\ t \in S
  /\ t \in DOMAIN work[c] => work[c][t].media # after.seats[t].media

\* ... or nothing t's order is judged by has changed for the worse.
Unharmed(call, after, t) ==
  /\ t \in Seated(call) /\ after.seats[t].media = call.seats[t].media
  /\ Covers(planSignature(call, t), planSignature(after, t))
  /\ after.mode = "translated" /\ after.seats[t].auto # "confirmed"
       => /\ call.mode = "translated" /\ call.seats[t].auto # "confirmed"
          /\ Supported(call, t) \subseteq Supported(after, t)

\* Revisions and serials never go back.
Onward(c, after) ==
  /\ \A t \in DOMAIN after.seats \cap DOMAIN work[c] :
        after.seats[t].media >= work[c][t].media
  /\ \/ after.next = 1
     \/ c \in DOMAIN calls /\ after.next = calls[c].next
     \/ after.next - 1 \in DOMAIN after.seats

LEMMA PlanType ==
  ASSUME NEW call, CallOK(call), WithinBounds(call), NEW s \in DOMAIN call.seats
  PROVE  buildIngestPlan(call, s) \in Plan
<1>1. \A o \in DOMAIN call.seats : call.seats[o].hear \in Languages
  BY DEF CallOK, SeatMap, WideSeat
<1>2. Abroad(call, s) \subseteq DOMAIN call.seats
  BY DEF Abroad, Others, Seated
<1>3. planSignature(call, s) \in [targets: SUBSET Languages, textOnly: SUBSET Languages,
                                  captions: BOOLEAN]
  BY <1>1, <1>2 DEF planSignature
<1>4. call.seats[s].media \in Revisions
  BY DEF WithinBounds
<1> QED BY <1>3, <1>4 DEF buildIngestPlan, Plan

LEMMA StoredServes ==
  ASSUME SessionInv, SessionInv', AudienceInv, NEW c \in Calls, NEW after, NEW S,
         Store(c, after, S), Onward(c, after),
         \A t \in Seated(after) :
           Anew(c, after, S, t) \/ (c \in DOMAIN calls /\ Unharmed(calls[c], after, t))
  PROVE  AudienceInv'
<1>1. /\ DOMAIN calls' = DOMAIN calls \cup {c} /\ calls'[c] = after
      /\ \A d \in DOMAIN calls \ {c} : calls'[d] = calls[d]
  BY DEF Store, Put
<1>2. /\ work'[c] = Planned(c, after, S) /\ DOMAIN work' = Calls
      /\ \A d \in Calls \ {c} : work'[d] = work[d]
  BY DEF Store, SessionInv
<1>3. CallOK(after) /\ Shaped(after) /\ WithinBounds(after)
  <2>1. Good(after)
    BY <1>1 DEF SessionInv
  <2> QED BY <2>1, ShapedCall DEF Good, Store
<1> DEFINE plans == Planned(c, after, S)
<1>4. DOMAIN plans = DOMAIN after.seats \cap (DOMAIN work[c] \cup S)
  BY DEF Planned
<1>5. ASSUME NEW s \in DOMAIN plans
      PROVE  \/ s \in DOMAIN work[c] /\ plans[s] = work[c][s]
             \/ s \in S /\ plans[s] = buildIngestPlan(after, s)
  BY <1>5, <1>4 DEF Planned
<1>6. ASSUME NEW s \in DOMAIN after.seats, Anew(c, after, S, s)
      PROVE  s \in DOMAIN plans /\ plans[s] = buildIngestPlan(after, s)
  BY <1>6, <1>4 DEF Planned, Anew
<1>7. ASSUME NEW s \in DOMAIN after.seats, s \in DOMAIN work[c],
             work[c][s].media = after.seats[s].media
      PROVE  s \in DOMAIN plans /\ plans[s] = work[c][s]
  BY <1>7, <1>4 DEF Planned
<1>8. \A s \in DOMAIN plans : plans[s] \in Plan
  <2> TAKE s \in DOMAIN plans
  <2>1. s \in DOMAIN work[c] => work[c][s] \in Plan
    BY DEF AudienceInv
  <2>2. buildIngestPlan(after, s) \in Plan
    BY <1>3, <1>4, PlanType
  <2> HIDE DEF plans
  <2> QED BY <2>1, <2>2, <1>5
<1>9. \A s \in DOMAIN after.seats : after.seats[s].media \in Nat
  BY <1>3 DEF CallOK, SeatMap, WideSeat
<1>10. \A s : buildIngestPlan(after, s).media = after.seats[s].media
                 /\ buildIngestPlan(after, s).order = planSignature(after, s)
  BY DEF buildIngestPlan
<1> HIDE DEF plans
<1>11. ASSUME NEW s \in DOMAIN plans
       PROVE  /\ s \in DOMAIN after.seats /\ plans[s].media \in Nat
              /\ plans[s].media <= after.seats[s].media
  <2>1. s \in DOMAIN after.seats /\ plans[s].media \in Nat
    BY <1>4, <1>8, <1>11 DEF Plan, Revisions
  <2>2. CASE s \in DOMAIN work[c] /\ plans[s] = work[c][s]
    BY <2>1, <2>2, <1>9 DEF Onward
  <2>3. CASE s \in S /\ plans[s] = buildIngestPlan(after, s)
    BY <2>1, <2>3, <1>9, <1>10
  <2> QED BY <2>1, <2>2, <2>3, <1>5
<1>12. ASSUME NEW s \in Seated(after)
       PROVE  /\ s \in DOMAIN plans /\ plans[s].media = after.seats[s].media
              /\ Serves(plans[s].order, after, s)
  <2>1. s \in DOMAIN after.seats
    BY <1>12 DEF Seated
  <2>2. CASE Anew(c, after, S, s)
    <3>1. s \in DOMAIN plans /\ plans[s] = buildIngestPlan(after, s)
      BY <2>1, <2>2, <1>6
    <3>2. Serves(planSignature(after, s), after, s)
      BY <2>1, SignatureServes
    <3> QED BY <3>1, <3>2, <1>10
  <2>3. CASE c \in DOMAIN calls /\ Unharmed(calls[c], after, s)
    <3>1. Running(calls[c], work[c]) /\ s \in Seated(calls[c])
      BY <2>3 DEF AudienceInv, Unharmed
    <3>2. /\ s \in DOMAIN work[c] /\ work[c][s].media = calls[c].seats[s].media
          /\ Serves(work[c][s].order, calls[c], s)
      BY <3>1 DEF Running
    <3>3. s \in DOMAIN plans /\ plans[s] = work[c][s]
      BY <2>1, <2>3, <3>2, <1>7 DEF Unharmed
    <3>4. Serves(work[c][s].order, after, s)
      <4>1. Covers(work[c][s].order, planSignature(after, s))
        BY <2>3, <3>2, CoversCarries DEF Serves, Unharmed
      <4> QED BY <4>1, <2>3, <3>2 DEF Serves, Unharmed
    <3> QED BY <2>3, <3>2, <3>3, <3>4 DEF Unharmed
  <2> QED BY <2>2, <2>3, <1>12
<1>13. Running(after, plans)
  BY <1>11, <1>12 DEF Running
<1>14. after.next <= MaxSerial + 1
  <2>1. CASE after.next = 1
    BY <2>1, SessionAssumption
  <2>2. CASE c \in DOMAIN calls /\ after.next = calls[c].next
    BY <2>2 DEF AudienceInv
  <2>3. CASE after.next - 1 \in DOMAIN after.seats
    <3>1. after.next - 1 \in Serials /\ after.next \in Nat
      BY <2>3, <1>3 DEF WithinBounds, CallOK
    <3> QED BY <3>1, SessionAssumption DEF Serials
  <2> QED BY <2>1, <2>2, <2>3 DEF Onward
<1>15. \A d \in DOMAIN calls' : /\ Running(calls'[d], work'[d]) /\ WithinBounds(calls'[d])
                                /\ calls'[d].next <= MaxSerial + 1
  <2> TAKE d \in DOMAIN calls'
  <2>1. CASE d = c
    BY <2>1, <1>1, <1>2, <1>3, <1>13, <1>14 DEF plans
  <2>2. CASE d # c
    <3>1. /\ d \in DOMAIN calls /\ d \in Calls \ {c}
          /\ calls'[d] = calls[d] /\ work'[d] = work[d]
      BY <2>2, <1>1, <1>2 DEF SessionInv
    <3> QED BY <3>1 DEF AudienceInv
  <2> QED BY <2>1, <2>2
<1>16. \A d \in Calls : \A s \in DOMAIN work'[d] : work'[d][s] \in Plan
  <2> TAKE d \in Calls
  <2>1. CASE d = c
    BY <2>1, <1>2, <1>8 DEF plans
  <2>2. CASE d # c
    BY <2>2, <1>2 DEF AudienceInv
  <2> QED BY <2>1, <2>2
<1> QED BY <1>15, <1>16 DEF AudienceInv


LEMMA RetiredServes ==
  ASSUME SessionInv, AudienceInv, NEW c \in Calls, retire(c)
  PROVE  AudienceInv'
<1>1. /\ DOMAIN calls' = DOMAIN calls \ {c}
      /\ \A d \in DOMAIN calls \ {c} : calls'[d] = calls[d]
  BY DEF retire, Drop, Restrict
<1>2. /\ DOMAIN work'[c] = {}
      /\ \A d \in Calls \ {c} : work'[d] = work[d]
  BY DEF retire, SessionInv, EmptyMap
<1>3. \A d \in DOMAIN calls' : /\ Running(calls'[d], work'[d]) /\ WithinBounds(calls'[d])
                               /\ calls'[d].next <= MaxSerial + 1
  <2> TAKE d \in DOMAIN calls'
  <2>1. /\ d \in DOMAIN calls /\ d \in Calls \ {c}
        /\ calls'[d] = calls[d] /\ work'[d] = work[d]
    BY <1>1, <1>2 DEF SessionInv
  <2> QED BY <2>1 DEF AudienceInv
<1>4. \A d \in Calls : \A s \in DOMAIN work'[d] : work'[d][s] \in Plan
  <2> TAKE d \in Calls
  <2> QED BY <1>2 DEF AudienceInv
<1> QED BY <1>3, <1>4 DEF AudienceInv

LEMMA BumpedShape ==
  ASSUME NEW call, Shaped(call), NEW T, NEW after, after = Bumped(call, T)
  PROVE  /\ Shaped(after) /\ PlansAlike(call, after) /\ after.next = call.next
         /\ \A s \in DOMAIN call.seats : SameVoice(after.seats[s], call.seats[s])
         /\ \A s \in DOMAIN call.seats :
              after.seats[s].media = IF s \in T THEN call.seats[s].media + 1
                                                ELSE call.seats[s].media
<1> DEFINE m == [s \in DOMAIN call.seats |->
                   IF s \in T THEN [call.seats[s] EXCEPT !.media = @ + 1]
                   ELSE call.seats[s]]
<1>1. \A s \in DOMAIN call.seats :
        /\ m[s] \in WideSeat /\ Alike(m[s], call.seats[s])
        /\ SameVoice(m[s], call.seats[s])
        /\ m[s].media = IF s \in T THEN call.seats[s].media + 1 ELSE call.seats[s].media
  <2> TAKE s \in DOMAIN call.seats
  <2>1. call.seats[s] \in WideSeat
    BY DEF Shaped
  <2>2. CASE s \in T
    <3>1. m[s] = [call.seats[s] EXCEPT !.media = @ + 1]
      BY <2>2
    <3> QED BY <2>1, <2>2, <3>1 DEF WideSeat, Alike, SameVoice
  <2>3. CASE s \notin T
    BY <2>1, <2>3 DEF Alike, SameVoice
  <2> QED BY <2>2, <2>3
<1>2. after = [call EXCEPT !.seats = m] /\ DOMAIN m = DOMAIN call.seats
  BY DEF Bumped
<1> HIDE DEF m
<1>3. /\ after.seats = m /\ after.next = call.next /\ after.mode = call.mode
      /\ after.type = call.type /\ after.owner = call.owner /\ after.privacy = call.privacy
      /\ after = [type |-> after.type, mode |-> after.mode, privacy |-> after.privacy,
                  owner |-> after.owner, next |-> after.next, seats |-> after.seats]
  BY <1>2 DEF Shaped
<1>4. Shaped(after)
  BY <1>1, <1>2, <1>3 DEF Shaped
<1>5. PlansAlike(call, after)
  BY <1>1, <1>2, <1>3 DEF PlansAlike
<1> QED BY <1>1, <1>3, <1>4, <1>5

LEMMA LanguageMovedShape ==
  ASSUME NEW call, Shaped(call), NEW after, after = LanguageMoved(call)
  PROVE  /\ Shaped(after) /\ PlansAlike(call, after) /\ after.next = call.next
         /\ \A s \in DOMAIN call.seats : SameVoice(after.seats[s], call.seats[s])
         /\ \A s \in DOMAIN call.seats : after.seats[s].media = call.seats[s].media
<1> DEFINE m == [s \in DOMAIN call.seats |-> [call.seats[s] EXCEPT !.lang = @ + 1]]
<1>1. \A s \in DOMAIN call.seats :
        /\ m[s] \in WideSeat /\ Alike(m[s], call.seats[s])
        /\ SameVoice(m[s], call.seats[s])
        /\ m[s].media = call.seats[s].media
  <2> TAKE s \in DOMAIN call.seats
  <2>1. call.seats[s] \in WideSeat
    BY DEF Shaped
  <2>2. m[s] = [call.seats[s] EXCEPT !.lang = @ + 1]
    OBVIOUS
  <2> QED BY <2>1, <2>2 DEF WideSeat, Alike, SameVoice
<1>2. after = [call EXCEPT !.seats = m] /\ DOMAIN m = DOMAIN call.seats
  BY DEF LanguageMoved
<1> HIDE DEF m
<1>3. /\ after.seats = m /\ after.next = call.next /\ after.mode = call.mode
      /\ after.type = call.type /\ after.owner = call.owner /\ after.privacy = call.privacy
      /\ after = [type |-> after.type, mode |-> after.mode, privacy |-> after.privacy,
                  owner |-> after.owner, next |-> after.next, seats |-> after.seats]
  BY <1>2 DEF Shaped
<1>4. Shaped(after)
  BY <1>1, <1>2, <1>3 DEF Shaped
<1>5. PlansAlike(call, after)
  BY <1>1, <1>2, <1>3 DEF PlansAlike
<1> QED BY <1>1, <1>3, <1>4, <1>5

\* Writing one seat, and taking one out.
SeatPut(call, s, seat, after) ==
  /\ Shaped(after) /\ after.mode = call.mode /\ after.next = call.next
  /\ DOMAIN after.seats = DOMAIN call.seats \cup {s} /\ after.seats[s] = seat
  /\ \A t \in DOMAIN call.seats \ {s} : after.seats[t] = call.seats[t]

LEMMA WithSeatShape ==
  ASSUME NEW call, Shaped(call), NEW s, NEW seat \in WideSeat, NEW after,
         after = WithSeat(call, s, seat)
  PROVE  SeatPut(call, s, seat, after)
<1> DEFINE m == Put(call.seats, s, seat)
<1>1. /\ DOMAIN m = DOMAIN call.seats \cup {s} /\ m[s] = seat
      /\ \A t \in DOMAIN call.seats \ {s} : m[t] = call.seats[t]
  BY DEF Put
<1>2. after = [call EXCEPT !.seats = m]
  BY DEF WithSeat
<1> HIDE DEF m
<1>3. /\ after.seats = m /\ after.next = call.next /\ after.mode = call.mode
      /\ after.type = call.type /\ after.owner = call.owner /\ after.privacy = call.privacy
      /\ after = [type |-> after.type, mode |-> after.mode, privacy |-> after.privacy,
                  owner |-> after.owner, next |-> after.next, seats |-> after.seats]
  BY <1>2 DEF Shaped
<1>4. Shaped(after)
  BY <1>1, <1>3 DEF Shaped
<1> QED BY <1>1, <1>3, <1>4 DEF SeatPut

SeatOut(call, s, after) ==
  /\ Shaped(after) /\ after.mode = call.mode /\ after.next = call.next
  /\ DOMAIN after.seats = DOMAIN call.seats \ {s}
  /\ \A t \in DOMAIN call.seats \ {s} : after.seats[t] = call.seats[t]

LEMMA DropShape ==
  ASSUME NEW call, Shaped(call), NEW s, NEW after,
         after = [call EXCEPT !.seats = Drop(@, s)]
  PROVE  SeatOut(call, s, after)
<1> DEFINE m == Drop(call.seats, s)
<1>1. /\ DOMAIN m = DOMAIN call.seats \ {s}
      /\ \A t \in DOMAIN call.seats \ {s} : m[t] = call.seats[t]
  BY DEF Drop, Restrict
<1>2. after = [call EXCEPT !.seats = m]
  OBVIOUS
<1> HIDE DEF m
<1>3. /\ after.seats = m /\ after.next = call.next /\ after.mode = call.mode
      /\ after.type = call.type /\ after.owner = call.owner /\ after.privacy = call.privacy
      /\ after = [type |-> after.type, mode |-> after.mode, privacy |-> after.privacy,
                  owner |-> after.owner, next |-> after.next, seats |-> after.seats]
  BY <1>2 DEF Shaped
<1>4. Shaped(after)
  BY <1>1, <1>3 DEF Shaped
<1> QED BY <1>1, <1>3, <1>4 DEF SeatOut

\* Storing a call with the seats in T superseded.
LEMMA SupersededServes ==
  ASSUME SessionInv, SessionInv', AudienceInv, NEW c \in Calls, NEW call, NEW T, NEW S,
         Shaped(call), Store(c, Bumped(call, T), S), Onward(c, call),
         \A t \in Seated(call) :
           \/ t \in S /\ (t \in T \/ Anew(c, call, S, t))
           \/ c \in DOMAIN calls /\ t \notin T /\ Unharmed(calls[c], call, t)
  PROVE  AudienceInv'
<1>1. PICK after : after = Bumped(call, T)
  OBVIOUS
<1>2. /\ Shaped(after) /\ PlansAlike(call, after) /\ after.next = call.next
      /\ \A s \in DOMAIN call.seats : SameVoice(after.seats[s], call.seats[s])
      /\ \A s \in DOMAIN call.seats :
           after.seats[s].media = IF s \in T THEN call.seats[s].media + 1
                                             ELSE call.seats[s].media
  BY <1>1, BumpedShape
<1>3. /\ \A s \in DOMAIN call.seats : call.seats[s].media \in Nat
      /\ \A s \in DOMAIN work[c] : work[c][s].media \in Nat
  BY DEF Shaped, WideSeat, AudienceInv, Plan, Revisions
<1>4. DOMAIN after.seats = DOMAIN call.seats /\ Seated(after) = Seated(call)
  BY <1>2, AlikeSeated DEF PlansAlike
<1>5. Onward(c, after)
  BY <1>2, <1>3, <1>4 DEF Onward
<1>6. ASSUME NEW t \in Seated(after)
      PROVE  Anew(c, after, S, t) \/ (c \in DOMAIN calls /\ Unharmed(calls[c], after, t))
  <2>1. t \in Seated(call) /\ t \in DOMAIN call.seats
    BY <1>4, <1>6 DEF Seated
  <2>2. t \in DOMAIN work[c] => call.seats[t].media >= work[c][t].media
    BY <2>1 DEF Onward
  <2>3. CASE t \in S /\ t \in T
    BY <2>1, <2>2, <2>3, <1>2, <1>3 DEF Anew
  <2>4. CASE t \notin T /\ Anew(c, call, S, t)
    BY <2>1, <2>4, <1>2 DEF Anew
  <2>5. CASE c \in DOMAIN calls /\ t \notin T /\ Unharmed(calls[c], call, t)
    <3>1. /\ planSignature(after, t) = planSignature(call, t)
          /\ Supported(after, t) = Supported(call, t)
      BY <2>1, <1>2, AlikePlanned DEF SameVoice
    <3>2. /\ after.seats[t].media = call.seats[t].media
          /\ after.mode = call.mode /\ after.seats[t].auto = call.seats[t].auto
      BY <2>1, <2>5, <1>2 DEF PlansAlike, SameVoice
    <3>3. Unharmed(calls[c], after, t)
      BY <2>5, <3>1, <3>2 DEF Unharmed
    <3> QED BY <2>5, <3>3
  <2> QED BY <2>1, <2>3, <2>4, <2>5
<1>7. Store(c, after, S)
  BY <1>1
<1> QED BY <1>5, <1>6, <1>7, StoredServes


\* A live call, as the operations take it up.
LEMMA LiveShape ==
  ASSUME SessionInv, AudienceInv, NEW c \in DOMAIN calls
  PROVE  /\ c \in Calls /\ Shaped(calls[c]) /\ Running(calls[c], work[c])
         /\ Onward(c, calls[c]) /\ calls[c].next \in Nat
         /\ \A s \in DOMAIN calls[c].seats : s \in Nat /\ s < calls[c].next
         /\ \A s \in DOMAIN calls[c].seats : calls[c].seats[s] \in WideSeat
         /\ DOMAIN work[c] \subseteq DOMAIN calls[c].seats \ Knocking(calls[c])
<1>1. c \in Calls /\ CallOK(calls[c]) /\ Running(calls[c], work[c])
  BY LiveCall DEF AudienceInv
<1>2. /\ calls[c].next \in Nat /\ Shaped(calls[c])
      /\ \A s \in DOMAIN calls[c].seats : s \in Nat /\ s < calls[c].next
      /\ \A s \in DOMAIN calls[c].seats : calls[c].seats[s] \in WideSeat
  BY <1>1, ShapedCall DEF CallOK, SeatMap
<1>3. Onward(c, calls[c])
  BY <1>1, <1>2 DEF Onward, Running, WideSeat
<1> QED BY <1>1, <1>2, <1>3 DEF SessionInv

\* Whoever is past the door stays what they were, but some may have dropped.
Leaves(old, new) ==
  /\ new.admission = old.admission /\ new.hear = old.hear /\ new.audio = old.audio
  /\ new.captions = old.captions /\ new.media = old.media /\ SameVoice(new, old)
  /\ new.connected => old.connected
Untouched(call, after) ==
  /\ after.mode = call.mode
  /\ \A s \in DOMAIN after.seats :
       after.seats[s].admission = "admitted" =>
         s \in DOMAIN call.seats /\ call.seats[s].admission = "admitted"
  /\ \A s \in DOMAIN call.seats :
       call.seats[s].admission = "admitted" =>
         s \in DOMAIN after.seats /\ Leaves(call.seats[s], after.seats[s])

LEMMA NobodyTouched ==
  ASSUME NEW call, NEW after, Shaped(call), Shaped(after), Untouched(call, after),
         NEW t \in Seated(after)
  PROVE  Unharmed(call, after, t)
<1>1. Seated(after) \subseteq Seated(call)
  BY DEF Seated, isSeated, Untouched, Leaves
<1>2. ASSUME NEW o \in Seated(after)
      PROVE  Alike(after.seats[o], call.seats[o]) /\ SameVoice(after.seats[o], call.seats[o])
  <2>1. /\ o \in DOMAIN after.seats /\ after.seats[o].admission = "admitted"
        /\ after.seats[o].connected = TRUE
    BY <1>2 DEF Seated, isSeated, Shaped, WideSeat
  <2>2. o \in DOMAIN call.seats /\ call.seats[o].connected = TRUE
    BY <1>1, <1>2 DEF Seated, isSeated, Shaped, WideSeat
  <2> QED BY <2>1, <2>2 DEF Alike, Untouched, Leaves
<1>3. Covers(planSignature(call, t), planSignature(after, t))
  BY <1>1, <1>2, FewerWantLess DEF SameVoice, Untouched
<1>4. t \in DOMAIN call.seats /\ call.seats[t].admission = "admitted"
  BY <1>1 DEF Seated, isSeated
<1>5. Supporters(call, t) \subseteq Supporters(after, t)
  BY <1>4 DEF Supporters, SameVoice, Wants, Untouched, Leaves
<1>6. \A o \in Supporters(call, t) : after.seats[o].hear = call.seats[o].hear
  BY DEF Supporters, Untouched, Leaves
<1>7. Supported(call, t) \subseteq Supported(after, t)
  BY <1>5, <1>6 DEF Supported
<1>8. after.seats[t].media = call.seats[t].media /\ after.seats[t].auto = call.seats[t].auto
  BY <1>4 DEF SameVoice, Untouched, Leaves
<1> QED BY <1>1, <1>3, <1>7, <1>8 DEF Unharmed, Untouched

\* A supporter who was listening is not missed while the same is made.
LEMMA SupportStays ==
  ASSUME NEW call, NEW after, call.mode = "translated", after.mode = "translated",
         NEW s, NEW t \in DOMAIN after.seats, after.seats[t].speak = call.seats[t].speak,
         s \in Supporters(call, t) => s \in Seated(call),
         planSignature(after, t) = planSignature(call, t),
         \A o \in DOMAIN call.seats \ {s} :
            o \in DOMAIN after.seats /\ Alike(after.seats[o], call.seats[o])
  PROVE  Supported(call, t) \subseteq Supported(after, t)
<1> SUFFICES ASSUME NEW o \in Supporters(call, t)
             PROVE  call.seats[o].hear \in Supported(after, t)
  BY DEF Supported
<1>1. CASE o # s
  <2>1. o \in Supporters(after, t) /\ after.seats[o].hear = call.seats[o].hear
    BY <1>1 DEF Supporters, Wants, Alike
  <2> QED BY <2>1 DEF Supported
<1>2. CASE o = s
  <2>1. s \in Abroad(call, t)
    BY <1>2 DEF Abroad, Others, Supporters
  <2>2. call.seats[s].audio = "heard" \/ call.seats[s].captions
    BY <1>2 DEF Supporters, Wants
  <2>3. call.seats[s].hear \in planSignature(call, t).targets
    BY <2>1, <2>2 DEF planSignature
  <2> QED BY <2>3, <1>2, TargetsSupported
<1> QED BY <1>1, <1>2

LEMMA UnharmedAlike ==
  ASSUME NEW call, NEW mid, NEW after, PlansAlike(mid, after), NEW t \in Seated(mid),
         SameVoice(after.seats[t], mid.seats[t]),
         after.seats[t].media = mid.seats[t].media, Unharmed(call, mid, t)
  PROVE  Unharmed(call, after, t)
<1>1. t \in DOMAIN mid.seats
  BY DEF Seated
<1>2. /\ planSignature(after, t) = planSignature(mid, t)
      /\ Supported(after, t) = Supported(mid, t)
  BY <1>1, AlikePlanned DEF SameVoice
<1> QED BY <1>2 DEF Unharmed, SameVoice, PlansAlike

\* A call that translates nothing asks for captions alone.
LEMMA NormalPlanned ==
  ASSUME NEW call, NEW after, call.mode = "normal", after.mode = "normal",
         DOMAIN after.seats = DOMAIN call.seats,
         \A o \in DOMAIN call.seats :
            /\ after.seats[o].captions = call.seats[o].captions
            /\ after.seats[o].connected = call.seats[o].connected
            /\ after.seats[o].admission = call.seats[o].admission,
         NEW t \in DOMAIN call.seats
  PROVE  planSignature(after, t) = planSignature(call, t)
<1>1. Others(after, t) = Others(call, t) /\ Others(call, t) \subseteq DOMAIN call.seats
  BY DEF Others, Seated, isSeated
<1>2. (\E o \in Others(after, t) : after.seats[o].captions)
        <=> (\E o \in Others(call, t) : call.seats[o].captions)
  BY <1>1
<1> QED BY <1>2 DEF planSignature

\* A seated listener changes what they listen to; whoever is not replanned for it
\* loses nothing.
LEMMA SettingMoved ==
  ASSUME NEW call, Shaped(call), NEW s \in Seated(call), NEW seat, NEW set,
         SeatPut(call, s, seat, set), SameVoice(seat, call.seats[s]),
         seat.captions = call.seats[s].captions, seat.connected = call.seats[s].connected,
         seat.admission = call.seats[s].admission, seat.media = call.seats[s].media,
         NEW t \in Seated(set), t \notin Moved(call, set)
  PROVE  Unharmed(call, set, t)
<1>1. /\ s \in DOMAIN call.seats /\ DOMAIN set.seats = DOMAIN call.seats
      /\ set.mode = call.mode /\ set.seats[s] = seat
      /\ \A o \in DOMAIN call.seats \ {s} : set.seats[o] = call.seats[o]
  BY DEF SeatPut, Seated
<1>2. \A o \in DOMAIN call.seats :
        /\ set.seats[o].captions = call.seats[o].captions
        /\ set.seats[o].connected = call.seats[o].connected
        /\ set.seats[o].admission = call.seats[o].admission
        /\ set.seats[o].media = call.seats[o].media
        /\ SameVoice(set.seats[o], call.seats[o])
  BY <1>1 DEF SameVoice
<1>3. Seated(set) = Seated(call) /\ t \in DOMAIN call.seats
  BY <1>1, <1>2 DEF Seated, isSeated
<1>4. planSignature(set, t) = planSignature(call, t)
  <2>1. CASE call.mode = "normal"
    BY <2>1, <1>1, <1>2, <1>3, NormalPlanned
  <2>2. CASE call.mode = "translated"
    BY <2>2, <1>3 DEF Moved
  <2> QED BY <2>1, <2>2 DEF Shaped
<1>5. ASSUME call.mode = "translated"
      PROVE  Supported(call, t) \subseteq Supported(set, t)
  <2>1. set.mode = "translated" /\ t \in DOMAIN set.seats
    BY <1>1, <1>3, <1>5
  <2>2. set.seats[t].speak = call.seats[t].speak
    BY <1>2, <1>3 DEF SameVoice
  <2>3. \A o \in DOMAIN call.seats \ {s} :
            o \in DOMAIN set.seats /\ Alike(set.seats[o], call.seats[o])
    BY <1>1 DEF Alike
  <2> QED BY <1>4, <1>5, <2>1, <2>2, <2>3, SupportStays
<1>6. Covers(planSignature(call, t), planSignature(set, t))
  BY <1>4 DEF Covers
<1>7. t \in Seated(call) /\ set.seats[t].media = call.seats[t].media
      /\ set.seats[t].auto = call.seats[t].auto
  BY <1>2, <1>3 DEF SameVoice
<1> QED BY <1>1, <1>5, <1>6, <1>7 DEF Unharmed

-----------------------------------------------------------------------------
(* The operations, again.                                                   *)

LEMMA SetAudioModeServes ==
  ASSUME SessionInv, SessionInv', AudienceInv, NEW c \in Calls, NEW s,
         NEW audio \in AudioModes, setAudioMode(c, s, audio)
  PROVE  AudienceInv'
<1>1. PICK call : call = calls[c]
  OBVIOUS
<1>2. PICK seat : seat = [call.seats[s] EXCEPT !.audio = audio]
  OBVIOUS
<1>3. PICK set : set = WithSeat(call, s, seat)
  OBVIOUS
<1>4. /\ c \in DOMAIN calls /\ s \in Seated(call) /\ s \in DOMAIN call.seats
      /\ Store(c, Bumped(set, Moved(call, set)), Moved(call, set))
  BY <1>1, <1>2, <1>3 DEF setAudioMode, Seated
<1>5. Shaped(call) /\ Onward(c, call) /\ call.seats[s] \in WideSeat
  BY <1>1, <1>4, LiveShape
<1>6. /\ seat \in WideSeat /\ SameVoice(seat, call.seats[s])
      /\ seat.captions = call.seats[s].captions /\ seat.connected = call.seats[s].connected
      /\ seat.admission = call.seats[s].admission /\ seat.media = call.seats[s].media
  BY <1>2, <1>5, SessionAssumption DEF WideSeat, SameVoice
<1>7. SeatPut(call, s, seat, set)
  BY <1>3, <1>5, <1>6, WithSeatShape
<1>8. Shaped(set) /\ Onward(c, set)
  BY <1>1, <1>4, <1>5, <1>6, <1>7 DEF SeatPut, Onward
<1>9. \A t \in Seated(set) \ Moved(call, set) : Unharmed(call, set, t)
  BY <1>4, <1>5, <1>6, <1>7, SettingMoved
<1> QED BY <1>1, <1>4, <1>8, <1>9, SupersededServes

LEMMA SetCaptionLanguageServes ==
  ASSUME SessionInv, SessionInv', AudienceInv, NEW c \in Calls, NEW s,
         NEW wanted \in Languages, setCaptionLanguage(c, s, wanted)
  PROVE  AudienceInv'
<1>1. PICK call : call = calls[c]
  OBVIOUS
<1>2. PICK seat : seat = [call.seats[s] EXCEPT !.hear = wanted]
  OBVIOUS
<1>3. PICK heard : heard = WithSeat(call, s, seat)
  OBVIOUS
<1>4. PICK moved : moved = LanguageMoved(heard)
  OBVIOUS
<1>5. /\ c \in DOMAIN calls /\ s \in Seated(call) /\ s \in DOMAIN call.seats
      /\ Store(c, Bumped(moved, Moved(call, heard)), Seated(heard))
  BY <1>1, <1>2, <1>3, <1>4 DEF setCaptionLanguage, Seated
<1>6. Shaped(call) /\ Onward(c, call) /\ call.seats[s] \in WideSeat
  BY <1>1, <1>5, LiveShape
<1>7. /\ seat \in WideSeat /\ SameVoice(seat, call.seats[s])
      /\ seat.captions = call.seats[s].captions /\ seat.connected = call.seats[s].connected
      /\ seat.admission = call.seats[s].admission /\ seat.media = call.seats[s].media
  BY <1>2, <1>6 DEF WideSeat, SameVoice
<1>8. SeatPut(call, s, seat, heard)
  BY <1>3, <1>6, <1>7, WithSeatShape
<1>9. Shaped(heard) /\ Onward(c, heard)
  BY <1>1, <1>5, <1>6, <1>7, <1>8 DEF SeatPut, Onward
<1>10. \A t \in Seated(heard) \ Moved(call, heard) : Unharmed(call, heard, t)
  BY <1>5, <1>6, <1>7, <1>8, SettingMoved
<1>11. /\ Shaped(moved) /\ PlansAlike(heard, moved) /\ moved.next = heard.next
       /\ \A t \in DOMAIN heard.seats : SameVoice(moved.seats[t], heard.seats[t])
       /\ \A t \in DOMAIN heard.seats : moved.seats[t].media = heard.seats[t].media
  BY <1>4, <1>9, LanguageMovedShape
<1>12. Seated(moved) = Seated(heard) /\ Onward(c, moved)
  BY <1>9, <1>11, AlikeSeated DEF PlansAlike, Onward
<1>13. \A t \in Seated(moved) \ Moved(call, heard) : Unharmed(call, moved, t)
  <2> TAKE t \in Seated(moved) \ Moved(call, heard)
  <2>1. t \in Seated(heard) /\ t \in DOMAIN heard.seats
    BY <1>12 DEF Seated
  <2>2. /\ SameVoice(moved.seats[t], heard.seats[t])
        /\ moved.seats[t].media = heard.seats[t].media /\ Unharmed(call, heard, t)
    BY <2>1, <1>10, <1>11
  <2> QED BY <2>1, <2>2, <1>11, UnharmedAlike
<1>14. \A t \in Seated(moved) :
         \/ t \in Seated(heard) /\ t \in Moved(call, heard)
         \/ c \in DOMAIN calls /\ t \notin Moved(call, heard) /\ Unharmed(calls[c], moved, t)
  BY <1>1, <1>5, <1>12, <1>13
<1> QED BY <1>5, <1>11, <1>12, <1>14, SupersededServes

LEMMA ApplyDetectedLanguageServes ==
  ASSUME SessionInv, SessionInv', AudienceInv, NEW c \in Calls, NEW s,
         NEW detected \in Languages, applyDetectedLanguage(c, s, detected)
  PROVE  AudienceInv'
<1>1. PICK call : call = calls[c]
  OBVIOUS
<1>2. PICK seat : seat = [call.seats[s] EXCEPT !.speak = detected, !.auto = "confirmed"]
  OBVIOUS
<1>3. PICK settled : settled = WithSeat(call, s, seat)
  OBVIOUS
<1>4. PICK moved : moved = LanguageMoved(settled)
  OBVIOUS
<1>5. PICK T : T = Moved(call, settled) \cap {s}
  OBVIOUS
<1>6. /\ c \in DOMAIN calls /\ s \in DOMAIN call.seats
      /\ \/ call.seats[s].speak = detected /\ Store(c, settled, Seated(settled))
         \/ Store(c, Bumped(moved, T), Seated(settled))
  BY <1>1, <1>2, <1>3, <1>4, <1>5 DEF applyDetectedLanguage
<1>7. Shaped(call) /\ Onward(c, call) /\ call.seats[s] \in WideSeat
  BY <1>1, <1>6, LiveShape
<1>8. /\ seat \in WideSeat /\ Alike(seat, call.seats[s]) /\ seat.auto = "confirmed"
      /\ seat.media = call.seats[s].media /\ seat.speak = detected
  BY <1>2, <1>7 DEF WideSeat, Alike
<1>9. SeatPut(call, s, seat, settled)
  BY <1>3, <1>7, <1>8, WithSeatShape
<1>10. /\ Shaped(settled) /\ settled.mode = call.mode /\ settled.next = call.next
       /\ DOMAIN settled.seats = DOMAIN call.seats /\ settled.seats[s] = seat
       /\ \A t \in DOMAIN call.seats \ {s} : settled.seats[t] = call.seats[t]
  BY <1>6, <1>9 DEF SeatPut
<1>11. PlansAlike(call, settled) /\ Onward(c, settled)
  BY <1>1, <1>6, <1>7, <1>8, <1>10 DEF PlansAlike, Alike, Onward
<1>12. Seated(settled) = Seated(call) /\ Seated(call) \subseteq DOMAIN call.seats
  BY <1>11, AlikeSeated DEF Seated
<1>13. ASSUME NEW t \in Seated(settled), t # s
       PROVE  Unharmed(call, settled, t)
  <2>1. t \in DOMAIN call.seats /\ settled.seats[t] = call.seats[t]
    BY <1>10, <1>12, <1>13
  <2>2. /\ planSignature(settled, t) = planSignature(call, t)
        /\ Supported(settled, t) = Supported(call, t)
    BY <2>1, <1>11, AlikePlanned
  <2> QED BY <2>1, <2>2, <1>10, <1>12 DEF Unharmed, Covers
<1>14. ASSUME s \in Seated(settled), planSignature(settled, s) = planSignature(call, s)
       PROVE  Unharmed(call, settled, s)
  BY <1>8, <1>10, <1>12, <1>14 DEF Unharmed, Covers
<1>15. CASE call.seats[s].speak = detected /\ Store(c, settled, Seated(settled))
  <2>1. planSignature(settled, s) = planSignature(call, s)
    BY <1>6, <1>8, <1>10, <1>11, <1>15, AlikePlanned
  <2>2. \A t \in Seated(settled) : Unharmed(calls[c], settled, t)
    BY <2>1, <1>1, <1>13, <1>14
  <2> QED BY <2>2, <1>6, <1>11, <1>15, StoredServes
<1>16. CASE Store(c, Bumped(moved, T), Seated(settled))
  <2>1. ASSUME s \in Seated(settled), s \notin T
        PROVE  planSignature(settled, s) = planSignature(call, s)
    <3>1. CASE call.mode = "normal"
      BY <3>1, <1>6, <1>10, <1>11, NormalPlanned DEF PlansAlike, Alike
    <3>2. CASE call.mode = "translated"
      BY <2>1, <3>2, <1>5, <1>12 DEF Moved
    <3> QED BY <3>1, <3>2, <1>7 DEF Shaped
  <2>2. \A t \in Seated(settled) \ T : Unharmed(call, settled, t)
    BY <2>1, <1>13, <1>14
  <2>3. /\ Shaped(moved) /\ PlansAlike(settled, moved) /\ moved.next = settled.next
        /\ \A t \in DOMAIN settled.seats : SameVoice(moved.seats[t], settled.seats[t])
        /\ \A t \in DOMAIN settled.seats : moved.seats[t].media = settled.seats[t].media
    BY <1>4, <1>10, LanguageMovedShape
  <2>4. Seated(moved) = Seated(settled) /\ Onward(c, moved)
    BY <2>3, <1>11, AlikeSeated DEF PlansAlike, Onward
  <2>5. \A t \in Seated(moved) \ T : Unharmed(call, moved, t)
    <3> TAKE t \in Seated(moved) \ T
    <3>1. t \in Seated(settled) /\ t \in DOMAIN settled.seats
      BY <2>4 DEF Seated
    <3>2. /\ SameVoice(moved.seats[t], settled.seats[t])
          /\ moved.seats[t].media = settled.seats[t].media /\ Unharmed(call, settled, t)
      BY <3>1, <2>2, <2>3
    <3> QED BY <3>1, <3>2, <2>3, UnharmedAlike
  <2>6. \A t \in Seated(moved) :
          \/ t \in Seated(settled) /\ t \in T
          \/ c \in DOMAIN calls /\ t \notin T /\ Unharmed(calls[c], moved, t)
    BY <2>4, <2>5, <1>1, <1>6
  <2> QED BY <1>16, <2>3, <2>4, <2>6, SupersededServes
<1> QED BY <1>6, <1>15, <1>16


LEMMA MarkDisconnectedServes ==
  ASSUME SessionInv, SessionInv', AudienceInv, NEW c \in Calls, NEW s,
         markDisconnected(c, s)
  PROVE  AudienceInv'
<1>1. PICK call : call = calls[c]
  OBVIOUS
<1>2. PICK seat : seat = [call.seats[s] EXCEPT !.connected = FALSE]
  OBVIOUS
<1>3. PICK after : after = WithSeat(call, s, seat)
  OBVIOUS
<1>4. c \in DOMAIN calls /\ s \in DOMAIN call.seats /\ Store(c, after, {})
  BY <1>1, <1>2, <1>3 DEF markDisconnected
<1>5. Shaped(call) /\ Onward(c, call) /\ s \in DOMAIN call.seats /\ call.seats[s] \in WideSeat
  BY <1>1, <1>4, LiveShape
<1>6. /\ seat \in WideSeat /\ SameVoice(seat, call.seats[s]) /\ seat.connected = FALSE
      /\ seat.hear = call.seats[s].hear /\ seat.audio = call.seats[s].audio
      /\ seat.captions = call.seats[s].captions /\ seat.media = call.seats[s].media
      /\ seat.admission = call.seats[s].admission
  BY <1>2, <1>5 DEF WideSeat, SameVoice
<1>7. SeatPut(call, s, seat, after)
  BY <1>3, <1>5, <1>6, WithSeatShape
<1>8. Shaped(after) /\ Onward(c, after)
  BY <1>1, <1>4, <1>5, <1>6, <1>7 DEF SeatPut, Onward
<1>9. \A t \in Seated(after) : Unharmed(call, after, t)
  <2>1. \A o \in DOMAIN call.seats : Leaves(call.seats[o], after.seats[o])
    BY <1>5, <1>6, <1>7 DEF SeatPut, SameVoice, Leaves
  <2>2. DOMAIN after.seats = DOMAIN call.seats /\ after.mode = call.mode
    BY <1>5, <1>7 DEF SeatPut
  <2>3. Untouched(call, after)
    BY <2>1, <2>2 DEF Untouched, Leaves
  <2> QED BY <2>3, <1>5, <1>8, NobodyTouched
<1> QED BY <1>1, <1>4, <1>8, <1>9, StoredServes

LEMMA ResumeServes ==
  ASSUME SessionInv, SessionInv', AudienceInv, NEW c \in Calls, NEW s,
         NEW audio \in AudioModes, NEW captions \in CaptionChoices,
         resume(c, s, audio, captions)
  PROVE  AudienceInv'
<1>1. PICK call : call = calls[c]
  OBVIOUS
<1>2. PICK old : old = call.seats[s]
  OBVIOUS
<1>3. PICK seat : seat = [old EXCEPT !.audio = audio, !.captions = captions,
                                     !.media = @ + 1, !.connected = TRUE]
  OBVIOUS
<1>4. PICK back : back = WithSeat(call, s, seat)
  OBVIOUS
<1>5. /\ c \in DOMAIN calls /\ s \in DOMAIN call.seats
      /\ Store(c, Bumped(back, Others(back, s)), Seated(back))
  BY <1>1, <1>2, <1>3, <1>4 DEF resume
<1>6. Shaped(call) /\ Onward(c, call) /\ old \in WideSeat
  BY <1>1, <1>2, <1>5, LiveShape
<1>7. seat \in WideSeat /\ seat.media = old.media + 1
  <2>1. audio \in {"heard", "original"} /\ captions \in BOOLEAN
    BY SessionAssumption
  <2>2. old.media + 1 \in Nat
    BY <1>6 DEF WideSeat
  <2>3. seat = [old EXCEPT !.audio = audio, !.captions = captions,
                           !.media = old.media + 1, !.connected = TRUE]
    BY <1>3
  <2> QED BY <1>6, <2>1, <2>2, <2>3 DEF WideSeat
<1>8. SeatPut(call, s, seat, back)
  BY <1>4, <1>6, <1>7, WithSeatShape
<1>9. /\ \A t \in DOMAIN work[c] : work[c][t].media \in Nat
      /\ \A t \in DOMAIN call.seats : call.seats[t].media \in Nat
  BY <1>6 DEF AudienceInv, Plan, Revisions, Shaped, WideSeat
<1>10. Shaped(back) /\ Onward(c, back)
  BY <1>1, <1>2, <1>5, <1>6, <1>7, <1>8, <1>9 DEF SeatPut, Onward
<1>11. ASSUME NEW t \in Seated(back)
       PROVE  t \in Others(back, s) \/ Anew(c, back, Seated(back), t)
  <2>1. CASE t # s
    BY <2>1 DEF Others
  <2>2. CASE t = s
    <3>1. s \in DOMAIN work[c] => work[c][s].media <= old.media
      BY <1>1, <1>2, <1>5, <1>6, <1>9 DEF Onward
    <3>2. back.seats[s].media = old.media + 1 /\ old.media \in Nat
      BY <1>2, <1>5, <1>7, <1>8, <1>9 DEF SeatPut
    <3> QED BY <2>2, <3>1, <3>2, <1>9 DEF Anew
  <2> QED BY <2>1, <2>2
<1> QED BY <1>5, <1>10, <1>11, SupersededServes

LEMMA AdmitKnockServes ==
  ASSUME SessionInv, SessionInv', AudienceInv, NEW c \in Calls, NEW host, NEW s,
         admitKnock(c, host, s)
  PROVE  AudienceInv'
<1>1. PICK call : call = calls[c]
  OBVIOUS
<1>2. PICK seat : seat = [call.seats[s] EXCEPT !.admission = "admitted"]
  OBVIOUS
<1>3. PICK after : after = WithSeat(call, s, seat)
  OBVIOUS
<1>4. /\ c \in DOMAIN calls /\ s \in Knocking(call) /\ s \in DOMAIN call.seats
      /\ Store(c, Bumped(after, Others(after, s)), Seated(after))
  BY <1>1, <1>2, <1>3 DEF admitKnock, knockGate, Knocking
<1>5. /\ Shaped(call) /\ Onward(c, call) /\ call.seats[s] \in WideSeat
      /\ s \notin DOMAIN work[c]
  BY <1>1, <1>4, LiveShape
<1>6. seat \in WideSeat /\ seat.media = call.seats[s].media
  BY <1>2, <1>5 DEF WideSeat
<1>7. SeatPut(call, s, seat, after)
  BY <1>3, <1>5, <1>6, WithSeatShape
<1>8. Shaped(after) /\ Onward(c, after)
  BY <1>1, <1>4, <1>5, <1>6, <1>7 DEF SeatPut, Onward
<1>9. ASSUME NEW t \in Seated(after)
      PROVE  t \in Others(after, s) \/ Anew(c, after, Seated(after), t)
  BY <1>5 DEF Others, Anew
<1> QED BY <1>4, <1>8, <1>9, SupersededServes

LEMMA SetCallModeServes ==
  ASSUME SessionInv, SessionInv', AudienceInv, NEW c \in Calls, NEW mode \in Modes,
         setCallModeByAuthority(c, mode)
  PROVE  AudienceInv'
<1>1. PICK call : call = calls[c]
  OBVIOUS
<1>2. PICK after : after = [call EXCEPT !.mode = mode]
  OBVIOUS
<1>3. c \in DOMAIN calls /\ Store(c, Bumped(after, Seated(after)), Seated(after))
  BY <1>1, <1>2 DEF setCallModeByAuthority
<1>4. Shaped(call) /\ Onward(c, call)
  BY <1>1, <1>3, LiveShape
<1>5. Shaped(after) /\ after.seats = call.seats /\ after.next = call.next
  BY <1>2, <1>4, SessionAssumption DEF Shaped
<1>6. Onward(c, after)
  BY <1>1, <1>3, <1>4, <1>5 DEF Onward
<1> QED BY <1>3, <1>5, <1>6, SupersededServes


\* One is gone from the door, or another stands at it.
LEMMA DoorStepServes ==
  ASSUME SessionInv, SessionInv', AudienceInv, NEW c \in Calls, NEW s,
         (\E host : refuseKnock(c, host, s)) \/ withdrawKnock(c, s)
  PROVE  AudienceInv'
<1>1. PICK call : call = calls[c]
  OBVIOUS
<1>2. PICK rest : rest = [call EXCEPT !.seats = Drop(@, s)]
  OBVIOUS
<1>3. c \in DOMAIN calls /\ s \in Knocking(call) /\ (retire(c) \/ Store(c, rest, {}))
  BY <1>1, <1>2 DEF refuseKnock, withdrawKnock, knockGate
<1>4. CASE retire(c)
  BY <1>4, RetiredServes
<1>5. CASE Store(c, rest, {})
  <2>1. Shaped(call) /\ Onward(c, call)
    BY <1>1, <1>3, LiveShape
  <2>2. SeatOut(call, s, rest) /\ Shaped(rest)
    <3>1. SeatOut(call, s, rest)
      BY <1>2, <2>1, DropShape
    <3> QED BY <3>1 DEF SeatOut
  <2>3. call.seats[s].admission = "knocking"
    BY <1>3 DEF Knocking
  <2>4. Untouched(call, rest) /\ Onward(c, rest)
    BY <1>1, <1>3, <2>1, <2>2, <2>3 DEF SeatOut, Untouched, Leaves, SameVoice, Onward
  <2>5. \A t \in Seated(rest) : Unharmed(call, rest, t)
    BY <2>1, <2>2, <2>4, NobodyTouched
  <2> QED BY <1>1, <1>3, <1>5, <2>4, <2>5, StoredServes
<1> QED BY <1>3, <1>4, <1>5

LEMMA KnockServes ==
  ASSUME SessionInv, SessionInv', AudienceInv, NEW c \in Calls, NEW p \in Profiles,
         knock(c, p)
  PROVE  AudienceInv'
<1>1. PICK call : call = calls[c]
  OBVIOUS
<1>2. PICK n : n = call.next
  OBVIOUS
<1>3. PICK seat : seat = [NewSeat(p) EXCEPT !.admission = "knocking"]
  OBVIOUS
<1>4. PICK mid : mid = [call EXCEPT !.next = @ + 1]
  OBVIOUS
<1>5. PICK after : after = WithSeat(mid, n, seat)
  OBVIOUS
<1>6. c \in DOMAIN calls /\ Store(c, after, {})
  BY <1>1, <1>2, <1>3, <1>4, <1>5 DEF knock
<1>7. /\ Shaped(call) /\ Onward(c, call) /\ n \in Nat /\ n \notin DOMAIN call.seats
      /\ DOMAIN work[c] \subseteq DOMAIN call.seats
  BY <1>1, <1>2, <1>6, LiveShape
<1>8. seat \in WideSeat /\ seat.admission = "knocking"
  BY <1>3, NewSeatType DEF WideSeat
<1>9. Shaped(mid) /\ mid.seats = call.seats /\ mid.mode = call.mode /\ mid.next = n + 1
  BY <1>2, <1>4, <1>7 DEF Shaped
<1>10. SeatPut(mid, n, seat, after)
  BY <1>5, <1>8, <1>9, WithSeatShape
<1>11. /\ Shaped(after) /\ after.mode = call.mode /\ after.next = n + 1
       /\ DOMAIN after.seats = DOMAIN call.seats \cup {n} /\ after.seats[n] = seat
       /\ \A t \in DOMAIN call.seats : after.seats[t] = call.seats[t]
  BY <1>7, <1>9, <1>10 DEF SeatPut
<1>12. after.next - 1 \in DOMAIN after.seats
  BY <1>7, <1>11
<1>13. Onward(c, after)
  BY <1>1, <1>7, <1>11, <1>12 DEF Onward
<1>14. Untouched(call, after)
  BY <1>8, <1>11 DEF Untouched, Leaves, SameVoice
<1>15. \A t \in Seated(after) : Unharmed(call, after, t)
  BY <1>7, <1>11, <1>14, NobodyTouched
<1> QED BY <1>1, <1>6, <1>13, <1>15, StoredServes

LEMMA PreregisterServes ==
  ASSUME SessionInv, SessionInv', AudienceInv, NEW c \in Calls, NEW setup \in Setups,
         preregisterCall(c, setup)
  PROVE  AudienceInv'
<1>1. PICK call : call = mintCall(setup)
  OBVIOUS
<1>2. Store(c, call, {}) /\ DOMAIN call.seats = {} /\ call.next = 1
  BY <1>1 DEF preregisterCall, mintCall, EmptyMap
<1>3. Onward(c, call) /\ Seated(call) = {}
  BY <1>2 DEF Onward, Seated
<1> QED BY <1>2, <1>3, StoredServes

LEMMA TakeSeatServes ==
  ASSUME SessionInv, SessionInv', AudienceInv, NEW c \in Calls, NEW p \in Profiles,
         NEW call, Shaped(call), call.next \in Nat, TakeSeat(c, call, p),
         DOMAIN work[c] \subseteq DOMAIN call.seats, call.next \notin DOMAIN call.seats,
         \A t \in DOMAIN work[c] : call.seats[t].media >= work[c][t].media
  PROVE  AudienceInv'
<1>1. PICK n : n = call.next
  OBVIOUS
<1>2. PICK seat : seat = [NewSeat(p) EXCEPT !.role = IF call.owner = 0 THEN "chair" ELSE @]
  OBVIOUS
<1>3. PICK mid : mid = [call EXCEPT !.next = @ + 1,
                                    !.owner = IF call.owner = 0 THEN n ELSE @]
  OBVIOUS
<1>4. PICK joined : joined = WithSeat(mid, n, seat)
  OBVIOUS
<1>5. Store(c, Bumped(joined, Others(joined, n)), Seated(joined))
  BY <1>1, <1>2, <1>3, <1>4 DEF TakeSeat
<1>6. seat \in WideSeat
  BY <1>2, NewSeatType DEF WideSeat, Roles
<1>7. Shaped(mid) /\ mid.seats = call.seats /\ mid.next = n + 1
  BY <1>1, <1>3 DEF Shaped
<1>8. SeatPut(mid, n, seat, joined)
  BY <1>4, <1>6, <1>7, WithSeatShape
<1>9. /\ Shaped(joined) /\ joined.next = n + 1 /\ n \in Nat /\ n \notin DOMAIN work[c]
      /\ DOMAIN joined.seats = DOMAIN call.seats \cup {n}
      /\ \A t \in DOMAIN call.seats : joined.seats[t] = call.seats[t]
  BY <1>1, <1>7, <1>8 DEF SeatPut
<1>10. joined.next - 1 \in DOMAIN joined.seats
  BY <1>9
<1>11. Onward(c, joined)
  BY <1>9, <1>10 DEF Onward
<1>12. \A t \in Seated(joined) :
         t \in Others(joined, n) \/ Anew(c, joined, Seated(joined), t)
  BY <1>9 DEF Others, Anew
<1> QED BY <1>5, <1>9, <1>11, <1>12, SupersededServes

LEMMA JoinServes ==
  ASSUME SessionInv, SessionInv', AudienceInv, NEW c \in Calls, NEW p \in Profiles,
         joinCall(c, p)
  PROVE  AudienceInv'
<1>1. PICK call : call = calls[c]
  OBVIOUS
<1>2. c \in DOMAIN calls /\ TakeSeat(c, call, p)
  BY <1>1 DEF joinCall
<1>3. /\ Shaped(call) /\ Onward(c, call) /\ call.next \in Nat
      /\ call.next \notin DOMAIN call.seats
      /\ DOMAIN work[c] \subseteq DOMAIN call.seats
  BY <1>1, <1>2, LiveShape
<1>4. \A t \in DOMAIN work[c] : call.seats[t].media >= work[c][t].media
  BY <1>3 DEF Onward
<1> QED BY <1>2, <1>3, <1>4, TakeSeatServes

LEMMA CreateByJoinServes ==
  ASSUME SessionInv, SessionInv', AudienceInv, NEW c \in Calls, NEW p \in Profiles,
         NEW setup \in Setups, createByJoin(c, p, setup)
  PROVE  AudienceInv'
<1>1. PICK call : call = createCall(setup)
  OBVIOUS
<1>2. c \notin DOMAIN calls /\ TakeSeat(c, call, p)
  BY <1>1 DEF createByJoin
<1>3. Good(call) /\ DOMAIN call.seats = {}
  BY <1>1, FreshCall
<1>4. Shaped(call) /\ call.next \in Nat
  BY <1>3, ShapedCall DEF Good, CallOK
<1>5. DOMAIN work[c] = {}
  BY <1>2 DEF SessionInv
<1> QED BY <1>2, <1>3, <1>4, <1>5, TakeSeatServes


\* Only roles and the owner move.
LEMMA ApplyGovernanceServes ==
  ASSUME SessionInv, SessionInv', AudienceInv, NEW c \in Calls, NEW a, NEW t,
         NEW action \in GovernanceActions, applyGovernance(c, a, t, action)
  PROVE  AudienceInv'
<1>1. PICK call : call = calls[c]
  OBVIOUS
<1>2. PICK seat : seat = [call.seats[t] EXCEPT !.role = nextTargetRole(action)]
  OBVIOUS
<1>3. PICK down : down = [call.seats[a] EXCEPT !.role = "participant"]
  OBVIOUS
<1>4. PICK given : given = WithSeat(call, t, seat)
  OBVIOUS
<1>5. PICK mid : mid = [given EXCEPT !.owner = t]
  OBVIOUS
<1>6. PICK passed : passed = WithSeat(mid, a, down)
  OBVIOUS
<1>7. PICK after : after = IF action = "transfer-chair" THEN passed ELSE given
  OBVIOUS
<1>8. /\ c \in DOMAIN calls /\ a \in DOMAIN call.seats /\ t \in DOMAIN call.seats
      /\ Store(c, after, {})
  BY <1>1, <1>2, <1>3, <1>4, <1>5, <1>6, <1>7 DEF applyGovernance, Seated
<1>9. /\ Shaped(call) /\ Onward(c, call)
      /\ call.seats[a] \in WideSeat /\ call.seats[t] \in WideSeat
  BY <1>1, <1>8, LiveShape
<1>10. seat \in WideSeat /\ Leaves(call.seats[t], seat)
  <2>1. nextTargetRole(action) \in Roles
    BY DEF nextTargetRole, Roles
  <2> QED BY <1>2, <1>9, <2>1 DEF WideSeat, Leaves, SameVoice
<1>11. down \in WideSeat /\ Leaves(call.seats[a], down)
  BY <1>3, <1>9 DEF WideSeat, Roles, Leaves, SameVoice
<1>12. SeatPut(call, t, seat, given)
  BY <1>4, <1>9, <1>10, WithSeatShape
<1>13. /\ Shaped(mid) /\ mid.seats = given.seats /\ mid.mode = call.mode
       /\ mid.next = call.next
  BY <1>5, <1>12 DEF Shaped, SeatPut
<1>14. SeatPut(mid, a, down, passed)
  BY <1>6, <1>11, <1>13, WithSeatShape
<1>15. /\ Shaped(after) /\ after.mode = call.mode /\ after.next = call.next
       /\ DOMAIN after.seats = DOMAIN call.seats
       /\ \A s \in DOMAIN call.seats : Leaves(call.seats[s], after.seats[s])
  <2>1. \A s \in DOMAIN call.seats : Leaves(call.seats[s], given.seats[s])
    BY <1>8, <1>10, <1>12 DEF SeatPut, Leaves, SameVoice
  <2>2. \A s \in DOMAIN call.seats : Leaves(call.seats[s], passed.seats[s])
    BY <2>1, <1>8, <1>11, <1>12, <1>13, <1>14 DEF SeatPut
  <2> QED BY <2>1, <2>2, <1>7, <1>8, <1>12, <1>13, <1>14 DEF SeatPut
<1>16. Untouched(call, after) /\ Onward(c, after)
  BY <1>1, <1>8, <1>9, <1>15 DEF Untouched, Leaves, Onward, Shaped, WideSeat
<1>17. \A s \in Seated(after) : Unharmed(call, after, s)
  BY <1>9, <1>15, <1>16, NobodyTouched
<1> QED BY <1>1, <1>8, <1>16, <1>17, StoredServes

\* A seat is given up: whoever loses a supporter they were made a language for is
\* planned anew.
LEMMA LeaveServes ==
  ASSUME SessionInv, SessionInv', AudienceInv, NEW c \in Calls, NEW s, leave(c, s)
  PROVE  AudienceInv'
<1>1. PICK call : call = calls[c]
  OBVIOUS
<1>2. PICK old : old = call.seats[s]
  OBVIOUS
<1>3. PICK seat : seat = [old EXCEPT !.connected = TRUE]
  OBVIOUS
<1>4. PICK present : present = WithSeat(call, s, seat)
  OBVIOUS
<1>5. PICK rest : rest = [call EXCEPT !.seats = Drop(@, s)]
  OBVIOUS
<1>6. PICK moved : moved = IF old.admission = "admitted" THEN Moved(present, rest) ELSE {}
  OBVIOUS
<1>7. /\ c \in DOMAIN calls /\ s \in DOMAIN call.seats
      /\ retire(c) \/ Store(c, Bumped(rest, moved), moved)
  BY <1>1, <1>2, <1>3, <1>4, <1>5, <1>6 DEF leave
<1>8. Shaped(call) /\ Onward(c, call) /\ old \in WideSeat
  BY <1>1, <1>2, <1>7, LiveShape
<1>9. /\ seat \in WideSeat /\ seat.connected = TRUE /\ seat.admission = old.admission
      /\ seat.hear = old.hear /\ seat.audio = old.audio /\ seat.captions = old.captions
  BY <1>3, <1>8 DEF WideSeat
<1>10. SeatPut(call, s, seat, present)
  BY <1>4, <1>8, <1>9, WithSeatShape
<1>11. SeatOut(call, s, rest)
  BY <1>5, <1>8, DropShape
<1>12. Shaped(rest) /\ Onward(c, rest)
  BY <1>1, <1>7, <1>8, <1>11 DEF SeatOut, Onward
<1>13. Seated(rest) = Seated(call) \ {s}
  BY <1>11 DEF SeatOut, Seated, isSeated
<1>14. ASSUME NEW t \in Seated(rest), t \notin moved
       PROVE  Unharmed(call, rest, t)
  <2>1. /\ t \in DOMAIN call.seats /\ t # s /\ t \in Seated(call) /\ t \in DOMAIN rest.seats
        /\ rest.seats[t] = call.seats[t] /\ rest.mode = call.mode
    BY <1>11, <1>13, <1>14 DEF SeatOut, Seated
  <2>2. \A o \in Seated(rest) : Alike(rest.seats[o], call.seats[o])
    BY <1>11 DEF SeatOut, Seated, Alike
  <2>3. Covers(planSignature(call, t), planSignature(rest, t))
    BY <2>1, <2>2, <1>13, <1>14, FewerWantLess
  <2>4. ASSUME call.mode = "translated"
        PROVE  Supported(call, t) \subseteq Supported(rest, t)
    <3>1. CASE old.admission # "admitted"
      <4>1. Supporters(call, t) \subseteq Supporters(rest, t)
        BY <2>1, <3>1, <1>2, <1>11 DEF Supporters, SeatOut
      <4>2. \A o \in Supporters(rest, t) : rest.seats[o].hear = call.seats[o].hear
        BY <1>11 DEF Supporters, SeatOut
      <4> QED BY <4>1, <4>2 DEF Supported
    <3>2. CASE old.admission = "admitted"
      <4>1. /\ present.mode = "translated" /\ rest.mode = "translated"
            /\ present.seats[t] = call.seats[t] /\ DOMAIN present.seats = DOMAIN call.seats
        BY <2>1, <2>4, <1>7, <1>10 DEF SeatPut
      <4>2. s \in Seated(present) /\ t \in Seated(present)
        BY <2>1, <3>2, <4>1, <1>7, <1>9, <1>10 DEF Seated, isSeated, SeatPut
      <4>3. planSignature(rest, t) = planSignature(present, t)
        BY <3>2, <4>1, <4>2, <1>6, <1>14 DEF Moved
      <4>4. \A o \in DOMAIN present.seats \ {s} :
              o \in DOMAIN rest.seats /\ Alike(rest.seats[o], present.seats[o])
        BY <4>1, <1>10, <1>11 DEF SeatPut, SeatOut, Alike
      <4>5. rest.seats[t].speak = present.seats[t].speak
        BY <2>1, <4>1
      <4>6. Supported(present, t) \subseteq Supported(rest, t)
        BY <2>1, <4>1, <4>2, <4>3, <4>4, <4>5, SupportStays
      <4>7. /\ Supporters(present, t) = Supporters(call, t)
            /\ \A o \in DOMAIN call.seats : present.seats[o].hear = call.seats[o].hear
        BY <4>1, <1>2, <1>9, <1>10 DEF Supporters, SeatPut, Wants
      <4>8. Supported(call, t) = Supported(present, t)
        BY <4>7 DEF Supported, Supporters
      <4> QED BY <4>6, <4>8
    <3> QED BY <3>1, <3>2
  <2> QED BY <2>1, <2>3, <2>4 DEF Unharmed
<1>15. CASE retire(c)
  BY <1>15, RetiredServes
<1>16. CASE Store(c, Bumped(rest, moved), moved)
  <2>1. \A t \in Seated(rest) :
          \/ t \in moved
          \/ c \in DOMAIN calls /\ t \notin moved /\ Unharmed(calls[c], rest, t)
    BY <1>1, <1>7, <1>14
  <2> QED BY <2>1, <1>12, <1>16, SupersededServes
<1> QED BY <1>7, <1>15, <1>16


-----------------------------------------------------------------------------
(* The theorems about the plans.                                           *)

LEMMA AudienceInitially == Init => AudienceInv
BY DEF Init, AudienceInv, EmptyMap

LEMMA AudienceKept == SessionInv /\ SessionInv' /\ AudienceInv /\ [Next]_vars => AudienceInv'
<1> SUFFICES ASSUME SessionInv, SessionInv', AudienceInv, [Next]_vars
             PROVE  AudienceInv'
  OBVIOUS
<1>1. CASE UNCHANGED vars
  BY <1>1 DEF vars, AudienceInv, Running, Serves, WithinBounds
<1>2. ASSUME NEW c \in Calls, NEW setup \in Setups, preregisterCall(c, setup)
      PROVE  AudienceInv'
  BY <1>2, PreregisterServes
<1>3. ASSUME NEW c \in Calls, NEW p \in Profiles, NEW setup \in Setups,
             createByJoin(c, p, setup)
      PROVE  AudienceInv'
  BY <1>3, CreateByJoinServes
<1>4. ASSUME NEW c \in Calls, NEW p \in Profiles, joinCall(c, p) \/ knock(c, p)
      PROVE  AudienceInv'
  BY <1>4, JoinServes, KnockServes
<1>5. ASSUME NEW c \in Calls, endCall(c) PROVE AudienceInv'
  BY <1>5, RetiredServes DEF endCall
<1>6. ASSUME NEW c \in Calls, NEW mode \in Modes, setCallModeByAuthority(c, mode)
      PROVE  AudienceInv'
  BY <1>6, SetCallModeServes
<1>7. ASSUME NEW c \in Calls, NEW s, NEW audio \in AudioModes,
             NEW captions \in CaptionChoices, resume(c, s, audio, captions)
      PROVE  AudienceInv'
  BY <1>7, ResumeServes
<1>8. ASSUME NEW c \in Calls, NEW s,
             \/ markDisconnected(c, s) \/ leave(c, s) \/ withdrawKnock(c, s)
             \/ endCallByParticipant(c, s)
      PROVE  AudienceInv'
  BY <1>8, MarkDisconnectedServes, LeaveServes, DoorStepServes, RetiredServes
     DEF endCallByParticipant
<1>9. ASSUME NEW c \in Calls, NEW s, NEW l \in Languages,
             applyDetectedLanguage(c, s, l) \/ setCaptionLanguage(c, s, l)
      PROVE  AudienceInv'
  BY <1>9, ApplyDetectedLanguageServes, SetCaptionLanguageServes
<1>10. ASSUME NEW c \in Calls, NEW s, NEW audio \in AudioModes, setAudioMode(c, s, audio)
       PROVE  AudienceInv'
  BY <1>10, SetAudioModeServes
<1>11. ASSUME NEW c \in Calls, NEW s, NEW t, admitKnock(c, s, t) \/ refuseKnock(c, s, t)
       PROVE  AudienceInv'
  BY <1>11, AdmitKnockServes, DoorStepServes
<1>12. ASSUME NEW c \in Calls, NEW s, NEW t, NEW action \in GovernanceActions,
              applyGovernance(c, s, t, action)
       PROVE  AudienceInv'
  BY <1>12, ApplyGovernanceServes
<1> QED BY <1>1, <1>2, <1>3, <1>4, <1>5, <1>6, <1>7, <1>8, <1>9, <1>10, <1>11, <1>12
        DEF Next

LEMMA AudienceAlways == Spec => []AudienceInv
BY InvAlways, AudienceInitially, AudienceKept, PTL DEF Spec

\* Every call and every plan is of its type, within the bounds that keep it finite:
\* serials and revisions included.
THEOREM SessionTyped == Spec => []TypeOK
<1>1. SessionInv /\ AudienceInv => TypeOK
  <2> SUFFICES ASSUME SessionInv, AudienceInv PROVE TypeOK
    OBVIOUS
  <2>1. ASSUME NEW c \in DOMAIN calls
        PROVE  /\ [type |-> calls[c].type, mode |-> calls[c].mode,
                   privacy |-> calls[c].privacy] \in Setup
               /\ calls[c].next \in 1..MaxSerial + 1
               /\ DOMAIN calls[c].seats \subseteq 1..calls[c].next - 1
               /\ calls[c].owner \in 0..calls[c].next - 1
               /\ \A s \in DOMAIN calls[c].seats : calls[c].seats[s] \in Seat
    <3>1. CallOK(calls[c]) /\ WithinBounds(calls[c]) /\ calls[c].next <= MaxSerial + 1
      BY LiveCall DEF AudienceInv
    <3>2. [type |-> calls[c].type, mode |-> calls[c].mode,
           privacy |-> calls[c].privacy] \in Setup
      BY <3>1 DEF CallOK, Setup
    <3>3. /\ calls[c].next \in 1..MaxSerial + 1
          /\ calls[c].owner \in 0..calls[c].next - 1
      BY <3>1, SessionAssumption DEF CallOK
    <3>4. DOMAIN calls[c].seats \subseteq 1..calls[c].next - 1
      BY <3>1 DEF CallOK, SeatMap
    <3>5. ASSUME NEW s \in DOMAIN calls[c].seats
          PROVE  calls[c].seats[s] \in Seat
      <4>1. /\ calls[c].seats[s] \in WideSeat /\ calls[c].seats[s].media \in Revisions
            /\ calls[c].seats[s].lang \in LanguageRevisions
        BY <3>1, <3>5 DEF CallOK, SeatMap, WithinBounds
      <4> QED BY <4>1 DEF WideSeat, Seat
    <3> QED BY <3>2, <3>3, <3>4, <3>5
  <2>2. /\ DOMAIN calls \subseteq Calls /\ DOMAIN work = Calls
        /\ \A c \in Calls : \A s \in DOMAIN work[c] : work[c][s] \in Plan
    BY DEF SessionInv, AudienceInv
  <2> QED BY <2>1, <2>2 DEF TypeOK
<1> QED BY <1>1, InvAlways, AudienceAlways, PTL

\* Nobody in a call is silent to anybody in it, whatever the order of joins, drops,
\* resumes, settings, detections, mode switches, leaves and reaps: every present
\* speaker has a session of their revision, ordered to make what the people
\* present want.  (The planner compares orders only around each change.)
THEOREM EverybodyIsServed == Spec => []EverybodyServed
<1>1. AudienceInv => EverybodyServed
  <2> SUFFICES ASSUME AudienceInv PROVE EverybodyServed
    OBVIOUS
  <2>1. PlannedAtRevision
    BY DEF AudienceInv, Running, PlannedAtRevision
  <2>2. AudienceServed
    BY DEF AudienceInv, Running, Serves, Covers, AudienceServed
  <2> QED BY <2>1, <2>2 DEF EverybodyServed
<1> QED BY <1>1, AudienceAlways, PTL

\* No translation goes on being produced for somebody who has left: each target of
\* a speaker's running order is heard by another seat still held in the call.
THEOREM DepartedAreForgotten == Spec => []NothingMadeForTheDeparted
<1>1. AudienceInv => NothingMadeForTheDeparted
  <2> SUFFICES ASSUME AudienceInv, NEW c \in DOMAIN calls, NEW s \in Seated(calls[c]),
                      calls[c].mode = "translated", calls[c].seats[s].auto # "confirmed"
               PROVE  work[c][s].order.targets \subseteq
                        {calls[c].seats[o].hear :
                           o \in DOMAIN calls[c].seats \ (Knocking(calls[c]) \cup {s})}
    BY DEF NothingMadeForTheDeparted
  <2>1. work[c][s].order.targets \subseteq Supported(calls[c], s)
    BY DEF AudienceInv, Running, Serves
  <2>2. Supporters(calls[c], s) \subseteq DOMAIN calls[c].seats \ (Knocking(calls[c]) \cup {s})
    BY DEF Supporters, Knocking
  <2> QED BY <2>1, <2>2 DEF Supported
<1> QED BY <1>1, AudienceAlways, PTL
==============================================================================
