-------------------------- MODULE CallIngestProofs --------------------------
(***************************************************************************)
(* Proofs about the gateway's half of captions and translation: the         *)
(* registry and the runtime's participants stay in step with the store, and *)
(* no session is left that nobody will end, for every set of calls,         *)
(* profiles and bounds, and any number of walks awaiting their answers.     *)
(*                                                                         *)
(* The store is seen through four things: which calls there are, a call's   *)
(* admitted seats, those at its door, and the next serial.  The first part  *)
(* says what each of its operations does to them; the second what a walk    *)
(* does to the registry; the third puts the two together; the last carries  *)
(* the store's own theorems over.                                           *)
(***************************************************************************)
EXTENDS CallIngest, SequenceTheorems, TLAPS

-----------------------------------------------------------------------------
(* Calls, as far as this proof looks into them.                            *)

Shaped(call) ==
  /\ call = [type |-> call.type, mode |-> call.mode, privacy |-> call.privacy,
             owner |-> call.owner, next |-> call.next, seats |-> call.seats]
  /\ call.next \in Nat \ {0}
  /\ call.seats = [s \in DOMAIN call.seats |-> call.seats[s]]
  /\ \A s \in DOMAIN call.seats : s \in Nat /\ s < call.next

\* A seat keeps what an update leaves alone.
SeatShaped(seat) ==
  seat = [name |-> seat.name, subject |-> seat.subject, account |-> seat.account,
          speak |-> seat.speak, auto |-> seat.auto, hear |-> seat.hear,
          audio |-> seat.audio, captions |-> seat.captions,
          connected |-> seat.connected, admission |-> seat.admission,
          role |-> seat.role, media |-> seat.media, lang |-> seat.lang]

Whole(call) == Shaped(call) /\ \A s \in DOMAIN call.seats : SeatShaped(call.seats[s])

Party(call) == DOMAIN call.seats \ Core!Knocking(call)

\* The serials the runtime may have heard of.
Old(call, s) == s \in Nat /\ s < call.next /\ s \notin Core!Knocking(call)

StoreInv ==
  /\ calls = [c \in DOMAIN calls |-> calls[c]]
  /\ \A c \in DOMAIN calls : Whole(calls[c]) /\ Core!WithinBounds(calls[c])

\* What is seated differs only in settings and revisions.
SameSeats(call, after) ==
  /\ Whole(after) /\ after.next = call.next
  /\ DOMAIN after.seats = DOMAIN call.seats
  /\ \A s \in DOMAIN call.seats : after.seats[s].admission = call.seats[s].admission

LEMMA SameSeatsParty ==
  ASSUME NEW call, NEW after, SameSeats(call, after)
  PROVE  /\ Party(after) = Party(call) /\ Core!Knocking(after) = Core!Knocking(call)
         /\ Whole(after) /\ after.next = call.next
BY DEF SameSeats, Party, Core!Knocking

LEMMA SameSeatsTwice ==
  ASSUME NEW a, NEW b, NEW d, SameSeats(a, b), SameSeats(b, d)
  PROVE  SameSeats(a, d)
BY DEF SameSeats

LEMMA SeatsPut ==
  ASSUME NEW call, Whole(call), NEW m, m = [s \in DOMAIN m |-> m[s]],
         \A s \in DOMAIN m : s \in Nat /\ s < call.next /\ SeatShaped(m[s])
  PROVE  /\ Whole([call EXCEPT !.seats = m]) /\ [call EXCEPT !.seats = m].seats = m
         /\ [call EXCEPT !.seats = m].next = call.next
BY DEF Whole, Shaped

LEMMA BumpedSame ==
  ASSUME NEW call, Whole(call), NEW S
  PROVE  SameSeats(call, Core!Bumped(call, S))
<1> DEFINE m == [s \in DOMAIN call.seats |->
                   IF s \in S THEN [call.seats[s] EXCEPT !.media = @ + 1]
                   ELSE call.seats[s]]
<1>1. \A s \in DOMAIN call.seats :
        SeatShaped(m[s]) /\ m[s].admission = call.seats[s].admission
  <2> TAKE s \in DOMAIN call.seats
  <2>1. SeatShaped(call.seats[s])
    BY DEF Whole
  <2>2. PICK seat : seat = call.seats[s]
    OBVIOUS
  <2>3. SeatShaped([seat EXCEPT !.media = @ + 1])
        /\ [seat EXCEPT !.media = @ + 1].admission = seat.admission
    BY <2>1, <2>2 DEF SeatShaped
  <2> QED BY <2>1, <2>2, <2>3
<1>2. Core!Bumped(call, S) = [call EXCEPT !.seats = m]
  BY DEF Core!Bumped
<1>3. m = [s \in DOMAIN m |-> m[s]] /\ DOMAIN m = DOMAIN call.seats
  OBVIOUS
<1>4. \A s \in DOMAIN m : s \in Nat /\ s < call.next /\ SeatShaped(m[s])
  BY <1>1, <1>3 DEF Whole, Shaped
<1> HIDE DEF m
<1> QED BY <1>1, <1>2, <1>3, <1>4, SeatsPut DEF SameSeats

LEMMA LanguageMovedSame ==
  ASSUME NEW call, Whole(call)
  PROVE  SameSeats(call, Core!LanguageMoved(call))
<1> DEFINE m == [s \in DOMAIN call.seats |-> [call.seats[s] EXCEPT !.lang = @ + 1]]
<1>1. \A s \in DOMAIN call.seats :
        SeatShaped(m[s]) /\ m[s].admission = call.seats[s].admission
  <2> TAKE s \in DOMAIN call.seats
  <2>1. SeatShaped(call.seats[s])
    BY DEF Whole
  <2>2. PICK seat : seat = call.seats[s]
    OBVIOUS
  <2>3. SeatShaped([seat EXCEPT !.lang = @ + 1])
        /\ [seat EXCEPT !.lang = @ + 1].admission = seat.admission
    BY <2>1, <2>2 DEF SeatShaped
  <2> QED BY <2>1, <2>2, <2>3
<1>2. Core!LanguageMoved(call) = [call EXCEPT !.seats = m]
  BY DEF Core!LanguageMoved
<1>3. m = [s \in DOMAIN m |-> m[s]] /\ DOMAIN m = DOMAIN call.seats
  OBVIOUS
<1>4. \A s \in DOMAIN m : s \in Nat /\ s < call.next /\ SeatShaped(m[s])
  BY <1>1, <1>3 DEF Whole, Shaped
<1> HIDE DEF m
<1> QED BY <1>1, <1>2, <1>3, <1>4, SeatsPut DEF SameSeats

\* A seat written on a serial the call has numbered, and one given up.
LEMMA WithSeatWhole ==
  ASSUME NEW call, Whole(call), NEW s, s \in Nat, s < call.next,
         NEW seat, SeatShaped(seat), NEW after, after = Core!WithSeat(call, s, seat)
  PROVE  /\ Whole(after) /\ after.next = call.next
         /\ DOMAIN after.seats = DOMAIN call.seats \cup {s}
         /\ after.seats[s] = seat
         /\ \A t \in DOMAIN call.seats \ {s} : after.seats[t] = call.seats[t]
<1> DEFINE m == Core!Put(call.seats, s, seat)
<1>1. /\ m = [t \in DOMAIN m |-> m[t]] /\ DOMAIN m = DOMAIN call.seats \cup {s}
      /\ m[s] = seat /\ \A t \in DOMAIN call.seats \ {s} : m[t] = call.seats[t]
  BY DEF Core!Put
<1>2. \A t \in DOMAIN m : t \in Nat /\ t < call.next /\ SeatShaped(m[t])
  BY <1>1 DEF Whole, Shaped
<1>3. after = [call EXCEPT !.seats = m]
  BY DEF Core!WithSeat
<1> HIDE DEF m
<1>4. Whole(after) /\ after.seats = m /\ after.next = call.next
  BY <1>1, <1>2, <1>3, SeatsPut
<1> QED BY <1>1, <1>4

LEMMA WithSeatSame ==
  ASSUME NEW call, Whole(call), NEW s \in DOMAIN call.seats,
         NEW seat, SeatShaped(seat), seat.admission = call.seats[s].admission
  PROVE  SameSeats(call, Core!WithSeat(call, s, seat))
<1>1. s \in Nat /\ s < call.next
  BY DEF Whole, Shaped
<1>2. PICK after : after = Core!WithSeat(call, s, seat)
  OBVIOUS
<1>3. /\ Whole(after) /\ after.next = call.next
      /\ DOMAIN after.seats = DOMAIN call.seats \cup {s} /\ after.seats[s] = seat
      /\ \A t \in DOMAIN call.seats \ {s} : after.seats[t] = call.seats[t]
  BY <1>1, <1>2, WithSeatWhole
<1> QED BY <1>2, <1>3 DEF SameSeats

Without(call, s) == [call EXCEPT !.seats = Core!Drop(@, s)]

LEMMA SeatDropped ==
  ASSUME NEW call, Whole(call), NEW s, NEW after, after = Without(call, s)
  PROVE  /\ Whole(after) /\ after.next = call.next
         /\ DOMAIN after.seats = DOMAIN call.seats \ {s}
         /\ Party(after) = Party(call) \ {s}
         /\ Core!Knocking(after) = Core!Knocking(call) \ {s}
<1> DEFINE m == Core!Drop(call.seats, s)
<1>1. /\ m = [t \in DOMAIN m |-> m[t]] /\ DOMAIN m = DOMAIN call.seats \ {s}
      /\ \A t \in DOMAIN call.seats \ {s} : m[t] = call.seats[t]
  BY DEF Core!Drop, Core!Restrict
<1>2. \A t \in DOMAIN m : t \in Nat /\ t < call.next /\ SeatShaped(m[t])
  BY <1>1 DEF Whole, Shaped
<1>3. PICK n : n = m
  OBVIOUS
<1>4. after = [call EXCEPT !.seats = n]
  BY <1>3 DEF Without
<1>5. /\ Whole([call EXCEPT !.seats = n]) /\ [call EXCEPT !.seats = n].seats = n
      /\ [call EXCEPT !.seats = n].next = call.next
  BY <1>1, <1>2, <1>3, SeatsPut
<1>6. Whole(after) /\ after.seats = n /\ after.next = call.next
  BY <1>4, <1>5
<1> QED BY <1>1, <1>3, <1>6 DEF Party, Core!Knocking

-----------------------------------------------------------------------------
(* What each operation of the store does to them.                          *)

Elsewhere(c) ==
  /\ DOMAIN calls' \ {c} = DOMAIN calls \ {c}
  /\ \A d \in DOMAIN calls \ {c} : calls'[d] = calls[d]

\* The call goes on, or begins, with the admitted seats of party.
GoesOn(c, party) ==
  /\ c \in DOMAIN calls' /\ Party(calls'[c]) = party
  /\ c \in DOMAIN calls => \A s : Old(calls[c], s) => Old(calls'[c], s)

Continues(c, party) == StoreInv' /\ Elsewhere(c) /\ GoesOn(c, party)
Closes(c) == StoreInv' /\ Elsewhere(c) /\ c \notin DOMAIN calls'

LEMMA Stored ==
  ASSUME StoreInv, NEW c \in Calls, NEW call, Whole(call), NEW S, Core!Store(c, call, S)
  PROVE  StoreInv' /\ Elsewhere(c) /\ c \in DOMAIN calls' /\ calls'[c] = call
<1>1. Core!WithinBounds(call) /\ calls' = Core!Put(calls, c, call)
  BY DEF Core!Store
<1>2. /\ calls' = [d \in DOMAIN calls' |-> calls'[d]] /\ DOMAIN calls' = DOMAIN calls \cup {c}
      /\ calls'[c] = call /\ \A d \in DOMAIN calls \ {c} : calls'[d] = calls[d]
  BY <1>1 DEF Core!Put
<1>3. \A d \in DOMAIN calls' : Whole(calls'[d]) /\ Core!WithinBounds(calls'[d])
  BY <1>1, <1>2 DEF StoreInv
<1> QED BY <1>2, <1>3 DEF StoreInv, Elsewhere

LEMMA Retired ==
  ASSUME StoreInv, NEW c \in Calls, Core!retire(c)
  PROVE  Closes(c)
<1>1. calls' = Core!Drop(calls, c)
  BY DEF Core!retire
<1>2. /\ calls' = [d \in DOMAIN calls' |-> calls'[d]] /\ DOMAIN calls' = DOMAIN calls \ {c}
      /\ \A d \in DOMAIN calls \ {c} : calls'[d] = calls[d]
  BY <1>1 DEF Core!Drop, Core!Restrict
<1>3. \A d \in DOMAIN calls' : Whole(calls'[d]) /\ Core!WithinBounds(calls'[d])
  BY <1>2 DEF StoreInv
<1> QED BY <1>2, <1>3 DEF StoreInv, Elsewhere, Closes

LEMMA Kept ==
  ASSUME StoreInv, NEW c \in Calls, c \in DOMAIN calls, NEW after,
         SameSeats(calls[c], after), NEW S, Core!Store(c, after, S)
  PROVE  Continues(c, Party(calls[c]))
<1>1. /\ Party(after) = Party(calls[c]) /\ Core!Knocking(after) = Core!Knocking(calls[c])
      /\ Whole(after) /\ after.next = calls[c].next
  BY SameSeatsParty
<1>2. StoreInv' /\ Elsewhere(c) /\ c \in DOMAIN calls' /\ calls'[c] = after
  BY <1>1, Stored
<1> QED BY <1>1, <1>2 DEF Continues, GoesOn, Old

LEMMA LiveCall ==
  ASSUME StoreInv, NEW c \in DOMAIN calls
  PROVE  /\ Whole(calls[c])
         /\ \A s \in DOMAIN calls[c].seats :
              SeatShaped(calls[c].seats[s]) /\ s \in Nat /\ s < calls[c].next
BY DEF StoreInv, Whole, Shaped

\* Settings of one seat: its admission stays what it is.
LEMMA SeatSet ==
  ASSUME StoreInv, NEW c \in DOMAIN calls, NEW s \in DOMAIN calls[c].seats, NEW v
  PROVE  LET call == calls[c]  seat == calls[c].seats[s]
         IN /\ SameSeats(call, Core!WithSeat(call, s, [seat EXCEPT !.connected = v]))
            /\ SameSeats(call, Core!WithSeat(call, s, [seat EXCEPT !.audio = v]))
            /\ SameSeats(call, Core!WithSeat(call, s, [seat EXCEPT !.hear = v]))
<1>1. PICK call, seat : call = calls[c] /\ seat = call.seats[s]
  OBVIOUS
<1>2. Whole(call) /\ SeatShaped(seat) /\ s \in DOMAIN call.seats
  BY <1>1, LiveCall
<1>3. /\ SeatShaped([seat EXCEPT !.connected = v])
      /\ [seat EXCEPT !.connected = v].admission = seat.admission
      /\ SeatShaped([seat EXCEPT !.audio = v])
      /\ [seat EXCEPT !.audio = v].admission = seat.admission
      /\ SeatShaped([seat EXCEPT !.hear = v])
      /\ [seat EXCEPT !.hear = v].admission = seat.admission
  BY <1>2 DEF SeatShaped
<1>4. SameSeats(call, Core!WithSeat(call, s, [seat EXCEPT !.connected = v]))
  BY <1>1, <1>2, <1>3, WithSeatSame
<1>5. SameSeats(call, Core!WithSeat(call, s, [seat EXCEPT !.audio = v]))
  BY <1>1, <1>2, <1>3, WithSeatSame
<1>6. SameSeats(call, Core!WithSeat(call, s, [seat EXCEPT !.hear = v]))
  BY <1>1, <1>2, <1>3, WithSeatSame
<1> QED BY <1>1, <1>4, <1>5, <1>6

LEMMA MarkDisconnectedMoves ==
  ASSUME StoreInv, NEW c \in Calls, NEW s, Core!markDisconnected(c, s)
  PROVE  c \in DOMAIN calls /\ Continues(c, Party(calls[c]))
<1>1. c \in DOMAIN calls /\ s \in DOMAIN calls[c].seats
  BY DEF Core!markDisconnected
<1>2. PICK after : after = Core!WithSeat(calls[c], s, [calls[c].seats[s] EXCEPT !.connected = FALSE])
  OBVIOUS
<1>3. SameSeats(calls[c], after)
  BY <1>1, <1>2, SeatSet
<1>4. Core!Store(c, after, {})
  BY <1>2 DEF Core!markDisconnected
<1> QED BY <1>1, <1>3, <1>4, Kept

LEMMA SetAudioModeMoves ==
  ASSUME StoreInv, NEW c \in Calls, NEW s, NEW audio, Core!setAudioMode(c, s, audio)
  PROVE  c \in DOMAIN calls /\ Continues(c, Party(calls[c]))
<1>1. c \in DOMAIN calls /\ s \in DOMAIN calls[c].seats
  BY DEF Core!setAudioMode, Core!Seated
<1>2. PICK set : set = Core!WithSeat(calls[c], s, [calls[c].seats[s] EXCEPT !.audio = audio])
  OBVIOUS
<1>3. SameSeats(calls[c], set) /\ Whole(set)
  <2>1. SameSeats(calls[c], set)
    BY <1>1, <1>2, SeatSet
  <2> QED BY <2>1 DEF SameSeats
<1>4. PICK S, after : after = Core!Bumped(set, S) /\ Core!Store(c, after, S)
  BY <1>2 DEF Core!setAudioMode
<1>5. SameSeats(calls[c], after)
  BY <1>3, <1>4, BumpedSame, SameSeatsTwice
<1> QED BY <1>1, <1>4, <1>5, Kept

LEMMA SetCaptionLanguageMoves ==
  ASSUME StoreInv, NEW c \in Calls, NEW s, NEW wanted, Core!setCaptionLanguage(c, s, wanted)
  PROVE  c \in DOMAIN calls /\ Continues(c, Party(calls[c]))
<1>1. c \in DOMAIN calls /\ s \in DOMAIN calls[c].seats
  BY DEF Core!setCaptionLanguage, Core!Seated
<1>2. PICK heard : heard = Core!WithSeat(calls[c], s, [calls[c].seats[s] EXCEPT !.hear = wanted])
  OBVIOUS
<1>3. SameSeats(calls[c], heard) /\ Whole(heard)
  <2>1. SameSeats(calls[c], heard)
    BY <1>1, <1>2, SeatSet
  <2> QED BY <2>1 DEF SameSeats
<1>4. PICK moved : moved = Core!LanguageMoved(heard)
  OBVIOUS
<1>5. SameSeats(heard, moved) /\ Whole(moved)
  BY <1>3, <1>4, LanguageMovedSame DEF SameSeats
<1>6. PICK S, T, after : after = Core!Bumped(moved, S) /\ Core!Store(c, after, T)
  BY <1>2, <1>4 DEF Core!setCaptionLanguage
<1>7. SameSeats(moved, after)
  BY <1>5, <1>6, BumpedSame
<1>8. SameSeats(calls[c], after)
  BY <1>3, <1>5, <1>7, SameSeatsTwice
<1> QED BY <1>1, <1>6, <1>8, Kept

LEMMA ApplyDetectedLanguageMoves ==
  ASSUME StoreInv, NEW c \in Calls, NEW s, NEW l, Core!applyDetectedLanguage(c, s, l)
  PROVE  c \in DOMAIN calls /\ Continues(c, Party(calls[c]))
<1>1. c \in DOMAIN calls /\ s \in DOMAIN calls[c].seats
  BY DEF Core!applyDetectedLanguage
<1>2. PICK seat : seat = calls[c].seats[s]
  OBVIOUS
<1>3. PICK spoken : spoken = [seat EXCEPT !.speak = l, !.auto = "confirmed"]
  OBVIOUS
<1>4. SeatShaped(spoken) /\ spoken.admission = calls[c].seats[s].admission
  <2>1. SeatShaped(seat)
    BY <1>1, <1>2, LiveCall
  <2> QED BY <2>1, <1>2, <1>3 DEF SeatShaped
<1>5. PICK settled : settled = Core!WithSeat(calls[c], s, spoken)
  OBVIOUS
<1>6. SameSeats(calls[c], settled) /\ Whole(settled)
  BY <1>1, <1>4, <1>5, LiveCall, WithSeatSame DEF SameSeats
<1>7. PICK moved : moved = Core!LanguageMoved(settled)
  OBVIOUS
<1>8. SameSeats(settled, moved) /\ Whole(moved)
  BY <1>6, <1>7, LanguageMovedSame DEF SameSeats
<1>9. \E S : \/ Core!Store(c, settled, S)
             \/ \E T : Core!Store(c, Core!Bumped(moved, T), S)
  BY <1>2, <1>3, <1>5, <1>7 DEF Core!applyDetectedLanguage
<1>10. CASE \E S : Core!Store(c, settled, S)
  BY <1>1, <1>6, <1>10, Kept
<1>11. CASE \E S, T : Core!Store(c, Core!Bumped(moved, T), S)
  <2>1. PICK S, T, after : after = Core!Bumped(moved, T) /\ Core!Store(c, after, S)
    BY <1>11
  <2>2. SameSeats(moved, after)
    BY <1>8, <2>1, BumpedSame
  <2>3. SameSeats(calls[c], after)
    BY <1>6, <1>8, <2>2, SameSeatsTwice
  <2> QED BY <1>1, <2>1, <2>3, Kept
<1> QED BY <1>9, <1>10, <1>11

LEMMA SetCallModeMoves ==
  ASSUME StoreInv, NEW c \in Calls, NEW mode, Core!setCallModeByAuthority(c, mode)
  PROVE  c \in DOMAIN calls /\ Continues(c, Party(calls[c]))
<1>1. c \in DOMAIN calls
  BY DEF Core!setCallModeByAuthority
<1>2. PICK old, call : old = calls[c] /\ call = [old EXCEPT !.mode = mode]
  OBVIOUS
<1>3. Whole(old)
  BY <1>1, <1>2, LiveCall
<1>4. SameSeats(old, call) /\ Whole(call)
  BY <1>2, <1>3 DEF SameSeats, Whole, Shaped
<1>5. PICK S, after : after = Core!Bumped(call, S) /\ Core!Store(c, after, S)
  BY <1>2 DEF Core!setCallModeByAuthority
<1>6. SameSeats(calls[c], after)
  BY <1>2, <1>4, <1>5, BumpedSame, SameSeatsTwice
<1> QED BY <1>1, <1>5, <1>6, Kept

LEMMA ResumeMoves ==
  ASSUME StoreInv, NEW c \in Calls, NEW s, NEW audio, NEW captions,
         Core!resume(c, s, audio, captions)
  PROVE  c \in DOMAIN calls /\ Continues(c, Party(calls[c]))
<1>1. c \in DOMAIN calls /\ s \in DOMAIN calls[c].seats
  BY DEF Core!resume
<1>2. PICK seat : seat = calls[c].seats[s]
  OBVIOUS
<1>3. PICK tuned : tuned = [seat EXCEPT !.audio = audio, !.captions = captions,
                                        !.media = @ + 1, !.connected = TRUE]
  OBVIOUS
<1>4. SeatShaped(tuned) /\ tuned.admission = calls[c].seats[s].admission
  <2>1. SeatShaped(seat)
    BY <1>1, <1>2, LiveCall
  <2> QED BY <2>1, <1>2, <1>3 DEF SeatShaped
<1>5. PICK back : back = Core!WithSeat(calls[c], s, tuned)
  OBVIOUS
<1>6. SameSeats(calls[c], back) /\ Whole(back)
  BY <1>1, <1>4, <1>5, LiveCall, WithSeatSame DEF SameSeats
<1>7. PICK S, T, after : after = Core!Bumped(back, S) /\ Core!Store(c, after, T)
  BY <1>2, <1>3, <1>5 DEF Core!resume
<1>8. SameSeats(calls[c], after)
  BY <1>6, <1>7, BumpedSame, SameSeatsTwice
<1> QED BY <1>1, <1>7, <1>8, Kept

\* A seat written on a serial, by what its admission says.
LEMMA WithSeatParty ==
  ASSUME NEW call, Whole(call), NEW s, s \in Nat, s < call.next,
         NEW seat, SeatShaped(seat), NEW after, after = Core!WithSeat(call, s, seat)
  PROVE  /\ Whole(after) /\ after.next = call.next
         /\ seat.admission = "admitted" =>
              /\ Party(after) = Party(call) \cup {s}
              /\ Core!Knocking(after) = Core!Knocking(call) \ {s}
         /\ seat.admission = "knocking" =>
              /\ Party(after) = Party(call) \ {s}
              /\ Core!Knocking(after) = Core!Knocking(call) \cup {s}
<1>1. /\ Whole(after) /\ after.next = call.next
      /\ DOMAIN after.seats = DOMAIN call.seats \cup {s} /\ after.seats[s] = seat
      /\ \A t \in DOMAIN call.seats \ {s} : after.seats[t] = call.seats[t]
  BY WithSeatWhole
<1>2. DOMAIN call.seats \in SUBSET DOMAIN after.seats
  BY <1>1
<1>3. \A t : t \in Core!Knocking(after) <=>
               t \in DOMAIN after.seats /\ after.seats[t].admission = "knocking"
  BY DEF Core!Knocking
<1>4. \A t : t \in Core!Knocking(call) <=>
               t \in DOMAIN call.seats /\ call.seats[t].admission = "knocking"
  BY DEF Core!Knocking
<1>5. \A t : t # s => (t \in Core!Knocking(after) <=> t \in Core!Knocking(call))
  BY <1>1, <1>3, <1>4
<1>6. s \in Core!Knocking(after) <=> seat.admission = "knocking"
  BY <1>1, <1>3
<1>7. ASSUME seat.admission = "admitted"
      PROVE  /\ Party(after) = Party(call) \cup {s}
             /\ Core!Knocking(after) = Core!Knocking(call) \ {s}
  BY <1>1, <1>5, <1>6, <1>7 DEF Party
<1>8. ASSUME seat.admission = "knocking"
      PROVE  /\ Party(after) = Party(call) \ {s}
             /\ Core!Knocking(after) = Core!Knocking(call) \cup {s}
  BY <1>1, <1>5, <1>6, <1>8 DEF Party
<1> QED BY <1>1, <1>7, <1>8

LEMMA AdmitKnockMoves ==
  ASSUME StoreInv, NEW c \in Calls, NEW host, NEW s, Core!admitKnock(c, host, s)
  PROVE  /\ c \in DOMAIN calls /\ s \in Core!Knocking(calls[c])
         /\ Continues(c, Party(calls[c]) \cup {s})
<1>1. c \in DOMAIN calls /\ s \in Core!Knocking(calls[c]) /\ s \in DOMAIN calls[c].seats
  BY DEF Core!admitKnock, Core!knockGate, Core!Knocking
<1>2. PICK seat, seen : seat = calls[c].seats[s] /\ seen = [seat EXCEPT !.admission = "admitted"]
  OBVIOUS
<1>3. SeatShaped(seen) /\ seen.admission = "admitted"
  <2>1. SeatShaped(seat)
    BY <1>1, <1>2, LiveCall
  <2> QED BY <2>1, <1>2 DEF SeatShaped
<1>4. PICK admitted : admitted = Core!WithSeat(calls[c], s, seen)
  OBVIOUS
<1>5. Whole(calls[c]) /\ s \in Nat /\ s < calls[c].next
  BY <1>1, LiveCall
<1>6. /\ Whole(admitted) /\ admitted.next = calls[c].next
      /\ Party(admitted) = Party(calls[c]) \cup {s}
      /\ Core!Knocking(admitted) = Core!Knocking(calls[c]) \ {s}
  BY <1>3, <1>4, <1>5, WithSeatParty
<1>7. PICK S, T, after : after = Core!Bumped(admitted, S) /\ Core!Store(c, after, T)
  BY <1>2, <1>4 DEF Core!admitKnock
<1>8. /\ Whole(after) /\ after.next = admitted.next /\ Party(after) = Party(admitted)
      /\ Core!Knocking(after) = Core!Knocking(admitted)
  BY <1>6, <1>7, BumpedSame, SameSeatsParty
<1>9. StoreInv' /\ Elsewhere(c) /\ c \in DOMAIN calls' /\ calls'[c] = after
  BY <1>7, <1>8, Stored
<1> QED BY <1>1, <1>6, <1>8, <1>9 DEF Continues, GoesOn, Old

\* The serial is used up, and the newcomer is admitted or knocks on it.
LEMMA Numbered ==
  ASSUME NEW call, Whole(call), NEW owner
  PROVE  LET after == [call EXCEPT !.next = @ + 1, !.owner = owner]
         IN /\ Whole(after) /\ after.next = call.next + 1
            /\ Party(after) = Party(call) /\ Core!Knocking(after) = Core!Knocking(call)
<1>1. PICK after : after = [call EXCEPT !.next = @ + 1, !.owner = owner]
  OBVIOUS
<1>2. /\ after.next = call.next + 1 /\ after.seats = call.seats /\ call.next \in Nat \ {0}
      /\ after = [type |-> after.type, mode |-> after.mode, privacy |-> after.privacy,
                  owner |-> after.owner, next |-> after.next, seats |-> after.seats]
  BY <1>1 DEF Whole, Shaped
<1>3. Whole(after)
  BY <1>2 DEF Whole, Shaped
<1> QED BY <1>1, <1>2, <1>3 DEF Party, Core!Knocking

LEMMA NewSeatShaped ==
  ASSUME NEW p, NEW role
  PROVE  /\ SeatShaped([Core!NewSeat(p) EXCEPT !.role = role])
         /\ [Core!NewSeat(p) EXCEPT !.role = role].admission = "admitted"
         /\ SeatShaped([Core!NewSeat(p) EXCEPT !.admission = "knocking"])
         /\ [Core!NewSeat(p) EXCEPT !.admission = "knocking"].admission = "knocking"
<1>1. PICK seat : seat = Core!NewSeat(p)
  OBVIOUS
<1>2. SeatShaped(seat) /\ seat.admission = "admitted"
  BY <1>1 DEF Core!NewSeat, SeatShaped
<1>3. /\ SeatShaped([seat EXCEPT !.role = role])
      /\ [seat EXCEPT !.role = role].admission = "admitted"
      /\ SeatShaped([seat EXCEPT !.admission = "knocking"])
      /\ [seat EXCEPT !.admission = "knocking"].admission = "knocking"
  BY <1>2 DEF SeatShaped
<1> QED BY <1>1, <1>3

\* Whoever joins, or opens a call, takes its next serial.
LEMMA TakeSeatMoves ==
  ASSUME StoreInv, NEW c \in Calls, NEW call, Whole(call),
         c \in DOMAIN calls => call = calls[c],
         NEW p, Core!TakeSeat(c, call, p)
  PROVE  /\ Continues(c, Party(call) \cup {call.next})
         /\ calls'[c].next = call.next + 1
<1>1. PICK role, owner, seat, numbered, joined, S, T, after :
        /\ seat = [Core!NewSeat(p) EXCEPT !.role = role]
        /\ numbered = [call EXCEPT !.next = @ + 1, !.owner = owner]
        /\ joined = Core!WithSeat(numbered, call.next, seat)
        /\ after = Core!Bumped(joined, S)
        /\ Core!Store(c, after, T)
  BY DEF Core!TakeSeat
<1>2. SeatShaped(seat) /\ seat.admission = "admitted"
  BY <1>1, NewSeatShaped
<1>3. /\ Whole(numbered) /\ numbered.next = call.next + 1
      /\ Party(numbered) = Party(call) /\ Core!Knocking(numbered) = Core!Knocking(call)
  BY <1>1, Numbered
<1>4. call.next \in Nat /\ call.next < numbered.next /\ \A s \in DOMAIN call.seats : s \in Nat /\ s < call.next
  BY <1>3 DEF Whole, Shaped
<1>5. /\ Whole(joined) /\ joined.next = numbered.next
      /\ Party(joined) = Party(numbered) \cup {call.next}
      /\ Core!Knocking(joined) = Core!Knocking(numbered) \ {call.next}
  <2>1. joined = Core!WithSeat(numbered, call.next, seat)
    BY <1>1
  <2> QED BY <2>1, <1>2, <1>3, <1>4, WithSeatParty
<1>6. /\ Whole(after) /\ after.next = joined.next /\ Party(after) = Party(joined)
      /\ Core!Knocking(after) = Core!Knocking(joined)
  BY <1>1, <1>5, BumpedSame, SameSeatsParty
<1>7. StoreInv' /\ Elsewhere(c) /\ c \in DOMAIN calls' /\ calls'[c] = after
  BY <1>1, <1>6, Stored
<1>8. \A s : Old(call, s) => Old(after, s)
  <2> SUFFICES ASSUME NEW s, Old(call, s) PROVE Old(after, s)
    OBVIOUS
  <2>1. s \in Nat /\ s < call.next /\ s \notin Core!Knocking(call)
    BY DEF Old
  <2>2. s \notin Core!Knocking(after)
    BY <2>1, <1>3, <1>5, <1>6
  <2> QED BY <2>1, <2>2, <1>3, <1>4, <1>5, <1>6 DEF Old
<1> QED BY <1>3, <1>5, <1>6, <1>7, <1>8 DEF Continues, GoesOn

\* A call that is opened has nobody in it.
LEMMA Minted ==
  ASSUME NEW setup
  PROVE  /\ Whole(Core!mintCall(setup)) /\ Party(Core!mintCall(setup)) = {}
         /\ Core!mintCall(setup).next = 1
         /\ Whole(Core!createCall(setup)) /\ Party(Core!createCall(setup)) = {}
         /\ Core!createCall(setup).next = 1
<1>1. PICK call : call = Core!mintCall(setup)
  OBVIOUS
<1>2. /\ Shaped(call) /\ DOMAIN call.seats = {} /\ call.next = 1
  BY <1>1 DEF Core!mintCall, Core!EmptyMap, Shaped
<1>3. PICK privacy, open : open = [call EXCEPT !.privacy = privacy] /\ open = Core!createCall(setup)
  BY <1>1 DEF Core!createCall
<1>4. Shaped(open) /\ open.seats = call.seats /\ open.next = call.next
  BY <1>2, <1>3 DEF Shaped
<1> QED BY <1>1, <1>2, <1>3, <1>4 DEF Whole, Party

LEMMA JoinMoves ==
  ASSUME StoreInv, NEW c \in Calls, NEW p, Core!joinCall(c, p)
  PROVE  /\ c \in DOMAIN calls
         /\ Continues(c, Party(calls[c]) \cup {calls[c].next})
         /\ calls'[c].next = calls[c].next + 1
<1>1. c \in DOMAIN calls /\ Core!TakeSeat(c, calls[c], p)
  BY DEF Core!joinCall
<1> QED BY <1>1, LiveCall, TakeSeatMoves

LEMMA CreateByJoinMoves ==
  ASSUME StoreInv, NEW c \in Calls, NEW p, NEW setup, Core!createByJoin(c, p, setup)
  PROVE  c \notin DOMAIN calls /\ Continues(c, {1}) /\ calls'[c].next = 2
<1>1. c \notin DOMAIN calls /\ Core!TakeSeat(c, Core!createCall(setup), p)
  BY DEF Core!createByJoin
<1>2. PICK call : call = Core!createCall(setup)
  OBVIOUS
<1>3. Whole(call) /\ Party(call) = {} /\ call.next = 1
  BY <1>2, Minted
<1>4. Continues(c, Party(call) \cup {call.next}) /\ calls'[c].next = call.next + 1
  BY <1>1, <1>2, <1>3, TakeSeatMoves
<1> QED BY <1>1, <1>3, <1>4

LEMMA PreregisterMoves ==
  ASSUME StoreInv, NEW c \in Calls, NEW setup, Core!preregisterCall(c, setup)
  PROVE  c \notin DOMAIN calls /\ Continues(c, {})
<1>1. c \notin DOMAIN calls
  BY DEF Core!preregisterCall
<1>2. PICK call : call = Core!mintCall(setup) /\ Core!Store(c, call, {})
  BY DEF Core!preregisterCall
<1>3. Whole(call) /\ Party(call) = {}
  BY <1>2, Minted
<1> QED BY <1>1, <1>2, <1>3, Stored DEF Continues, GoesOn

LEMMA KnockMoves ==
  ASSUME StoreInv, NEW c \in Calls, NEW p, Core!knock(c, p)
  PROVE  c \in DOMAIN calls /\ Continues(c, Party(calls[c]))
<1>1. c \in DOMAIN calls
  BY DEF Core!knock
<1>2. PICK call, seat, numbered, after :
        /\ call = calls[c]
        /\ seat = [Core!NewSeat(p) EXCEPT !.admission = "knocking"]
        /\ numbered = [call EXCEPT !.next = @ + 1]
        /\ after = Core!WithSeat(numbered, call.next, seat)
        /\ Core!Store(c, after, {})
  BY DEF Core!knock
<1>3. SeatShaped(seat) /\ seat.admission = "knocking"
  BY <1>2, NewSeatShaped
<1>4. Whole(call)
  BY <1>1, <1>2, LiveCall
<1>5. /\ Whole(numbered) /\ numbered.next = call.next + 1
      /\ Party(numbered) = Party(call) /\ Core!Knocking(numbered) = Core!Knocking(call)
  <2>1. numbered = [call EXCEPT !.next = @ + 1, !.owner = call.owner]
    BY <1>2, <1>4 DEF Whole, Shaped
  <2> QED BY <2>1, <1>4, Numbered
<1>6. /\ call.next \in Nat /\ call.next < numbered.next
      /\ \A s \in DOMAIN call.seats : s \in Nat /\ s < call.next
  BY <1>4, <1>5 DEF Whole, Shaped
<1>7. /\ Whole(after) /\ after.next = numbered.next
      /\ Party(after) = Party(numbered) \ {call.next}
      /\ Core!Knocking(after) = Core!Knocking(numbered) \cup {call.next}
  <2>1. after = Core!WithSeat(numbered, call.next, seat)
    BY <1>2
  <2> QED BY <2>1, <1>3, <1>5, <1>6, WithSeatParty
<1>8. call.next \notin Party(call)
  BY <1>6 DEF Party
<1>9. StoreInv' /\ Elsewhere(c) /\ c \in DOMAIN calls' /\ calls'[c] = after
  BY <1>2, <1>7, Stored
<1>10. \A s : Old(call, s) => Old(after, s)
  <2> SUFFICES ASSUME NEW s, Old(call, s) PROVE Old(after, s)
    OBVIOUS
  <2>1. s \in Nat /\ s < call.next /\ s \notin Core!Knocking(call)
    BY DEF Old
  <2>2. s # call.next
    BY <2>1, <1>6
  <2> QED BY <2>1, <2>2, <1>5, <1>6, <1>7 DEF Old
<1>11. Party(after) = Party(call)
  BY <1>5, <1>7, <1>8
<1> QED BY <1>1, <1>2, <1>9, <1>10, <1>11 DEF Continues, GoesOn

\* A seat that goes takes the call with it, or is all that goes.
LEMMA DropMoves ==
  ASSUME StoreInv, NEW c \in DOMAIN calls, c \in Calls, NEW s,
         NEW rest, rest = Without(calls[c], s), NEW after, SameSeats(rest, after),
         NEW T, Core!Store(c, after, T)
  PROVE  Continues(c, Party(calls[c]) \ {s})
<1>1. Whole(calls[c])
  BY LiveCall
<1>2. /\ Whole(rest) /\ rest.next = calls[c].next /\ Party(rest) = Party(calls[c]) \ {s}
      /\ Core!Knocking(rest) = Core!Knocking(calls[c]) \ {s}
  BY <1>1, SeatDropped
<1>3. /\ Whole(after) /\ after.next = rest.next /\ Party(after) = Party(rest)
      /\ Core!Knocking(after) = Core!Knocking(rest)
  BY SameSeatsParty
<1>4. StoreInv' /\ Elsewhere(c) /\ c \in DOMAIN calls' /\ calls'[c] = after
  BY <1>3, Stored
<1> QED BY <1>2, <1>3, <1>4 DEF Continues, GoesOn, Old

LEMMA LeaveMoves ==
  ASSUME StoreInv, NEW c \in Calls, NEW s, Core!leave(c, s)
  PROVE  c \in DOMAIN calls /\ (Closes(c) \/ Continues(c, Party(calls[c]) \ {s}))
<1>1. c \in DOMAIN calls
  BY DEF Core!leave
<1>2. PICK rest : rest = Without(calls[c], s)
  OBVIOUS
<1>3. Core!retire(c) \/ \E S : Core!Store(c, Core!Bumped(rest, S), S)
  BY <1>2 DEF Core!leave, Without
<1>4. CASE Core!retire(c)
  BY <1>1, <1>4, Retired
<1>5. CASE \E S : Core!Store(c, Core!Bumped(rest, S), S)
  <2>1. PICK S, after : after = Core!Bumped(rest, S) /\ Core!Store(c, after, S)
    BY <1>5
  <2>2. Whole(rest)
    BY <1>1, <1>2, LiveCall, SeatDropped
  <2>3. SameSeats(rest, after)
    BY <2>1, <2>2, BumpedSame
  <2> QED BY <1>1, <1>2, <2>1, <2>3, DropMoves
<1> QED BY <1>3, <1>4, <1>5

LEMMA DoorMoves ==
  ASSUME StoreInv, NEW c \in Calls, NEW s,
         Core!withdrawKnock(c, s) \/ \E host \in Core!Serials : Core!refuseKnock(c, host, s)
  PROVE  c \in DOMAIN calls /\ (Closes(c) \/ Continues(c, Party(calls[c])))
<1>1. c \in DOMAIN calls /\ s \in Core!Knocking(calls[c])
  BY DEF Core!withdrawKnock, Core!refuseKnock, Core!knockGate
<1>2. PICK rest : rest = Without(calls[c], s)
  OBVIOUS
<1>3. Core!retire(c) \/ Core!Store(c, rest, {})
  BY <1>2 DEF Core!withdrawKnock, Core!refuseKnock, Without
<1>4. CASE Core!retire(c)
  BY <1>1, <1>4, Retired
<1>5. CASE Core!Store(c, rest, {})
  <2>1. SameSeats(rest, rest)
    BY <1>1, <1>2, LiveCall, SeatDropped DEF SameSeats
  <2>2. Continues(c, Party(calls[c]) \ {s})
    BY <1>1, <1>2, <1>5, <2>1, DropMoves
  <2>3. Party(calls[c]) \ {s} = Party(calls[c])
    BY <1>1 DEF Party
  <2> QED BY <1>1, <2>2, <2>3
<1> QED BY <1>3, <1>4, <1>5

LEMMA EndMoves ==
  ASSUME StoreInv, NEW c \in Calls,
         Core!endCall(c) \/ \E s \in Core!Serials : Core!endCallByParticipant(c, s)
  PROVE  Closes(c)
<1>1. Core!retire(c)
  BY DEF Core!endCall, Core!endCallByParticipant
<1> QED BY <1>1, Retired

-----------------------------------------------------------------------------
(* What a walk does to the registry.                                       *)

Entered(entries) ==
  /\ DOMAIN entries \subseteq Ids
  /\ \A id \in DOMAIN entries :
       entries[id] \in Entry /\ (entries[id].active => entries[id].everCreated)

\* A walk's own entry is in the registry as long as the walk calls it its own.
Waits(waiting, entries) ==
  /\ waiting \in Seq(Walk)
  /\ \A i \in DOMAIN waiting : waiting[i].mine => waiting[i].id \in DOMAIN entries

\* Of each seat there is at most the current entry.
Single(c, seats, entries) ==
  \A id \in DOMAIN entries :
    id[1] = c /\ id[2] \in DOMAIN seats => id[3] = seats[id[2]]

\* Neither the registry nor a walk has heard of a serial still to come, or of a
\* seat at the door: a newcomer's entry is the only one of its seat.
AgedIn(c, call, entries, waiting) ==
  /\ \A id \in DOMAIN entries : id[1] = c => Old(call, id[2])
  /\ \A i \in DOMAIN waiting :
       waiting[i].call = c => \A s \in DOMAIN waiting[i].rest : Old(call, s)

\* Somebody will end the session, if there is one.
Held(id, entries, deletes) ==
  (id \in DOMAIN entries /\ entries[id].everCreated) \/ id \in deletes

LEMMA Numbers ==
  /\ Core!Serials \subseteq Nat /\ 0 \notin Core!Serials
  /\ Core!Revisions \subseteq Nat /\ 0 \notin Core!Revisions
BY IngestAssumption DEF Core!SessionAssumption, Core!Serials, Core!Revisions

LEMMA IdParts ==
  /\ \A c, s, m : Id(c, s, m)[1] = c /\ Id(c, s, m)[2] = s /\ Id(c, s, m)[3] = m
  /\ \A id \in Ids : /\ id[1] \in Calls /\ id[2] \in Core!Serials /\ id[3] \in Core!Revisions
                     /\ id = Id(id[1], id[2], id[3])
  /\ \A c \in Calls, s \in Core!Serials, m \in Core!Revisions : Id(c, s, m) \in Ids
BY DEF Id, Ids

LEMMA WalkParts ==
  ASSUME NEW waiting \in Seq(Walk), NEW i \in DOMAIN waiting
  PROVE  waiting[i] \in Walk /\ i \in 1..Len(waiting)
OBVIOUS

LEMMA DisownedWaits ==
  ASSUME NEW waiting \in Seq(Walk), NEW ids, NEW less, less = Disowned(waiting, ids)
  PROVE  /\ less \in Seq(Walk) /\ DOMAIN less = DOMAIN waiting /\ Len(less) = Len(waiting)
         /\ \A i \in DOMAIN less :
              /\ less[i].call = waiting[i].call /\ less[i].id = waiting[i].id
              /\ less[i].rest = waiting[i].rest
              /\ less[i].mine => waiting[i].mine /\ waiting[i].id \notin ids
<1>1. /\ DOMAIN less = 1..Len(waiting) /\ Len(waiting) \in Nat
      /\ less = [i \in 1..Len(waiting) |->
                   [waiting[i] EXCEPT !.mine = @ /\ waiting[i].id \notin ids]]
  BY DEF Disowned
<1>2. ASSUME NEW i \in 1..Len(waiting)
      PROVE  /\ less[i] \in Walk
             /\ less[i].call = waiting[i].call /\ less[i].id = waiting[i].id
             /\ less[i].rest = waiting[i].rest
             /\ less[i].mine => waiting[i].mine /\ waiting[i].id \notin ids
  <2>1. PICK w : w = waiting[i]
    OBVIOUS
  <2>2. w \in Walk
    BY <2>1
  <2>3. less[i] = [w EXCEPT !.mine = @ /\ w.id \notin ids]
    BY <1>1, <2>1
  <2> QED BY <2>1, <2>2, <2>3 DEF Walk
<1>3. less \in Seq(Walk)
  BY <1>1, <1>2
<1>4. Len(less) = Len(waiting)
  BY <1>1, <1>3
<1>5. DOMAIN less = 1..Len(waiting) /\ DOMAIN less = DOMAIN waiting
  BY <1>1
<1>6. \A i \in DOMAIN less :
        /\ less[i].call = waiting[i].call /\ less[i].id = waiting[i].id
        /\ less[i].rest = waiting[i].rest
        /\ less[i].mine => waiting[i].mine /\ waiting[i].id \notin ids
  BY <1>2, <1>5
<1> QED BY <1>3, <1>4, <1>5, <1>6

LEMMA RegisteredEntry ==
  ASSUME NEW entries, Entered(entries), NEW id, NEW plan \in Plan
  PROVE  /\ Registered(id, plan, entries) \in Entry
         /\ Registered(id, plan, entries).active => Registered(id, plan, entries).everCreated
         /\ id \in DOMAIN entries =>
              (Registered(id, plan, entries).everCreated <=> entries[id].everCreated)
<1>1. CASE id \in DOMAIN entries
  <2>1. entries[id] \in Entry /\ (entries[id].active => entries[id].everCreated)
    BY <1>1 DEF Entered
  <2> QED BY <1>1, <2>1 DEF Registered, Entry, Plan
<1>2. CASE id \notin DOMAIN entries
  BY <1>2 DEF Registered, Entry, Plan
<1> QED BY <1>1, <1>2

\* The plans S of a map of plans.
LEMMA PlansParts ==
  ASSUME NEW plans \in Plans
  PROVE  /\ DOMAIN plans \subseteq Core!Serials
         /\ \A s \in DOMAIN plans : plans[s] \in Plan
         /\ \A S : S \subseteq DOMAIN plans => Restrict(plans, S) \in Plans
         /\ \A S : S \subseteq DOMAIN plans =>
              /\ DOMAIN Restrict(plans, S) = S
              /\ \A s \in S : Restrict(plans, S)[s] = plans[s]
<1>1. PICK D \in SUBSET Core!Serials : plans \in [D -> Plan]
  BY DEF Plans
<1>2. ASSUME NEW S, S \subseteq DOMAIN plans
      PROVE  Restrict(plans, S) \in [S -> Plan] /\ S \in SUBSET Core!Serials
  BY <1>1, <1>2 DEF Restrict
<1>3. \A S : S \subseteq DOMAIN plans => Restrict(plans, S) \in Plans
  BY <1>2 DEF Plans
<1> QED BY <1>1, <1>2, <1>3 DEF Restrict

\* A walk may be put among those that wait.
LEMMA WalkJoins ==
  ASSUME NEW waiting \in Seq(Walk), NEW w \in Walk, NEW longer, longer = Append(waiting, w)
  PROVE  /\ longer \in Seq(Walk)
         /\ \A i \in DOMAIN longer : longer[i] = w \/ \E k \in DOMAIN waiting : longer[i] = waiting[k]
<1>1. longer \in Seq(Walk) /\ DOMAIN longer = 1..Len(waiting) + 1
  OBVIOUS
<1>2. ASSUME NEW i \in DOMAIN longer
      PROVE  longer[i] = w \/ \E k \in DOMAIN waiting : longer[i] = waiting[k]
  BY <1>1
<1> QED BY <1>1, <1>2

\* Taking a walk away leaves the others.
LEMMA WalkGone ==
  ASSUME NEW waiting \in Seq(Walk), NEW i \in DOMAIN waiting,
         NEW others, others = RemoveAt(waiting, i)
  PROVE  /\ others \in Seq(Walk) /\ Len(others) < Len(waiting)
         /\ \A j \in DOMAIN others : \E k \in DOMAIN waiting : others[j] = waiting[k]
<1>1. PICK before, after : /\ before = SubSeq(waiting, 1, i - 1)
                           /\ after = SubSeq(waiting, i + 1, Len(waiting))
                           /\ others = before \o after
  BY DEF RemoveAt
<1>2. /\ i \in 1..Len(waiting) /\ Len(waiting) \in Nat /\ i - 1 \in Int /\ i + 1 \in Int
      /\ \A j \in 1..Len(waiting) : waiting[j] \in Walk
  OBVIOUS
<1>3. /\ before \in Seq(Walk) /\ Len(before) = i - 1
      /\ \A j \in 1..i - 1 : before[j] = waiting[j]
  <2>1. PICK n : n = i - 1
    OBVIOUS
  <2>2. n \in Int /\ 1 \in Int /\ \A j \in 1..n : waiting[j] \in Walk
    BY <1>2, <2>1
  <2>3. PICK head : head = SubSeq(waiting, 1, n)
    OBVIOUS
  <2>4. /\ head \in Seq(Walk) /\ Len(head) = IF 1 <= n THEN n - 1 + 1 ELSE 0
        /\ \A j \in 1..n - 1 + 1 : head[j] = waiting[1 + j - 1]
    BY <2>2, <2>3, SubSeqProperties
  <2>5. before = head /\ n - 1 + 1 = n /\ \A j \in 1..n : 1 + j - 1 = j
    BY <1>1, <1>2, <2>1, <2>3
  <2>6. Len(head) = n
    BY <1>2, <2>1, <2>4
  <2> QED BY <2>1, <2>4, <2>5, <2>6
<1>4. /\ after \in Seq(Walk) /\ Len(after) = Len(waiting) - i
      /\ \A j \in 1..Len(waiting) - i : after[j] = waiting[i + j]
  <2>1. PICK m, n : m = i + 1 /\ n = Len(waiting)
    OBVIOUS
  <2>2. m \in Int /\ n \in Int /\ \A j \in m..n : waiting[j] \in Walk
    BY <1>2, <2>1
  <2>3. PICK tail : tail = SubSeq(waiting, m, n)
    OBVIOUS
  <2>4. /\ tail \in Seq(Walk) /\ Len(tail) = IF m <= n THEN n - m + 1 ELSE 0
        /\ \A j \in 1..n - m + 1 : tail[j] = waiting[m + j - 1]
    BY <2>2, <2>3, SubSeqProperties
  <2>5. after = tail
    BY <1>1, <2>1, <2>3
  <2>6. i \in Nat /\ n \in Nat /\ m = i + 1 /\ i <= n
    BY <1>2, <2>1
  <2>7. n - m + 1 = n - i /\ \A j \in 1..n - i : m + j - 1 = i + j
    BY <2>6
  <2>8. Len(tail) = n - i
    BY <2>4, <2>6
  <2>9. \A j \in 1..n - i : tail[j] = waiting[i + j]
    BY <2>4, <2>7
  <2> QED BY <2>1, <2>4, <2>5, <2>8, <2>9
<1>5. /\ others \in Seq(Walk) /\ Len(others) = Len(waiting) - 1
      /\ \A j \in 1..Len(waiting) - 1 :
           others[j] = IF j <= i - 1 THEN before[j] ELSE after[j - (i - 1)]
  <2>1. /\ before \o after \in Seq(Walk) /\ Len(before \o after) = Len(before) + Len(after)
        /\ \A j \in 1..Len(before) + Len(after) :
             (before \o after)[j] = IF j <= Len(before) THEN before[j] ELSE after[j - Len(before)]
    BY <1>3, <1>4, ConcatProperties
  <2>2. Len(before) = i - 1 /\ Len(before) + Len(after) = Len(waiting) - 1
    BY <1>2, <1>3, <1>4
  <2> QED BY <1>1, <2>1, <2>2
<1>6. ASSUME NEW j \in 1..Len(waiting) - 1
      PROVE  \E k \in 1..Len(waiting) : others[j] = waiting[k]
  <2>1. CASE j <= i - 1
    <3>1. j \in 1..i - 1 /\ j \in 1..Len(waiting)
      BY <1>2, <2>1
    <3>2. others[j] = before[j]
      BY <1>5, <2>1
    <3>3. others[j] = waiting[j]
      BY <1>3, <3>1, <3>2
    <3> QED BY <3>1, <3>3
  <2>2. CASE ~(j <= i - 1)
    <3>1. PICK l : l = j - (i - 1)
      OBVIOUS
    <3>2. l \in 1..Len(waiting) - i /\ i + l \in 1..Len(waiting)
      BY <1>2, <2>2, <3>1
    <3>3. others[j] = after[l]
      BY <1>5, <2>2, <3>1
    <3>4. others[j] = waiting[i + l]
      BY <1>4, <3>2, <3>3
    <3> QED BY <3>2, <3>4
  <2> QED BY <2>1, <2>2
<1>7. DOMAIN others = 1..Len(waiting) - 1 /\ DOMAIN waiting = 1..Len(waiting)
  BY <1>5
<1>8. Len(others) < Len(waiting)
  BY <1>2, <1>5
<1> QED BY <1>5, <1>6, <1>7, <1>8

\* What a walk leaves when it reaches its next await, or its end.
Reached(c, plans, seats, entries, waiting, deletes) ==
  /\ Entered(registry') /\ Waits(walks', registry') /\ Len(walks') <= MaxWalks
  /\ ending' \subseteq Ids
  /\ DOMAIN current' = Calls /\ \A d \in Calls \ {c} : current'[d] = current[d]
  /\ DOMAIN current'[c] = DOMAIN seats
  /\ \A s \in DOMAIN seats : current'[c][s] \in Core!Revisions \cup {0}
  /\ Single(c, current'[c], registry')
  /\ \A id \in DOMAIN registry' :
       id \in DOMAIN entries \/ (id[1] = c /\ id[2] \in DOMAIN plans)
  /\ \A i \in DOMAIN walks' :
       \/ \E k \in DOMAIN waiting :
            walks'[i].call = waiting[k].call /\ walks'[i].rest = waiting[k].rest
       \/ walks'[i].call = c /\ DOMAIN walks'[i].rest \subseteq DOMAIN plans
  /\ \A id : Held(id, entries, deletes) => Held(id, registry', ending')

LEMMA Applied ==
  ASSUME NEW c \in Calls, NEW plans \in Plans, NEW seats, NEW entries, NEW waiting, NEW deletes,
         \A s \in DOMAIN seats : seats[s] \in Core!Revisions \cup {0},
         DOMAIN current = Calls, Entered(entries), Waits(waiting, entries),
         deletes \subseteq Ids, Single(c, seats, entries),
         applyIngestPlans(c, plans, seats, entries, waiting, deletes)
  PROVE  Reached(c, plans, seats, entries, waiting, deletes)
<1> DEFINE stops  == {s \in DOMAIN plans : Awaits(Id(c, s, plans[s].media), plans[s], entries)}
           walked == {s \in DOMAIN plans : \A t \in stops : s <= t}
           named  == {Id(c, s, plans[s].media) : s \in walked}
           gone   == Superseded(c, Restrict(plans, walked), seats, entries)
           others == Disowned(waiting, gone \cup named)
<1>a. registry' = [id \in (DOMAIN entries \ gone) \cup named |->
                     IF id \in named THEN Registered(id, plans[id[2]], entries)
                                     ELSE entries[id]]
  BY DEF applyIngestPlans
<1>b. current' = [current EXCEPT ![c] =
                    [s \in DOMAIN seats |-> IF s \in walked THEN plans[s].media
                                                            ELSE seats[s]]]
  BY DEF applyIngestPlans
<1>c. ending' = deletes \cup Deletable(entries, gone) /\ Len(walks') <= MaxWalks
  BY DEF applyIngestPlans
<1>d. IF stops = {}
      THEN walks' = others
      ELSE \E s \in stops \cap walked :
             walks' = Append(others, [call |-> c, id |-> Id(c, s, plans[s].media),
                                      mine |-> TRUE,
                                      rest |-> Restrict(plans, DOMAIN plans \ walked)])
  BY DEF applyIngestPlans
<1>e. /\ walked \subseteq DOMAIN plans
      /\ named = {Id(c, s, plans[s].media) : s \in walked}
      /\ gone = Superseded(c, Restrict(plans, walked), seats, entries)
      /\ others = Disowned(waiting, gone \cup named)
  OBVIOUS
<1> HIDE DEF stops, walked, named, gone, others
<1>1. /\ walked \subseteq DOMAIN plans
      /\ named = {Id(c, s, plans[s].media) : s \in walked}
      /\ gone = Superseded(c, Restrict(plans, walked), seats, entries)
      /\ others = Disowned(waiting, gone \cup named)
      /\ registry' = [id \in (DOMAIN entries \ gone) \cup named |->
                        IF id \in named THEN Registered(id, plans[id[2]], entries)
                                        ELSE entries[id]]
      /\ current' = [current EXCEPT ![c] =
                       [s \in DOMAIN seats |-> IF s \in walked THEN plans[s].media
                                                               ELSE seats[s]]]
      /\ ending' = deletes \cup Deletable(entries, gone)
      /\ \/ walks' = others
         \/ \E s \in walked :
              walks' = Append(others, [call |-> c, id |-> Id(c, s, plans[s].media),
                                       mine |-> TRUE,
                                       rest |-> Restrict(plans, DOMAIN plans \ walked)])
      /\ Len(walks') <= MaxWalks
  BY <1>a, <1>b, <1>c, <1>d, <1>e
<1>2. /\ DOMAIN plans \subseteq Core!Serials
      /\ \A s \in DOMAIN plans : plans[s] \in Plan /\ plans[s].media \in Core!Revisions
  BY PlansParts DEF Plan
<1>3. /\ named \subseteq Ids
      /\ \A id \in named : /\ id[1] = c /\ id[2] \in walked /\ id[3] = plans[id[2]].media
                           /\ plans[id[2]] \in Plan
      /\ \A s \in walked : Id(c, s, plans[s].media) \in named
  BY <1>1, <1>2, IdParts
<1>4. \A id : id \in gone <=>
        /\ id \in DOMAIN entries
        /\ \E s \in walked : /\ s \in DOMAIN seats /\ seats[s] # plans[s].media
                             /\ id = Id(c, s, seats[s])
  <2>1. /\ DOMAIN Restrict(plans, walked) = walked
        /\ \A s \in walked : Restrict(plans, walked)[s] = plans[s]
    BY <1>1, PlansParts
  <2>2. PICK some : some = Restrict(plans, walked)
    OBVIOUS
  <2>3. gone = {Id(c, s, seats[s]) :
                  s \in {t \in walked \cap DOMAIN seats : seats[t] # plans[t].media}}
               \cap DOMAIN entries
    <3>1. gone = {Id(c, s, seats[s]) :
                    s \in {t \in DOMAIN some \cap DOMAIN seats : seats[t] # some[t].media}}
                 \cap DOMAIN entries
      BY <1>1, <2>2 DEF Superseded
    <3> QED BY <2>1, <2>2, <3>1
  <2> QED BY <2>3
<1>5. DOMAIN registry' = (DOMAIN entries \ gone) \cup named
  BY <1>1
<1>6. /\ \A id \in named : registry'[id] = Registered(id, plans[id[2]], entries)
      /\ \A id \in DOMAIN entries \ gone : id \notin named => registry'[id] = entries[id]
  BY <1>1
<1>7. Entered(registry')
  <2>1. DOMAIN registry' \subseteq Ids
    BY <1>3, <1>5 DEF Entered
  <2>2. ASSUME NEW id \in DOMAIN registry'
        PROVE  registry'[id] \in Entry /\ (registry'[id].active => registry'[id].everCreated)
    <3>1. CASE id \in named
      BY <1>3, <1>6, <3>1, RegisteredEntry
    <3>2. CASE id \notin named
      BY <1>5, <1>6, <3>2 DEF Entered
    <3> QED BY <3>1, <3>2
  <2> QED BY <2>1, <2>2 DEF Entered
<1>8. /\ others \in Seq(Walk) /\ DOMAIN others = DOMAIN waiting
      /\ \A i \in DOMAIN others :
           /\ others[i].call = waiting[i].call /\ others[i].rest = waiting[i].rest
           /\ others[i].mine => others[i].id \in DOMAIN registry'
  <2>1. waiting \in Seq(Walk) /\ \A i \in DOMAIN waiting : waiting[i].mine => waiting[i].id \in DOMAIN entries
    BY DEF Waits
  <2>2. /\ others \in Seq(Walk) /\ DOMAIN others = DOMAIN waiting
        /\ \A i \in DOMAIN others :
             /\ others[i].call = waiting[i].call /\ others[i].id = waiting[i].id
             /\ others[i].rest = waiting[i].rest
             /\ others[i].mine => waiting[i].mine /\ waiting[i].id \notin gone \cup named
    BY <1>1, <2>1, DisownedWaits
  <2> QED BY <1>5, <2>1, <2>2
<1>9. /\ walks' \in Seq(Walk)
      /\ \A i \in DOMAIN walks' :
           /\ walks'[i].mine => walks'[i].id \in DOMAIN registry'
           /\ \/ \E k \in DOMAIN waiting :
                   walks'[i].call = waiting[k].call /\ walks'[i].rest = waiting[k].rest
              \/ walks'[i].call = c /\ DOMAIN walks'[i].rest \subseteq DOMAIN plans
  <2>1. CASE walks' = others
    BY <1>8, <2>1
  <2>2. CASE walks' # others
    <3> DEFINE Waiting(s) == [call |-> c, id |-> Id(c, s, plans[s].media), mine |-> TRUE,
                              rest |-> Restrict(plans, DOMAIN plans \ walked)]
    <3>0. PICK s \in walked : walks' = Append(others, Waiting(s))
      BY <1>1, <2>2
    <3>1. PICK w : w = Waiting(s) /\ walks' = Append(others, w)
      BY <3>0
    <3>2. /\ Restrict(plans, DOMAIN plans \ walked) \in Plans
          /\ DOMAIN Restrict(plans, DOMAIN plans \ walked) \subseteq DOMAIN plans
      BY PlansParts
    <3>3. Id(c, s, plans[s].media) \in named /\ Id(c, s, plans[s].media) \in Ids
      BY <1>3
    <3>4. /\ w \in Walk /\ w.call = c /\ DOMAIN w.rest \subseteq DOMAIN plans
          /\ w.id \in DOMAIN registry'
      BY <1>5, <3>0, <3>1, <3>2, <3>3 DEF Walk
    <3>5. /\ walks' \in Seq(Walk)
          /\ \A i \in DOMAIN walks' : walks'[i] = w \/ \E k \in DOMAIN others : walks'[i] = others[k]
      BY <1>8, <3>1, <3>4, WalkJoins
    <3> QED BY <1>8, <3>4, <3>5
  <2> QED BY <2>1, <2>2
<1>10. ending' \subseteq Ids
  BY <1>1 DEF Deletable, Entered, Superseded
<1>11. /\ DOMAIN current' = Calls /\ \A d \in Calls \ {c} : current'[d] = current[d]
       /\ DOMAIN current'[c] = DOMAIN seats
       /\ \A s \in DOMAIN seats : current'[c][s] = IF s \in walked THEN plans[s].media ELSE seats[s]
  BY <1>1
<1>12. \A s \in DOMAIN seats : current'[c][s] \in Core!Revisions \cup {0}
  BY <1>1, <1>2, <1>11
<1>13. Single(c, current'[c], registry')
  <2> SUFFICES ASSUME NEW id \in DOMAIN registry', id[1] = c, id[2] \in DOMAIN seats
               PROVE  id[3] = current'[c][id[2]]
    BY <1>11 DEF Single
  <2>1. CASE id \in named
    BY <1>3, <1>11, <2>1
  <2>2. CASE id \notin named
    <3>1. id \in DOMAIN entries /\ id \notin gone /\ id \in Ids
      BY <1>5, <2>2 DEF Entered
    <3>2. id[3] = seats[id[2]] /\ id = Id(c, id[2], seats[id[2]])
      BY <3>1, IdParts DEF Single
    <3>3. ASSUME id[2] \in walked PROVE FALSE
      <4>1. seats[id[2]] = plans[id[2]].media
        BY <1>4, <3>1, <3>2, <3>3
      <4> QED BY <1>3, <2>2, <3>2, <3>3, <4>1
    <3> QED BY <1>11, <3>2, <3>3
  <2> QED BY <2>1, <2>2
<1>14. \A id \in DOMAIN registry' :
         id \in DOMAIN entries \/ (id[1] = c /\ id[2] \in DOMAIN plans)
  BY <1>1, <1>3, <1>5
<1>15. ASSUME NEW id, Held(id, entries, deletes)
       PROVE  Held(id, registry', ending')
  <2>1. CASE id \in deletes
    BY <1>1, <2>1 DEF Held
  <2>2. CASE id \in DOMAIN entries /\ entries[id].everCreated /\ id \in gone
    BY <1>1, <2>2 DEF Held, Deletable
  <2>3. CASE id \in DOMAIN entries /\ entries[id].everCreated /\ id \notin gone
    <3>1. CASE id \in named
      BY <1>3, <1>5, <1>6, <2>3, <3>1, RegisteredEntry DEF Held
    <3>2. CASE id \notin named
      BY <1>5, <1>6, <2>3, <3>2 DEF Held
    <3> QED BY <3>1, <3>2
  <2> QED BY <1>15, <2>1, <2>2, <2>3 DEF Held
<1>16. Waits(walks', registry') /\ Len(walks') <= MaxWalks
  BY <1>1, <1>9 DEF Waits
<1> QED BY <1>7, <1>9, <1>10, <1>11, <1>12, <1>13, <1>14, <1>15, <1>16 DEF Reached

-----------------------------------------------------------------------------
(* The registry, the participants and the store together.                  *)

Participants(c) == IF c \in DOMAIN calls THEN Party(calls[c]) ELSE {}
Marked(seats) == \A s \in DOMAIN seats : seats[s] \in Core!Revisions \cup {0}

IngestInv ==
  /\ StoreInv
  /\ Entered(registry) /\ Waits(walks, registry) /\ Len(walks) <= MaxWalks
  /\ sessions \subseteq Ids /\ ending \subseteq Ids
  /\ DOMAIN current = Calls
  /\ \A c \in Calls : /\ Marked(current[c]) /\ DOMAIN current[c] = Participants(c)
                      /\ Single(c, current[c], registry)
  /\ \A c \in DOMAIN calls : AgedIn(c, calls[c], registry, walks)

\* Nothing the runtime holds of the call is ahead of what the call becomes.
StillAged(c) == c \in DOMAIN calls' => AgedIn(c, calls'[c], registry, walks)

\* The walks are among those that waited before.
Drawn(waiting) ==
  \A i \in DOMAIN waiting : \E k \in DOMAIN walks :
    waiting[i].call = walks[k].call /\ waiting[i].rest = walks[k].rest

\* What is new in the registry and the walks is about these seats of the call.
NewsOf(c, S) ==
  /\ \A id \in DOMAIN registry' : id \in DOMAIN registry \/ (id[1] = c /\ id[2] \in S)
  /\ \A i \in DOMAIN walks' :
       \/ \E k \in DOMAIN walks :
            walks'[i].call = walks[k].call /\ walks'[i].rest = walks[k].rest
       \/ walks'[i].call = c /\ DOMAIN walks'[i].rest \subseteq S

Known(c, S) == c \in DOMAIN calls' => \A s \in S : Old(calls'[c], s)

\* The runtime's half of a step of call c.
RuntimeMoves(c) ==
  /\ Entered(registry') /\ Waits(walks', registry') /\ Len(walks') <= MaxWalks
  /\ sessions' \subseteq Ids /\ ending' \subseteq Ids
  /\ DOMAIN current' = Calls /\ \A d \in Calls \ {c} : current'[d] = current[d]
  /\ Marked(current'[c]) /\ DOMAIN current'[c] = Participants(c)'
  /\ Single(c, current'[c], registry')

LEMMA InStep ==
  ASSUME IngestInv, NEW c \in Calls, StoreInv', Elsewhere(c), StillAged(c), RuntimeMoves(c),
         NEW S, NewsOf(c, S), Known(c, S)
  PROVE  IngestInv'
<1>1. ASSUME NEW d \in Calls
      PROVE  /\ Marked(current'[d]) /\ DOMAIN current'[d] = Participants(d)'
             /\ Single(d, current'[d], registry')
  <2>1. CASE d = c
    BY <2>1 DEF RuntimeMoves
  <2>2. CASE d # c
    <3>1. current'[d] = current[d]
      BY <2>2 DEF RuntimeMoves
    <3>2. Participants(d)' = Participants(d)
      BY <2>2 DEF Participants, Elsewhere
    <3>3. Single(d, current[d], registry')
      BY <2>2 DEF IngestInv, Single, NewsOf
    <3> QED BY <3>1, <3>2, <3>3 DEF IngestInv
  <2> QED BY <2>1, <2>2
<1>2. ASSUME NEW d \in DOMAIN calls'
      PROVE  AgedIn(d, calls'[d], registry', walks')
  <2>1. AgedIn(d, calls'[d], registry, walks)
    <3>1. CASE d = c
      BY <3>1 DEF StillAged
    <3>2. CASE d # c
      BY <3>2 DEF Elsewhere, IngestInv
    <3> QED BY <3>1, <3>2
  <2>2. d = c => \A s \in S : Old(calls'[d], s)
    BY DEF Known
  <2>3. ASSUME NEW id \in DOMAIN registry', id[1] = d
        PROVE  Old(calls'[d], id[2])
    BY <2>1, <2>2, <2>3 DEF AgedIn, NewsOf
  <2>4. ASSUME NEW i \in DOMAIN walks', walks'[i].call = d, NEW s \in DOMAIN walks'[i].rest
        PROVE  Old(calls'[d], s)
    <3>1. CASE \E k \in DOMAIN walks :
                 walks'[i].call = walks[k].call /\ walks'[i].rest = walks[k].rest
      BY <2>1, <2>4, <3>1 DEF AgedIn
    <3>2. CASE walks'[i].call = c /\ DOMAIN walks'[i].rest \subseteq S
      BY <2>2, <2>4, <3>2
    <3> QED BY <3>1, <3>2 DEF NewsOf
  <2> QED BY <2>3, <2>4 DEF AgedIn
<1> QED BY <1>1, <1>2 DEF IngestInv, RuntimeMoves

\* A step that ends in a walk over plans for seats the call knows.
LEMMA Settled ==
  ASSUME IngestInv, NEW c \in Calls, StoreInv', Elsewhere(c), StillAged(c),
         NEW seats, Marked(seats), DOMAIN seats = Participants(c)',
         NEW entries, Entered(entries), DOMAIN entries \subseteq DOMAIN registry,
         NEW waiting, Waits(waiting, entries), Drawn(waiting),
         NEW deletes, deletes \subseteq Ids, Single(c, seats, entries),
         NEW plans \in Plans, Known(c, DOMAIN plans),
         applyIngestPlans(c, plans, seats, entries, waiting, deletes),
         sessions' \subseteq Ids
  PROVE  /\ IngestInv'
         /\ \A id : Held(id, entries, deletes) => Held(id, registry', ending')
<1>1. DOMAIN current = Calls /\ \A s \in DOMAIN seats : seats[s] \in Core!Revisions \cup {0}
  BY DEF IngestInv, Marked
<1>2. Reached(c, plans, seats, entries, waiting, deletes)
  BY <1>1, Applied
<1>3. RuntimeMoves(c)
  BY <1>2 DEF Reached, RuntimeMoves, Marked
<1>4. NewsOf(c, DOMAIN plans)
  <2>1. ASSUME NEW i \in DOMAIN walks'
        PROVE  \/ \E k \in DOMAIN walks :
                    walks'[i].call = walks[k].call /\ walks'[i].rest = walks[k].rest
               \/ walks'[i].call = c /\ DOMAIN walks'[i].rest \subseteq DOMAIN plans
    BY <1>2 DEF Reached, Drawn
  <2>2. \A id \in DOMAIN registry' :
          id \in DOMAIN registry \/ (id[1] = c /\ id[2] \in DOMAIN plans)
    BY <1>2 DEF Reached
  <2> QED BY <2>1, <2>2 DEF NewsOf
<1>5. IngestInv'
  BY <1>3, <1>4, InStep
<1> QED BY <1>2, <1>5 DEF Reached

-----------------------------------------------------------------------------
(* The plans a step hands to the walk.                                     *)

LEMMA PlansMade ==
  ASSUME NEW c, StoreInv', c \in DOMAIN calls', NEW S, S \subseteq Party(calls'[c])
  PROVE  plansFor(c, S) \in Plans /\ DOMAIN plansFor(c, S) = S /\ Known(c, S)
<1>1. /\ Whole(calls'[c]) /\ Core!WithinBounds(calls'[c])
  BY DEF StoreInv
<1>2. \A s \in S : /\ s \in Core!Serials /\ calls'[c].seats[s].media \in Core!Revisions
                   /\ calls'[c].seats[s].lang \in Core!LanguageRevisions
  BY <1>1 DEF Core!WithinBounds, Party
<1>3. \A s \in S : planFor(calls'[c], s) \in Plan
  BY <1>2 DEF planFor, Plan
<1>4. plansFor(c, S) \in [S -> Plan] /\ S \in SUBSET Core!Serials
  BY <1>2, <1>3 DEF plansFor
<1>5. \A s \in S : Old(calls'[c], s)
  BY <1>1 DEF Party, Whole, Shaped, Old
<1> QED BY <1>4, <1>5 DEF Plans, Known

LEMMA PresentAreParty == \A c : Present(c) \subseteq Party(calls'[c])
BY DEF Present, Core!Seated, Core!isSeated, Party, Core!Knocking

LEMMA AgedStays ==
  ASSUME IngestInv, NEW c \in DOMAIN calls, NEW party, GoesOn(c, party)
  PROVE  StillAged(c)
BY DEF IngestInv, GoesOn, StillAged, AgedIn

LEMMA AgedFresh ==
  ASSUME NEW c, Unused(c)
  PROVE  StillAged(c)
BY DEF Unused, IdsOf, StillAged, AgedIn

LEMMA PlainRuntime ==
  ASSUME IngestInv
  PROVE  /\ Entered(registry) /\ Waits(walks, registry) /\ Drawn(walks)
         /\ DOMAIN registry \subseteq DOMAIN registry /\ ending \subseteq Ids /\ sessions \subseteq Ids
BY DEF IngestInv, Drawn

\* What every handler keeps: only answers change what media-ingest holds.
HandlerKeeps ==
  /\ IngestInv' /\ sessions' = sessions
  /\ \A id : Held(id, registry, ending) => Held(id, registry', ending')

\* A handler that plans the seats in S anew with the runtime as it is.
LEMMA ReplannedKeeps ==
  ASSUME IngestInv, NEW c \in Calls, NEW party, Continues(c, party), StillAged(c),
         NEW S, S \subseteq party, NEW seats, Marked(seats), DOMAIN seats = party,
         Single(c, seats, registry), Replanned(c, S, seats)
  PROVE  HandlerKeeps
<1>1. /\ StoreInv' /\ Elsewhere(c) /\ c \in DOMAIN calls' /\ Party(calls'[c]) = party
  BY DEF Continues, GoesOn
<1>2. PICK plans : plans = plansFor(c, S)
  OBVIOUS
<1>3. plans \in Plans /\ Known(c, DOMAIN plans)
  BY <1>1, <1>2, PlansMade
<1>4. DOMAIN seats = Participants(c)'
  BY <1>1 DEF Participants
<1>5. /\ applyIngestPlans(c, plans, seats, registry, walks, ending)
      /\ sessions' = sessions
  BY <1>2 DEF Replanned
<1>6. sessions' \subseteq Ids
  BY <1>5, PlainRuntime
<1>7. IngestInv' /\ \A id : Held(id, registry, ending) => Held(id, registry', ending')
  BY <1>1, <1>3, <1>4, <1>5, <1>6, PlainRuntime, Settled
<1> QED BY <1>5, <1>7 DEF HandlerKeeps

\* The same when the seats of the call are the ones it had.
LEMMA ReplannedAsSeated ==
  ASSUME IngestInv, NEW c \in Calls, c \in DOMAIN calls, Continues(c, Party(calls[c])),
         NEW S, S \subseteq Party(calls[c]), Replanned(c, S, current[c])
  PROVE  HandlerKeeps
<1>1. /\ Marked(current[c]) /\ DOMAIN current[c] = Party(calls[c])
      /\ Single(c, current[c], registry)
  BY DEF IngestInv, Participants
<1>2. GoesOn(c, Party(calls[c]))
  BY DEF Continues
<1>3. StillAged(c)
  BY <1>2, AgedStays
<1> QED BY <1>1, <1>3, ReplannedKeeps

\* And when one seat more is admitted, of which nothing is registered.
LEMMA ReplannedWithNewcomer ==
  ASSUME IngestInv, NEW c \in Calls, NEW s, Continues(c, Participants(c) \cup {s}),
         StillAged(c), \A id \in DOMAIN registry : id[1] = c => id[2] # s,
         NEW S, S \subseteq Participants(c) \cup {s},
         Replanned(c, S, Core!Put(current[c], s, 0))
  PROVE  HandlerKeeps
<1>1. /\ Marked(current[c]) /\ DOMAIN current[c] = Participants(c)
      /\ Single(c, current[c], registry)
  BY DEF IngestInv
<1>2. PICK seats : seats = Core!Put(current[c], s, 0)
  OBVIOUS
<1>3. /\ DOMAIN seats = Participants(c) \cup {s} /\ seats[s] = 0
      /\ \A t \in DOMAIN current[c] \ {s} : seats[t] = current[c][t]
  BY <1>1, <1>2 DEF Core!Put
<1>4. Marked(seats)
  BY <1>1, <1>3 DEF Marked
<1>5. Single(c, seats, registry)
  BY <1>1, <1>3 DEF Single
<1>6. Replanned(c, S, seats)
  BY <1>2
<1> QED BY <1>3, <1>4, <1>5, <1>6, ReplannedKeeps

LEMMA StoreHolds == ASSUME IngestInv PROVE StoreInv
BY DEF IngestInv

LEMMA CompleteJoinKeeps ==
  ASSUME IngestInv, NEW c \in Calls, NEW p, completeJoin(c, p)
  PROVE  HandlerKeeps
<1>1. PICK s : s = calls'[c].next - 1
  OBVIOUS
<1>2. Replanned(c, Present(c), Core!Put(current[c], s, 0))
  BY <1>1 DEF completeJoin
<1>3. CASE Core!joinCall(c, p)
  <2>1. PICK n : n = calls[c].next
    OBVIOUS
  <2>2. c \in DOMAIN calls /\ Continues(c, Party(calls[c]) \cup {n}) /\ calls'[c].next = n + 1
    BY <1>3, <2>1, JoinMoves, StoreHolds
  <2>3. n \in Nat /\ s = n
    <3>1. Whole(calls[c])
      BY <2>2, LiveCall, StoreHolds
    <3>2. n \in Nat
      BY <2>1, <3>1 DEF Whole, Shaped
    <3> QED BY <1>1, <2>2, <3>2
  <2>4. StillAged(c)
    BY <2>2, AgedStays DEF Continues
  <2>5. \A id \in DOMAIN registry : id[1] = c => id[2] # s
    <3>1. AgedIn(c, calls[c], registry, walks)
      BY <2>2 DEF IngestInv
    <3>2. \A id \in DOMAIN registry : id[1] = c => id[2] \in Nat /\ id[2] < n
      BY <2>1, <3>1 DEF AgedIn, Old
    <3> QED BY <2>3, <3>2
  <2>6. Participants(c) = Party(calls[c])
    BY <2>2 DEF Participants
  <2>7. Continues(c, Participants(c) \cup {s})
    BY <2>2, <2>3, <2>6
  <2>8. Present(c) \subseteq Participants(c) \cup {s}
    BY <2>7, PresentAreParty DEF Continues, GoesOn
  <2> QED BY <1>2, <2>4, <2>5, <2>7, <2>8, ReplannedWithNewcomer
<1>4. CASE Unused(c) /\ \E setup \in Setups : Core!createByJoin(c, p, setup)
  <2>1. c \notin DOMAIN calls /\ Continues(c, {1}) /\ calls'[c].next = 2
    BY <1>4, CreateByJoinMoves, StoreHolds
  <2>2. s = 1 /\ Participants(c) = {}
    BY <1>1, <2>1 DEF Participants
  <2>3. StillAged(c)
    BY <1>4, AgedFresh
  <2>4. \A id \in DOMAIN registry : id[1] = c => id[2] # s
    BY <1>4 DEF Unused, IdsOf
  <2>5. Participants(c) \cup {s} = {1}
    BY <2>2
  <2>6. Continues(c, Participants(c) \cup {s})
    BY <2>1, <2>5
  <2>7. Present(c) \subseteq Participants(c) \cup {s}
    BY <2>6, PresentAreParty DEF Continues, GoesOn
  <2> QED BY <1>2, <2>3, <2>4, <2>6, <2>7, ReplannedWithNewcomer
<1> QED BY <1>3, <1>4 DEF completeJoin

LEMMA HandleAdmitKeeps ==
  ASSUME IngestInv, NEW c \in Calls, NEW host, NEW s, handleAdmit(c, host, s)
  PROVE  HandlerKeeps
<1>1. Core!admitKnock(c, host, s) /\ Replanned(c, Present(c), Core!Put(current[c], s, 0))
  BY DEF handleAdmit
<1>2. /\ c \in DOMAIN calls /\ s \in Core!Knocking(calls[c])
      /\ Continues(c, Party(calls[c]) \cup {s})
  BY <1>1, AdmitKnockMoves, StoreHolds
<1>3. Participants(c) = Party(calls[c])
  BY <1>2 DEF Participants
<1>4. StillAged(c)
  BY <1>2, AgedStays DEF Continues
<1>5. \A id \in DOMAIN registry : id[1] = c => id[2] # s
  BY <1>2 DEF IngestInv, AgedIn, Old
<1>6. Present(c) \subseteq Participants(c) \cup {s}
  BY <1>2, <1>3, PresentAreParty DEF Continues, GoesOn
<1>7. Continues(c, Participants(c) \cup {s})
  BY <1>2, <1>3
<1> QED BY <1>1, <1>4, <1>5, <1>6, <1>7, ReplannedWithNewcomer

\* A handler that moves settings and plans everybody present.
LEMMA SettingKeeps ==
  ASSUME IngestInv, NEW c \in Calls, c \in DOMAIN calls, Continues(c, Party(calls[c])),
         Replanned(c, Present(c), current[c])
  PROVE  HandlerKeeps
<1>1. Present(c) \subseteq Party(calls[c])
  BY PresentAreParty DEF Continues, GoesOn
<1> QED BY <1>1, ReplannedAsSeated

LEMMA ResumeSeatKeeps ==
  ASSUME IngestInv, NEW c \in Calls, NEW s, NEW audio, NEW captions,
         resumeSeat(c, s, audio, captions)
  PROVE  HandlerKeeps
BY ResumeMoves, StoreHolds, SettingKeeps DEF resumeSeat

LEMMA CaptionLanguageKeeps ==
  ASSUME IngestInv, NEW c \in Calls, NEW s, NEW wanted, handleSetCaptionLanguage(c, s, wanted)
  PROVE  HandlerKeeps
BY SetCaptionLanguageMoves, StoreHolds, SettingKeeps DEF handleSetCaptionLanguage

\* Only seats present are superseded by a setting or a leave.
LEMMA BumpedOthers ==
  ASSUME NEW call, Whole(call), NEW S, NEW after, after = Core!Bumped(call, S)
  PROVE  /\ Party(after) = Party(call) /\ DOMAIN after.seats = DOMAIN call.seats
         /\ \A s \in DOMAIN call.seats : s \notin S => after.seats[s] = call.seats[s]
<1>1. PICK m : m = [s \in DOMAIN call.seats |->
                      IF s \in S THEN [call.seats[s] EXCEPT !.media = @ + 1]
                      ELSE call.seats[s]]
  OBVIOUS
<1>2. after = [call EXCEPT !.seats = m]
  BY <1>1 DEF Core!Bumped
<1>3. after.seats = m
  BY <1>2 DEF Whole, Shaped
<1>4. DOMAIN m = DOMAIN call.seats /\ \A s \in DOMAIN call.seats : s \notin S => m[s] = call.seats[s]
  BY <1>1
<1> QED BY <1>3, <1>4, BumpedSame, SameSeatsParty

LEMMA MovedArePresent == \A before, after : Core!Moved(before, after) \subseteq Party(after)
BY DEF Core!Moved, Core!Seated, Core!isSeated, Party, Core!Knocking

LEMMA SetAudioModeBumps ==
  ASSUME StoreInv, NEW c \in Calls, NEW s, NEW audio, Core!setAudioMode(c, s, audio)
  PROVE  BumpedSeats(c) \subseteq Party(calls'[c])
<1>1. c \in DOMAIN calls /\ s \in DOMAIN calls[c].seats
  BY DEF Core!setAudioMode, Core!Seated
<1>2. PICK call, seat, tuned, set : /\ call = calls[c] /\ seat = call.seats[s]
                                    /\ tuned = [seat EXCEPT !.audio = audio]
                                    /\ set = Core!WithSeat(call, s, tuned)
  OBVIOUS
<1>3. Whole(call) /\ SeatShaped(seat) /\ s \in Nat /\ s < call.next
  BY <1>1, <1>2, LiveCall
<1>4. SeatShaped(tuned) /\ tuned.media = seat.media
  BY <1>2, <1>3 DEF SeatShaped
<1>5. /\ Whole(set) /\ DOMAIN set.seats = DOMAIN call.seats \cup {s} /\ set.seats[s] = tuned
      /\ \A t \in DOMAIN call.seats \ {s} : set.seats[t] = call.seats[t]
  BY <1>2, <1>3, <1>4, WithSeatWhole
<1>6. PICK S, after : /\ S = Core!Moved(call, set) /\ after = Core!Bumped(set, S)
                      /\ Core!Store(c, after, S)
  BY <1>2 DEF Core!setAudioMode
<1>7. /\ Party(after) = Party(set) /\ DOMAIN after.seats = DOMAIN set.seats
      /\ \A t \in DOMAIN set.seats : t \notin S => after.seats[t] = set.seats[t]
  BY <1>5, <1>6, BumpedOthers
<1>8. Whole(after)
  BY <1>5, <1>6, BumpedSame DEF SameSeats
<1>9. calls'[c] = after
  BY <1>6, <1>8, Stored
<1>10. S \subseteq Party(set)
  BY <1>6, MovedArePresent
<1>11. \A t \in DOMAIN call.seats : t \notin S => after.seats[t].media = call.seats[t].media
  <2> SUFFICES ASSUME NEW t \in DOMAIN call.seats, t \notin S
               PROVE  after.seats[t].media = call.seats[t].media
    OBVIOUS
  <2>1. after.seats[t] = set.seats[t]
    BY <1>5, <1>7
  <2>2. CASE t = s
    <3>1. call.seats[s] = seat
      BY <1>2
    <3> QED BY <1>4, <1>5, <2>1, <2>2, <3>1
  <2>3. CASE t # s
    BY <1>5, <2>1, <2>3
  <2> QED BY <2>2, <2>3
<1> QED BY <1>2, <1>7, <1>9, <1>10, <1>11 DEF BumpedSeats

LEMMA LeaveBumps ==
  ASSUME StoreInv, NEW c \in Calls, NEW s, Core!leave(c, s), c \in DOMAIN calls'
  PROVE  BumpedSeats(c) \subseteq Party(calls'[c])
<1>1. c \in DOMAIN calls
  BY DEF Core!leave
<1>2. PICK call, rest, m : /\ call = calls[c] /\ m = Core!Drop(call.seats, s)
                           /\ rest = Without(call, s)
  OBVIOUS
<1>3. ~Core!retire(c)
  BY Retired DEF Closes
<1>4. PICK S, after : /\ S = {} \/ \E present : S = Core!Moved(present, rest)
                      /\ after = Core!Bumped(rest, S) /\ Core!Store(c, after, S)
  BY <1>2, <1>3 DEF Core!leave, Without
<1>5. Whole(rest) /\ DOMAIN rest.seats = DOMAIN call.seats \ {s}
  <2>1. Whole(call)
    BY <1>1, <1>2, LiveCall
  <2>2. rest = Without(call, s)
    BY <1>2
  <2> QED BY <2>1, <2>2, SeatDropped
<1>6. \A t \in DOMAIN rest.seats : rest.seats[t] = call.seats[t]
  <2>1. rest.seats = m
    <3>1. Whole(call)
      BY <1>1, <1>2, LiveCall
    <3>2. rest = [call EXCEPT !.seats = m]
      BY <1>2 DEF Without
    <3> QED BY <3>1, <3>2 DEF Whole, Shaped
  <2>2. \A t \in DOMAIN call.seats \ {s} : m[t] = call.seats[t]
    BY <1>2 DEF Core!Drop, Core!Restrict
  <2> QED BY <1>5, <2>1, <2>2
<1>7. /\ Party(after) = Party(rest) /\ DOMAIN after.seats = DOMAIN rest.seats
      /\ \A t \in DOMAIN rest.seats : t \notin S => after.seats[t] = rest.seats[t]
  BY <1>4, <1>5, BumpedOthers
<1>8. Whole(after)
  BY <1>4, <1>5, BumpedSame DEF SameSeats
<1>9. calls'[c] = after
  BY <1>4, <1>8, Stored
<1>10. S \subseteq Party(rest)
  BY <1>4, MovedArePresent
<1> QED BY <1>2, <1>6, <1>7, <1>9, <1>10 DEF BumpedSeats

LEMMA AudioModeKeeps ==
  ASSUME IngestInv, NEW c \in Calls, NEW s, NEW audio, handleSetAudioMode(c, s, audio)
  PROVE  HandlerKeeps
<1>1. Core!setAudioMode(c, s, audio) /\ Replanned(c, BumpedSeats(c), current[c])
  BY DEF handleSetAudioMode
<1>2. /\ c \in DOMAIN calls /\ Continues(c, Party(calls[c]))
      /\ BumpedSeats(c) \subseteq Party(calls'[c])
  BY <1>1, SetAudioModeMoves, SetAudioModeBumps, StoreHolds
<1>3. BumpedSeats(c) \subseteq Party(calls[c])
  BY <1>2 DEF Continues, GoesOn
<1> QED BY <1>1, <1>2, <1>3, ReplannedAsSeated

\* A step of the store that leaves the runtime as it is, and the participants.
LEMMA IdleKeeps ==
  ASSUME IngestInv, NEW c \in Calls, Continues(c, Participants(c)), StillAged(c),
         UNCHANGED ingest
  PROVE  HandlerKeeps
<1>1. /\ registry' = registry /\ current' = current /\ walks' = walks
      /\ sessions' = sessions /\ ending' = ending
  BY DEF ingest
<1>2. StoreInv' /\ Elsewhere(c) /\ Participants(c)' = Participants(c)
  BY DEF Continues, GoesOn, Participants
<1>3. RuntimeMoves(c)
  BY <1>1, <1>2 DEF IngestInv, RuntimeMoves
<1>4. NewsOf(c, {}) /\ Known(c, {})
  BY <1>1 DEF NewsOf, Known
<1>5. IngestInv'
  BY <1>2, <1>3, <1>4, InStep
<1> QED BY <1>1, <1>5 DEF HandlerKeeps, Held

LEMMA SettleDetectedKeeps ==
  ASSUME IngestInv, NEW c \in Calls, NEW s, NEW l, settleDetectedLanguage(c, s, l)
  PROVE  HandlerKeeps
<1>1. Core!applyDetectedLanguage(c, s, l)
  BY DEF settleDetectedLanguage
<1>2. c \in DOMAIN calls /\ Continues(c, Party(calls[c]))
  BY <1>1, ApplyDetectedLanguageMoves, StoreHolds
<1>3. CASE Replanned(c, Present(c), current[c])
  BY <1>2, <1>3, SettingKeeps
<1>4. CASE UNCHANGED ingest
  <2>1. StillAged(c)
    BY <1>2, AgedStays DEF Continues
  <2>2. Continues(c, Participants(c))
    BY <1>2 DEF Participants
  <2> QED BY <1>4, <2>1, <2>2, IdleKeeps
<1> QED BY <1>3, <1>4 DEF settleDetectedLanguage

\* Retiring leaves every session to a delete, or to the walk that awaits it.
Discharged(ids, entries, waiting, deletes) ==
  /\ Entered(entries) /\ Waits(waiting, entries) /\ Drawn(waiting)
  /\ Len(waiting) = Len(walks)
  /\ DOMAIN entries = DOMAIN registry \ ids /\ deletes \subseteq Ids
  /\ \A id : Held(id, registry, ending) => Held(id, entries, deletes)

LEMMA RetiredEntries ==
  ASSUME IngestInv, NEW ids, ids \subseteq DOMAIN registry,
         NEW entries, entries = Restrict(registry, DOMAIN registry \ ids),
         NEW waiting, waiting = Disowned(walks, ids),
         NEW deletes, deletes = ending \cup Deletable(registry, ids)
  PROVE  Discharged(ids, entries, waiting, deletes)
<1>1. /\ DOMAIN entries = DOMAIN registry \ ids
      /\ \A id \in DOMAIN entries : entries[id] = registry[id]
  BY DEF Restrict
<1>2. Entered(registry) /\ Waits(walks, registry) /\ ending \subseteq Ids
  BY DEF IngestInv
<1>3. Entered(entries)
  BY <1>1, <1>2 DEF Entered
<1>4. /\ waiting \in Seq(Walk) /\ DOMAIN waiting = DOMAIN walks /\ Len(waiting) = Len(walks)
      /\ \A i \in DOMAIN waiting :
           /\ waiting[i].call = walks[i].call /\ waiting[i].id = walks[i].id
           /\ waiting[i].rest = walks[i].rest
           /\ waiting[i].mine => walks[i].mine /\ walks[i].id \notin ids
  BY <1>2, DisownedWaits DEF Waits
<1>5. Waits(waiting, entries)
  BY <1>1, <1>2, <1>4 DEF Waits
<1>6. Drawn(waiting)
  BY <1>4 DEF Drawn
<1>7. deletes \subseteq Ids
  BY <1>2 DEF Deletable, Entered
<1>8. ASSUME NEW id, Held(id, registry, ending)
      PROVE  Held(id, entries, deletes)
  BY <1>1, <1>8 DEF Held, Deletable
<1> QED BY <1>1, <1>3, <1>4, <1>5, <1>6, <1>7, <1>8 DEF Discharged

\* Every entry of the call is retired; the participants may stay.
LEMMA RetireKeeps ==
  ASSUME IngestInv, NEW c \in Calls, StoreInv', Elsewhere(c), StillAged(c),
         retireCallIngestSessions(c), NEW seats, Marked(seats), DOMAIN seats = Participants(c)',
         current' = [current EXCEPT ![c] = seats]
  PROVE  HandlerKeeps
<1>1. /\ registry' = Restrict(registry, DOMAIN registry \ IdsOf(c))
      /\ walks' = Disowned(walks, IdsOf(c))
      /\ ending' = ending \cup Deletable(registry, IdsOf(c)) /\ sessions' = sessions
  BY DEF retireCallIngestSessions
<1>2. IdsOf(c) \subseteq DOMAIN registry /\ \A id \in DOMAIN registry : id[1] = c => id \in IdsOf(c)
  BY DEF IdsOf
<1>3. /\ Entered(registry') /\ Waits(walks', registry') /\ Drawn(walks')
      /\ Len(walks') = Len(walks)
      /\ DOMAIN registry' = DOMAIN registry \ IdsOf(c) /\ ending' \subseteq Ids
      /\ \A id : Held(id, registry, ending) => Held(id, registry', ending')
  <2>1. Discharged(IdsOf(c), registry', walks', ending')
    BY <1>1, <1>2, RetiredEntries
  <2> QED BY <2>1 DEF Discharged
<1>4. /\ DOMAIN current' = Calls /\ \A d \in Calls \ {c} : current'[d] = current[d]
      /\ current'[c] = seats
  BY DEF IngestInv
<1>5. Single(c, seats, registry')
  BY <1>2, <1>3 DEF Single
<1>6. RuntimeMoves(c)
  BY <1>1, <1>3, <1>4, <1>5 DEF RuntimeMoves, IngestInv
<1>7. NewsOf(c, {}) /\ Known(c, {})
  BY <1>3 DEF NewsOf, Known, Drawn
<1>8. IngestInv'
  BY <1>6, <1>7, InStep
<1> QED BY <1>1, <1>3, <1>8 DEF HandlerKeeps

LEMMA TeardownKeeps ==
  ASSUME IngestInv, NEW c \in Calls, Closes(c), teardownCall(c)
  PROVE  HandlerKeeps
<1>1. StoreInv' /\ Elsewhere(c) /\ Participants(c)' = {} /\ StillAged(c)
  BY DEF Closes, Participants, StillAged
<1>2. PICK seats : seats = Core!EmptyMap
  OBVIOUS
<1>3. Marked(seats) /\ DOMAIN seats = {}
  BY <1>2 DEF Core!EmptyMap, Marked
<1>4. retireCallIngestSessions(c) /\ current' = [current EXCEPT ![c] = seats]
  BY <1>2 DEF teardownCall
<1> QED BY <1>1, <1>3, <1>4, RetireKeeps

LEMMA ModeChangeKeeps ==
  ASSUME IngestInv, NEW c \in Calls, NEW mode, applyAuthorityModeChange(c, mode)
  PROVE  HandlerKeeps
<1>1. Core!setCallModeByAuthority(c, mode)
  BY DEF applyAuthorityModeChange
<1>2. c \in DOMAIN calls /\ Continues(c, Party(calls[c]))
  BY <1>1, SetCallModeMoves, StoreHolds
<1>3. CASE Replanned(c, Present(c), current[c])
  BY <1>2, <1>3, SettingKeeps
<1>4. CASE /\ retireCallIngestSessions(c)
           /\ current' = [current EXCEPT ![c] = [s \in DOMAIN @ |-> 0]]
  <2>1. PICK seats : seats = [s \in DOMAIN current[c] |-> 0]
    OBVIOUS
  <2>2. DOMAIN current[c] = Party(calls[c])
    BY <1>2 DEF IngestInv, Participants
  <2>3. /\ StoreInv' /\ Elsewhere(c) /\ Participants(c)' = Party(calls[c]) /\ StillAged(c)
    BY <1>2, AgedStays DEF Continues, GoesOn, Participants
  <2>4. Marked(seats) /\ DOMAIN seats = Participants(c)'
    BY <2>1, <2>2, <2>3 DEF Marked
  <2>5. current' = [current EXCEPT ![c] = seats]
    BY <1>4, <2>1
  <2> QED BY <1>4, <2>3, <2>4, <2>5, RetireKeeps
<1> QED BY <1>3, <1>4 DEF applyAuthorityModeChange

LEMMA DisconnectKeeps ==
  ASSUME IngestInv, NEW c \in Calls, NEW s, handleSocketDisconnect(c, s)
  PROVE  HandlerKeeps
<1>1. /\ Core!markDisconnected(c, s)
      /\ registry' = [id \in DOMAIN registry |->
                        [registry[id] EXCEPT !.active = @ /\ ~(/\ s \in DOMAIN current[c]
                                                              /\ id = Id(c, s, current[c][s]))]]
      /\ current' = current /\ walks' = walks /\ sessions' = sessions /\ ending' = ending
  BY DEF handleSocketDisconnect
<1>2. c \in DOMAIN calls /\ Continues(c, Party(calls[c]))
  BY <1>1, MarkDisconnectedMoves, StoreHolds
<1>3. /\ StoreInv' /\ Elsewhere(c) /\ StillAged(c) /\ Participants(c)' = Participants(c)
  BY <1>2, AgedStays DEF Continues, GoesOn, Participants
<1>4. DOMAIN registry' = DOMAIN registry
  BY <1>1
<1>5. ASSUME NEW id \in DOMAIN registry
      PROVE  /\ registry'[id] \in Entry /\ registry'[id].everCreated = registry[id].everCreated
             /\ registry'[id].active => registry[id].active
  <2>1. PICK entry, kept :
          /\ entry = registry[id]
          /\ kept = ~(s \in DOMAIN current[c] /\ id = Id(c, s, current[c][s]))
    OBVIOUS
  <2>2. entry \in Entry
    BY <2>1 DEF IngestInv, Entered
  <2>3. registry'[id] = [entry EXCEPT !.active = @ /\ kept]
    BY <1>1, <2>1
  <2> QED BY <2>1, <2>2, <2>3 DEF Entry
<1>6. Entered(registry')
  BY <1>4, <1>5 DEF IngestInv, Entered
<1>7. /\ Waits(walks', registry') /\ Single(c, current'[c], registry')
  BY <1>1, <1>4 DEF IngestInv, Waits, Single
<1>8. RuntimeMoves(c)
  BY <1>1, <1>3, <1>6, <1>7 DEF RuntimeMoves, IngestInv
<1>9. NewsOf(c, {}) /\ Known(c, {})
  BY <1>1, <1>4 DEF NewsOf, Known
<1>10. IngestInv'
  BY <1>3, <1>8, <1>9, InStep
<1> QED BY <1>1, <1>4, <1>5, <1>10 DEF HandlerKeeps, Held

LEMMA FinalizeLeaveKeeps ==
  ASSUME IngestInv, NEW c \in Calls, NEW s, finalizeLeave(c, s)
  PROVE  HandlerKeeps
<1>1. Core!leave(c, s)
  BY DEF finalizeLeave
<1>2. c \in DOMAIN calls /\ (Closes(c) \/ Continues(c, Party(calls[c]) \ {s}))
  BY <1>1, LeaveMoves, StoreHolds
<1>3. CASE Closes(c)
  <2>1. teardownCall(c)
    BY <1>3 DEF finalizeLeave, Closes
  <2> QED BY <1>3, <2>1, TeardownKeeps
<1>4. CASE Continues(c, Party(calls[c]) \ {s})
  <2>1. /\ StoreInv' /\ Elsewhere(c) /\ c \in DOMAIN calls'
        /\ Party(calls'[c]) = Party(calls[c]) \ {s} /\ StillAged(c)
    BY <1>2, <1>4, AgedStays DEF Continues, GoesOn
  <2>2. PICK own, entries, waiting, deletes, seats, plans :
          /\ own = IdsOfSeat(c, s)
          /\ entries = Restrict(registry, DOMAIN registry \ own)
          /\ waiting = Disowned(walks, own)
          /\ deletes = ending \cup Deletable(registry, own)
          /\ seats = Core!Drop(current[c], s)
          /\ plans = plansFor(c, BumpedSeats(c))
    OBVIOUS
  <2>3. /\ applyIngestPlans(c, plans, seats, entries, waiting, deletes)
        /\ sessions' = sessions
    BY <2>1, <2>2 DEF finalizeLeave
  <2>4. own \subseteq DOMAIN registry
    BY <2>2 DEF IdsOfSeat, IdsOf
  <2>5. /\ Entered(entries) /\ Waits(waiting, entries) /\ Drawn(waiting)
        /\ DOMAIN entries = DOMAIN registry \ own /\ deletes \subseteq Ids
        /\ \A id : Held(id, registry, ending) => Held(id, entries, deletes)
    <3>1. Discharged(own, entries, waiting, deletes)
      BY <2>2, <2>4, RetiredEntries
    <3> QED BY <3>1 DEF Discharged
  <2>6. DOMAIN current[c] = Party(calls[c]) /\ Marked(current[c]) /\ Single(c, current[c], registry)
    BY <1>2 DEF IngestInv, Participants
  <2>7. /\ DOMAIN seats = DOMAIN current[c] \ {s}
        /\ \A t \in DOMAIN seats : seats[t] = current[c][t]
    BY <2>2 DEF Core!Drop, Core!Restrict
  <2>8. Marked(seats) /\ DOMAIN seats = Participants(c)' /\ Single(c, seats, entries)
    <3>1. \A id \in DOMAIN entries : entries[id] = registry[id]
      BY <2>2 DEF Restrict
    <3>2. Single(c, seats, entries)
      BY <2>5, <2>6, <2>7 DEF Single
    <3> QED BY <2>1, <2>6, <2>7, <3>2 DEF Marked, Participants
  <2>9. BumpedSeats(c) \subseteq Party(calls'[c])
    BY <1>1, <2>1, LeaveBumps, StoreHolds
  <2>10. plans \in Plans /\ Known(c, DOMAIN plans)
    BY <2>1, <2>2, <2>9, PlansMade
  <2>11. sessions' \subseteq Ids /\ DOMAIN entries \subseteq DOMAIN registry
    BY <2>3, <2>5, PlainRuntime
  <2>12. IngestInv' /\ \A id : Held(id, entries, deletes) => Held(id, registry', ending')
    BY <2>1, <2>3, <2>5, <2>8, <2>10, <2>11, Settled
  <2> QED BY <2>3, <2>5, <2>12 DEF HandlerKeeps
<1> QED BY <1>2, <1>3, <1>4

LEMMA KnockDismissedKeeps ==
  ASSUME IngestInv, NEW c \in Calls, NEW s, knockDismissed(c, s)
  PROVE  HandlerKeeps
<1>1. c \in DOMAIN calls /\ (Closes(c) \/ Continues(c, Party(calls[c])))
  BY DoorMoves, StoreHolds DEF knockDismissed
<1>2. CASE Closes(c)
  <2>1. teardownCall(c)
    BY <1>2 DEF knockDismissed, Closes
  <2> QED BY <1>2, <2>1, TeardownKeeps
<1>3. CASE Continues(c, Party(calls[c]))
  <2>1. UNCHANGED ingest
    BY <1>3 DEF knockDismissed, Continues, GoesOn
  <2>2. StillAged(c)
    BY <1>1, <1>3, AgedStays DEF Continues
  <2>3. Continues(c, Participants(c))
    BY <1>1, <1>3 DEF Participants
  <2> QED BY <2>1, <2>2, <2>3, IdleKeeps
<1> QED BY <1>1, <1>2, <1>3

LEMMA EndedForAllKeeps ==
  ASSUME IngestInv, NEW c \in Calls, endedForAll(c)
  PROVE  HandlerKeeps
BY EndMoves, StoreHolds, TeardownKeeps DEF endedForAll

LEMMA StoreOnlyKeeps ==
  ASSUME IngestInv, NEW c \in Calls, storeOnly(c)
  PROVE  HandlerKeeps
<1>1. CASE Unused(c) /\ \E setup \in Setups : Core!preregisterCall(c, setup)
  <2>1. c \notin DOMAIN calls /\ Continues(c, {})
    BY <1>1, PreregisterMoves, StoreHolds
  <2>2. Continues(c, Participants(c))
    BY <2>1 DEF Participants
  <2>3. StillAged(c)
    BY <1>1, AgedFresh
  <2> QED BY <2>2, <2>3, IdleKeeps DEF storeOnly
<1>2. CASE \E p \in Profiles : Core!knock(c, p)
  <2>1. c \in DOMAIN calls /\ Continues(c, Party(calls[c]))
    BY <1>2, KnockMoves, StoreHolds
  <2>2. Continues(c, Participants(c))
    BY <2>1 DEF Participants
  <2>3. StillAged(c)
    BY <2>1, AgedStays DEF Continues
  <2> QED BY <2>2, <2>3, IdleKeeps DEF storeOnly
<1> QED BY <1>1, <1>2 DEF storeOnly

-----------------------------------------------------------------------------
(* Answers.                                                                *)

\* What an answer goes on with, whatever it found.
LEMMA WalkOnKeeps ==
  ASSUME IngestInv, NEW i \in DOMAIN walks, NEW entries, Entered(entries),
         DOMAIN entries = DOMAIN registry, NEW deletes, deletes \subseteq Ids,
         walkOn(i, entries, deletes), UNCHANGED store, sessions' \subseteq Ids
  PROVE  /\ IngestInv'
         /\ \A id : Held(id, entries, deletes) => Held(id, registry', ending')
<1>1. walks \in Seq(Walk) /\ walks[i] \in Walk /\ Waits(walks, registry)
  <2>1. walks \in Seq(Walk) /\ Waits(walks, registry)
    BY DEF IngestInv, Waits
  <2> QED BY <2>1, WalkParts
<1>2. PICK c, plans, waiting : /\ c = walks[i].call /\ plans = walks[i].rest
                               /\ waiting = RemoveAt(walks, i)
  OBVIOUS
<1>3. applyIngestPlans(c, plans, current[c], entries, waiting, deletes)
  BY <1>2 DEF walkOn, Others
<1>4. c \in Calls /\ plans \in Plans
  BY <1>1, <1>2 DEF Walk
<1>5. calls' = calls
  BY DEF store
<1>6. /\ StoreInv' /\ Elsewhere(c) /\ StillAged(c) /\ Participants(c)' = Participants(c)
      /\ Known(c, DOMAIN plans)
  <2>1. StoreInv'
    BY <1>5, StoreHolds DEF StoreInv, Core!WithinBounds
  <2>2. Elsewhere(c) /\ Participants(c)' = Participants(c)
    BY <1>5 DEF Elsewhere, Participants
  <2>3. StillAged(c)
    BY <1>5 DEF StillAged, IngestInv
  <2>4. Known(c, DOMAIN plans)
    BY <1>2, <2>3 DEF StillAged, AgedIn, Known
  <2> QED BY <2>1, <2>2, <2>3, <2>4
<1>7. /\ Marked(current[c]) /\ DOMAIN current[c] = Participants(c)'
      /\ Single(c, current[c], entries)
  BY <1>4, <1>6 DEF IngestInv, Single
<1>8. /\ waiting \in Seq(Walk)
      /\ \A j \in DOMAIN waiting : \E k \in DOMAIN walks : waiting[j] = walks[k]
  BY <1>1, <1>2, WalkGone
<1>9. Waits(waiting, entries) /\ Drawn(waiting)
  BY <1>1, <1>8 DEF Waits, Drawn
<1>10. DOMAIN entries \subseteq DOMAIN registry
  OBVIOUS
<1> QED BY <1>3, <1>4, <1>6, <1>7, <1>9, <1>10, Settled

\* Somebody will end each session media-ingest holds.
Safe == \A id \in sessions : Held(id, registry, ending)

LEMMA CreateAnsweredKeeps ==
  ASSUME IngestInv, NEW i \in DOMAIN walks, createAnswered(i)
  PROVE  IngestInv' /\ (Safe => Safe')
<1>1. PICK w : w = walks[i]
  OBVIOUS
<1>2. w \in Walk /\ w.id \in Ids /\ (w.mine => w.id \in DOMAIN registry)
  <2>1. walks \in Seq(Walk) /\ (w.mine => w.id \in DOMAIN registry)
    BY <1>1 DEF IngestInv, Waits
  <2>2. w \in Walk
    BY <1>1, <2>1
  <2> QED BY <2>1, <2>2 DEF Walk
<1>3. /\ sessions' = sessions \cup {w.id} /\ UNCHANGED store
      /\ sessions' \subseteq Ids
  BY <1>1, <1>2, PlainRuntime DEF createAnswered
<1>4. CASE w.mine
  <2>1. PICK entries : entries = [registry EXCEPT ![w.id].active = TRUE,
                                                  ![w.id].everCreated = TRUE]
    OBVIOUS
  <2>2. walkOn(i, entries, ending)
    BY <1>1, <1>4, <2>1 DEF createAnswered
  <2>3. PICK made : made = [registry[w.id] EXCEPT !.active = TRUE, !.everCreated = TRUE]
    OBVIOUS
  <2>4. made \in Entry /\ made.everCreated
    <3>1. registry[w.id] \in Entry
      BY <1>2, <1>4 DEF IngestInv, Entered
    <3> QED BY <2>3, <3>1 DEF Entry
  <2>5. /\ DOMAIN entries = DOMAIN registry /\ entries[w.id] = made
        /\ \A id \in DOMAIN registry \ {w.id} : entries[id] = registry[id]
    BY <1>2, <1>4, <2>1, <2>3
  <2>6. Entered(entries)
    BY <2>4, <2>5 DEF IngestInv, Entered
  <2>7. IngestInv' /\ \A id : Held(id, entries, ending) => Held(id, registry', ending')
    BY <1>3, <2>2, <2>5, <2>6, PlainRuntime, WalkOnKeeps
  <2>8. ASSUME Safe, NEW id \in sessions' PROVE Held(id, entries, ending)
    BY <1>2, <1>3, <1>4, <2>4, <2>5, <2>8 DEF Safe, Held
  <2> QED BY <2>7, <2>8 DEF Safe
<1>5. CASE ~w.mine
  <2>1. PICK deletes : deletes = ending \cup {w.id}
    OBVIOUS
  <2>2. walkOn(i, registry, deletes)
    BY <1>1, <1>5, <2>1 DEF createAnswered
  <2>3. deletes \subseteq Ids
    BY <1>2, <2>1, PlainRuntime
  <2>4. IngestInv' /\ \A id : Held(id, registry, deletes) => Held(id, registry', ending')
    BY <1>3, <2>2, <2>3, PlainRuntime, WalkOnKeeps
  <2>5. ASSUME Safe, NEW id \in sessions' PROVE Held(id, registry, deletes)
    BY <1>3, <2>1, <2>5 DEF Safe, Held
  <2> QED BY <2>4, <2>5 DEF Safe
<1> QED BY <1>4, <1>5

LEMMA CreateFailedKeeps ==
  ASSUME IngestInv, NEW i \in DOMAIN walks, NEW fault, createFailed(i, fault)
  PROVE  IngestInv' /\ (Safe /\ fault # "unanswered" => Safe')
<1>1. walks[i].id \in Ids
  <2>1. walks \in Seq(Walk)
    BY DEF IngestInv, Waits
  <2>2. walks[i] \in Walk
    BY <2>1
  <2> QED BY <2>2 DEF Walk
<1>2. /\ sessions' \subseteq Ids /\ UNCHANGED store /\ walkOn(i, registry, ending)
      /\ fault # "unanswered" => sessions' = sessions
  BY <1>1, PlainRuntime DEF createFailed
<1>3. IngestInv' /\ \A id : Held(id, registry, ending) => Held(id, registry', ending')
  BY <1>2, PlainRuntime, WalkOnKeeps
<1> QED BY <1>2, <1>3 DEF Safe

LEMMA DeleteAnsweredKeeps ==
  ASSUME IngestInv, NEW id \in ending, deleteAnswered(id)
  PROVE  IngestInv' /\ (Safe => Safe')
<1>1. /\ sessions' = sessions \ {id} /\ ending' = ending \ {id}
      /\ calls' = calls /\ registry' = registry /\ current' = current /\ walks' = walks
  BY DEF deleteAnswered, store
<1>2. StoreInv'
  BY <1>1, StoreHolds DEF StoreInv, Core!WithinBounds
<1>3. \A c \in Calls : Participants(c)' = Participants(c)
  BY <1>1 DEF Participants
<1>4. IngestInv'
  BY <1>1, <1>2, <1>3 DEF IngestInv
<1>5. Safe => Safe'
  BY <1>1 DEF Safe, Held
<1> QED BY <1>4, <1>5

-----------------------------------------------------------------------------
(* The whole system.                                                       *)

LEMMA IngestInitially == Init => IngestInv /\ Safe
<1> SUFFICES ASSUME Init PROVE IngestInv /\ Safe
  OBVIOUS
<1>1. calls = Core!EmptyMap /\ DOMAIN calls = {}
  BY DEF Init, Core!Init, Core!EmptyMap
<1>2. StoreInv
  BY <1>1 DEF StoreInv, Core!EmptyMap
<1>3. registry = Core!EmptyMap /\ DOMAIN registry = {}
  BY DEF Init, Core!EmptyMap
<1>4. DOMAIN current = Calls /\ \A c \in Calls : DOMAIN current[c] = {}
  BY DEF Init, Core!EmptyMap
<1>5. Entered(registry)
  BY <1>3 DEF Entered
<1>6. /\ walks \in Seq(Walk) /\ DOMAIN walks = {} /\ Len(walks) = 0
      /\ sessions = {} /\ ending = {}
  BY DEF Init
<1>7. Waits(walks, registry) /\ Len(walks) <= MaxWalks
  BY <1>6, IngestAssumption DEF Waits
<1>8. \A c \in Calls : /\ Marked(current[c]) /\ DOMAIN current[c] = Participants(c)
                       /\ Single(c, current[c], registry)
  BY <1>1, <1>3, <1>4 DEF Marked, Participants, Single
<1> QED BY <1>1, <1>2, <1>4, <1>5, <1>6, <1>7, <1>8 DEF IngestInv, Safe

LEMMA HandlersKeep ==
  ASSUME IngestInv, Next, ~Answers
  PROVE  HandlerKeeps
<1>1. PICK c \in Calls :
       \/ \E p \in Profiles : completeJoin(c, p)
       \/ endedForAll(c) \/ storeOnly(c)
       \/ \E mode \in Modes : applyAuthorityModeChange(c, mode)
       \/ \E s \in Core!Serials :
            \/ \E audio \in AudioModes, captions \in CaptionChoices :
                 resumeSeat(c, s, audio, captions)
            \/ handleSocketDisconnect(c, s) \/ finalizeLeave(c, s) \/ knockDismissed(c, s)
            \/ \E host \in Core!Serials : handleAdmit(c, host, s)
            \/ \E l \in Languages : \/ handleSetCaptionLanguage(c, s, l)
                                    \/ settleDetectedLanguage(c, s, l)
            \/ \E audio \in AudioModes : handleSetAudioMode(c, s, audio)
  BY DEF Next
<1>2. ASSUME NEW p \in Profiles, completeJoin(c, p) PROVE HandlerKeeps
  BY <1>2, CompleteJoinKeeps
<1>3. CASE endedForAll(c)
  BY <1>3, EndedForAllKeeps
<1>4. CASE storeOnly(c)
  BY <1>4, StoreOnlyKeeps
<1>5. ASSUME NEW mode \in Modes, applyAuthorityModeChange(c, mode) PROVE HandlerKeeps
  BY <1>5, ModeChangeKeeps
<1>6. ASSUME NEW s, NEW audio, NEW captions, resumeSeat(c, s, audio, captions)
      PROVE  HandlerKeeps
  BY <1>6, ResumeSeatKeeps
<1>7. ASSUME NEW s, handleSocketDisconnect(c, s) \/ finalizeLeave(c, s) \/ knockDismissed(c, s)
      PROVE  HandlerKeeps
  BY <1>7, DisconnectKeeps, FinalizeLeaveKeeps, KnockDismissedKeeps
<1>8. ASSUME NEW s, NEW host, handleAdmit(c, host, s) PROVE HandlerKeeps
  BY <1>8, HandleAdmitKeeps
<1>9. ASSUME NEW s, NEW l, handleSetCaptionLanguage(c, s, l) \/ settleDetectedLanguage(c, s, l)
      PROVE  HandlerKeeps
  BY <1>9, CaptionLanguageKeeps, SettleDetectedKeeps
<1>10. ASSUME NEW s, NEW audio, handleSetAudioMode(c, s, audio) PROVE HandlerKeeps
  BY <1>10, AudioModeKeeps
<1> QED BY <1>1, <1>2, <1>3, <1>4, <1>5, <1>6, <1>7, <1>8, <1>9, <1>10

LEMMA StepKeeps ==
  ASSUME IngestInv, [Next]_vars
  PROVE  IngestInv' /\ (Safe /\ "unanswered" \notin Faults => Safe')
<1>1. CASE UNCHANGED vars
  <2>1. /\ calls' = calls /\ registry' = registry /\ current' = current /\ walks' = walks
        /\ sessions' = sessions /\ ending' = ending
    BY <1>1 DEF vars, store, ingest
  <2>2. StoreInv'
    BY <2>1, StoreHolds DEF StoreInv, Core!WithinBounds
  <2>3. \A c \in Calls : Participants(c)' = Participants(c)
    BY <2>1 DEF Participants
  <2>4. IngestInv'
    BY <2>1, <2>2, <2>3 DEF IngestInv
  <2> QED BY <2>1, <2>4 DEF Safe
<1>2. CASE Answers
  <2>1. ASSUME NEW i \in DOMAIN walks, createAnswered(i)
        PROVE  IngestInv' /\ (Safe => Safe')
    BY <2>1, CreateAnsweredKeeps
  <2>2. ASSUME NEW i \in DOMAIN walks, NEW fault \in Faults, createFailed(i, fault)
        PROVE  IngestInv' /\ (Safe /\ fault # "unanswered" => Safe')
    BY <2>2, CreateFailedKeeps
  <2>3. ASSUME NEW id \in ending, deleteAnswered(id)
        PROVE  IngestInv' /\ (Safe => Safe')
    BY <2>3, DeleteAnsweredKeeps
  <2> QED BY <1>2, <2>1, <2>2, <2>3 DEF Answers
<1>3. CASE Next /\ ~Answers
  <2>1. HandlerKeeps
    BY <1>3, HandlersKeep
  <2> QED BY <2>1 DEF HandlerKeeps, Safe
<1> QED BY <1>1, <1>2, <1>3

LEMMA IngestAlways == Spec => []IngestInv
<1>1. Init => IngestInv
  BY IngestInitially
<1>2. IngestInv /\ [Next]_vars => IngestInv'
  BY StepKeeps
<1> QED BY <1>1, <1>2, PTL DEF Spec

\* The registry holds at most the current entry of a seat, and the runtime's
\* participants are the store's admitted seats, however handlers, walks and
\* answers interleave, for any number of walks at once.
THEOREM RegistryInStep == Spec => []RegistryFollowsSeats
<1>1. IngestInv => RegistryFollowsSeats
  <2> SUFFICES ASSUME IngestInv PROVE RegistryFollowsSeats
    OBVIOUS
  <2>1. TypeOK
    BY DEF IngestInv, TypeOK, Entered, Waits, Marked
  <2>2. OneEntryPerSeat
    <3> SUFFICES ASSUME NEW c \in Calls, NEW s \in DOMAIN current[c], NEW id \in IdsOfSeat(c, s)
                 PROVE  id = Id(c, s, current[c][s])
      BY DEF OneEntryPerSeat
    <3>1. id \in DOMAIN registry /\ id[1] = c /\ id[2] = s
      BY DEF IdsOfSeat, IdsOf
    <3>2. id \in Ids /\ id[3] = current[c][s]
      BY <3>1 DEF IngestInv, Entered, Single
    <3> QED BY <3>1, <3>2, IdParts
  <2>3. ParticipantsAreSeats
    BY DEF IngestInv, ParticipantsAreSeats, Participants, Party
  <2> QED BY <2>1, <2>2, <2>3 DEF RegistryFollowsSeats
<1> QED BY <1>1, IngestAlways, PTL

\* As long as every create is answered, each session media-ingest holds is known
\* to somebody who will end it: no leave, teardown, mode change or newer plan
\* that overtakes a create leaves one behind.
THEOREM NobodyIsOrphaned ==
  ASSUME "unanswered" \notin Faults
  PROVE  Spec => []NoOrphan
<1>1. Init => IngestInv /\ Safe
  BY IngestInitially
<1>2. IngestInv /\ Safe /\ [Next]_vars => (IngestInv /\ Safe)'
  BY StepKeeps
<1>3. Safe => NoOrphan
  BY DEF Safe, Held, NoOrphan
<1> QED BY <1>1, <1>2, <1>3, PTL DEF Spec

\* The gateway changes the store only by the store's own operations: what is
\* proved of the store on its own holds of it here, under every interleaving of
\* walks and answers.
THEOREM StoreIsItsOwn == Spec => Core!Spec
<1>1. Init => Core!Init
  BY DEF Init
<1>2. [Next]_vars => [Core!Next]_(Core!vars)
  <2> SUFFICES ASSUME [Next]_vars PROVE Core!Next \/ UNCHANGED Core!vars
    OBVIOUS
  <2>1. CASE UNCHANGED vars
    BY <2>1 DEF vars, store, Core!vars
  <2>2. CASE Answers
    BY <2>2 DEF Answers, createAnswered, createFailed, deleteAnswered, store, Core!vars
  <2>3. ASSUME NEW c \in Calls, NEW p \in Profiles, completeJoin(c, p) PROVE Core!Next
    BY <2>3 DEF completeJoin, Core!Next
  <2>4. ASSUME NEW c \in Calls, endedForAll(c) PROVE Core!Next
    BY <2>4 DEF endedForAll, Core!Next
  <2>5. ASSUME NEW c \in Calls, storeOnly(c) PROVE Core!Next
    BY <2>5 DEF storeOnly, Core!Next
  <2>6. ASSUME NEW c \in Calls, NEW mode \in Modes, applyAuthorityModeChange(c, mode)
        PROVE  Core!Next
    BY <2>6 DEF applyAuthorityModeChange, Core!Next
  <2>7. ASSUME NEW c \in Calls, NEW s \in Core!Serials, NEW audio \in AudioModes,
               NEW captions \in CaptionChoices, resumeSeat(c, s, audio, captions)
        PROVE  Core!Next
    BY <2>7 DEF resumeSeat, Core!Next
  <2>8. ASSUME NEW c \in Calls, NEW s \in Core!Serials,
               handleSocketDisconnect(c, s) \/ finalizeLeave(c, s) \/ knockDismissed(c, s)
        PROVE  Core!Next
    BY <2>8 DEF handleSocketDisconnect, finalizeLeave, knockDismissed, Core!Next
  <2>9. ASSUME NEW c \in Calls, NEW s \in Core!Serials, NEW host \in Core!Serials,
               handleAdmit(c, host, s)
        PROVE  Core!Next
    BY <2>9 DEF handleAdmit, Core!Next
  <2>10. ASSUME NEW c \in Calls, NEW s \in Core!Serials, NEW l \in Languages,
                handleSetCaptionLanguage(c, s, l) \/ settleDetectedLanguage(c, s, l)
         PROVE  Core!Next
    BY <2>10 DEF handleSetCaptionLanguage, settleDetectedLanguage, Core!Next
  <2>11. ASSUME NEW c \in Calls, NEW s \in Core!Serials, NEW audio \in AudioModes,
                handleSetAudioMode(c, s, audio)
         PROVE  Core!Next
    BY <2>11 DEF handleSetAudioMode, Core!Next
  <2> QED
    BY <2>1, <2>2, <2>3, <2>4, <2>5, <2>6, <2>7, <2>8, <2>9, <2>10, <2>11 DEF Next
<1> QED BY <1>1, <1>2, PTL DEF Spec, Core!Spec

-----------------------------------------------------------------------------
(* What the store promises on its own, it keeps here.  Core and CoreP are   *)
(* the same store; operation by operation, their definitions agree.         *)

CoreP == INSTANCE CallSessionProofs

LEMMA SameBounds ==
  /\ Core!Serials = CoreP!Serials
  /\ \A call : Core!WithinBounds(call) <=> CoreP!WithinBounds(call)
BY DEF Core!Serials, CoreP!Serials, Core!Revisions, CoreP!Revisions,
       Core!LanguageRevisions, CoreP!LanguageRevisions,
       Core!WithinBounds, CoreP!WithinBounds

LEMMA SameSeating ==
  /\ Core!EmptyMap = CoreP!EmptyMap
  /\ \A map, k, v : Core!Put(map, k, v) = CoreP!Put(map, k, v)
  /\ \A map, k : Core!Drop(map, k) = CoreP!Drop(map, k)
  /\ \A p : Core!NewSeat(p) = CoreP!NewSeat(p)
  /\ \A call, s, seat : Core!WithSeat(call, s, seat) = CoreP!WithSeat(call, s, seat)
  /\ \A call : /\ Core!Seated(call) = CoreP!Seated(call)
               /\ Core!Knocking(call) = CoreP!Knocking(call)
               /\ Core!LanguageMoved(call) = CoreP!LanguageMoved(call)
  /\ \A call, s : Core!Others(call, s) = CoreP!Others(call, s)
  /\ \A call, S : Core!Bumped(call, S) = CoreP!Bumped(call, S)
  /\ \A setup : /\ Core!mintCall(setup) = CoreP!mintCall(setup)
                /\ Core!createCall(setup) = CoreP!createCall(setup)
BY DEF Core!EmptyMap, CoreP!EmptyMap, Core!Put, CoreP!Put, Core!Drop, CoreP!Drop,
       Core!Restrict, CoreP!Restrict, Core!NewSeat, CoreP!NewSeat,
       Core!WithSeat, CoreP!WithSeat, Core!isSeated, CoreP!isSeated,
       Core!Seated, CoreP!Seated, Core!Knocking, CoreP!Knocking,
       Core!LanguageMoved, CoreP!LanguageMoved, Core!Others, CoreP!Others,
       Core!Bumped, CoreP!Bumped, Core!mintCall, CoreP!mintCall,
       Core!createCall, CoreP!createCall

LEMMA SamePlans ==
  /\ \A call, s : Core!planSignature(call, s) = CoreP!planSignature(call, s)
  /\ \A call, s : Core!buildIngestPlan(call, s) = CoreP!buildIngestPlan(call, s)
  /\ \A a, b : Core!Moved(a, b) = CoreP!Moved(a, b)
<1>1. \A call, s : Core!planSignature(call, s) = CoreP!planSignature(call, s)
  BY DEF Core!planSignature, CoreP!planSignature, Core!Abroad, CoreP!Abroad,
         Core!Others, CoreP!Others, Core!Seated, CoreP!Seated,
         Core!isSeated, CoreP!isSeated
<1> QED
  BY <1>1, SameSeating
  DEF Core!buildIngestPlan, CoreP!buildIngestPlan, Core!Moved, CoreP!Moved

LEMMA SameWrites ==
  /\ \A c, call, S : Core!Store(c, call, S) <=> CoreP!Store(c, call, S)
  /\ \A c : Core!retire(c) <=> CoreP!retire(c)
  /\ \A c, call, p : Core!TakeSeat(c, call, p) <=> CoreP!TakeSeat(c, call, p)
<1>1. \A c, call, S : Core!Planned(c, call, S) = CoreP!Planned(c, call, S)
  BY SamePlans DEF Core!Planned, CoreP!Planned
<1>2. \A c, call, S : Core!Store(c, call, S) <=> CoreP!Store(c, call, S)
  BY <1>1, SameBounds, SameSeating DEF Core!Store, CoreP!Store
<1>3. \A c : Core!retire(c) <=> CoreP!retire(c)
  BY SameSeating DEF Core!retire, CoreP!retire
<1>4. \A c, call, p : Core!TakeSeat(c, call, p) <=> CoreP!TakeSeat(c, call, p)
  BY <1>2, SameSeating DEF Core!TakeSeat, CoreP!TakeSeat
<1> QED BY <1>2, <1>3, <1>4

LEMMA SameAsks ==
  /\ \A call, u : Core!hasConnectedSubject(call, u) <=> CoreP!hasConnectedSubject(call, u)
  /\ \A call, name : Core!Admits(call, name) <=> CoreP!Admits(call, name)
  /\ \A call, p : Core!SubjectIsFree(call, p) <=> CoreP!SubjectIsFree(call, p)
  /\ \A call : Core!MustKnock(call) <=> CoreP!MustKnock(call)
  /\ \A c, h, s : Core!knockGate(c, h, s) <=> CoreP!knockGate(c, h, s)
<1>1. \A call, u : Core!hasConnectedSubject(call, u) <=> CoreP!hasConnectedSubject(call, u)
  BY DEF Core!hasConnectedSubject, CoreP!hasConnectedSubject
<1>2. \A call, name : Core!Admits(call, name) <=> CoreP!Admits(call, name)
  BY DEF Core!Admits, CoreP!Admits, Core!Cardinality, CoreP!Cardinality,
         Core!capacityOf, CoreP!capacityOf,
         Core!PERSONAL_CALL_SEATS, CoreP!PERSONAL_CALL_SEATS,
         Core!hasDuplicateDisplayName, CoreP!hasDuplicateDisplayName
<1>3. \A call, p : Core!SubjectIsFree(call, p) <=> CoreP!SubjectIsFree(call, p)
  BY <1>1 DEF Core!SubjectIsFree, CoreP!SubjectIsFree
<1>4. \A call : Core!MustKnock(call) <=> CoreP!MustKnock(call)
  BY SameSeating DEF Core!MustKnock, CoreP!MustKnock
<1>5. \A c, h, s : Core!knockGate(c, h, s) <=> CoreP!knockGate(c, h, s)
  BY SameSeating DEF Core!knockGate, CoreP!knockGate
<1> QED BY <1>1, <1>2, <1>3, <1>4, <1>5

LEMMA SameTaking ==
  /\ \A c, setup : Core!preregisterCall(c, setup) <=> CoreP!preregisterCall(c, setup)
  /\ \A c, p, setup : Core!createByJoin(c, p, setup) <=> CoreP!createByJoin(c, p, setup)
  /\ \A c, p : Core!joinCall(c, p) <=> CoreP!joinCall(c, p)
  /\ \A c, p : Core!knock(c, p) <=> CoreP!knock(c, p)
  /\ \A c, s, a, k : Core!resume(c, s, a, k) <=> CoreP!resume(c, s, a, k)
<1>1. \A c, setup : Core!preregisterCall(c, setup) <=> CoreP!preregisterCall(c, setup)
  BY SameSeating, SameWrites DEF Core!preregisterCall, CoreP!preregisterCall
<1>2. \A c, p, setup : Core!createByJoin(c, p, setup) <=> CoreP!createByJoin(c, p, setup)
  BY SameSeating, SameWrites DEF Core!createByJoin, CoreP!createByJoin
<1>3. \A c, p : Core!joinCall(c, p) <=> CoreP!joinCall(c, p)
  BY SameWrites, SameAsks DEF Core!joinCall, CoreP!joinCall
<1>4. \A c, p : Core!knock(c, p) <=> CoreP!knock(c, p)
  BY SameSeating, SameWrites, SameAsks DEF Core!knock, CoreP!knock
<1>5. \A c, s, a, k : Core!resume(c, s, a, k) <=> CoreP!resume(c, s, a, k)
  BY SameSeating, SameWrites, SameAsks DEF Core!resume, CoreP!resume
<1> QED BY <1>1, <1>2, <1>3, <1>4, <1>5

LEMMA SameSettings ==
  /\ \A c, s, l : Core!applyDetectedLanguage(c, s, l) <=> CoreP!applyDetectedLanguage(c, s, l)
  /\ \A c, s, l : Core!setCaptionLanguage(c, s, l) <=> CoreP!setCaptionLanguage(c, s, l)
  /\ \A c, s, a : Core!setAudioMode(c, s, a) <=> CoreP!setAudioMode(c, s, a)
  /\ \A c, m : Core!setCallModeByAuthority(c, m) <=> CoreP!setCallModeByAuthority(c, m)
<1>1. \A c, s, l : Core!applyDetectedLanguage(c, s, l) <=> CoreP!applyDetectedLanguage(c, s, l)
  BY SameSeating, SameWrites, SamePlans
  DEF Core!applyDetectedLanguage, CoreP!applyDetectedLanguage
<1>2. \A c, s, l : Core!setCaptionLanguage(c, s, l) <=> CoreP!setCaptionLanguage(c, s, l)
  BY SameSeating, SameWrites, SamePlans DEF Core!setCaptionLanguage, CoreP!setCaptionLanguage
<1>3. \A c, s, a : Core!setAudioMode(c, s, a) <=> CoreP!setAudioMode(c, s, a)
  BY SameSeating, SameWrites, SamePlans DEF Core!setAudioMode, CoreP!setAudioMode
<1>4. \A c, m : Core!setCallModeByAuthority(c, m) <=> CoreP!setCallModeByAuthority(c, m)
  BY SameSeating, SameWrites, SamePlans
  DEF Core!setCallModeByAuthority, CoreP!setCallModeByAuthority
<1> QED BY <1>1, <1>2, <1>3, <1>4

LEMMA SameLeaving ==
  /\ \A c, s : Core!markDisconnected(c, s) <=> CoreP!markDisconnected(c, s)
  /\ \A c, s : Core!leave(c, s) <=> CoreP!leave(c, s)
  /\ \A c : Core!endCall(c) <=> CoreP!endCall(c)
  /\ \A c, s : Core!endCallByParticipant(c, s) <=> CoreP!endCallByParticipant(c, s)
BY SameSeating, SameWrites, SamePlans
DEF Core!markDisconnected, CoreP!markDisconnected, Core!leave, CoreP!leave,
    Core!endCall, CoreP!endCall, Core!endCallByParticipant, CoreP!endCallByParticipant

LEMMA SameDoor ==
  /\ \A c, h, s : Core!admitKnock(c, h, s) <=> CoreP!admitKnock(c, h, s)
  /\ \A c, h, s : Core!refuseKnock(c, h, s) <=> CoreP!refuseKnock(c, h, s)
  /\ \A c, s : Core!withdrawKnock(c, s) <=> CoreP!withdrawKnock(c, s)
BY SameSeating, SameWrites, SameAsks
DEF Core!admitKnock, CoreP!admitKnock, Core!refuseKnock, CoreP!refuseKnock,
    Core!withdrawKnock, CoreP!withdrawKnock

LEMMA SameGovernance ==
  /\ Core!GovernanceActions = CoreP!GovernanceActions
  /\ \A c, s, t, g : Core!applyGovernance(c, s, t, g) <=> CoreP!applyGovernance(c, s, t, g)
BY SameSeating, SameWrites
DEF Core!GovernanceActions, CoreP!GovernanceActions, Core!applyGovernance,
    CoreP!applyGovernance, Core!decideGovernance, CoreP!decideGovernance,
    Core!Authorised, CoreP!Authorised, Core!nextTargetRole, CoreP!nextTargetRole

LEMMA SameStore == Core!Spec => CoreP!Spec
<1>1. Core!Init => CoreP!Init
  BY SameSeating DEF Core!Init, CoreP!Init
<1>2. Core!Next => CoreP!Next
  BY SameBounds, SameTaking, SameSettings, SameLeaving, SameDoor, SameGovernance
  DEF Core!Next, CoreP!Next
<1>3. [Core!Next]_(Core!vars) => [CoreP!Next]_(CoreP!vars)
  BY <1>2 DEF Core!vars, CoreP!vars
<1> QED BY <1>1, <1>3, PTL DEF Core!Spec, CoreP!Spec

LEMMA SamePromises ==
  /\ CoreP!EverybodyServed => Core!EverybodyServed
  /\ CoreP!NothingMadeForTheDeparted => Core!NothingMadeForTheDeparted
  /\ CoreP!OneChair => Core!OneChair
  /\ CoreP!SeatsKept => Core!SeatsKept
<1>1. CoreP!EverybodyServed => Core!EverybodyServed
  BY SameSeating, SamePlans
  DEF CoreP!EverybodyServed, Core!EverybodyServed, CoreP!PlannedAtRevision,
      Core!PlannedAtRevision, CoreP!AudienceServed, Core!AudienceServed
<1>2. CoreP!NothingMadeForTheDeparted => Core!NothingMadeForTheDeparted
  BY SameSeating DEF CoreP!NothingMadeForTheDeparted, Core!NothingMadeForTheDeparted
<1>3. CoreP!OneChair => Core!OneChair
  BY SameSeating DEF CoreP!OneChair, Core!OneChair
<1>4. CoreP!SeatsKept => Core!SeatsKept
  BY SameSeating
  DEF CoreP!SeatsKept, Core!SeatsKept, CoreP!KnockersUnplanned, Core!KnockersUnplanned,
      CoreP!OneConnectedPerSubject, Core!OneConnectedPerSubject,
      CoreP!DiesWithLastSeat, Core!DiesWithLastSeat,
      CoreP!WithinCapacity, Core!WithinCapacity, Core!Cardinality, CoreP!Cardinality,
      CoreP!capacityOf, Core!capacityOf,
      CoreP!PERSONAL_CALL_SEATS, Core!PERSONAL_CALL_SEATS
<1> QED BY <1>1, <1>2, <1>3, <1>4

LEMMA SameAssumption == CoreP!SessionAssumption
BY IngestAssumption
DEF Core!SessionAssumption, CoreP!SessionAssumption, Core!Setup, CoreP!Setup

\* So everybody present is served, nothing is made for the departed, the chair is
\* the owner and the seats are kept straight in the store that handlers, walks and
\* late answers of the runtime drive, and not only in the store alone.
THEOREM StoreKept ==
  Spec => []( /\ Core!EverybodyServed /\ Core!NothingMadeForTheDeparted
              /\ Core!OneChair /\ Core!SeatsKept )
<1>1. CoreP!Spec => []CoreP!EverybodyServed
  BY CoreP!EverybodyIsServed, SameAssumption
<1>2. CoreP!Spec => []CoreP!NothingMadeForTheDeparted
  BY CoreP!DepartedAreForgotten, SameAssumption
<1>3. CoreP!Spec => []CoreP!OneChair
  BY CoreP!ChairIsOwner, SameAssumption
<1>4. CoreP!Spec => []CoreP!SeatsKept
  BY CoreP!SeatsKeptStraight, SameAssumption
<1> QED
  BY <1>1, <1>2, <1>3, <1>4, StoreIsItsOwn, SameStore, SamePromises, PTL
=============================================================================
