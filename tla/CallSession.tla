----------------------------- MODULE CallSession -----------------------------
(***************************************************************************)
(* The authority on calls: CallSessionStore (call-session-store.ts) as the  *)
(* realtime gateway drives it.  A call is a record of its setup and a map   *)
(* from serial numbers (participant_1, participant_2, ...) to seats; a seat *)
(* carries the preferences the planner reads and the two revisions that     *)
(* stamp everything made for it.  Every operation is one synchronous block, *)
(* so one action; what the gateway does with the plans an operation returns *)
(* is CallIngest's subject, and here only the variable work remembers them. *)
(*                                                                          *)
(* Left out: titles, offered languages, voices, the transcript-download     *)
(* flag, resume tokens (only their holder resumes a seat), and the          *)
(* tombstones of ended calls, which no operation here reads.  The audio     *)
(* modes "translated" and "interpretation" plan alike and are both "heard". *)
(***************************************************************************)
EXTENDS Naturals, FiniteSets, Functions

CONSTANTS Calls,            \* call ids
          Languages,        \* CallLanguage
          Profiles,         \* what a joining client may bring
          Setups,           \* what a creating join may ask for
          AudioModes,       \* what a listener may switch to
          CaptionChoices,   \* what a resuming seat may ask for
          Modes,            \* what the project may switch a call to
          NoSubject,        \* a join without a partner identity
          MaxParticipants,  \* conference seats
          MaxSerial,        \* bound: seats ever minted in one life of a call
          MaxRevision,      \* bound: mediaRevision of a seat
          MaxLanguageRevision \* bound: languageRevision of a seat

Serials   == 1..MaxSerial
Revisions == 1..MaxRevision
LanguageRevisions == 1..MaxLanguageRevision
Setup   == [type: {"personal", "conference"}, mode: {"normal", "translated"},
            privacy: {"public", "private", "restricted"}]
Names    == {p.name : p \in Profiles}
Subjects == {p.subject : p \in Profiles} \cup {NoSubject}

ASSUME SessionAssumption ==
  /\ Setups \subseteq Setup
  /\ AudioModes \subseteq {"heard", "original"} /\ CaptionChoices \subseteq BOOLEAN
  /\ Modes \subseteq {"normal", "translated"}
  /\ MaxParticipants \in Nat /\ MaxParticipants >= 2
  /\ MaxSerial \in Nat \ {0} /\ MaxRevision \in Nat \ {0}
  /\ MaxLanguageRevision \in Nat \ {0}
  /\ \A p \in Profiles : /\ p.speak \in Languages /\ p.hear \in Languages
                         /\ p.auto \in BOOLEAN /\ p.captions \in BOOLEAN
                         /\ p.account \in BOOLEAN
                         /\ p.audio \in {"heard", "original"}

VARIABLES calls,  \* the live calls: a map from call ids
          work    \* work[c][s]: the plan seat s was given for its revision

vars == <<calls, work>>

-----------------------------------------------------------------------------
(* Maps.                                                                   *)

Put(map, k, v)  == [x \in DOMAIN map \cup {k} |-> IF x = k THEN v ELSE map[x]]
Drop(map, k)    == Restrict(map, DOMAIN map \ {k})
EmptyMap        == [x \in {} |-> x]

-----------------------------------------------------------------------------
(* Calls and seats.                                                        *)

PERSONAL_CALL_SEATS == 2

Roles == {"chair", "administrator", "secretary", "participant"}
Seat == [name: Names, subject: Subjects, account: BOOLEAN,
         speak: Languages, auto: {"manual", "auto", "confirmed"},
         hear: Languages, audio: {"heard", "original"}, captions: BOOLEAN,
         connected: BOOLEAN, admission: {"admitted", "knocking"},
         role: Roles, media: Revisions, lang: LanguageRevisions]

NewSeat(p) ==
  [name |-> p.name, subject |-> p.subject, account |-> p.account,
   speak |-> p.speak, auto |-> IF p.auto THEN "auto" ELSE "manual",
   hear |-> p.hear, audio |-> p.audio, captions |-> p.captions,
   connected |-> TRUE, admission |-> "admitted", role |-> "participant",
   media |-> 1, lang |-> 1]

mintCall(setup) ==
  [type |-> setup.type, mode |-> setup.mode, privacy |-> "private",
   owner |-> 0, next |-> 1, seats |-> EmptyMap]

createCall(setup) ==
  [mintCall(setup) EXCEPT !.privacy =
     IF setup.type = "conference" THEN setup.privacy ELSE "private"]

WithSeat(call, s, seat) == [call EXCEPT !.seats = Put(@, s, seat)]

isSeated(seat)  == seat.connected /\ seat.admission = "admitted"
Seated(call)    == {s \in DOMAIN call.seats : isSeated(call.seats[s])}
Knocking(call)  == {s \in DOMAIN call.seats : call.seats[s].admission = "knocking"}
capacityOf(call) == IF call.type = "personal" THEN PERSONAL_CALL_SEATS
                                              ELSE MaxParticipants

hasConnectedSubject(call, subject) ==
  \E s \in DOMAIN call.seats :
     call.seats[s].connected /\ call.seats[s].subject = subject

hasDuplicateDisplayName(call, name) ==
  \E s \in DOMAIN call.seats : call.seats[s].name = name

-----------------------------------------------------------------------------
(* Planning: what the engine has to make of speaker s's words.             *)

Others(call, s) == Seated(call) \ {s}

Abroad(call, s) ==
  {o \in Others(call, s) : call.seats[o].hear # call.seats[s].speak}

\* Translated targets, the ones among them nobody listens to, and whether
\* the original words are captioned for somebody.
planSignature(call, s) ==
  LET seats  == call.seats
      voiced == {seats[o].hear : o \in {a \in Abroad(call, s) : seats[a].audio = "heard"}}
      read   == {seats[o].hear : o \in {a \in Abroad(call, s) : seats[a].captions}}
  IN IF call.mode = "normal"
     THEN [targets |-> {}, textOnly |-> {},
           captions |-> \/ seats[s].connected /\ seats[s].captions
                        \/ \E o \in Others(call, s) : seats[o].captions]
     ELSE [targets |-> voiced \cup read, textOnly |-> read \ voiced,
           captions |-> \E o \in Others(call, s) \ Abroad(call, s) : seats[o].captions]

buildIngestPlan(call, s) ==
  [media |-> call.seats[s].media, order |-> planSignature(call, s)]

Plan == [media: Revisions,
         order: [targets: SUBSET Languages, textOnly: SUBSET Languages,
                 captions: BOOLEAN]]

\* The seats in S have their media sessions superseded.
Bumped(call, S) ==
  [call EXCEPT !.seats =
     [s \in DOMAIN call.seats |->
        IF s \in S THEN [call.seats[s] EXCEPT !.media = @ + 1] ELSE call.seats[s]]]

\* The speakers seated in both calls whose work order differs between them.
Moved(before, after) ==
  IF before.mode # "translated" THEN {}
  ELSE {s \in Seated(before) \cap Seated(after) :
          planSignature(before, s) # planSignature(after, s)}

-----------------------------------------------------------------------------
(* Writing a call back, with the plans returned for the seats in S.  A plan *)
(* whose id is in use already orders nothing: sessions are fixed at birth.  *)

Planned(c, call, S) ==
  [s \in DOMAIN call.seats \cap (DOMAIN work[c] \cup S) |->
     IF s \in DOMAIN work[c] /\ work[c][s].media = call.seats[s].media
     THEN work[c][s]
     ELSE IF s \in S THEN buildIngestPlan(call, s) ELSE work[c][s]]

WithinBounds(call) ==
  \A s \in DOMAIN call.seats :
     /\ s \in Serials /\ call.seats[s].media \in Revisions
     /\ call.seats[s].lang \in LanguageRevisions

Store(c, call, S) ==
  /\ WithinBounds(call)
  /\ calls' = Put(calls, c, call)
  /\ work' = [work EXCEPT ![c] = Planned(c, call, S)]

retire(c) ==
  /\ calls' = Drop(calls, c)
  /\ work' = [work EXCEPT ![c] = EmptyMap]

-----------------------------------------------------------------------------
(* Opening a call and taking a seat.                                       *)

preregisterCall(c, setup) ==
  /\ c \notin DOMAIN calls
  /\ Store(c, mintCall(setup), {})

Admits(call, name) ==
  /\ Cardinality(DOMAIN call.seats) < capacityOf(call)
  /\ ~hasDuplicateDisplayName(call, name)

\* The gateway's gate on partner joins.
SubjectIsFree(call, p) ==
  p.subject = NoSubject \/ ~hasConnectedSubject(call, p.subject)

MustKnock(call) ==
  call.owner # 0 /\ call.type = "conference" /\ call.privacy = "restricted"

\* Broken variant: the serial is not used up.
TakeSeat_reusesSerial(c, call, p) ==
  LET joined == WithSeat([call EXCEPT !.owner = call.next], call.next,
                         [NewSeat(p) EXCEPT !.role = "chair"])
  IN Store(c, joined, Seated(joined))

\* A joining seat is chair and owner of a call that has none, and everyone
\* already there is planned anew with the newcomer as a listener.
TakeSeat(c, call, p) ==
  LET s == call.next
      first == call.owner = 0
      seat == [NewSeat(p) EXCEPT !.role = IF first THEN "chair" ELSE @]
      joined == WithSeat([call EXCEPT !.next = @ + 1, !.owner = IF first THEN s ELSE @],
                         s, seat)
  IN Store(c, Bumped(joined, Others(joined, s)), Seated(joined))

createByJoin(c, p, setup) ==
  /\ c \notin DOMAIN calls
  /\ TakeSeat(c, createCall(setup), p)

joinCall(c, p) ==
  /\ c \in DOMAIN calls
  /\ Admits(calls[c], p.name) /\ SubjectIsFree(calls[c], p)
  /\ ~MustKnock(calls[c])
  /\ TakeSeat(c, calls[c], p)

knock(c, p) ==
  /\ c \in DOMAIN calls
  /\ Admits(calls[c], p.name) /\ SubjectIsFree(calls[c], p)
  /\ MustKnock(calls[c])
  /\ Store(c, WithSeat([calls[c] EXCEPT !.next = @ + 1], calls[c].next,
                       [NewSeat(p) EXCEPT !.admission = "knocking"]), {})

\* Broken variant: a seat another one has replaced still comes back.
resume_replaced(c, s, audio, captions) ==
  /\ c \in DOMAIN calls /\ s \in DOMAIN calls[c].seats \ Knocking(calls[c])
  /\ LET call == calls[c]
         back == WithSeat(call, s, [call.seats[s] EXCEPT !.audio = audio,
                            !.captions = captions, !.media = @ + 1, !.connected = TRUE])
     IN Store(c, Bumped(back, Others(back, s)), Seated(back))

\* The holder of the seat's token comes back, perhaps from another socket,
\* with the languages the seat has now (others are refused) and new choices.
resume(c, s, audio, captions) ==
  /\ c \in DOMAIN calls /\ s \in DOMAIN calls[c].seats
  /\ LET call == calls[c]
         seat == call.seats[s]
         back == WithSeat(call, s, [seat EXCEPT !.audio = audio, !.captions = captions,
                                                !.media = @ + 1, !.connected = TRUE])
     IN /\ seat.admission = "admitted"
        /\ seat.subject # NoSubject =>
             ~hasConnectedSubject([call EXCEPT !.seats = Drop(@, s)], seat.subject)
        /\ Store(c, Bumped(back, Others(back, s)), Seated(back))

-----------------------------------------------------------------------------
(* Giving a seat up.                                                       *)

\* The socket of an admitted seat closes, or joins with another identity and
\* leaves this seat, perhaps one still at the door: the seat is kept, nothing
\* is planned anew.
markDisconnected(c, s) ==
  /\ c \in DOMAIN calls /\ s \in DOMAIN calls[c].seats
  /\ Store(c, WithSeat(calls[c], s, [calls[c].seats[s] EXCEPT !.connected = FALSE]), {})

\* Broken variant: the baseline forgets that a reaped seat was planned for.
leave_asItIs(c, s) ==
  /\ c \in DOMAIN calls /\ s \in DOMAIN calls[c].seats
  /\ LET call == calls[c]
         rest == [call EXCEPT !.seats = Drop(@, s)]
         moved == Moved(call, rest)
     IN IF DOMAIN rest.seats = {} \/ call.type = "personal"
        THEN retire(c)
        ELSE Store(c, Bumped(rest, moved), moved)

\* A LEAVE, or the reaper of a seat whose grace is over.  The baseline counts
\* the departing seat as connected: a reaped one was when last planned for.
\* The gateway ends a personal call with either party.
leave(c, s) ==
  /\ c \in DOMAIN calls /\ s \in DOMAIN calls[c].seats
  /\ LET call == calls[c]
         seat == call.seats[s]
         present == WithSeat(call, s, [seat EXCEPT !.connected = TRUE])
         rest == [call EXCEPT !.seats = Drop(@, s)]
         moved == IF seat.admission = "admitted" THEN Moved(present, rest) ELSE {}
     IN IF DOMAIN rest.seats = {} \/ call.type = "personal"
        THEN retire(c)
        ELSE Store(c, Bumped(rest, moved), moved)

endCall(c) == c \in DOMAIN calls /\ retire(c)

endCallByParticipant(c, s) ==
  /\ c \in DOMAIN calls /\ s \in Seated(calls[c])
  /\ calls[c].type = "personal" \/ s = calls[c].owner
  /\ retire(c)

-----------------------------------------------------------------------------
(* The door of a restricted conference.                                    *)

knockGate(c, host, s) ==
  /\ c \in DOMAIN calls
  /\ host \in Seated(calls[c]) /\ host = calls[c].owner
  /\ s \in Knocking(calls[c])

admitKnock(c, host, s) ==
  /\ knockGate(c, host, s)
  /\ LET admitted == WithSeat(calls[c], s, [calls[c].seats[s] EXCEPT !.admission = "admitted"])
     IN Store(c, Bumped(admitted, Others(admitted, s)), Seated(admitted))

refuseKnock(c, host, s) ==
  /\ knockGate(c, host, s)
  /\ Store(c, [calls[c] EXCEPT !.seats = Drop(@, s)], {})

\* Patience ran out, or the knocker's socket closed.
withdrawKnock(c, s) ==
  /\ c \in DOMAIN calls /\ s \in Knocking(calls[c])
  /\ IF DOMAIN calls[c].seats = {s}
     THEN retire(c)
     ELSE Store(c, [calls[c] EXCEPT !.seats = Drop(@, s)], {})

-----------------------------------------------------------------------------
(* Languages and audio during the call.                                    *)

\* Every seat's language revision moves.
LanguageMoved(call) ==
  [call EXCEPT !.seats =
     [s \in DOMAIN call.seats |-> [call.seats[s] EXCEPT !.lang = @ + 1]]]

\* The first real utterance of a speaker who joined under auto settles what
\* they speak; it may still arrive when the speaker's socket is gone.
applyDetectedLanguage(c, s, detected) ==
  /\ c \in DOMAIN calls /\ s \in DOMAIN calls[c].seats \ Knocking(calls[c])
  /\ LET call == calls[c]
         settled == WithSeat(call, s, [call.seats[s] EXCEPT !.speak = detected,
                                                            !.auto = "confirmed"])
         moved == Moved(call, settled) \cap {s}
     IN /\ call.seats[s].auto = "auto"
        /\ IF call.seats[s].speak = detected
           THEN Store(c, settled, Seated(settled))
           ELSE Store(c, Bumped(LanguageMoved(settled), moved), Seated(settled))

\* Broken variant: the running sessions are kept.
setCaptionLanguage_inPlace(c, s, wanted) ==
  /\ c \in DOMAIN calls /\ s \in Seated(calls[c])
  /\ calls[c].seats[s].hear # wanted
  /\ LET heard == WithSeat(calls[c], s, [calls[c].seats[s] EXCEPT !.hear = wanted])
     IN Store(c, LanguageMoved(heard), Seated(heard))

setCaptionLanguage(c, s, wanted) ==
  /\ c \in DOMAIN calls /\ s \in Seated(calls[c])
  /\ LET call == calls[c]
         heard == WithSeat(call, s, [call.seats[s] EXCEPT !.hear = wanted])
     IN /\ call.seats[s].hear # wanted
        /\ Store(c, Bumped(LanguageMoved(heard), Moved(call, heard)), Seated(heard))

setAudioMode(c, s, audio) ==
  /\ c \in DOMAIN calls /\ s \in Seated(calls[c])
  /\ LET call == calls[c]
         set == WithSeat(call, s, [call.seats[s] EXCEPT !.audio = audio])
     IN /\ call.seats[s].audio # audio
        /\ Store(c, Bumped(set, Moved(call, set)), Moved(call, set))

\* Broken variant: the revisions stay.
setCallModeByAuthority_sameRevision(c, mode) ==
  /\ c \in DOMAIN calls /\ calls[c].mode # mode
  /\ Store(c, [calls[c] EXCEPT !.mode = mode], Seated(calls[c]))

\* Only the project behind the call may switch it (setCallMode always refuses).
setCallModeByAuthority(c, mode) ==
  /\ c \in DOMAIN calls /\ calls[c].mode # mode
  /\ LET call == [calls[c] EXCEPT !.mode = mode]
     IN Store(c, Bumped(call, Seated(call)), Seated(call))

-----------------------------------------------------------------------------
(* Governance.                                                             *)

GovernanceActions == {"appoint-administrator", "appoint-secretary",
                      "revoke-administrator", "revoke-secretary", "transfer-chair"}

\* Only an authenticated chair holds the capabilities governance asks for.
Authorised(actor) == actor.role = "chair" /\ actor.account

decideGovernance(actor, target, action) ==
  /\ Authorised(actor)
  /\ CASE action = "revoke-administrator" -> target.role = "administrator"
       [] action = "revoke-secretary"     -> target.role = "secretary"
       [] OTHER -> target.account /\ target.role # "chair"

nextTargetRole(action) ==
  CASE action = "appoint-administrator" -> "administrator"
    [] action = "appoint-secretary"     -> "secretary"
    [] action = "transfer-chair"        -> "chair"
    [] OTHER                            -> "participant"

\* Broken variant: the legacy owner pointer stays behind.
applyGovernance_ownerStays(c, a, t, action) ==
  /\ c \in DOMAIN calls
  /\ a \in Seated(calls[c]) /\ t \in DOMAIN calls[c].seats \ {a}
  /\ decideGovernance(calls[c].seats[a], calls[c].seats[t], action)
  /\ LET given == WithSeat(calls[c], t, [calls[c].seats[t] EXCEPT !.role = nextTargetRole(action)])
         passed == WithSeat(given, a, [calls[c].seats[a] EXCEPT !.role = "participant"])
     IN Store(c, IF action = "transfer-chair" THEN passed ELSE given, {})

applyGovernance(c, a, t, action) ==
  /\ c \in DOMAIN calls
  /\ a \in Seated(calls[c]) /\ t \in DOMAIN calls[c].seats \ {a}
  /\ decideGovernance(calls[c].seats[a], calls[c].seats[t], action)
  /\ LET call == calls[c]
         given == WithSeat(call, t, [call.seats[t] EXCEPT !.role = nextTargetRole(action)])
         passed == WithSeat([given EXCEPT !.owner = t],
                            a, [call.seats[a] EXCEPT !.role = "participant"])
     IN Store(c, IF action = "transfer-chair" THEN passed ELSE given, {})

-----------------------------------------------------------------------------
Init ==
  /\ calls = EmptyMap
  /\ work = [c \in Calls |-> EmptyMap]

Next ==
  \E c \in Calls :
    \/ \E setup \in Setups : preregisterCall(c, setup)
    \/ \E p \in Profiles, setup \in Setups : createByJoin(c, p, setup)
    \/ \E p \in Profiles : joinCall(c, p) \/ knock(c, p)
    \/ endCall(c)
    \/ \E mode \in Modes : setCallModeByAuthority(c, mode)
    \/ \E s \in Serials :
         \/ \E audio \in AudioModes, captions \in CaptionChoices :
              resume(c, s, audio, captions)
         \/ markDisconnected(c, s) \/ leave(c, s) \/ withdrawKnock(c, s)
         \/ endCallByParticipant(c, s)
         \/ \E l \in Languages : applyDetectedLanguage(c, s, l) \/ setCaptionLanguage(c, s, l)
         \/ \E audio \in AudioModes : setAudioMode(c, s, audio)
         \/ \E t \in Serials :
              \/ admitKnock(c, s, t) \/ refuseKnock(c, s, t)
              \/ \E action \in GovernanceActions : applyGovernance(c, s, t, action)

Spec == Init /\ [][Next]_vars

-----------------------------------------------------------------------------
(* Properties.                                                             *)

TypeOK ==
  /\ DOMAIN calls \subseteq Calls
  /\ \A c \in DOMAIN calls :
       /\ [type |-> calls[c].type, mode |-> calls[c].mode,
           privacy |-> calls[c].privacy] \in Setup
       /\ calls[c].next \in 1..MaxSerial + 1
       /\ DOMAIN calls[c].seats \subseteq 1..calls[c].next - 1
       /\ calls[c].owner \in 0..calls[c].next - 1
       /\ \A s \in DOMAIN calls[c].seats : calls[c].seats[s] \in Seat
  /\ DOMAIN work = Calls
  /\ \A c \in Calls : \A s \in DOMAIN work[c] : work[c][s] \in Plan

\* Every present speaker has been handed a plan for the revision their words
\* are stamped with: an operation that moved a revision and forgot to return
\* the plan would leave that speaker with no session at all.
PlannedAtRevision ==
  \A c \in DOMAIN calls : \A s \in Seated(calls[c]) :
    s \in DOMAIN work[c] /\ work[c][s].media = calls[c].seats[s].media

\* Whatever the listeners present now want made of a speaker's words, the
\* speaker's running session was ordered to make: no sequence of joins, drops,
\* resumes, settings and reaps leaves a listener waiting for a language that
\* nobody produces.  (The planner compares orders only around each change, and
\* a drop is not a change.)
AudienceServed ==
  \A c \in DOMAIN calls : \A s \in Seated(calls[c]) :
    LET want == planSignature(calls[c], s)
        made == work[c][s].order
    IN s \in DOMAIN work[c] =>
         /\ want.targets \subseteq made.targets
         /\ want.targets \ want.textOnly \subseteq made.targets \ made.textOnly
         /\ want.captions => made.captions

\* Nobody in a call is silent to anybody in it: each speaker has a running
\* session, and it makes what the people present want of it.
EverybodyServed == PlannedAtRevision /\ AudienceServed

\* Each target of a speaker's running order is the hear language of another
\* admitted seat that is still held (one in its grace counts: its sessions must
\* not churn), so no translation is produced that nobody in the call could hear.
\* A speaker whose language detection settled is left out: a reap right after
\* the settling does not see what was made under the old language (README).
NothingMadeForTheDeparted ==
  \A c \in DOMAIN calls : \A s \in Seated(calls[c]) :
    calls[c].mode = "translated" /\ calls[c].seats[s].auto # "confirmed" /\ s \in DOMAIN work[c]
      => work[c][s].order.targets \subseteq
           {calls[c].seats[o].hear : o \in DOMAIN calls[c].seats \ (Knocking(calls[c]) \cup {s})}

\* A seat at the door is nobody to the planner: it has no work order, and its
\* sessions have never been superseded because it has had none.
KnockersUnplanned ==
  \A c \in DOMAIN calls : \A s \in Knocking(calls[c]) :
    s \notin DOMAIN work[c] /\ calls[c].seats[s].media = 1

\* There is never more than one chair, the chair is the owner the older checks
\* ask for, and an owner still in the call is the chair: the two authorities
\* cannot disagree, whatever the order of appointments, transfers and leaves.
OneChair ==
  \A c \in DOMAIN calls : \A s \in DOMAIN calls[c].seats :
    calls[c].seats[s].role = "chair" <=> s = calls[c].owner

\* A partner identity is connected at most once in a call, through fresh joins
\* and through resumes of a seat another one has replaced.
OneConnectedPerSubject ==
  \A c \in DOMAIN calls : \A s, t \in DOMAIN calls[c].seats :
    LET a == calls[c].seats[s]
        b == calls[c].seats[t]
    IN s # t /\ a.connected /\ b.connected /\ a.subject # NoSubject
         => a.subject # b.subject

\* A call dies with its last seat and never goes back to the empty,
\* preregistered state, however the last seat went.
DiesWithLastSeat ==
  \A c \in DOMAIN calls : DOMAIN calls[c].seats = {} => calls[c].owner = 0

\* A seat at the door holds its place, so an admission never overfills a call.
WithinCapacity ==
  \A c \in DOMAIN calls : Cardinality(DOMAIN calls[c].seats) <= capacityOf(calls[c])

\* The seats of a call are kept straight from the door to the last leave:
\* knockers are nobody yet, a partner identity is connected once, the places are
\* not exceeded and the call dies with the last of them.
SeatsKept ==
  /\ KnockersUnplanned
  /\ OneConnectedPerSubject
  /\ DiesWithLastSeat
  /\ WithinCapacity

-----------------------------------------------------------------------------
(* What the repository says of the program and the program does not keep.  *)

\* While a dropped seat awaits its reap, "the same person can come back with a
\* fresh token" unless the call is full.
RecoveryStaysOpen ==
  \A c \in DOMAIN calls, p \in Profiles :
    LET held == {s \in DOMAIN calls[c].seats : calls[c].seats[s].subject = p.subject}
    IN p.subject # NoSubject /\ held # {} /\ held \cap Seated(calls[c]) = {}
         /\ Cardinality(DOMAIN calls[c].seats) < capacityOf(calls[c])
         /\ (\A s \in held : calls[c].seats[s].name = p.name)
       => Admits(calls[c], p.name)
=============================================================================
