----------------------------- MODULE CallIngest -----------------------------
(***************************************************************************)
(* The gateway's half of captions and translation (CallRuntime in           *)
(* call-runtime.ts): it carries out the plans the session store returns.    *)
(* A plan's id names a seat and its media revision.  The registry keeps an  *)
(* entry per id the gateway answers for, current names the one entry a seat *)
(* speaks into, and media-ingest keeps the sessions, which it creates,      *)
(* stops and deletes when the gateway's requests reach it.                  *)
(*                                                                          *)
(* applyIngestPlans walks its plans in seat order and stops at every        *)
(* `await createSession`; any handler, and any other walk, may run before   *)
(* the answer comes.  A handler and the part of a walk up to its first      *)
(* await are one action; so are an answer and the part up to the next.      *)
(*                                                                          *)
(* A retired session is stopped, and deleted when the stop is answered;     *)
(* stopping leaves it in place, so the two requests are one step here.      *)
(*                                                                          *)
(* Left out: the transcription bridge (it feeds the current entry), receive *)
(* slots and publish peers, governance, on which this state does not        *)
(* depend, and deletes that fail: they are logged and not tried again.  A   *)
(* socket that joins again as somebody else gives its first seat up as if   *)
(* it had closed (handleSocketDisconnect).                                  *)
(***************************************************************************)
EXTENDS Naturals, FiniteSets, Sequences, SequencesExt, Functions

CONSTANTS Calls, Languages, Profiles, Setups, AudioModes, CaptionChoices, Modes,
          NoSubject, MaxParticipants, MaxSerial, MaxRevision, MaxLanguageRevision,
          MaxWalks,  \* bound: walks awaiting an answer at once
          Faults     \* how a create may fail

VARIABLES calls, work,  \* the session store
          registry,     \* ingestRegistry: a map from ids to entries
          current,      \* current[c][s]: the revision of currentIngestSessionId, or 0
          walks,        \* the calls of applyIngestPlans that await an answer
          sessions,     \* the ids media-ingest holds a session for
          ending        \* the ids whose delete is under way

Core == INSTANCE CallSession

ASSUME IngestAssumption ==
  /\ Core!SessionAssumption
  /\ MaxWalks \in Nat \ {0} /\ Faults \subseteq {"refused", "unanswered"}

store  == <<calls, work>>
ingest == <<registry, current, walks, sessions, ending>>
vars   == <<store, ingest>>

-----------------------------------------------------------------------------
(* Ids, entries, plans.                                                    *)

Id(c, s, media) == <<c, s, media>>
Ids   == Calls \X Core!Serials \X Core!Revisions
IdsOf(c) == {id \in DOMAIN registry : id[1] = c}
IdsOfSeat(c, s) == {id \in IdsOf(c) : id[2] = s}

Entry == [active: BOOLEAN, everCreated: BOOLEAN, lang: Core!LanguageRevisions]
Plan  == [media: Core!Revisions, lang: Core!LanguageRevisions, needed: BOOLEAN]

planFor(call, s) ==
  LET order == Core!planSignature(call, s)
  IN [media |-> call.seats[s].media, lang |-> call.seats[s].lang,
      needed |-> order.targets # {} \/ order.captions]

\* The plans an operation returned for the seats in S.  They come in seat order,
\* and are walked in it.
plansFor(c, S) == [s \in S |-> planFor(calls'[c], s)]

\* A walk awaits the answer about the entry object it put in the registry, its
\* other plans still to come.  mine says that the registry still holds that very
\* object.
Plans  == UNION {[S -> Plan] : S \in SUBSET Core!Serials}
Walk == [call: Calls, id: Ids, mine: BOOLEAN, rest: Plans]

Disowned(waiting, ids) ==
  [i \in DOMAIN waiting |-> [waiting[i] EXCEPT !.mine = @ /\ waiting[i].id \notin ids]]

-----------------------------------------------------------------------------
(* Retiring entries.                                                        *)

\* Only what was ever created is deleted.
Deletable(entries, ids) == {id \in ids : entries[id].everCreated}

-----------------------------------------------------------------------------
(* applyIngestPlans, from the plans given up to the next await.            *)

\* Broken variant: the superseded entry stays in the registry.
Superseded_kept(c, plans, seats, entries) == {}

\* The entries the plans replace: each seat's current one, when its id differs.
Superseded(c, plans, seats, entries) ==
  {Id(c, s, seats[s]) :
     s \in {t \in DOMAIN plans \cap DOMAIN seats : seats[t] # plans[t].media}}
  \cap DOMAIN entries

\* The entry a plan leaves: what is known of its id stays known.
Registered(id, plan, entries) ==
  LET known == id \in DOMAIN entries
  IN [active |-> known /\ entries[id].active,
      everCreated |-> known /\ entries[id].everCreated, lang |-> plan.lang]

\* The plan awaits an answer: its output has an audience and nothing makes it.
Awaits(id, plan, entries) == plan.needed /\ ~Registered(id, plan, entries).active

applyIngestPlans(c, plans, seats, entries, waiting, deletes) ==
  LET idOf(s) == Id(c, s, plans[s].media)
      stops  == {s \in DOMAIN plans : Awaits(idOf(s), plans[s], entries)}
      walked == {s \in DOMAIN plans : \A t \in stops : s <= t}
      named  == {idOf(s) : s \in walked}
      gone   == Superseded(c, Restrict(plans, walked), seats, entries)
  IN /\ registry' = [id \in (DOMAIN entries \ gone) \cup named |->
                       IF id \in named THEN Registered(id, plans[id[2]], entries)
                                       ELSE entries[id]]
     /\ current' = [current EXCEPT ![c] =
                      [s \in DOMAIN seats |-> IF s \in walked THEN plans[s].media
                                                              ELSE seats[s]]]
     /\ ending' = deletes \cup Deletable(entries, gone)
     /\ LET others == Disowned(waiting, gone \cup named)
        IN IF stops = {}
           THEN walks' = others
           ELSE \E s \in stops \cap walked :
                  walks' = Append(others,
                             [call |-> c, id |-> idOf(s), mine |-> TRUE,
                              rest |-> Restrict(plans, DOMAIN plans \ walked)])
     /\ Len(walks') <= MaxWalks

\* The plans of the seats in S, with the runtime as it is.
Replanned(c, S, seats) ==
  /\ applyIngestPlans(c, plansFor(c, S), seats, registry, walks, ending)
  /\ UNCHANGED sessions

-----------------------------------------------------------------------------
(* The handlers: an operation of the store and what the gateway makes of it *)

Present(c) == Core!Seated(calls'[c])
BumpedSeats(c) ==
  {s \in DOMAIN calls[c].seats \cap DOMAIN calls'[c].seats :
     calls'[c].seats[s].media # calls[c].seats[s].media}

\* Bound: an id is opened again only when nothing of its earlier life is left
\* (the store numbers seats from 1 again, so the ids of sessions recur).
Unused(c) ==
  /\ IdsOf(c) = {} /\ \A i \in DOMAIN walks : walks[i].call # c
  /\ \A id \in sessions \cup ending : id[1] # c

completeJoin(c, p) ==
  /\ \/ Core!joinCall(c, p)
     \/ Unused(c) /\ \E setup \in Setups : Core!createByJoin(c, p, setup)
  /\ LET s == calls'[c].next - 1
     IN Replanned(c, Present(c), Core!Put(current[c], s, 0))

resumeSeat(c, s, audio, captions) ==
  /\ Core!resume(c, s, audio, captions)
  /\ Replanned(c, Present(c), current[c])

handleAdmit(c, host, s) ==
  /\ Core!admitKnock(c, host, s)
  /\ Replanned(c, Present(c), Core!Put(current[c], s, 0))

handleSetCaptionLanguage(c, s, wanted) ==
  /\ Core!setCaptionLanguage(c, s, wanted)
  /\ Replanned(c, Present(c), current[c])

handleSetAudioMode(c, s, audio) ==
  /\ Core!setAudioMode(c, s, audio)
  /\ Replanned(c, BumpedSeats(c), current[c])

\* A transcription by one of the seat's sessions names the language.
settleDetectedLanguage(c, s, detected) ==
  /\ IdsOfSeat(c, s) \cap sessions # {}
  /\ Core!applyDetectedLanguage(c, s, detected)
  /\ IF calls[c].seats[s].speak = detected
     THEN UNCHANGED ingest
     ELSE Replanned(c, Present(c), current[c])

retireCallIngestSessions(c) ==
  /\ registry' = Restrict(registry, DOMAIN registry \ IdsOf(c))
  /\ walks' = Disowned(walks, IdsOf(c))
  /\ ending' = ending \cup Deletable(registry, IdsOf(c))
  /\ UNCHANGED sessions

applyAuthorityModeChange(c, mode) ==
  /\ Core!setCallModeByAuthority(c, mode)
  /\ IF mode = "translated"
     THEN Replanned(c, Present(c), current[c])
     ELSE /\ retireCallIngestSessions(c)
          /\ current' = [current EXCEPT ![c] = [s \in DOMAIN @ |-> 0]]

teardownCall(c) ==
  /\ retireCallIngestSessions(c)
  /\ current' = [current EXCEPT ![c] = Core!EmptyMap]

\* The stop ends the session's work and keeps the session.  A seat at the door
\* has none.
handleSocketDisconnect(c, s) ==
  /\ Core!markDisconnected(c, s)
  /\ registry' = [id \in DOMAIN registry |->
                    [registry[id] EXCEPT !.active = @ /\ ~(/\ s \in DOMAIN current[c]
                                                          /\ id = Id(c, s, current[c][s]))]]
  /\ UNCHANGED <<current, walks, sessions, ending>>

\* Every entry of the seat is retired, whatever its revision.
finalizeLeave(c, s) ==
  /\ Core!leave(c, s)
  /\ IF c \notin DOMAIN calls'
     THEN teardownCall(c)
     ELSE LET own == IdsOfSeat(c, s)
          IN /\ applyIngestPlans(c, plansFor(c, BumpedSeats(c)), Core!Drop(current[c], s),
                                 Restrict(registry, DOMAIN registry \ own),
                                 Disowned(walks, own),
                                 ending \cup Deletable(registry, own))
             /\ UNCHANGED sessions

\* The host's no, the knocker's patience or socket: only the last knocker's
\* going ends the call.
knockDismissed(c, s) ==
  /\ Core!withdrawKnock(c, s) \/ \E host \in Core!Serials : Core!refuseKnock(c, host, s)
  /\ IF c \notin DOMAIN calls' THEN teardownCall(c) ELSE UNCHANGED ingest

endedForAll(c) ==
  /\ Core!endCall(c) \/ \E s \in Core!Serials : Core!endCallByParticipant(c, s)
  /\ teardownCall(c)

\* What touches no plan.
storeOnly(c) ==
  /\ \/ Unused(c) /\ \E setup \in Setups : Core!preregisterCall(c, setup)
     \/ \E p \in Profiles : Core!knock(c, p)
  /\ UNCHANGED ingest

-----------------------------------------------------------------------------
(* Answers.                                                                *)

Others(i) == RemoveAt(walks, i)
walkOn(i, entries, deletes) ==
  applyIngestPlans(walks[i].call, walks[i].rest, current[walks[i].call],
                   entries, Others(i), deletes)

\* Broken variant: what was created for an entry already gone is left alone.
createAnswered_unasked(i) ==
  /\ sessions' = sessions \cup {walks[i].id}
  /\ IF walks[i].mine
     THEN walkOn(i, [registry EXCEPT ![walks[i].id].active = TRUE,
                                     ![walks[i].id].everCreated = TRUE], ending)
     ELSE walkOn(i, registry, ending)
  /\ UNCHANGED store

\* The session exists (or did already, under the same id).  When the entry was
\* retired or replaced meanwhile, the walk stops and deletes what it created.
createAnswered(i) ==
  LET w == walks[i]
  IN /\ sessions' = sessions \cup {w.id}
     /\ IF w.mine
        THEN walkOn(i, [registry EXCEPT ![w.id].active = TRUE, ![w.id].everCreated = TRUE],
                    ending)
        ELSE walkOn(i, registry, ending \cup {w.id})
     /\ UNCHANGED store

\* The create is refused, or made and its answer lost: captions are reported
\* unavailable and the walk goes on.
createFailed(i, fault) ==
  /\ sessions' = IF fault = "unanswered" THEN sessions \cup {walks[i].id} ELSE sessions
  /\ walkOn(i, registry, ending)
  /\ UNCHANGED store

deleteAnswered(id) ==
  /\ sessions' = sessions \ {id}
  /\ ending' = ending \ {id}
  /\ UNCHANGED <<store, registry, current, walks>>

-----------------------------------------------------------------------------
Init ==
  /\ Core!Init
  /\ registry = Core!EmptyMap
  /\ current = [c \in Calls |-> Core!EmptyMap]
  /\ walks = <<>>
  /\ sessions = {}
  /\ ending = {}

Answers ==
  \/ \E i \in DOMAIN walks : createAnswered(i) \/ \E fault \in Faults : createFailed(i, fault)
  \/ \E id \in ending : deleteAnswered(id)

Next ==
  \/ Answers
  \/ \E c \in Calls :
       \/ \E p \in Profiles : completeJoin(c, p)
       \/ endedForAll(c) \/ storeOnly(c)
       \/ \E mode \in Modes : applyAuthorityModeChange(c, mode)
       \/ \E s \in Core!Serials :
            \/ \E audio \in AudioModes, captions \in CaptionChoices :
                 resumeSeat(c, s, audio, captions)
            \/ handleSocketDisconnect(c, s) \/ finalizeLeave(c, s) \/ knockDismissed(c, s)
            \/ \E host \in Core!Serials : handleAdmit(c, host, s)
            \/ \E l \in Languages : \/ handleSetCaptionLanguage(c, s, l)
                                    \/ settleDetectedLanguage(c, s, l)
            \/ \E audio \in AudioModes : handleSetAudioMode(c, s, audio)

Spec == Init /\ [][Next]_vars

-----------------------------------------------------------------------------
(* Properties.                                                             *)

TypeOK ==
  /\ DOMAIN registry \subseteq Ids /\ \A id \in DOMAIN registry : registry[id] \in Entry
  /\ \A id \in DOMAIN registry : registry[id].active => registry[id].everCreated
  /\ DOMAIN current = Calls
  /\ \A c \in Calls : \A s \in DOMAIN current[c] : current[c][s] \in Core!Revisions \cup {0}
  /\ walks \in Seq(Walk) /\ Len(walks) <= MaxWalks
  /\ sessions \subseteq Ids /\ ending \subseteq Ids

\* Every session media-ingest holds is known to somebody who will end it: the
\* registry, a walk that still awaits its answer, or a request under way.  A
\* leave, a mode change or a newer plan may overtake a create at any point.
NoOrphan ==
  \A id \in sessions :
    \/ id \in DOMAIN registry /\ registry[id].everCreated
    \/ \E i \in DOMAIN walks : walks[i].id = id
    \/ id \in ending

\* A seat in the call has at most one entry, the current one: no earlier
\* revision of its words is still being made when the next one is.
OneEntryPerSeat ==
  \A c \in Calls : \A s \in DOMAIN current[c] :
    IdsOfSeat(c, s) \subseteq {Id(c, s, current[c][s])}

\* The runtime's participants are the store's admitted seats, whatever order
\* the two are changed in.
ParticipantsAreSeats ==
  \A c \in Calls :
    DOMAIN current[c] =
      IF c \in DOMAIN calls THEN DOMAIN calls[c].seats \ Core!Knocking(calls[c]) ELSE {}

\* The registry and the runtime's participants stay in step with the store.
RegistryFollowsSeats == TypeOK /\ OneEntryPerSeat /\ ParticipantsAreSeats

-----------------------------------------------------------------------------
(* What the repository says of the program and the program does not keep.  *)

\* "The plan is the authority for BOTH revisions": once every answer is in, what
\* is made of a speaker's words for the people present carries the revisions the
\* store routes by, so nobody is silenced until the next change.
SettledIsRoutable ==
  walks = <<>> =>
    \A c \in DOMAIN calls : \A s \in Core!Seated(calls[c]) :
      LET id == Id(c, s, current[c][s])
      IN planFor(calls[c], s).needed /\ id \in DOMAIN registry /\ registry[id].active =>
           /\ current[c][s] = calls[c].seats[s].media
           /\ registry[id].lang = calls[c].seats[s].lang

\* "Nothing will ever stop this session through the registry, so it is stopped
\* here": once every answer is in, no session is left of a call that is over.
NothingOutlivesTheCall ==
  walks = <<>> /\ ending = {} => \A id \in sessions : id[1] \in DOMAIN calls
=============================================================================
