--------------------------- MODULE ProgrammeOutput ---------------------------
(***************************************************************************)
(* What a programme's audience is given, and when: the hosts that listen   *)
(* to its streams (services/media-ingest/src/live-session-host.ts), the    *)
(* coordinator that cuts speech into sentences                             *)
(* (streaming-segment-coordinator.ts, live-stream-pipeline.ts), the pump   *)
(* that holds captions and speech (programme-output-pump.ts), and the one  *)
(* timeline and buffer of the run (packages/programme-timeline).  The      *)
(* media origin and the end of the run are the others who move the cursor. *)
(*                                                                         *)
(* Time is whole steps.  Each host counts its own media from 0, as the     *)
(* sender it listens to does.  Every timeline event of a sentence carries  *)
(* its start, so the timeline is the set of sentences it names, and its    *)
(* edge.  A sentence with no host is one nobody has begun.                 *)
(***************************************************************************)
EXTENDS Integers, FiniteSets, Sequences

CONSTANTS Hosts,          \* bound: the hosts of the run, in the order they open
          Languages, Delays,
          MaxTime,        \* bound: media positions are 0..MaxTime
          MaxSentences,   \* bound: sentences minted
          AtOnce          \* bound: hosts that listen at the same time

ASSUME OutputAssumption == /\ Hosts \subseteq Nat /\ Delays \subseteq Nat
                           /\ MaxTime \in Nat /\ MaxSentences \in Nat /\ AtOnce \in Nat

VARIABLES stream,      \* each host's pipeline
          position,    \* the media position its stream has reached
          open,        \* its open segment, None when there is none
          text,        \* whether the open segment has words
          window,      \* whether a boundary is waiting to be confirmed
          start,       \* the position each sentence began at, -1 when unminted
          translating, \* the <<host, sentence, language>> being spoken
          pending,     \* each host's pump: what it holds for each sentence
          timeline,    \* the sentences the timeline has an event for
          edge,        \* liveEdgeMs
          released,    \* releasedThroughMs
          buffer, everActive,
          delay, media,  \* the configured delay; whether an origin produces media
          produced,    \* how far the origin has produced
          aired        \* what the audience was given, in order
speech == <<position, open, text, window, start>>
cursor == <<released, buffer, everActive>>
config == <<delay, media>>
vars == <<stream, speech, translating, pending, timeline, edge, cursor, config,
          produced, aired>>

Sentences == 1..MaxSentences
None == 0
\* What a pump holds of a sentence: nothing, words that may still change, or its
\* last words, written or spoken.
Payloads == {"none", "partial", "final"}
Larger(a, b) == IF a >= b THEN a ELSE b

Init == /\ stream = [h \in Hosts |-> "none"]
        /\ position = [h \in Hosts |-> 0]
        /\ open = [h \in Hosts |-> None]
        /\ text = [h \in Hosts |-> FALSE] /\ window = [h \in Hosts |-> FALSE]
        /\ start = [s \in Sentences |-> -1]
        /\ translating = {}
        /\ pending = [h \in Hosts |-> [s \in Sentences |-> "none"]]
        /\ timeline = {} /\ edge = 0 /\ produced = 0
        /\ delay \in Delays /\ media \in BOOLEAN
        /\ released = -1 /\ everActive = FALSE
        /\ buffer = CASE delay = 0 -> "inactive"
                      [] delay # 0 /\ media -> "filling"
                      [] OTHER -> "failed"
        /\ aired = <<>>

-----------------------------------------------------------------------------
(* ProgrammeOutputBuffer.                                                   *)

Between(from, to) == {s \in timeline : from < start[s] /\ start[s] <= to}

\* Broken variant: the delay is forgotten.
Target_live(state, at) == at

\* Broken variant: draining sets the state and nothing else.
Target_held(state, at) == Larger(0, at - delay)

Target(state, at) == IF state = "draining" THEN at ELSE Larger(0, at - delay)

\* Where advance() puts the cursor when the live edge is `at`.
To(state, at) == IF state = "failed" THEN released
                 ELSE Larger(released, Target(state, at))

Depth == edge' - Larger(0, released')
Reassessed == CASE delay = 0 -> "inactive"
                [] delay # 0 /\ Depth >= delay -> "active"
                [] OTHER -> IF everActive THEN "degraded" ELSE "filling"

\* advance() of a buffer in this state.
Advance(state) ==
  /\ released' = To(state, edge')
  /\ buffer' = IF state \in {"failed", "draining"} THEN state ELSE Reassessed
  /\ everActive' = (everActive \/ buffer' = "active")

-----------------------------------------------------------------------------
(* StreamingSegmentCoordinator, whose events go to the pump, the timeline   *)
(* and the translation pipelines.                                           *)

Hold(h, s, what) ==
  /\ pending' = [pending EXCEPT ![h][s] = what]
  /\ timeline' = timeline \cup {s}
  /\ edge' = Larger(edge, position[h])
NothingHeld == UNCHANGED <<pending, timeline, edge>>

\* Broken variant: what was said stays open after it is committed.
Commit_open(h) ==
  /\ window' = [window EXCEPT ![h] = FALSE]
  /\ IF text[h]
     THEN /\ Hold(h, open[h], "final")
          /\ translating' = translating \cup ({h} \X {open[h]} \X Languages)
     ELSE NothingHeld /\ UNCHANGED translating
  /\ UNCHANGED <<open, text>>

\* A segment the provider returned no words for is abandoned.
Commit(h) ==
  /\ open' = [open EXCEPT ![h] = None]
  /\ text' = [text EXCEPT ![h] = FALSE]
  /\ window' = [window EXCEPT ![h] = FALSE]
  /\ IF text[h]
     THEN /\ Hold(h, open[h], "final")
          /\ translating' = translating \cup ({h} \X {open[h]} \X Languages)
     ELSE NothingHeld /\ UNCHANGED translating

Listening(h) == stream[h] \in {"live", "finishing", "aborting"}
Speaking(h) == open[h] # None

\* Audio flows, and with it the end of the open segment.
Audio(h) ==
  /\ stream[h] = "live" /\ position[h] < MaxTime
  /\ position' = [position EXCEPT ![h] = @ + 1]
  /\ NothingHeld
  /\ UNCHANGED <<stream, open, text, window, start, translating, cursor, config,
                 produced, aired>>

SpeechStart(h) ==
  /\ stream[h] = "live"
  /\ IF Speaking(h)
     THEN window' = [window EXCEPT ![h] = FALSE] /\ UNCHANGED <<open, start>>
     ELSE \E s \in Sentences :
            /\ start[s] = -1 /\ \A r \in 1..(s - 1) : start[r] # -1
            /\ start' = [start EXCEPT ![s] = position[h]]
            /\ open' = [open EXCEPT ![h] = s]
            /\ UNCHANGED window
  /\ NothingHeld
  /\ UNCHANGED <<stream, position, text, translating, cursor, config, produced, aired>>

\* The words of a segment are the last the provider sent, which may be none.
Partial(h) ==
  /\ Listening(h) /\ Speaking(h)
  /\ \E words \in BOOLEAN : text' = [text EXCEPT ![h] = words]
  /\ window' = [window EXCEPT ![h] = FALSE]
  /\ Hold(h, open[h], "partial")
  /\ UNCHANGED <<stream, position, open, start, translating, cursor, config,
                 produced, aired>>

\* Speech end, endpoint and provider final only open the window; the last
\* replaces the words.
Boundary(h) ==
  /\ Listening(h) /\ Speaking(h)
  /\ window' = [window EXCEPT ![h] = TRUE]
  /\ \E words \in BOOLEAN : text' = [text EXCEPT ![h] = words]
  /\ NothingHeld
  /\ UNCHANGED <<stream, position, open, start, translating, cursor, config,
                 produced, aired>>

WindowElapses(h) ==
  /\ window[h] /\ Commit(h)
  /\ UNCHANGED <<stream, position, start, cursor, config, produced, aired>>

\* Audio or the provider's connection was lost, or the utterance is too long.
Discontinuity(h) ==
  /\ Listening(h) /\ Speaking(h) /\ Commit(h)
  /\ UNCHANGED <<stream, position, start, cursor, config, produced, aired>>

-----------------------------------------------------------------------------
(* The host.                                                                *)

Become(h, phase) == stream' = [stream EXCEPT ![h] = phase]

\* A second host of the run hears a stream that replaces the first, whether or
\* not that one has ended.
OpenHost(h) ==
  /\ stream[h] = "none"
  /\ \A g \in Hosts : g < h => stream[g] # "none"
  /\ Cardinality({g \in Hosts : Listening(g)}) < AtOnce
  /\ Become(h, "live") /\ NothingHeld
  /\ UNCHANGED <<speech, translating, cursor, config, produced, aired>>

\* finish() and disconnected(): the provider still owes finals while the
\* stream is finishing.
Finish(h) ==
  /\ stream[h] = "live"
  /\ Become(h, "finishing")
  /\ window' \in {window, [window EXCEPT ![h] = Speaking(h)]}
  /\ NothingHeld
  /\ UNCHANGED <<position, open, text, start, translating, cursor, config,
                 produced, aired>>

FinishEnds(h) ==
  /\ stream[h] = "finishing" /\ Become(h, "over")
  /\ IF Speaking(h) THEN Commit(h)
     ELSE NothingHeld /\ UNCHANGED <<open, text, window, translating>>
  /\ UNCHANGED <<position, start, cursor, config, produced, aired>>

Abort(h) ==
  /\ stream[h] = "live" /\ Become(h, "aborting") /\ NothingHeld
  /\ UNCHANGED <<speech, translating, cursor, config, produced, aired>>

\* Broken variant: the window of a withdrawn sentence is left armed.
AbortEnds_armed(h) ==
  /\ stream[h] = "aborting" /\ Become(h, "over")
  /\ open' = [open EXCEPT ![h] = None]
  /\ text' = [text EXCEPT ![h] = FALSE]
  /\ NothingHeld
  /\ UNCHANGED <<position, window, start, translating, cursor, config, produced, aired>>

\* abandon().  What is being spoken stops, and its record still comes.
AbortEnds(h) ==
  /\ stream[h] = "aborting" /\ Become(h, "over")
  /\ open' = [open EXCEPT ![h] = None]
  /\ text' = [text EXCEPT ![h] = FALSE] /\ window' = [window EXCEPT ![h] = FALSE]
  /\ NothingHeld
  /\ UNCHANGED <<position, start, translating, cursor, config, produced, aired>>

\* A pipeline spoke the sentence, or had nothing to say.  The sentence is on the
\* timeline already, with the end it had when it was committed.
Spoken(h) ==
  \E s \in Sentences, l \in Languages :
    /\ <<h, s, l>> \in translating
    /\ translating' = translating \ {<<h, s, l>>}
    /\ pending' \in {pending, [pending EXCEPT ![h][s] = "final"]}
    /\ UNCHANGED <<stream, speech, timeline, edge, cursor, config, produced, aired>>

\* Sentences are numbered in the order they were minted, and two that start
\* together are sent in that order.
Before(r, s) == start[r] < start[s] \/ (start[r] = start[s] /\ r < s)

\* What the host's pump holds for these sentences is given to the audience.
Give(h, out) ==
  \E q \in [1..Cardinality(out) -> out] :
    /\ \A i, j \in DOMAIN q : i < j => Before(q[i], q[j])
    /\ aired' = aired \o q

\* Broken variant: the pump looks at everything the cursor has ever passed.
Tick_keeps(h) ==
  LET out == {s \in Between(-1, To(buffer, edge)) : pending[h][s] # "none"} IN
  /\ stream[h] # "none"
  /\ UNCHANGED edge /\ Advance(buffer) /\ Give(h, out)
  /\ pending' = [pending EXCEPT ![h] =
                   [s \in Sentences |-> IF s \in out THEN "none" ELSE @[s]]]
  /\ UNCHANGED <<stream, speech, translating, timeline, config, produced>>

\* ProgrammeOutputPump.tick, from an interval no host ever clears.
Tick(h) ==
  LET out == {s \in Between(released, To(buffer, edge)) : pending[h][s] # "none"} IN
  /\ stream[h] # "none"
  /\ UNCHANGED edge /\ Advance(buffer) /\ Give(h, out)
  /\ pending' = [pending EXCEPT ![h] =
                   [s \in Sentences |-> IF s \in out THEN "none" ELSE @[s]]]
  /\ UNCHANGED <<stream, speech, translating, timeline, config, produced>>

-----------------------------------------------------------------------------
(* The others who write the timeline or move the cursor.                    *)

\* collect(): a segment the origin has finished goes onto the timeline, and
\* the cursor is advanced; nobody reads what that released.  (A poll that finds
\* several appends them all before it advances.)
Collect ==
  /\ media /\ produced < MaxTime
  /\ produced' = produced + 1
  /\ edge' = Larger(edge, produced')
  /\ Advance(buffer)
  /\ UNCHANGED <<stream, speech, translating, pending, timeline, config, aired>>

\* onProgrammeRunEnded: drained, and advanced once.
RunEnded ==
  /\ NothingHeld
  /\ Advance(IF buffer = "failed" THEN buffer ELSE "draining")
  /\ UNCHANGED <<stream, speech, translating, config, produced, aired>>

\* The journal, the lease, the spool or the origin failed.
Fail ==
  /\ buffer # "failed" /\ buffer' = "failed"
  /\ NothingHeld
  /\ UNCHANGED <<stream, speech, translating, released, everActive, config,
                 produced, aired>>

Coordinator(h) == \/ Audio(h) \/ SpeechStart(h) \/ Partial(h) \/ Boundary(h)
                  \/ WindowElapses(h) \/ Discontinuity(h)
Host(h) == \/ OpenHost(h) \/ Finish(h) \/ FinishEnds(h) \/ Abort(h) \/ AbortEnds(h)
           \/ Spoken(h)
Next == \/ Collect \/ RunEnded \/ Fail
        \/ \E h \in Hosts : Coordinator(h) \/ Host(h) \/ Tick(h)

\* setInterval goes on firing.
Fairness == \A h \in Hosts : WF_vars(Tick(h))
Spec == Init /\ [][Next]_vars /\ Fairness

-----------------------------------------------------------------------------
TypeOK ==
  /\ stream \in [Hosts -> {"none", "live", "finishing", "aborting", "over"}]
  /\ position \in [Hosts -> 0..MaxTime]
  /\ open \in [Hosts -> Sentences \cup {None}]
  /\ text \in [Hosts -> BOOLEAN] /\ window \in [Hosts -> BOOLEAN]
  /\ \A h \in Hosts : text[h] \/ window[h] => Speaking(h)
  /\ start \in [Sentences -> -1..MaxTime]
  /\ translating \subseteq Hosts \X Sentences \X Languages
  /\ pending \in [Hosts -> [Sentences -> Payloads]]
  /\ timeline \subseteq Sentences
  /\ edge \in 0..MaxTime /\ released \in -1..MaxTime /\ released <= edge
  /\ buffer \in {"inactive", "filling", "active", "degraded", "draining", "failed"}
  /\ everActive \in BOOLEAN /\ produced \in 0..MaxTime
  /\ aired \in Seq(Sentences)

\* "Everything released is emitted in programme order", and "viewers never skip
\* and never repeat" as far as repeating goes: no sentence is given twice, and
\* none after one that began later, whichever host's interval gave it.
GivenOnceInOrder ==
  \A i, j \in DOMAIN aired : i < j =>
    aired[i] # aired[j] /\ start[aired[i]] <= start[aired[j]]

\* "An audience that was promised a delay" does not "quietly receive true live":
\* until the run has ended, a sentence is given only once the programme has gone
\* the delay past its beginning.  The first moment of it is released at once.
HeldBack ==
  [][\A i \in (DOMAIN aired') \ DOMAIN aired :
       LET began == start[aired'[i]]
       IN buffer' = "draining" \/ began = 0 \/ began + delay <= edge']_vars

\* A provider observation that comes after the commit "cannot open a segment":
\* what is held of a sentence that is final is never made provisional again.
FinalStands ==
  [][\A h \in Hosts, s \in Sentences :
       pending[h][s] = "final" => pending'[h][s] # "partial"]_vars

\* The cursor's half of "ending a programme has to mean the audience gets the
\* rest of it": after the run has ended the cursor catches up with whatever is
\* still written.  It says nothing of who is sent what the last advance released,
\* which the end of the run drops (SentWhenReached).
EndingIsReleased ==
  [](buffer = "draining" => <>(released = edge \/ buffer = "failed"))

\* Production output "becomes 'emit when the cursor reaches it'": what a pump
\* holds is sent in the step that moves the cursor over its event.
SentWhenReached ==
  [][\A h \in Hosts, s \in timeline :
       pending[h][s] # "none" /\ released < start[s] /\ start[s] <= released'
         => pending'[h][s] = "none"]_vars
=============================================================================
