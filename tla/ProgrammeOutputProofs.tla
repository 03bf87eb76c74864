------------------------ MODULE ProgrammeOutputProofs ------------------------
(***************************************************************************)
(* What an audience is given, for any hosts, sentences, languages and      *)
(* delays: each sentence once and in order, none before its delay, and     *)
(* nothing final made provisional again.                                   *)
(***************************************************************************)
EXTENDS ProgrammeOutput, FiniteSetTheorems, SequenceTheorems, TLAPS

Phases == {"none", "live", "finishing", "aborting", "over"}
BufferStates == {"inactive", "filling", "active", "degraded", "draining", "failed"}

\* TypeOK, by who writes what.
HostsOK ==
  /\ stream \in [Hosts -> Phases]
  /\ position \in [Hosts -> 0..MaxTime]
SpeechOK ==
  /\ open \in [Hosts -> Sentences \cup {None}]
  /\ text \in [Hosts -> BOOLEAN] /\ window \in [Hosts -> BOOLEAN]
  /\ \A h \in Hosts : text[h] \/ window[h] => Speaking(h)
HeldOK ==
  /\ start \in [Sentences -> -1..MaxTime]
  /\ translating \subseteq Hosts \X Sentences \X Languages
  /\ pending \in [Hosts -> [Sentences -> Payloads]]
  /\ timeline \subseteq Sentences
CursorOK ==
  /\ edge \in 0..MaxTime /\ released \in -1..MaxTime /\ released <= edge
  /\ buffer \in BufferStates /\ everActive \in BOOLEAN
  /\ produced \in 0..MaxTime /\ delay \in Delays

Minted(s) == start[s] # -1

\* Nothing is known of a sentence before it is minted.
Untouched(s) == /\ s \notin timeline
                /\ \A h \in Hosts : pending[h][s] = "none"
                /\ \A h \in Hosts : \A l \in Languages : <<h, s, l>> \notin translating
MintedFirst == \A s \in Sentences : ~Minted(s) => Untouched(s)

\* What a host has open is minted, and has not been committed.
Provisional(h, s) ==
  /\ Minted(s) /\ pending[h][s] \in {"none", "partial"}
  /\ \A l \in Languages : <<h, s, l>> \notin translating
OpenIsProvisional == \A h \in Hosts : Speaking(h) => Provisional(h, open[h])

\* What the audience has is behind the cursor.
Behind(s) == Minted(s) /\ start[s] <= released
AiredBehind == \A i \in DOMAIN aired : Behind(aired[i])

Inv == /\ HostsOK /\ SpeechOK /\ HeldOK /\ CursorOK
       /\ MintedFirst /\ OpenIsProvisional
OutInv == /\ aired \in Seq(Sentences) /\ AiredBehind /\ GivenOnceInOrder

-----------------------------------------------------------------------------
(* The cursor.                                                              *)

CursorKept == /\ released' \in -1..MaxTime /\ released <= released' /\ released' <= edge'
              /\ buffer' \in BufferStates /\ everActive' \in BOOLEAN

LEMMA DelayedIsBetween ==
  ASSUME NEW r \in Int, NEW e \in Int, NEW d \in Nat, r <= e, 0 <= e
  PROVE  LET to == Larger(r, Larger(0, e - d))
         IN to \in Int /\ r <= to /\ to <= e
BY DEF Larger

\* The cursor never goes backwards and never past what is on the timeline.  While
\* the run is on it goes no further than the delay allows; draining and failing
\* are for good.
LEMMA AdvanceKeeps ==
  ASSUME CursorOK, NEW state \in BufferStates, Advance(state),
         edge' \in 0..MaxTime, edge <= edge'
  PROVE  /\ CursorKept
         /\ state \in {"failed", "draining"} => buffer' = state
         /\ state = "failed" => released' = released
         /\ state \notin {"failed", "draining"} =>
              released' = Larger(released, Larger(0, edge' - delay))
<1>1. /\ released \in Int /\ edge \in Int /\ edge' \in Int /\ delay \in Nat /\ MaxTime \in Nat
      /\ released <= edge' /\ -1 <= released /\ 0 <= edge'
  BY OutputAssumption DEF CursorOK
<1>2. released' = To(state, edge')
  BY DEF Advance
<1>3. CASE state = "failed"
  BY <1>1, <1>2, <1>3 DEF To, Advance, CursorKept, CursorOK, BufferStates
<1>4. CASE state = "draining"
  <2>1. released' = Larger(released, edge')
    BY <1>2, <1>4 DEF To, Target
  <2>2. buffer' = state /\ everActive' \in BOOLEAN
    BY <1>4 DEF Advance, CursorOK
  <2> QED
    BY <1>1, <1>4, <2>1, <2>2 DEF Larger, CursorKept, BufferStates
<1>5. CASE state \notin {"failed", "draining"}
  <2>1. released' = Larger(released, Larger(0, edge' - delay))
    BY <1>2, <1>5 DEF To, Target
  <2>2. buffer' \in BufferStates /\ everActive' \in BOOLEAN
    BY <1>5 DEF Advance, Reassessed, BufferStates
  <2>3. released' \in Int /\ released <= released' /\ released' <= edge'
    BY <1>1, <2>1, DelayedIsBetween
  <2>4. released' \in -1..MaxTime
    BY <1>1, <2>3
  <2> QED
    BY <1>5, <2>1, <2>2, <2>3, <2>4 DEF CursorKept
<1> QED
  BY <1>3, <1>4, <1>5

\* What a pump is given to hold puts its sentence on the timeline.
LEMMA HoldKeeps ==
  ASSUME HostsOK, HeldOK, CursorOK, NEW h \in Hosts, NEW s \in Sentences,
         NEW what \in Payloads, Hold(h, s, what)
  PROVE  /\ pending' \in [Hosts -> [Sentences -> Payloads]]
         /\ timeline' = timeline \cup {s} /\ timeline' \subseteq Sentences
         /\ edge' \in 0..MaxTime /\ edge <= edge'
         /\ pending'[h][s] = what
         /\ \A g \in Hosts : \A r \in Sentences :
              g # h \/ r # s => pending'[g][r] = pending[g][r]
<1>1. edge \in 0..MaxTime /\ position[h] \in 0..MaxTime /\ MaxTime \in Nat
  BY OutputAssumption DEF CursorOK, HostsOK
<1>2. edge' = Larger(edge, position[h])
  BY DEF Hold
<1>3. edge' \in 0..MaxTime /\ edge <= edge'
  BY <1>1, <1>2 DEF Larger
<1> QED
  BY <1>3 DEF Hold, HeldOK

LEMMA CommitHolds ==
  ASSUME SpeechOK, NEW h \in Hosts, Speaking(h), Commit(h)
  PROVE  /\ open[h] \in Sentences
         /\ NothingHeld \/ Hold(h, open[h], "final")
BY DEF SpeechOK, Speaking, Commit

\* The edge moves only forwards.
LEMMA EdgeMoves ==
  ASSUME HostsOK, SpeechOK, HeldOK, CursorOK, [Next]_vars
  PROVE  edge' \in 0..MaxTime /\ edge <= edge' /\ produced' \in 0..MaxTime
<1>0. edge \in 0..MaxTime /\ produced \in 0..MaxTime /\ MaxTime \in Nat
  BY OutputAssumption DEF CursorOK
<1>1. ASSUME UNCHANGED <<edge, produced>>
      PROVE  edge' \in 0..MaxTime /\ edge <= edge' /\ produced' \in 0..MaxTime
  BY <1>0, <1>1
<1>2. ASSUME NEW h \in Hosts, NEW s \in Sentences, NEW what \in Payloads,
             Hold(h, s, what), UNCHANGED produced
      PROVE  edge' \in 0..MaxTime /\ edge <= edge' /\ produced' \in 0..MaxTime
  BY <1>0, <1>2, HoldKeeps
<1>3. CASE Collect
  <2>1. produced' \in 0..MaxTime /\ edge' = Larger(edge, produced')
    BY <1>0, <1>3 DEF Collect
  <2> QED
    BY <1>0, <2>1 DEF Larger
<1>4. CASE RunEnded \/ Fail
  BY <1>1, <1>4 DEF RunEnded, Fail, NothingHeld
<1>5. ASSUME NEW h \in Hosts, Audio(h) \/ SpeechStart(h) \/ Boundary(h)
      PROVE  UNCHANGED <<edge, produced>>
  BY <1>5 DEF Audio, SpeechStart, Boundary, NothingHeld
<1>6. ASSUME NEW h \in Hosts, Partial(h)
      PROVE  Hold(h, open[h], "partial") /\ open[h] \in Sentences /\ UNCHANGED produced
  BY <1>6 DEF Partial, SpeechOK, Speaking
<1>7. ASSUME NEW h \in Hosts, WindowElapses(h) \/ Discontinuity(h) \/ FinishEnds(h)
      PROVE  /\ UNCHANGED edge \/ (Hold(h, open[h], "final") /\ open[h] \in Sentences)
             /\ UNCHANGED produced
  <2>1. (Commit(h) /\ Speaking(h)) \/ UNCHANGED edge
    BY <1>7 DEF WindowElapses, Discontinuity, FinishEnds, NothingHeld, SpeechOK
  <2> QED
    BY <1>7, <2>1, CommitHolds DEF WindowElapses, Discontinuity, FinishEnds, NothingHeld
<1>8. ASSUME NEW h \in Hosts, OpenHost(h) \/ Finish(h) \/ Abort(h) \/ AbortEnds(h) \/ Tick(h)
      PROVE  UNCHANGED <<edge, produced>>
  BY <1>8 DEF OpenHost, Finish, Abort, AbortEnds, Tick, NothingHeld
<1>9. ASSUME NEW h \in Hosts, Spoken(h)
      PROVE  UNCHANGED <<edge, produced>>
  BY <1>9 DEF Spoken
<1>10. CASE UNCHANGED vars
  BY <1>1, <1>10 DEF vars
<1>11. "partial" \in Payloads /\ "final" \in Payloads
  BY DEF Payloads
<1> QED
  BY <1>1, <1>2, <1>3, <1>4, <1>5, <1>6, <1>7, <1>8, <1>9, <1>10, <1>11
     DEF Next, Coordinator, Host

\* Only the pump, the origin, the end of the run and a failure move the cursor.
LEMMA CursorMoves ==
  ASSUME HostsOK, SpeechOK, HeldOK, CursorOK, [Next]_vars
  PROVE  CursorKept /\ UNCHANGED delay
<1>0. edge' \in 0..MaxTime /\ edge <= edge'
  BY EdgeMoves
<1>1. ASSUME UNCHANGED cursor PROVE CursorKept
  BY <1>0, <1>1 DEF cursor, CursorOK, CursorKept
<1>2. buffer \in BufferStates /\ "draining" \in BufferStates /\ "failed" \in BufferStates
  BY DEF CursorOK, BufferStates
<1>3. CASE Collect
  BY <1>0, <1>2, <1>3, AdvanceKeeps DEF Collect, config
<1>4. CASE RunEnded
  <2>1. PICK state \in BufferStates : Advance(state)
    BY <1>2, <1>4 DEF RunEnded
  <2> QED
    BY <1>0, <1>4, <2>1, AdvanceKeeps DEF RunEnded, config
<1>5. CASE Fail
  BY <1>0, <1>2, <1>5 DEF Fail, config, CursorOK, CursorKept
<1>6. ASSUME NEW h \in Hosts, Tick(h) PROVE CursorKept /\ UNCHANGED delay
  BY <1>0, <1>2, <1>6, AdvanceKeeps DEF Tick, config
<1>7. ASSUME NEW h \in Hosts, Coordinator(h) \/ Host(h)
      PROVE  UNCHANGED cursor /\ UNCHANGED delay
  BY <1>7 DEF Coordinator, Host, Audio, SpeechStart, Partial, Boundary, WindowElapses,
              Discontinuity, OpenHost, Finish, FinishEnds, Abort, AbortEnds, Spoken, config
<1>8. CASE UNCHANGED vars
  BY <1>1, <1>8 DEF vars, config
<1> QED
  BY <1>1, <1>3, <1>4, <1>5, <1>6, <1>7, <1>8 DEF Next

LEMMA CursorStep ==
  ASSUME HostsOK, SpeechOK, HeldOK, CursorOK, [Next]_vars
  PROVE  CursorOK'
BY EdgeMoves, CursorMoves DEF CursorOK, CursorKept

-----------------------------------------------------------------------------
(* The hosts and their segments.                                            *)

LEMMA HostsStep ==
  ASSUME HostsOK, [Next]_vars
  PROVE  HostsOK'
<1> USE DEF HostsOK
<1>1. ASSUME UNCHANGED <<stream, position>> PROVE HostsOK'
  BY <1>1
<1>2. ASSUME NEW h \in Hosts, NEW phase \in Phases, Become(h, phase), UNCHANGED position
      PROVE  HostsOK'
  BY <1>2 DEF Become
<1>3. ASSUME NEW h \in Hosts, Audio(h) PROVE HostsOK'
  <2>1. position[h] + 1 \in 0..MaxTime
    BY <1>3, OutputAssumption DEF Audio
  <2> QED
    BY <1>3, <2>1 DEF Audio
<1>4. ASSUME NEW h \in Hosts, SpeechStart(h) \/ Partial(h) \/ Boundary(h)
             \/ WindowElapses(h) \/ Discontinuity(h) \/ Spoken(h) \/ Tick(h)
      PROVE  UNCHANGED <<stream, position>>
  BY <1>4 DEF SpeechStart, Partial, Boundary, WindowElapses, Discontinuity, Spoken, Tick,
              speech
<1>5. ASSUME NEW h \in Hosts,
             OpenHost(h) \/ Finish(h) \/ FinishEnds(h) \/ Abort(h) \/ AbortEnds(h)
      PROVE  (\E phase \in Phases : Become(h, phase)) /\ UNCHANGED position
  BY <1>5 DEF OpenHost, Finish, FinishEnds, Abort, AbortEnds, speech, Phases
<1>6. CASE Collect \/ RunEnded \/ Fail \/ UNCHANGED vars
  BY <1>1, <1>6 DEF Collect, RunEnded, Fail, speech, vars
<1> QED
  BY <1>1, <1>2, <1>3, <1>4, <1>5, <1>6 DEF Next, Coordinator, Host

\* A host's own segment: words and a window only while one is open.
SegmentOK(o, t, w) == /\ o \in Sentences \cup {None} /\ t \in BOOLEAN /\ w \in BOOLEAN
                      /\ t \/ w => o # None

\* A host's step leaves the others' segments alone.
LEMMA SpeechOfOne ==
  ASSUME SpeechOK, NEW h \in Hosts, NEW o, NEW t, NEW w, SegmentOK(o, t, w),
         open' = [open EXCEPT ![h] = o], text' = [text EXCEPT ![h] = t],
         window' = [window EXCEPT ![h] = w]
  PROVE  SpeechOK'
BY DEF SpeechOK, SegmentOK, Speaking

LEMMA SpeechStep ==
  ASSUME SpeechOK, [Next]_vars
  PROVE  SpeechOK'
<1>1. ASSUME UNCHANGED <<open, text, window>> PROVE SpeechOK'
  BY <1>1 DEF SpeechOK, Speaking
<1>0. ASSUME NEW h \in Hosts
      PROVE  /\ SegmentOK(open[h], text[h], window[h])
             /\ SegmentOK(None, FALSE, FALSE)
             /\ open = [open EXCEPT ![h] = open[h]]
             /\ text = [text EXCEPT ![h] = text[h]]
             /\ window = [window EXCEPT ![h] = window[h]]
  BY DEF SpeechOK, SegmentOK, Speaking
<1>2. ASSUME NEW h \in Hosts, Commit(h) PROVE SpeechOK'
  BY <1>0, <1>2, SpeechOfOne DEF Commit
<1>3. ASSUME NEW h \in Hosts, SpeechStart(h) PROVE SpeechOK'
  <2>0. text' = [text EXCEPT ![h] = text[h]]
    BY <1>0, <1>3 DEF SpeechStart
  <2>1. CASE Speaking(h)
    <3>1. SegmentOK(open[h], text[h], FALSE)
      BY <1>0 DEF SegmentOK
    <3>2. open' = [open EXCEPT ![h] = open[h]] /\ window' = [window EXCEPT ![h] = FALSE]
      BY <1>0, <1>3, <2>1 DEF SpeechStart
    <3> QED
      BY <2>0, <3>1, <3>2, SpeechOfOne
  <2>2. CASE ~Speaking(h)
    <3>1. PICK s \in Sentences : open' = [open EXCEPT ![h] = s] /\ UNCHANGED <<text, window>>
      BY <1>3, <2>2 DEF SpeechStart
    <3>2. s # None
      BY DEF Sentences, None
    <3>3. SegmentOK(s, text[h], window[h])
      BY <1>0, <3>2 DEF SegmentOK
    <3>4. open' = [open EXCEPT ![h] = s] /\ window' = [window EXCEPT ![h] = window[h]]
      BY <1>0, <3>1
    <3> QED
      BY <2>0, <3>3, <3>4, SpeechOfOne
  <2> QED
    BY <2>1, <2>2
<1>4. ASSUME NEW h \in Hosts, Partial(h) PROVE SpeechOK'
  <2>1. PICK words \in BOOLEAN : text' = [text EXCEPT ![h] = words]
    BY <1>4 DEF Partial
  <2>2. SegmentOK(open[h], words, FALSE)
    BY <1>0, <1>4 DEF SegmentOK, Partial, Speaking
  <2> QED
    BY <1>0, <1>4, <2>1, <2>2, SpeechOfOne DEF Partial
<1>5. ASSUME NEW h \in Hosts, Boundary(h) PROVE SpeechOK'
  <2>1. PICK words \in BOOLEAN : text' = [text EXCEPT ![h] = words]
    BY <1>5 DEF Boundary
  <2>2. SegmentOK(open[h], words, TRUE)
    BY <1>0, <1>5 DEF SegmentOK, Boundary, Speaking
  <2> QED
    BY <1>0, <1>5, <2>1, <2>2, SpeechOfOne DEF Boundary
<1>6. ASSUME NEW h \in Hosts, Finish(h) PROVE SpeechOK'
  <2>1. SegmentOK(open[h], text[h], Speaking(h))
    BY <1>0 DEF SegmentOK, Speaking
  <2>2. UNCHANGED <<open, text>> /\ (UNCHANGED window
                                     \/ window' = [window EXCEPT ![h] = Speaking(h)])
    BY <1>6 DEF Finish
  <2>3. open' = [open EXCEPT ![h] = open[h]] /\ text' = [text EXCEPT ![h] = text[h]]
    BY <1>0, <2>2
  <2>4. CASE UNCHANGED window
    BY <1>1, <2>2, <2>4
  <2>5. CASE window' = [window EXCEPT ![h] = Speaking(h)]
    BY <2>1, <2>3, <2>5, SpeechOfOne
  <2> QED
    BY <2>2, <2>4, <2>5
<1>7. ASSUME NEW h \in Hosts, AbortEnds(h) PROVE SpeechOK'
  BY <1>0, <1>7, SpeechOfOne DEF AbortEnds
<1>8. ASSUME NEW h \in Hosts, WindowElapses(h) \/ Discontinuity(h) \/ FinishEnds(h)
      PROVE  Commit(h) \/ UNCHANGED <<open, text, window>>
  BY <1>8 DEF WindowElapses, Discontinuity, FinishEnds
<1>9. ASSUME NEW h \in Hosts, Audio(h) \/ OpenHost(h) \/ Abort(h) \/ Spoken(h) \/ Tick(h)
      PROVE  UNCHANGED <<open, text, window>>
  BY <1>9 DEF Audio, OpenHost, Abort, Spoken, Tick, speech
<1>10. CASE Collect \/ RunEnded \/ Fail \/ UNCHANGED vars
  BY <1>1, <1>10 DEF Collect, RunEnded, Fail, speech, vars
<1> QED
  BY <1>1, <1>2, <1>3, <1>4, <1>5, <1>6, <1>7, <1>8, <1>9, <1>10
     DEF Next, Coordinator, Host

-----------------------------------------------------------------------------
(* What is held of a sentence.                                              *)

Emptied == \A g \in Hosts : \A r \in Sentences : pending'[g][r] \in {pending[g][r], "none"}
Closed == \A g \in Hosts : open'[g] \in {open[g], None}

\* A pump that sends and a host that closes leave the rest as it was.
LEMMA LessIsHeld ==
  ASSUME HeldOK, SpeechOK, MintedFirst, OpenIsProvisional, UNCHANGED start,
         timeline' \subseteq timeline, translating' \subseteq translating, Emptied, Closed
  PROVE  MintedFirst' /\ OpenIsProvisional'
<1>1. MintedFirst'
  BY DEF MintedFirst, Minted, Untouched, Emptied
<1>2. ASSUME NEW g \in Hosts, Speaking(g)' PROVE Provisional(g, open[g])' /\ open'[g] = open[g]
  <2>1. open'[g] = open[g] /\ Speaking(g)
    BY <1>2 DEF Closed, Speaking
  <2>2. open[g] \in Sentences
    BY <2>1 DEF SpeechOK, Speaking
  <2>3. Provisional(g, open[g])
    BY <2>1 DEF OpenIsProvisional
  <2>4. pending'[g][open[g]] \in {"none", "partial"}
    BY <2>2, <2>3 DEF Provisional, Emptied
  <2> QED
    BY <2>1, <2>3, <2>4 DEF Provisional, Minted
<1>3. OpenIsProvisional'
  BY <1>2 DEF OpenIsProvisional
<1> QED
  BY <1>1, <1>3

\* A pump is given this to hold, and at most its sentence goes on the timeline.
Puts(h, s, what) ==
  /\ timeline \subseteq timeline' /\ timeline' \subseteq timeline \cup {s}
  /\ pending'[h][s] = what
  /\ \A g \in Hosts : \A r \in Sentences :
       g # h \/ r # s => pending'[g][r] = pending[g][r]

LEMMA HoldPuts ==
  ASSUME HostsOK, HeldOK, CursorOK, NEW h \in Hosts, NEW s \in Sentences,
         NEW what \in Payloads, Hold(h, s, what)
  PROVE  Puts(h, s, what)
BY HoldKeeps DEF Puts

\* What is held of a minted sentence is final only once the host has closed it.
LEMMA MoreIsHeld ==
  ASSUME HostsOK, SpeechOK, HeldOK, CursorOK, MintedFirst, OpenIsProvisional,
         NEW h \in Hosts, NEW s \in Sentences, NEW what \in Payloads, Puts(h, s, what),
         Minted(s), UNCHANGED start, Closed,
         translating' \subseteq translating \cup ({h} \X {s} \X Languages),
         open'[h] # s \/ (what = "partial" /\ translating' \subseteq translating)
  PROVE  MintedFirst' /\ OpenIsProvisional'
<1>0. /\ timeline' \subseteq timeline \cup {s} /\ pending'[h][s] = what
      /\ \A g \in Hosts : \A r \in Sentences :
           g # h \/ r # s => pending'[g][r] = pending[g][r]
  BY DEF Puts
<1>1. ASSUME NEW g \in Hosts, NEW r, NEW l \in Languages, g # h \/ r # s,
             <<g, r, l>> \in translating'
      PROVE  <<g, r, l>> \in translating
  BY <1>1
<1>2. ASSUME NEW r \in Sentences, start'[r] = -1 PROVE Untouched(r)'
  <2>1. r # s /\ Untouched(r)
    BY <1>2 DEF MintedFirst, Minted
  <2> QED
    BY <1>0, <1>1, <2>1 DEF Untouched
<1>3. ASSUME NEW g \in Hosts, open'[g] # None PROVE Provisional(g, open[g])'
  <2>1. open'[g] = open[g] /\ open[g] \in Sentences /\ Provisional(g, open[g])
    BY <1>3 DEF Closed, Speaking, SpeechOK, OpenIsProvisional
  <2>2. CASE g = h /\ open[g] = s
    <3>1. what = "partial" /\ translating' \subseteq translating
      BY <2>1, <2>2
    <3> QED
      BY <1>0, <2>1, <2>2, <3>1 DEF Provisional, Minted
  <2>3. CASE g # h \/ open[g] # s
    <3>1. pending'[g][open[g]] = pending[g][open[g]]
      BY <1>0, <2>1, <2>3
    <3>2. \A l \in Languages : <<g, open[g], l>> \notin translating'
      BY <1>1, <2>1, <2>3 DEF Provisional
    <3> QED
      BY <2>1, <3>1, <3>2 DEF Provisional, Minted
  <2> QED
    BY <2>2, <2>3
<1> QED
  BY <1>2, <1>3 DEF MintedFirst, Minted, OpenIsProvisional, Speaking

\* Only an unminted sentence is begun, and nothing is known of it.
LEMMA BegunIsProvisional ==
  ASSUME HostsOK, SpeechOK, HeldOK, MintedFirst, OpenIsProvisional,
         NEW h \in Hosts, SpeechStart(h)
  PROVE  HeldOK' /\ MintedFirst' /\ OpenIsProvisional'
<1>0. UNCHANGED <<translating, pending, timeline>>
  BY DEF SpeechStart, NothingHeld
<1>1. CASE Speaking(h)
  <2>1. UNCHANGED <<open, start>>
    BY <1>1 DEF SpeechStart
  <2> QED
    BY <1>0, <2>1 DEF HeldOK, MintedFirst, OpenIsProvisional, Minted, Untouched,
                      Provisional, Speaking
<1>2. CASE ~Speaking(h)
  <2>1. PICK s \in Sentences : /\ start[s] = -1
                              /\ start' = [start EXCEPT ![s] = position[h]]
                              /\ open' = [open EXCEPT ![h] = s]
    BY <1>2 DEF SpeechStart
  <2>2. position[h] \in 0..MaxTime /\ position[h] # -1
    BY DEF HostsOK
  <2>3. start' \in [Sentences -> -1..MaxTime]
    BY <2>1, <2>2, OutputAssumption DEF HeldOK
  <2>4. start'[s] = position[h] /\ \A r \in Sentences : r # s => start'[r] = start[r]
    BY <2>1 DEF HeldOK
  <2>5. HeldOK'
    BY <1>0, <2>3 DEF HeldOK
  <2>6. MintedFirst'
    BY <1>0, <2>2, <2>4 DEF MintedFirst, Minted, Untouched
  <2>7. ASSUME NEW g \in Hosts, open'[g] # None PROVE Provisional(g, open[g])'
    <3>1. CASE g = h
      <4>1. open'[g] = s
        BY <2>1, <3>1 DEF SpeechOK
      <4>2. Untouched(s)
        BY <2>1 DEF MintedFirst, Minted
      <4> QED
        BY <1>0, <2>2, <2>4, <4>1, <4>2 DEF Provisional, Minted, Untouched
    <3>2. CASE g # h
      <4>1. open'[g] = open[g]
        BY <2>1, <3>2 DEF SpeechOK
      <4>2. open[g] \in Sentences /\ Provisional(g, open[g])
        BY <2>7, <4>1 DEF SpeechOK, OpenIsProvisional, Speaking
      <4>3. open[g] # s
        BY <2>1, <4>2 DEF Provisional, Minted
      <4> QED
        BY <1>0, <2>4, <4>1, <4>2, <4>3 DEF Provisional, Minted
    <3> QED
      BY <3>1, <3>2
  <2> QED
    BY <2>5, <2>6, <2>7 DEF OpenIsProvisional, Speaking
<1> QED
  BY <1>1, <1>2

\* What a host has committed is final there and being spoken, and is closed.
LEMMA CommittedIsClosed ==
  ASSUME HostsOK, SpeechOK, HeldOK, CursorOK, MintedFirst, OpenIsProvisional,
         NEW h \in Hosts, Speaking(h), Commit(h), UNCHANGED start
  PROVE  HeldOK' /\ MintedFirst' /\ OpenIsProvisional'
<1>1. open[h] \in Sentences /\ Minted(open[h])
  BY CommitHolds DEF OpenIsProvisional, Provisional
<1>2. Closed /\ open'[h] = None /\ None # open[h]
  BY <1>1 DEF Commit, Closed, SpeechOK, Sentences, None
<1>3. CASE text[h]
  <2>1. /\ Hold(h, open[h], "final")
        /\ translating' = translating \cup ({h} \X {open[h]} \X Languages)
    BY <1>3 DEF Commit
  <2>2. "final" \in Payloads
    BY DEF Payloads
  <2>3. HeldOK'
    BY <1>1, <2>1, <2>2, HoldKeeps DEF HeldOK
  <2> QED
    BY <1>1, <1>2, <2>1, <2>2, <2>3, HoldPuts, MoreIsHeld
<1>4. CASE ~text[h]
  <2>1. UNCHANGED <<pending, timeline, translating>>
    BY <1>4 DEF Commit, NothingHeld
  <2> QED
    BY <1>2, <2>1, LessIsHeld DEF HeldOK, Emptied
<1> QED
  BY <1>3, <1>4

\* A tick sends part of what its host's pump holds and keeps the rest.
LEMMA TickEmpties ==
  ASSUME HeldOK, NEW h \in Hosts, Tick(h)
  PROVE  Emptied /\ pending' \in [Hosts -> [Sentences -> Payloads]]
<1> DEFINE out == {s \in Between(released, To(buffer, edge)) : pending[h][s] # "none"}
<1>1. pending' = [pending EXCEPT ![h] =
                   [s \in Sentences |-> IF s \in out THEN "none" ELSE pending[h][s]]]
  BY DEF Tick
<1> HIDE DEF out
<1> QED
  BY <1>1 DEF HeldOK, Emptied, Payloads

HeldKept == HeldOK /\ MintedFirst /\ OpenIsProvisional

LEMMA HeldStep ==
  ASSUME HostsOK, SpeechOK, HeldKept, CursorOK, [Next]_vars
  PROVE  HeldKept'
<1> USE DEF HeldKept
<1>1. ASSUME UNCHANGED <<start, translating, pending, timeline>>, Closed PROVE HeldKept'
  BY <1>1, LessIsHeld DEF HeldOK, Emptied
<1>2. ASSUME UNCHANGED open PROVE Closed
  BY <1>2 DEF Closed
<1>3. ASSUME NEW h \in Hosts, Audio(h) \/ Boundary(h) \/ OpenHost(h) \/ Finish(h) \/ Abort(h)
      PROVE  UNCHANGED <<open, start, translating, pending, timeline>>
  BY <1>3 DEF Audio, Boundary, OpenHost, Finish, Abort, NothingHeld, speech
<1>4. ASSUME NEW h \in Hosts, AbortEnds(h) PROVE HeldKept'
  <2>1. Closed /\ UNCHANGED <<start, translating, pending, timeline>>
    BY <1>4 DEF AbortEnds, NothingHeld, Closed, SpeechOK
  <2> QED
    BY <1>1, <2>1
<1>5. ASSUME NEW h \in Hosts, SpeechStart(h) PROVE HeldKept'
  BY <1>5, BegunIsProvisional
<1>6. ASSUME NEW h \in Hosts, Partial(h) PROVE HeldKept'
  <2>1. open[h] \in Sentences /\ Minted(open[h])
    BY <1>6 DEF Partial, SpeechOK, Speaking, OpenIsProvisional, Provisional
  <2>2. Hold(h, open[h], "partial") /\ "partial" \in Payloads /\ Closed
        /\ UNCHANGED <<start, translating>>
    BY <1>2, <1>6 DEF Partial, Payloads
  <2>3. HeldOK'
    BY <2>1, <2>2, HoldKeeps DEF HeldOK
  <2> QED
    BY <2>1, <2>2, <2>3, HoldPuts, MoreIsHeld
<1>7. ASSUME NEW h \in Hosts, WindowElapses(h) \/ Discontinuity(h) \/ FinishEnds(h)
      PROVE  HeldKept'
  <2>1. \/ Commit(h) /\ Speaking(h)
        \/ UNCHANGED <<open, translating, pending, timeline>>
    BY <1>7 DEF WindowElapses, Discontinuity, FinishEnds, NothingHeld, SpeechOK
  <2>2. UNCHANGED start
    BY <1>7 DEF WindowElapses, Discontinuity, FinishEnds
  <2> QED
    BY <1>1, <1>2, <2>1, <2>2, CommittedIsClosed
<1>8. ASSUME NEW h \in Hosts, Spoken(h) PROVE HeldKept'
  <2>1. PICK s \in Sentences, l \in Languages :
          /\ <<h, s, l>> \in translating
          /\ translating' = translating \ {<<h, s, l>>}
          /\ pending' \in {pending, [pending EXCEPT ![h][s] = "final"]}
          /\ UNCHANGED <<open, start, timeline>>
    BY <1>8 DEF Spoken, speech
  <2>2. Minted(s) /\ (Speaking(h) => open[h] # s)
    BY <2>1 DEF MintedFirst, Untouched, OpenIsProvisional, Provisional
  <2>3. CASE UNCHANGED pending
    BY <1>2, <2>1, <2>3, LessIsHeld DEF HeldOK, Emptied
  <2>4. CASE pending' = [pending EXCEPT ![h][s] = "final"]
    <3>1. "final" \in Payloads /\ s # None
      BY DEF Payloads, Sentences, None
    <3>2. open'[h] # s
      BY <2>1, <2>2, <3>1 DEF Speaking
    <3>3. Puts(h, s, "final") /\ HeldOK'
      BY <2>1, <2>4, <3>1 DEF Puts, HeldOK
    <3> QED
      BY <1>2, <2>1, <2>2, <3>1, <3>2, <3>3, MoreIsHeld
  <2> QED
    BY <2>1, <2>3, <2>4
<1>9. ASSUME NEW h \in Hosts, Tick(h) PROVE HeldKept'
  <2>1. UNCHANGED <<open, start, translating, timeline>>
    BY <1>9 DEF Tick, speech
  <2> QED
    BY <1>2, <1>9, <2>1, TickEmpties, LessIsHeld DEF HeldOK
<1>10. CASE Collect \/ RunEnded \/ Fail \/ UNCHANGED vars
  <2>1. UNCHANGED <<open, start, translating, pending, timeline>>
    BY <1>10 DEF Collect, RunEnded, Fail, NothingHeld, speech, vars
  <2> QED
    BY <1>1, <1>2, <2>1
<1> QED
  BY <1>1, <1>2, <1>3, <1>4, <1>5, <1>6, <1>7, <1>8, <1>9, <1>10
     DEF Next, Coordinator, Host

LEMMA InvStarts == Init => Inv
<1> SUFFICES ASSUME Init PROVE Inv
  OBVIOUS
<1>1. HostsOK
  BY OutputAssumption DEF Init, HostsOK, Phases
<1>2. SpeechOK
  BY DEF Init, SpeechOK, Speaking
<1>3. HeldOK
  BY OutputAssumption DEF Init, HeldOK, Payloads
<1>4. CursorOK
  <2>1. buffer \in BufferStates
    BY DEF Init, BufferStates
  <2>2. /\ edge = 0 /\ released = -1 /\ produced = 0 /\ everActive = FALSE
        /\ delay \in Delays
    BY DEF Init
  <2>3. 0 \in 0..MaxTime /\ -1 \in -1..MaxTime /\ -1 <= 0
    BY OutputAssumption
  <2>4. edge \in 0..MaxTime /\ released \in -1..MaxTime /\ released <= edge
    BY <2>2, <2>3
  <2>5. produced \in 0..MaxTime /\ everActive \in BOOLEAN
    BY <2>2, <2>3
  <2> QED
    BY <2>1, <2>2, <2>4, <2>5 DEF CursorOK
<1>5. MintedFirst /\ OpenIsProvisional
  BY DEF Init, MintedFirst, OpenIsProvisional, Untouched, Speaking
<1> QED
  BY <1>1, <1>2, <1>3, <1>4, <1>5 DEF Inv

LEMMA InvKept == Inv /\ [Next]_vars => Inv'
BY HostsStep, SpeechStep, HeldStep, CursorStep DEF Inv, HeldKept

\* A provider's late words reach no sentence that is final: a host forgets its
\* segment when it commits it, and only an unminted sentence is begun.
THEOREM FinalForGood == Spec => FinalStands
<1>1. Inv /\ [Next]_vars =>
        [\A h \in Hosts, s \in Sentences :
           pending[h][s] = "final" => pending'[h][s] # "partial"]_vars
  <2> SUFFICES ASSUME Inv, [Next]_vars, NEW h \in Hosts, NEW s \in Sentences,
                      pending[h][s] = "final", pending'[h][s] = "partial"
               PROVE  FALSE
    OBVIOUS
  <2> USE DEF Inv
  <2>1. CASE UNCHANGED pending
    BY <2>1
  <2>2. ASSUME NEW g \in Hosts, NEW r \in Sentences, Hold(g, r, "final")
        PROVE  FALSE
    <3>1. "final" \in Payloads
      BY DEF Payloads
    <3> QED
      BY <2>2, <3>1, HoldKeeps
  <2>3. ASSUME NEW g \in Hosts, Partial(g) PROVE FALSE
    <3>1. /\ open[g] \in Sentences /\ Provisional(g, open[g])
          /\ Hold(g, open[g], "partial") /\ "partial" \in Payloads
      BY <2>3 DEF Partial, SpeechOK, Speaking, OpenIsProvisional, Payloads
    <3> QED
      BY <3>1, HoldKeeps DEF Provisional
  <2>4. ASSUME NEW g \in Hosts, WindowElapses(g) \/ Discontinuity(g) \/ FinishEnds(g)
        PROVE  FALSE
    <3>1. (Commit(g) /\ Speaking(g)) \/ UNCHANGED pending
      BY <2>4 DEF WindowElapses, Discontinuity, FinishEnds, NothingHeld, SpeechOK
    <3> QED
      BY <2>1, <2>2, <3>1, CommitHolds DEF NothingHeld
  <2>5. ASSUME NEW g \in Hosts, Spoken(g) PROVE FALSE
    BY <2>5 DEF Spoken, HeldOK
  <2>6. ASSUME NEW g \in Hosts, Tick(g) PROVE FALSE
    BY <2>6, TickEmpties DEF Emptied
  <2>7. ASSUME NEW g \in Hosts, Audio(g) \/ SpeechStart(g) \/ Boundary(g) \/ OpenHost(g)
               \/ Finish(g) \/ Abort(g) \/ AbortEnds(g)
        PROVE  UNCHANGED pending
    BY <2>7 DEF Audio, SpeechStart, Boundary, OpenHost, Finish, Abort, AbortEnds, NothingHeld
  <2>8. CASE Collect \/ RunEnded \/ Fail \/ UNCHANGED vars
    BY <2>1, <2>8 DEF Collect, RunEnded, Fail, NothingHeld, vars
  <2> QED
    BY <2>1, <2>3, <2>4, <2>5, <2>6, <2>7, <2>8 DEF Next, Coordinator, Host
<1> QED
  BY <1>1, InvStarts, InvKept, PTL DEF Spec, FinalStands

-----------------------------------------------------------------------------
(* What the audience was given.                                             *)

InOrder(a, b) == a # b /\ start[a] <= start[b]

\* What one tick gives: sentences of this set, each once, in order.
GivenFrom(t, out) ==
  /\ t \in Seq(Sentences)
  /\ \A i \in DOMAIN t : t[i] \in out
  /\ \A i, j \in DOMAIN t : i < j => InOrder(t[i], t[j])

LEMMA GiveGives ==
  ASSUME HeldOK, NEW h \in Hosts, NEW out \in SUBSET Sentences,
         \A s \in out : pending[h][s] # "none", Give(h, out)
  PROVE  \E t : GivenFrom(t, out) /\ aired' = aired \o t
<1>1. Cardinality(out) \in Nat
  <2>1. IsFiniteSet(Sentences)
    BY OutputAssumption, FS_Interval DEF Sentences
  <2> QED
    BY <2>1, FS_Subset, FS_CardinalityType
<1>2. PICK n \in Nat : n = Cardinality(out)
  BY <1>1
<1>3. PICK q \in [1..n -> out] :
        /\ \A i, j \in DOMAIN q : i < j => Before(q[i], q[j])
        /\ aired' = aired \o q
  BY <1>2 DEF Give
<1>4. q \in [1..n -> Sentences] /\ DOMAIN q = 1..n
  BY <1>3
<1>5. q \in Seq(Sentences)
  BY <1>4, SeqDef
<1>8. ASSUME NEW i \in 1..n, NEW j \in 1..n, i < j PROVE InOrder(q[i], q[j])
  <2>1. Before(q[i], q[j])
    BY <1>3, <1>8
  <2>2. q[i] \in 1..MaxSentences /\ q[j] \in 1..MaxSentences
    BY <1>3 DEF Sentences
  <2>3. start[q[i]] \in Int /\ start[q[j]] \in Int
    BY <2>2 DEF HeldOK, Sentences
  <2>4. q[i] # q[j] /\ start[q[i]] <= start[q[j]]
    BY <2>1, <2>2, <2>3, OutputAssumption DEF Before
  <2> QED
    BY <2>4 DEF InOrder
<1>9. GivenFrom(q, out)
  BY <1>3, <1>4, <1>5, <1>8 DEF GivenFrom
<1> QED
  BY <1>3, <1>9

\* So much is true of a tick: it gives what the cursor passes in it, and the
\* cursor passes it.
LEMMA TickGives ==
  ASSUME HeldOK, CursorOK, NEW h \in Hosts, Tick(h)
  PROVE  \E t : /\ GivenFrom(t, Between(released, released'))
                /\ aired' = aired \o t
<1> DEFINE out == {s \in Between(released, To(buffer, edge)) : pending[h][s] # "none"}
<1>1. Give(h, out) /\ released' = To(buffer, edge)
  BY DEF Tick, Advance
<1>2. /\ out \in SUBSET Sentences /\ \A s \in out : pending[h][s] # "none"
      /\ out \subseteq Between(released, released')
  BY <1>1 DEF Between, HeldOK
<1> HIDE DEF out
<1>3. PICK t : GivenFrom(t, out) /\ aired' = aired \o t
  BY <1>1, <1>2, GiveGives
<1> QED
  BY <1>2, <1>3 DEF GivenFrom

\* Nobody else gives the audience anything.
LEMMA OnlyTicksGive ==
  ASSUME [Next]_vars
  PROVE  UNCHANGED aired \/ \E h \in Hosts : Tick(h)
<1>1. ASSUME NEW h \in Hosts, Coordinator(h) \/ Host(h) PROVE UNCHANGED aired
  BY <1>1 DEF Coordinator, Host, Audio, SpeechStart, Partial, Boundary, WindowElapses,
              Discontinuity, OpenHost, Finish, FinishEnds, Abort, AbortEnds, Spoken
<1>2. CASE Collect \/ RunEnded \/ Fail \/ UNCHANGED vars
  BY <1>2 DEF Collect, RunEnded, Fail, vars
<1> QED
  BY <1>1, <1>2 DEF Next

\* A sentence keeps the start it was minted with.
LEMMA StartsStay ==
  ASSUME Inv, [Next]_vars, NEW s \in Sentences, Minted(s)
  PROVE  start'[s] = start[s]
<1>1. ASSUME NEW h \in Hosts, SpeechStart(h) PROVE start'[s] = start[s]
  BY <1>1 DEF SpeechStart, Minted, Inv, HeldOK
<1>2. ASSUME NEW h \in Hosts, ~SpeechStart(h), Coordinator(h) \/ Host(h) \/ Tick(h)
      PROVE  UNCHANGED start
  BY <1>2 DEF Coordinator, Host, Audio, Partial, Boundary, WindowElapses, Discontinuity,
              OpenHost, Finish, FinishEnds, Abort, AbortEnds, Spoken, Tick, speech
<1>3. CASE Collect \/ RunEnded \/ Fail \/ UNCHANGED vars
  BY <1>3 DEF Collect, RunEnded, Fail, speech, vars
<1> QED
  BY <1>1, <1>2, <1>3 DEF Next

\* What the cursor passes in a step is minted, and ahead of all it has passed.
LEMMA PassedNow ==
  ASSUME Inv, NEW to \in Int, NEW s \in Between(released, to)
  PROVE  s \in Sentences /\ Minted(s) /\ released < start[s] /\ start[s] <= to
<1>1. s \in Sentences /\ released < start[s] /\ start[s] <= to
  BY DEF Between, Inv, HeldOK
<1>2. released \in -1..MaxTime
  BY DEF Inv, CursorOK
<1>3. -1 < start[s]
  BY <1>1, <1>2, OutputAssumption DEF Inv, HeldOK
<1> QED
  BY <1>1, <1>3 DEF Minted

LEMMA OutStep ==
  ASSUME Inv, Inv', OutInv, [Next]_vars
  PROVE  OutInv'
<1>1. /\ released \in Int /\ released' \in Int /\ released <= released'
  <2>1. CursorKept
    BY CursorMoves DEF Inv
  <2> QED
    BY <2>1, OutputAssumption DEF CursorKept, Inv, CursorOK
<1>2. ASSUME NEW i \in DOMAIN aired
      PROVE  /\ aired[i] \in Sentences /\ Behind(aired[i])
             /\ start'[aired[i]] = start[aired[i]]
  <2>1. aired[i] \in Sentences /\ Behind(aired[i])
    BY DEF OutInv, AiredBehind
  <2> QED
    BY <2>1, StartsStay DEF Behind
<1>3. ASSUME NEW s \in Sentences, Behind(s), start'[s] = start[s] PROVE Behind(s)'
  <2>1. start[s] \in Int
    BY OutputAssumption DEF Inv, HeldOK
  <2> QED
    BY <1>1, <1>3, <2>1 DEF Behind, Minted
<1>4. CASE UNCHANGED aired
  BY <1>2, <1>3, <1>4 DEF OutInv, AiredBehind, GivenOnceInOrder
<1>5. ASSUME NEW h \in Hosts, Tick(h) PROVE OutInv'
  <2>0. UNCHANGED start
    BY <1>5 DEF Tick, speech
  <2>1. PICK t : GivenFrom(t, Between(released, released')) /\ aired' = aired \o t
    BY <1>5, TickGives DEF Inv
  <2>2. aired \in Seq(Sentences) /\ t \in Seq(Sentences)
    BY <2>1 DEF OutInv, GivenFrom
  <2> DEFINE n == Len(aired)
             m == Len(t)
  <2>3. n \in Nat /\ m \in Nat /\ DOMAIN aired = 1..n /\ DOMAIN t = 1..m
    BY <2>2
  <2>4. /\ aired' \in Seq(Sentences) /\ Len(aired') = n + m
        /\ \A i \in 1..n + m : aired'[i] = IF i <= n THEN aired[i] ELSE t[i - n]
    BY <2>1, <2>2, ConcatProperties
  <2>5. DOMAIN aired' = 1..n + m
    BY <2>4
  <2> HIDE DEF n, m
  <2>6. ASSUME NEW k \in 1..m
        PROVE  /\ t[k] \in Sentences /\ Minted(t[k])
               /\ released < start[t[k]] /\ start[t[k]] <= released'
    <3>1. t[k] \in Between(released, released')
      BY <2>1, <2>3 DEF GivenFrom
    <3> QED
      BY <1>1, <3>1, PassedNow
  <2>7. ASSUME NEW i \in 1..n + m
        PROVE  \/ i \in 1..n /\ aired'[i] = aired[i]
               \/ i > n /\ i - n \in 1..m /\ aired'[i] = t[i - n]
    BY <2>3, <2>4
  <2>8. ASSUME NEW i \in 1..n + m PROVE Behind(aired[i])'
    <3>1. CASE i \in 1..n /\ aired'[i] = aired[i]
      BY <1>2, <1>3, <2>3, <3>1
    <3>2. CASE i - n \in 1..m /\ aired'[i] = t[i - n]
      BY <2>0, <2>6, <3>2 DEF Behind, Minted
    <3> QED
      BY <2>7, <3>1, <3>2
  <2>9. ASSUME NEW i \in 1..n + m, NEW j \in 1..n + m, i < j
        PROVE  InOrder(aired'[i], aired'[j])
    <3>1. CASE j \in 1..n /\ aired'[j] = aired[j]
      <4>1. i \in 1..n /\ aired'[i] = aired[i]
        BY <2>3, <2>4, <2>9, <3>1
      <4> QED
        BY <2>3, <2>9, <3>1, <4>1 DEF OutInv, GivenOnceInOrder, InOrder
    <3>2. CASE /\ i \in 1..n /\ aired'[i] = aired[i]
               /\ j - n \in 1..m /\ aired'[j] = t[j - n]
      <4>1. /\ start[aired[i]] <= released
            /\ start[aired[i]] \in Int
        <5>1. aired[i] \in Sentences /\ Behind(aired[i])
          BY <1>2, <2>3, <3>2
        <5>2. start[aired[i]] \in Int
          BY <5>1, OutputAssumption DEF Inv, HeldOK
        <5> QED
          BY <5>1, <5>2 DEF Behind
      <4>2. /\ released < start[t[j - n]]
            /\ start[t[j - n]] \in Int
        BY <2>6, <3>2, OutputAssumption DEF Inv, HeldOK
      <4>3. /\ start[aired[i]] < start[t[j - n]]
            /\ start[aired[i]] <= start[t[j - n]]
        BY <1>1, <4>1, <4>2
      <4>4. aired[i] # t[j - n]
        BY <4>1, <4>3
      <4> QED
        BY <3>2, <4>3, <4>4 DEF InOrder
    <3>3. CASE /\ i > n /\ i - n \in 1..m /\ aired'[i] = t[i - n]
               /\ j - n \in 1..m /\ aired'[j] = t[j - n]
      <4>1. i - n < j - n
        BY <2>3, <2>9
      <4>2. InOrder(t[i - n], t[j - n])
        BY <2>1, <2>3, <3>3, <4>1 DEF GivenFrom
      <4> QED
        BY <3>3, <4>2
    <3> QED
      BY <2>7, <3>1, <3>2, <3>3
  <2>10. GivenOnceInOrder'
    BY <2>0, <2>5, <2>9 DEF GivenOnceInOrder, InOrder
  <2>11. AiredBehind'
    BY <2>5, <2>8 DEF AiredBehind
  <2> QED
    BY <2>4, <2>10, <2>11 DEF OutInv
<1> QED
  BY <1>4, <1>5, OnlyTicksGive

LEMMA OutInvHolds == Spec => [](Inv /\ OutInv)
<1>1. Init => OutInv
  BY DEF Init, OutInv, AiredBehind, GivenOnceInOrder
<1>2. Inv /\ Inv' /\ OutInv /\ [Next]_vars => OutInv'
  BY OutStep
<1> QED
  BY <1>1, <1>2, InvStarts, InvKept, PTL DEF Spec

\* Every reachable state of the hosts, their pumps and the run's timeline is well
\* formed, and the cursor is never past what is on the timeline.
THEOREM TypeCorrect == Spec => []TypeOK
<1>1. Inv /\ OutInv => TypeOK
  BY DEF Inv, OutInv, HostsOK, SpeechOK, HeldOK, CursorOK, Phases, BufferStates, TypeOK
<1> QED
  BY <1>1, OutInvHolds, PTL

\* Everything released is given in programme order and nothing is given twice,
\* whichever host's pump gives it and whoever else moves the cursor: advance of
\* buffer.ts and tick of programme-output-pump.ts.
THEOREM OnceAndInOrder == Spec => []GivenOnceInOrder
<1>1. OutInv => GivenOnceInOrder
  BY DEF OutInv
<1> QED
  BY <1>1, OutInvHolds, PTL

\* Until the run has ended, no sentence is given before the programme has gone the
\* delay past its beginning: the target of advance.
THEOREM DelayIsKept == Spec => HeldBack
<1> DEFINE Kept(i) == LET began == start[aired'[i]]
                      IN buffer' = "draining" \/ began = 0 \/ began + delay <= edge'
<1>1. ASSUME Inv, OutInv, [Next]_vars, NEW i \in DOMAIN aired', i \notin DOMAIN aired
      PROVE  Kept(i)
  <2>1. PICK h \in Hosts : Tick(h)
    BY <1>1, OnlyTicksGive
  <2>2. PICK t : GivenFrom(t, Between(released, released')) /\ aired' = aired \o t
    BY <1>1, <2>1, TickGives DEF Inv
  <2>3. aired'[i] \in Between(released, released')
    <3>1. aired \in Seq(Sentences) /\ t \in Seq(Sentences)
      BY <1>1, <2>2 DEF OutInv, GivenFrom
    <3>2. /\ aired' \in Seq(Sentences) /\ Len(aired') = Len(aired) + Len(t)
          /\ \A k \in 1..Len(aired) + Len(t) :
               aired'[k] = IF k <= Len(aired) THEN aired[k] ELSE t[k - Len(aired)]
      BY <2>2, <3>1, ConcatProperties
    <3>3. i \in 1..Len(aired) + Len(t) /\ i \notin 1..Len(aired)
      BY <1>1, <3>1, <3>2
    <3>4. i - Len(aired) \in DOMAIN t /\ aired'[i] = t[i - Len(aired)]
      BY <3>1, <3>2, <3>3
    <3> QED
      BY <2>2, <3>4 DEF GivenFrom
  <2>4. PICK began : began = start[aired'[i]]
    OBVIOUS
  <2>5. /\ CursorKept /\ Advance(buffer) /\ UNCHANGED edge
        /\ buffer \in BufferStates /\ edge \in 0..MaxTime
    BY <1>1, <2>1, CursorMoves DEF Tick, Inv, CursorOK
  <2>6. /\ released \in Int /\ -1 <= released /\ released' \in Int /\ edge \in Int
        /\ delay \in Nat
    BY <1>1, <2>5, OutputAssumption DEF CursorKept, Inv, CursorOK
  <2>7. began \in Int /\ released < began /\ began <= released'
    BY <1>1, <2>3, <2>4, <2>6, PassedNow, OutputAssumption DEF Inv, HeldOK
  <2>8. CASE buffer = "failed"
    <3>1. released' = released
      BY <1>1, <2>5, <2>8, AdvanceKeeps DEF Inv
    <3> QED
      BY <2>6, <2>7, <3>1
  <2>9. CASE buffer = "draining"
    BY <1>1, <2>5, <2>9, AdvanceKeeps DEF Inv
  <2>10. CASE buffer \notin {"failed", "draining"}
    <3>1. released' = Larger(released, Larger(0, edge - delay))
      BY <1>1, <2>5, <2>10, AdvanceKeeps DEF Inv
    <3>2. began = 0 \/ began + delay <= edge
      BY <2>6, <2>7, <3>1 DEF Larger
    <3> QED
      BY <2>4, <2>5, <3>2
  <2> QED
    BY <2>8, <2>9, <2>10
<1> HIDE DEF Kept
<1>2. Inv /\ OutInv /\ [Next]_vars => [\A i \in (DOMAIN aired') \ DOMAIN aired : Kept(i)]_vars
  BY <1>1
<1> QED
  BY <1>2, OutInvHolds, PTL DEF Spec, HeldBack, Kept
=============================================================================
