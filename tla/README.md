# Videofy Live: a TLA+ development

Videofy Live is a monorepo of TypeScript services and packages around one idea:
people speak, and others hear or read them in their own language. Two products
share the machinery. A **call** is a conversation whose participants each have a
speak and a hear language; a **programme** is a broadcast from one operator to
many listeners, translated, delayed for safety, and kept as a replay. These
modules model the parts of the code where most of its own logic lives: the
gateway's calls, from the telephone down to the media sessions that make captions
and voices; a programme's one writer, its delayed output and its replay; and the
worker that carries speech to the models.

Every definition is translated from the source files named in
`PROJECT.json`, where `map` gives its lines. Names follow the source.

Contents: [inventory](#inventory) · [modules](#modules) · [runs](#runs) ·
[bounds](#bounds) · [fairness and assumptions](#fairness-and-assumptions) ·
[proofs](#proofs) · [disagreements](#disagreements) ·
[not modelled](#not-modelled) · [plan](#plan)

## Inventory

### The gateway's calls (modelled)

**Direct-call telephone** (`direct-call-lifecycle.ts`). *State*: one record per
call id (state, caller, peer, how many devices the ring reached, when answered
and connected, who ended it) and two named timers per id. *Operations*: create,
noteRingDispatch, ringingAck, answering, decline, peerJoined, noteTwoWayAudio,
ended, forget, and the two timer callbacks. *Interaction*: called by the call
runtime and by HTTP routes; calls back onState (broadcast) and onOutcome (call
history). *Hard*: late timers, late taps, timers keyed by call id and not by
record. *Correct when*: one outcome per call, every waiting state timed, the
recorded word true, a finished call final.

**Call runtime** (`call-runtime.ts`). *State*: sockets' bindings, participants
with their reapers, knocks, the registry of ingest sessions, probes.
*Operations*: one handler per client message, socket closings, timers, media-
ingest's events, and the project's authority. *Interaction*: every operation of
the session store is reached through it; it drives the telephone, and asks media-
ingest for sessions over HTTP. *Hard*: handlers interleave at every `await`
(who may host, the pair's mode, each create), a socket may close during its own
join, teardown overtakes work in flight. *Correct when*: telephone and session
end together, seats in grace are reaped and no others, no media session is lost
track of, what is made is what the store routes.

**Call session store** (`call-session-store.ts`). *State*: the calls; each a
type, mode, privacy, owner and a map of seats; each seat preferences, roles,
connectedness and two revisions. *Operations*: create or join, resume, knock,
admit, refuse, withdraw, leave, disconnect, end (by a participant or the
project), change mode, languages and audio, detected language, governance;
routing of captions and audio by revision. *Interaction*: synchronous, called by
the runtime only; returns ingest plans. *Hard*: no single operation, long
sequences of them: plans are compared only around each change, and a drop is not
a change. *Correct when*: everybody present is served, nothing is made for the
departed, one chair, one connected seat per partner identity, capacity kept.

**Conference authority** (`packages/conference-authority`): the governance
decision the store asks for. Stateless; modelled inside the store.

**Media-ingest, its call sessions** (`media-session.ts`): created, stopped and
deleted by id. Only their existence is modelled.

### Programmes (modelled)

**Programme writer** (`file-run-writer-lease.ts`, `programme-writer-ownership.ts`,
`journal-timeline-store.ts`, `programme-timeline-registry.ts`). *State*: per run a
lease file with owner and fencing token, an exclusive claim file, a journal; per
process what it believes it holds, the last token it was refused at, and its
timeline. *Operations*: claim (open the claim file, read, write, remove), renew,
open, recover, author, append, and the failure that stops the output. *Interaction*:
several processes over one volume; the timeline asks the fence before every append.
*Hard*: every file operation is a step, a process may die between any two, an append
may fail after the event is already on the timeline. *Correct when*: no token is
held twice unless a renewal puts a superseded lease back, a superseded writer never
writes again and stops, and what the audience is shown is what was recorded, in
order.

**Programme timeline and output** (`packages/programme-timeline`: `buffer.ts`,
`run.ts`; `programme-output-pump.ts`). *State*: one cursor, the live edge, what is
armed or ended, held payloads. *Operations*: author, advance, end, arm and
disarm, the pump's tick, hold and cancel. *Interaction*: the pump's interval, the
media origin and the end of a run all move the same cursor; only the pump delivers.
*Hard*: who takes what was released. *Correct when*: each sentence reaches the
audience once, in order, not before its delay, and the ending gets out too.

**Live session host and segment coordinator** (`live-session-host.ts`,
`streaming-segment-coordinator.ts`, `live-stream-pipeline.ts`). *State*: sentences
in preparation, the stream's lifecycle, what is held for each sentence.
*Operations*: speech started, partial, final words, boundary, discontinuity, end,
abort, and the translation that comes later or never. *Hard*: the provider's words
race the local detector's boundaries. *Correct when*: a sentence is committed once
and a final never turns provisional again.

**Replay archive** (`packages/programme-replay`: `object-archive.ts`, `recording.ts`,
`lifecycle.ts`). *State*: numbered state documents and media objects in a bucket;
per process its copy of the newest state. *Operations*: begin, retain, finalise,
fail, expire, delete, open (list, read, sweep), prune. *Interaction*: called by
the capture of a broadcast and by the deletion worker; each request to the store
may be refused or lose its answer. *Hard*: a crash between media and state, a lost
answer, memory older than the store. *Correct when*: a recording called available
decodes from start to end, what was acknowledged is kept, a deleted replay never
returns.

**Replay deletion queue and worker** (`programme-replay-deletions-postgres.ts`,
`lifecycle-worker.ts`, `replay-routes.ts`). *State*: one row per run with claim and
lease. Every process that serves replays runs the worker, beside whatever broadcasts
it carries. *Operations*: request, claim, lapse, the worker's question to the
archive, its deletion, settle. *Hard*: a lapsed claim taken by another worker, a
broadcast recording while its deletion is worked. *Correct when*: no broadcast is
destroyed while it records.

### Workers (modelled)

**Persistent python worker** (`persistent-python-worker.ts`). *State*: FIFO queue,
requests in flight, the child process and its generation, timers. *Operations*:
request, flush, answers, timeouts with and without `killOnTimeout`, exits, errors of
the process and of its streams, dispose. *Interaction*: every translation,
transcription and synthesis goes through one. *Hard*: events of an earlier
process arrive after its successor started. *Correct when*: each request is
settled once and in the end, no slot idles, no process is left behind.

### The rest (not modelled)

**WebRTC registries** (`webrtc-session-registry.ts`, `webrtc-media-peer-registry.ts`,
`webrtc-listener-peer-registry.ts`, `call-receive-peers.ts`): peers by session, by
socket and by broadcast, remembered messages, preallocated receive slots. Hard:
peers negotiated across awaits while sockets close. Correct when every index
names live records and no closed peer is reachable.
**Media transcription bridge** (`media-transcription-bridge.ts`): per session a queue
of audio chunks with one upload in flight, live ingress with a fallback. Correct
when chunks are sent once, in order, and none after the end.
**Playback ledger and acoustic observer**: when a loudspeaker was audible, from
reports by clients that may be late or missing; an observer nobody reads.
**Adapter ingress** (`adapter-ingress-binding.ts`): streams bound to a capability and
a participant. Correct when nobody is spoken for after a release.
**Programme channels and gateway** (`programme-channels.ts`, `gateway.ts`): who owns a
channel, its profile, its listeners.
**Processing sessions** (`media-session.ts`): the state machine of a session and its
queues of segments; of it only the existence of a call's sessions is modelled.
**Contribution and advertising**: clock, origin and host of the operator's media.
Of the origin, its effect on the cursor is in `ProgrammeOutput`.
**SIP adapter**, **media adapter transport**, **connect control**, **call client
core**: the dialogue of one telephone call; a reconnecting connection with a
bounded queue; single-use join tokens; one audio queue of clips that may be
blocked, retried or skipped.
**Translation gate**, **account service**, **trust**, **tokens**, **tariff**,
**language router**, **registries**, **contracts**, **user interfaces**, **model
workers**, **deployment**: pure decisions, requests over a database, types,
screens and scripts; each has its line in `PROJECT.json` with the reason.

## Modules

    DirectCall  <---- instance ----  DirectCallRuntime
        ^                                ^
    DirectCallProofs <- instance --  DirectCallRuntimeProofs   (refinement)

    CallSession <---- instance ----  CallIngest  (plans carried out across awaits)
        ^                                ^
    CallSessionProofs <-- instance - CallIngestProofs          (refinement)

    ReplayLifecycle <-- instance --  ReplayArchive <-- extends -- ReplayDeletion
                                                                      ^
                                                          ReplayDeletionProofs   (refinement)

    WorkerPromise <--- instance ---  PythonWorker <-- extends -- PythonWorkerProofs  (refinement)

    ProgrammeWriter <-- extends -- ProgrammeWriterProofs

    ProgrammeOutput <-- extends -- ProgrammeOutputProofs

| Module | Models | State and actions |
|---|---|---|
| `DirectCall` | `DirectCallLifecycle` | `rec`, `timers`, `outcomes`; one operator per public method and timer callback, under any caller. Also the abstract specification the runtime implements |
| `DirectCallRuntime` | `CallRuntime`, for direct calls | adds `seats`, `reapers`, `joining` (a join between its awaits), `forgets`, `probe`; one action per handler or timer, one per part of `handleJoin` between awaits |
| `CallSession` | `CallSessionStore`, conference authority | `calls`, and `work`, which remembers the plan each seat was last given; one action per operation |
| `CallIngest` | `CallRuntime`'s ingest half, media-ingest's sessions | adds `registry`, `current` (the runtime's participants), `walks` (calls of `applyIngestPlans` awaiting an answer), `sessions`, `ending`; one action per handler with its walk up to the first await, one per answer |
| `ReplayLifecycle` | the table of `lifecycle.ts` and what a recording retains | the abstract specification of a replay |
| `ReplayArchive` | `ObjectArchive`, `Recording` | `docs`, the media in the store, per process its state in memory and the operation in progress; one action per store request and per outcome of it, a crash between any two; `races`, a history of the two ways in which processes come between each other |
| `ReplayDeletion` | deletion queue, worker, capture's order of calls | extends the archive with `request` and each process's worker |
| `WorkerPromise` | what `PythonWorkerLike` promises a caller | the abstract specification of the worker |
| `PythonWorker` | `PersistentPythonWorker` | queue, flight, processes by generation, timers; one action per event, one turn of `flush()` per step |
| `ProgrammeWriter` | lease, claim file, ownership, journal, registry | one action per file operation, interval and failure, for each process; a renewal is two, its read and its write; `putBack`, a history of one thing, that a renewal wrote over a lease it had not read |
| `ProgrammeOutput` | host, coordinator, pump, buffer, timeline | sentences, streams, held payloads, cursor; one action per event of the provider, detector, pump, origin and run |
| `...Proofs` | | theorems about the module named |
| `MC...` | | the instances the configurations check |

**Time** in the telephone is a count of ticks. A timer is 0 when unarmed and 1 when
due; `Tick` waits for due timers, but any other event may overtake them, as on a
busy event loop. The comment "stray" describes a real subtlety: `create` over a
record that is reconnecting leaves the old record's window armed under the same
key, and its callback disarms the *new* record's timers.

**A join** reads whether it is creating before `await resolveDirectCallMode` and
uses it after. `joinUnknown`, `joinAuthorized`, `joinResolved` are the three parts;
between them the other phone may do anything, and the joining socket may close
(`open`), which seats a `ghost`.

**A plan** in `CallSession` is what a speaker's media session is to make: translated
targets, which of them are text only, and whether the speaker's own words are
captioned. A session's work is fixed at birth, so `Planned` never changes the
order remembered for a revision already given out.

**A walk** in `CallIngest` is one call of `applyIngestPlans`. It keeps the entry
object it put in the registry, and after its create is answered it asks whether
the registry still holds that very object: `mine`. Every handler that removes or
replaces the entry clears it (`Disowned`). Its plans are a map from seats, walked in
the order of the seats (a Map's order, in the code); those after the awaited one
were computed before the await, and the code applies them as they are.

**A request to the object store** is two choices in `ReplayArchive`: whether it
landed and whether its answer came back. The process's memory moves only on an
answer, so after a lost one it is a generation behind, and every later write of it
finds its own document in the way until the archive is opened again.

**Several processes over one bucket** are what `programme-replay-worker.ts:13-18` calls
a normal deployment, and `Procs` may be any of them. `Hosts` are those that carry the
run's broadcast: the capture reaches the archive only through `archiveFor(runId)`
(`index.ts:1712-1735`), in the process that began it, while any process may open the
archive, expire, delete, sweep and prune. Two processes come between each other in
two ways that cost media, and the history `races` records each where it happens:
`"opened"`, an archive is opened (and its listing taken) while another process
retains; `"buried"`, a process creates a document below the newest one, because the
generations that would have told it so were pruned.

**A process of the worker** is a number. The code compares generations to ignore the
events of an earlier child; in the model an event of a process is stale unless
that process is the child, and every event may still arrive at any time. `flushing`
is the run-to-completion of JavaScript: while it holds, nothing else happens.

**A sentence** in `ProgrammeOutput` is minted when speech starts and carries its start
on the timeline and everything its words became. Who moved the cursor over it and
who took what that released are separate, as in the code. What one tick delivers
goes out by start, and in the order of minting where two start together.

A sentence may be left with words or without by each word of the provider and each
boundary, and one committed without is withdrawn. A second host may be opened while
the first still listens; `AtOnce` bounds how many do.

Operators commented *Broken variant* are plausible bugs in the code they stand for.
None is used by a specification; each is the evidence that some property notices
that bug.

## Runs

| Run | Instance | What it shows |
|---|---|---|
| `telephone` | one call, two accounts, windows of 2, 1, 2 ticks | under any order of methods and lateness of timers: one history record per call, each waiting state has its window, the word recorded is true, finished is final, nobody rings or reconnects for ever |
| `telephone_runtime` | one call, two phones, windows of 2, 1, 2, grace and forget of 3 ticks | telephone and session tell one story; exactly the seats in grace have reapers and grace ends; every step is one `DirectCall` allows |
| `session_settings` | two speakers, all settings, 3 seats ever, 4 media and 2 language revisions | each present speaker has a plan for the current revision, whose order covers what present listeners want and nothing for those who left |
| `session_seats` | four profiles (two accounts, a partner on two devices), three places, restricted conferences and personal calls | the door, chairs, identities, capacity and the end of calls, with three-party planning |
| `ingest` | two speakers, two walks awaiting at once, creates refused or late | each session in media-ingest is in the registry, awaited by a walk, or being deleted; a seat never has two entries; the runtime's participants are the store's admitted seats |
| `replay` | two processes, one of them carrying the broadcast, one initialisation, one segment, policy *expire*, 5 generations | whoever changes the newest state document held that very document; it lives the life `ReplayLifecycle` declares; no broadcast is destroyed while it records; only a race can take media from it, and only a buried document what was acknowledged |
| `worker` | four requests, two slots, a queue of one | each request settled once and in the end; no slot idles; no process left behind; the worker implements `WorkerPromise` |
| `programme_writer` | two processes, 3 tokens, 2 events each | no token held twice until a renewal has put a superseded lease back; a superseded writer never writes and stops, or finds its token back on the lease; what is authored is recorded in order or the output failed |
| `programme_output` | two hosts, one listening at a time, one language, delay 1, 2 sentences, time to 2 | nothing reaches the audience twice, out of order or before its delay; finals stand; after the end of the run the cursor catches up |
| `unrecorded_run`, `passed_over`, `stale_writer` | as above; time to 3 and delay 2 for `passed_over`, 3 generations for `stale_writer` | counterexamples: see [disagreements](#disagreements) |

Some properties are conjunctions of named parts:

- `CallIsAccounted`: `OutcomeOncePerCall`, `WaitingIsTimed`, `WordMatchesCall`.
- `TelephoneAndSessionAgree`: `NoTelephoneWithoutSession`, `PeerInCallIsAnswer`,
  `AnsweredHasBothSeats`, `CompletedNamesWhoHungUp`, `ProbeRunsWhileAnswered`.
- `EverybodyServed`: `PlannedAtRevision`, `AudienceServed`.
- `SeatsKept`: `KnockersUnplanned`, `OneConnectedPerSubject`, `DiesWithLastSeat`,
  `WithinCapacity`.

The properties that matter most:

- `EverybodyServed` relates the plan each speaker's *running* session was born with
  to what the people present want *now*. The store compares plans only around each
  operation, and `markDisconnected` is not one that compares; that the two never
  part took every operation of the module to check. `NothingMadeForTheDeparted` is
  its converse: it depends on `leave` reconstructing, at the reap, what the departed
  seat had been planned for.
- `NoOrphan` is the promise behind `everCreated`, `pendingStop` and the check after
  the await: whatever overtakes a create, somebody knows the session.
- `TelephoneAndSessionAgree` ties the telephone to the session along all the ways a
  call can end, and `TelephoneRefined` the runtime to the telephone's specification.
- `KeptUnlessBuried` and `WholeUnlessRaced` relate what a caller was told to what the
  bucket holds, across lost answers, crashes and the sweep of the next start, and say
  exactly which race of two processes may break either. `StaleLoses` is what the
  numbered documents are for: a writer with an old memory replaces nothing.
- `OneHolderUnlessPutBack` and `FencedForGood` are what the fence is for; they fail as
  soon as the order of the claim file, the read and the write is disturbed.
- `KeepsPromise` and `EveryRequestSettles`: once, and in the end, whatever the process
  does, which of its streams fails, and which event of an earlier child is late.
- `GivenOnceInOrder` and `HeldBack` relate three parties moving one cursor to what
  one of them delivers. `EndingIsReleased` is about the cursor only: what its last
  advance releases is dropped by the end of the run (`index.ts:234`) and is sent by
  nobody, which is the second disagreement.

Configurations not in the list of runs are kept beside the modules. Two pass:
`MCDirectCallTwoCalls` (two calls at once between the two phones: busy, call waiting,
a socket that abandons one call for another; a phone is connected in one call at
most) and `MCProgrammeOutputTwoLive` (two hosts listening at the same time, to
time 1). Each of the others reproduces a disagreement named below.

## Bounds

- *Windows of 1 to 3 ticks*: only the order of expiries matters, and lateness is
  already arbitrary. In the single-call instances `RingingWindow > AnswerGrace` and
  `DisconnectGrace > ReconnectWindow` hold, as in the code.
- *Two phones, one account each*: a direct call has two seats. `PhonesJoinOnce`: one
  join under way per phone. `TwoCallsBound` keeps `MCDirectCallTwoCalls` to calls started
  once by each account and to sockets that do not close during their own join,
  which `telephone_runtime` covers.
- *`MaxSerial`, `MaxRevision`, `MaxLanguageRevision`*: guards (`WithinBounds`) stop a
  call whose numbers are used up. Three seats with four revisions are a join, a
  drop, a resume, a change and a reap of one speaker; shorter instances found every
  broken variant and each disagreement below.
- *Two languages* distinguish "needs translation" from "does not"; two listeners of
  the same language come from the three-seat instance.
- *`MaxWalks` = 2*: a walk and the one that overtakes it. `Unused`: a call id is
  opened again only when nothing of its earlier life is left in the gateway or in
  media-ingest, because the store numbers seats from 1 again and the ids recur.
- *`Faults`*: `"refused"` in the run. With `"unanswered"` (media-ingest created the
  session, the answer was lost) `NoOrphan` fails: `everCreated` stays false and
  nothing ever deletes it. The code accepts that; a later join has a new id.
- *Two processes, one initialisation, one segment, `MaxGen` = 5, `Together` = 3*: begin,
  retain twice, finalise and let go are five generations, and a crash or a lost
  answer may fall before and after each. Both processes may be open at any time
  until generation 3, which is where every one of the races of two appears (the
  kept configurations find each with 3 or 4); beyond it they take turns, one of them
  down (`Bounded`). The theorems have no such bound.
- *Four requests, two slots, a queue of one*: a request waits, one is refused, and
  both slots may lose their process at once. Generations need no bound of their
  own: a process is spawned for a dispatch, so there are at most as many as requests.
- *`MaxToken` = 3*: a holder, its successor and the first one back. `MaxEvents` = 2
  with `MaxJournal` = 1 puts one event in the journal and one in the queue behind it;
  the journal counts what recovery would find.
- *Two hosts, `AtOnce` = 1, two sentences, time to 2, delay 1*: the second host's
  clock starts at 0, behind the cursor; one sentence is released while the next is
  open. With two hosts that listen at once the kept configuration goes to time 1.
  The run also passes with `Delays = {0, 1}`. `MaxTime` = 3 with a delay of 2 is
  what `passed_over` needs.
- Deadlock checking is off where revisions, serials, generations or requests run
  out, and in the telephone instances, where two seats on dead sockets stop a call
  for good. It is on for `programme_writer` and `programme_output`.

## Fairness and assumptions

`DirectCall` and `DirectCallRuntime` assume weak fairness of `Tick` and of each
timer's callback: Node's timers fire if the loop runs. `PythonWorker` assumes it of
`Flush` (synchronous code) and of each request's timer, `ProgrammeWriter` of the
steps of a claim and of the renewal interval of a process that lives,
`ProgrammeOutput` of each host's ticker, which `setInterval` keeps firing. Nothing
else is assumed: people need not answer, join or hang up, a python process need not
answer, a lease need not expire, translations need not come.
So `WaitingEnds`, `GraceEnds`, `EveryRequestSettles`, `SupersededStops` and
`EndingIsReleased` are owed to timers alone. `SupersededStops` excepts a process that
finds its own token back on the lease, which a renewal may put there: then it is
the holder again. `WaitingEnds` excludes a peer whose
device reports Answer for ever. `CallSession`, `CallIngest` and the replay modules
have safety properties only.

Assumed of the world, each named in the module that uses it:

- the object store honours conditional creation, and no request of a dead process
  arrives after its successor listed the store;
- a lease file is never read half written, and opening the claim file exclusively is
  atomic (`wx`);
- a restarted process keeps its owner identity (the process and host id of a
  container), so it may renew its own lease;
- each host counts its own media from 0, as the sender it listens to does.

## Proofs

Eight modules of proofs; every theorem is about every value of the constants that its
module's assumptions admit, not about the instances above.

**`DirectCallProofs`** (positive windows, `Nobody` not an account). `TypeCorrect`;
`Safety` (`CallIsAccounted`); `FinishedStaysFinished`. The inductive invariant is the
conjunction of `TypeOK` and the three parts of `Safety`, none of which is
inductive alone. One outcome per call needs that no window outlives the state it
times, for otherwise the reconnect window could finish a call already finished; the
word needs `answered` and `connected` to agree with the state. Each part is stated
call by call, and a lemma reduces a step's effect to the call it touches. `stray` is
in the invariant because it must be: without it the code's one exception makes the
statement false.

**`DirectCallRuntimeProofs`** (any calls, any phones). `RefinesTelephone`: each handler
is a step of `DirectCall` or leaves it alone. `TelephoneKept` then carries the
telephone's theorems over. `GraceReaped`: exactly the seats in grace have reapers.
`SameStory`: `TelephoneAndSessionAgree`. Its invariant is `Crowd(c)` (the connected or
graced seats of a call are at most two, one per account) and `Story(c)` (a
live call has its caller seated, an answered one both parties, an unanswered one no
peer; who ended it is a party; talking has the probe on; a stray window is
not armed). The count is needed: that a peer in the call is *the* peer follows only
because a third account finds no place. `OneSocketOneCall` (`OneCallPerSocket`): whoever
takes a seat on an open socket has left every other, and a join that outlived its
socket takes none on it. `TypeCorrect`.

**`CallSessionProofs`** (any calls, profiles, capacity and bounds). `ChairIsOwner`
(`OneChair`) and `SeatsKeptStraight` (`SeatsKept`). `SessionInv` says of each call that
serials lie below the next one and so does the owner (else a chair given to a serial
not yet used would pass to a newcomer), that the chair is the owner, that an
identity is connected once, that the call is filled and not overfilled, that a seat
at the door is untouched; and that only seats past the door have work. `Stored`,
`Superseded` and `Retired` say what the three ways of writing a call do to it; there
is one lemma per operation.
`EverybodyIsServed` (`EverybodyServed`), `DepartedAreForgotten`
(`NothingMadeForTheDeparted`) and `SessionTyped` (`TypeOK`) rest on a second invariant,
`AudienceInv`: no plan is ahead of its seat, and the order of each present speaker
covers what their audience wants *and* asks only for languages that a seat past the
door, present or in its grace, still listens to or reads (`Supported`). The two
halves need each other. A drop replans nothing, so an order may make more than is
wanted; that `leave` finds the excess, comparing with the departed seat put back as
connected, holds only because every excess target is some held seat's. The
settings an operation can leave alone are in `PlansAlike`: if nothing changed that
a plan is computed from, the running order still serves.

**`CallIngestProofs`** (any calls, bounds, and number of walks). `RegistryInStep`
(`RegistryFollowsSeats`); `NobodyIsOrphaned` (`NoOrphan`, assuming `"unanswered"` is not
among the faults: with a lost answer it is false, see bounds); `StoreIsItsOwn`: each
handler is a step of `CallSession` or leaves it alone; `StoreKept` then carries what
is proved of the store alone over to the store the runtime drives. `IngestInv` sees
the store through a call's admitted seats, those at its door and the next serial: the
runtime's participants are those seats, a seat has at most its current entry, an
active entry was created, a walk's own entry is in the registry, and neither an
entry nor a plan under way is about a serial still to come or a seat at the door
(`AgedIn`; else a newcomer's seat might have an entry already). `Safe`: each session
is in the registry as created, or being deleted. Between a create and its answer
there is no session yet in this reading, so what matters is that the answer, when
it comes, finds its walk's entry or deletes what it made.

**`PythonWorkerProofs`** (any requests, slots and queue). `TypeCorrect`;
`FlightAndProcesses` and `NoneLeftBehind` (`FlightIsCarried` and `NoStrayProcess`,
with `ChildInv`: the child lives unless a spawn failed); `NothingWaits`
(`WorkConserving`, from what holds while `flush` runs); `PromiseKept` (the
refinement `KeepsPromise`, with `PendingInv`: what waits or flies is pending and
nothing is listed twice).

**`ProgrammeWriterProofs`** (any processes and bounds). `TypeCorrect`; `FenceStaysShut`
(`FencedForGood`); `NothingIsSkipped` (`RecordedOrFailed`, with `RecordInv` for the queue
of appends); `OneHolder` (`OneHolderUnlessPutBack`, with no hypothesis on renewals).
`HolderInv` holds as long as no renewal has put a superseded lease back: a process
between opening and removing the claim file is alone there, so the lease it reads is
the one it replaces, and the token it writes lies above every token held. `PutBackStays`
makes the reading of the history sound: what has happened once is never forgotten.

**`ReplayDeletionProofs`** (any processes, any hosts among them, any media and
generations, the policies the code knows). Four invariants, each on top of the one
before.

`BaseInv` gives `TypeCorrect`: there is always a newest document (`Filed`), no process
remembers a generation above it, and what a prune is about to remove lies below it.

`Views` says of each process on its own, `View(p)`, that its memory is the newest
document if its generation is the newest (`Current`); that what it is about to write
is one move of the table from what it holds, old or not (`Working`); and that while
opening it holds what it read (`Loading`). It says nothing of any other
process, which is why it holds for any number of them: `CreateMoves` shows that a
create either lands on top, by a process whose memory is the newest document, or
lands below and changes nothing that is read; `NewestMoves` that nobody else moves
the newest document; `Ageing` and `ViewStands` that the view of a process which did not
move survives as *older*. Hence `StaleWriterLoses` (`StaleLoses`), `LivesAsDeclared` (the
refinement `FollowsLifecycle`) and, through it, what the table of `lifecycle.ts` implies
of the newest document: `ServedFromStore` (what is served decodes from first to last;
`LifeInv`) and `NothingReturns` (what was deleted stays deleted, an ended broadcast is
not reopened; `NoWayBack` says it of the table). With `Patient` (a run found to have
ended has still ended when its deletion is asked for), also `LiveIsSpared`
(`BroadcastNotDestroyed`).

`SuccInv`, as long as no document is buried: what each process remembers, what it
wrote without an answer and what has been acknowledged all precede the newest
document (`Succeeded`, `Before`). A process whose answer was lost is the heart of it:
its memory is wrong, and does no harm because the conditional create finds its
generation taken. Hence `NothingIsLost` (`KeptUnlessBuried`).

`WholeInv`, as long as there was no race: the media of the newest document, and of
whatever a process is about to make the newest, is in the store, and no sweep is
about to remove any of it (`Whole`, `Stored`, `Separate`). Hence `NamedIsStored`
(`WholeUnlessRaced`). That races only accumulate (`RacesGrow`) makes both sound.

**`ProgrammeOutputProofs`** (any hosts, sentences, languages, delays and times).
`TypeCorrect`; `OnceAndInOrder` (`GivenOnceInOrder`); `DelayIsKept` (`HeldBack`);
`FinalForGood` (`FinalStands`). Order and once-only come from one fact about the cursor:
what the audience has lies at or behind it (`AiredBehind`), and a tick delivers only
what its own advance took in, which lies beyond. Finals stand because the segment a
host has open was never committed (`OpenIsProvisional`), and that needs
`MintedFirst`: of a sentence not yet minted nothing is held, translated or on the
timeline. The proof cites neither who else moved the cursor nor how many hosts
there are.

Every property of the passing runs is stated by a theorem but five, which stay with
TLC: `WaitingEnds`, `GraceEnds`, `EveryRequestSettles`, `SupersededStops` and
`EndingIsReleased`. They are liveness under fairness, whose proofs need ENABLED,
which the prover does not support. One theorem has a hypothesis that is not an
assumption of the model, `NobodyIsOrphaned` (no unanswered create), and the run has
the same one in its configuration. `OneCallPerSocket`, which `OneSocketOneCall`
states, is checked by a kept configuration.

## Disagreements

Where the code does not do what its text says. Three are runs with a counterexample,
under "findings" in `PROJECT.json`:

1. `unrecorded_run`: `recover()` builds the timeline of a recovered run without a sink
   (`programme-timeline-registry.ts:116`) and `open()` returns it as it is, so what the
   run authors after a restart is never persisted, and no append can fail.
2. `passed_over`: the media origin and the end of a run move the cursor and drop what
   that released (`programme-media-origin.ts:459`, `index.ts:234`); the pump looks only
   at what its own advance released, and holds the caption for good.
3. `stale_writer`: a state document is created if its key is free, and pruning frees
   keys (`object-archive.ts:694`, 707, 770). A process whose write landed without an
   answer stays a generation behind; once another process has written and pruned
   past it, its next write lands *below* the newest document and is taken for a
   success, where the text says it is refused (655, 760). `StaleLoses` holds all the
   same: nothing reads that document while the newest is there.

More that a kept configuration reproduces:

- `DirectCall_SecondJoinerChangesNothing`: two phones that both found the call unknown
  before the pair-mode await both create its record, and the call turns BUSY against
  itself.
- `DirectCall_OnlyFinishedForgotten`: `teardownCall`'s 120 s forget timer is keyed by
  the id; an id used again loses its live record and timers.
- `DirectCall_NoSeatOnADeadSocket`: a socket that closes during its own join leaves a
  connected seat that nobody reaps.
- `CallSession_RecoveryStaysOpen`: a dropped partner's fresh join is refused as a
  duplicate name, by its own seat.
- `CallIngest_SettledIsRoutable`: a walk whose create is answered late registers older
  plans over newer ones, and the store refuses everything made for that entry.
- `CallIngest_NothingOutlivesTheCall`: the same loop goes on after the call is over, and
  creates a session nothing will retire.
- `ReplayDeletion_DoneMeansGone`: the archive describes a run it could not read as
  absent (`object-archive.ts:504`), and the worker settles its deletion as done
  (`lifecycle-worker.ts:538`, "NOTHING TO DELETE IS SUCCESS"): the row says deleted, the
  media stays.
- `ReplayDeletion_TruthIsWhole`: an archive that is opened lists media and documents,
  reads the newest document of that listing and removes the listed media it does not
  name (`object-archive.ts:888-985`). Media another process had uploaded by then and
  names after it is swept from under the newest document.
- `ReplayDeletion_AcknowledgedIsKept`: two processes that both carry the broadcast; the
  retention one of them acknowledges is written below the newest document, and no
  reader will see it.
- `ProgrammeWriter_TokenTwice`: a renewal reads and writes the lease in two operations
  (`file-run-writer-lease.ts:152`). One that stalls between them puts the old holder
  back over its successor, and the next claim is given the successor's token again.
- `PythonWorker_WarmIsServed`: the exit of a child does not reset `warmed`, so a respawned
  process is taken for a warm one.

The programme's text, seen while modelling:

- `void claim` (`index.ts:1356`) is not awaited, so events authored before the grant
  (1340) reach the journal without a fence.
- `release()` writes token 0, and an unreadable lease counts as none: tokens then start
  again at 1. The fence is per store and not per run. A crash leaves the claim file.
- "Released on the next tick" with no delay (`programme-output-pump.ts:22-24`) is not so
  for an event at or behind the cursor; an event at time 0 is released whatever the
  delay.
- A second host's clock restarts at 0, so its captions lie behind the cursor; the old
  host's ticker is never cleared and may take what the new one should deliver.
- A final can be committed while an abort awaits `session.close()`
  (`live-stream-pipeline.ts:225`); `cancelAll` misses segments still translating
  (`live-translation-pipeline.ts:274`). Caption and spoken payload share a reference.
- `saveCursor` is not queued behind the appends; a failure of `loadDeclined` is ignored;
  `dueForExpiry` picks failed runs that `expire()` refuses; a second `begin` with *none*
  marks a run already recorded as declined; `settle` names the request and not the
  claim; a lost put answer leaves memory behind, and later writes are refused until
  the archive is opened again.

The calls' text, seen while modelling:

- `answering()` (`direct-call-lifecycle.ts:263`) *replaces* what is left of the 30 s
  window by a grace of 15 s, so a tap can shorten it: a join slower than the grace
  lands on NO ANSWER, which the comment at line 61 rules out.
- `noteRingDispatch` (240) keeps a late report of zero devices in a call that a
  device already shows; the window then says UNAVAILABLE, "the ring reached no device
  at all" (23).
- `leave()` (`call-session-store.ts:839`) computes its baseline from present
  languages. When detection settles a speaker on the language of a listener who is in
  grace, the reap ends nothing and the session goes on translating for nobody:
  `NothingMadeForTheDeparted` leaves such speakers out.
- The same baseline counts a reaped seat as connected although a join in between
  planned everyone without it, so the reap replaces a running session by an
  identical one (1762: "bump ONLY the speakers whose target set actually changed").
- In normal mode `leave()` reconciles nothing: transcription outlives its last reader
  (1994: "only when somebody wants captions").
- `applyGovernance` (1288) may hand the chair to a seat still at the door, whom nobody
  can then admit.
- `createOrJoin` (729) does not look at tombstones: an ended id is recreated (149: "an
  ended conference is terminal").
- `applyIngestPlans`: the same id planned again while its create is in flight makes
  the first walk take its entry for replaced, and it deletes the session the second
  walk has just been given.
- `applyAuthorityModeChange` to normal retires every session and drops the plans the
  store returned with it, so captions in the original language stop until the next
  change of membership.

## Not modelled

In the modelled components:

- *Store*: titles, offered languages, voices, resume tokens (only their holder
  resumes), tombstones, quorum arithmetic and caption routing.
- *Runtime*: broadcasts, device inventory, WebRTC signalling, transcripts, counters,
  the transcription bridge; the work inside a media-ingest session; stops and deletes
  that fail (logged, not tried again). A socket that joins again as somebody else
  gives up its first seat in the same handler; the models let the two happen one
  after the other. Detected languages come only from a session that exists.
- *Replay*: the archives in memory and on disk, the manifest and the serving of media,
  which runs an expiry pass selects, back-off times (of the queue's states there
  remain *nothing outstanding*, *pending* and *claimed*), the capture's bounded backlog.
  A listing is taken to be complete: `open` lists at most 64 keys for each of the
  `maxRuns` runs it may hold, `pruneStates` at most 200 (768). A broadcast whose policy
  keeps nothing never reaches the archive (`programme-replay-composition.ts:155-163`),
  so the declined marker is left out.
- *Worker*: payloads, the text of errors, the pipes' framing. An error of a process that
  has served is one of an earlier child: the only kill is in `discardChild`, after the
  generation has moved on (`persistent-python-worker.ts:414-440`).
- *Writer*: a run given up on purpose (`surrender` and `release` are called by
  nothing), the identity and cursor files, eviction, what a torn journal is read as.
- *Output*: changing the delay on air (`configure`), the depth tolerance, the pump's
  bound of 5000 payloads and its own drain (called by nothing), advertisements, the
  longest-utterance timer's own value (that it commits is what a discontinuity does),
  audio frames and back-pressure, calls. `Collect` takes one finished segment at a time;
  the origin appends all it found, with awaits between them, before it advances.

Whole components without a module are listed in the inventory and in `PROJECT.json`.
Those with state and concurrency are in the plan; the rest are database requests,
pure functions, types, screens and scripts.

## Plan

Order by how much of the product depends on it:

1. *Done*: the telephone and its runtime, the session store, the ingest walks, the
   python worker, the replay archive with its deletion, the programme's writer and
   its output.
2. `TranscriptionBridge` (`media-transcription-bridge.ts`): chunks in order across the
   fallback; `ReceiveSlots` and the peer registries: speakers on preallocated slots.
3. `MediaSession` (`media-session.ts`): the segment queues behind a session, on top of
   `CallIngest`.
4. `AdapterIngress` (`adapter-ingress-binding.ts`), `SipCall` (`sip-adapter`), `Transport`
   (`media-adapter-remote`).
5. `JoinToken` (`connect-control`), `AudioQueue` (`call-client-core`), contribution and
   advertising.

Theorems to come: nothing is left of the safety properties of the runs; the next are
those of the modules above, and a promise of the programme's output to its audience
(each sentence once, in order, after its delay) as an abstract specification which
`ProgrammeOutput` implements.
