---------------------------- MODULE ReplayArchive ----------------------------
(***************************************************************************)
(* The replay archive of one programme run over an object store            *)
(* (packages/programme-replay/src/object-archive.ts and recording.ts).     *)
(*                                                                         *)
(* Every request to the store is a step of its own: it may be refused, and *)
(* a write may land and its answer be lost.  A process may die between any *)
(* two steps and open the archive again.  A run's operations queue on one  *)
(* chain per process, so a process has at most one in progress; pruning    *)
(* old generations is outside the chain.                                   *)
(*                                                                         *)
(* A broadcast whose policy keeps nothing never reaches the archive        *)
(* (programme-replay-composition.ts), so there is no declined marker.       *)
(*                                                                         *)
(* The store honours conditional creation, and a request of a dead process *)
(* does not arrive after its successor listed the store.  Time is the      *)
(* caller's: expire may be asked after the expiry at any moment.           *)
(***************************************************************************)
EXTENDS Naturals, FiniteSetsExt

CONSTANTS Procs,      \* processes that open an archive over the bucket
          Hosts,      \* those of them that carry the run's broadcast
          Inits, Segments, InitOf,
          Policies,   \* retention policies a caller begins the run with
          MaxGen      \* bound: state generations written

ASSUME ArchiveAssumption == /\ Hosts \subseteq Procs
                            /\ Policies \subseteq {"keep", "expire"}
                            /\ MaxGen \in Nat

VARIABLES docs,       \* the state documents in the store, by generation
          objects,    \* the media objects in the store
          phase,      \* each process: "down", "loading" or "up"
          held,       \* this.runs: the state in memory and its generation
          damaged,    \* this.damaged
          op,         \* the operation at the head of the run's chain
          prunes,     \* older generations a pruneStates call has still to delete
          kept,       \* history: media whose retention was acknowledged to a caller
          races       \* history: how processes have come between each other
vars == <<docs, objects, phase, held, damaged, op, prunes, kept, races>>
store == <<docs, objects>>

Media == Inits \cup Segments
None == [status |-> "none", media |-> {}, policy |-> "keep"]
Newest == IF docs = <<>> THEN 0 ELSE Max(DOMAIN docs)
Truth == IF docs = <<>> THEN None ELSE docs[Newest]
\* What the newest document says, read as the abstract replay.
Recorded == INSTANCE ReplayLifecycle WITH status <- Truth.status, media <- Truth.media

Without(g) == [h \in DOMAIN docs \ {g} |-> docs[h]]

Idle == [kind |-> "idle", step |-> "-", arg |-> "-", next |-> None, todo |-> {}]
Op(kind, step, arg, next) ==
  [kind |-> kind, step |-> step, arg |-> arg, next |-> next, todo |-> {}]

Init == /\ docs = <<>> /\ objects = {}
        /\ phase = [p \in Procs |-> "down"]
        /\ held = [p \in Procs |-> [state |-> None, gen |-> 0]]
        /\ damaged = [p \in Procs |-> FALSE]
        /\ op = [p \in Procs |-> Idle]
        /\ prunes = [p \in Procs |-> {}]
        /\ kept = {}
        /\ races = {}

-----------------------------------------------------------------------------
(* The judgements, made in memory when an operation reaches the head of    *)
(* the chain.                                                               *)

State(p) == held[p].state
Ready(p) == phase[p] = "up" /\ op[p] = Idle /\ ~damaged[p]

\* recording(): a recording this process holds and may act on.
Recording(p) == Ready(p) /\ State(p).status # "none"

\* Two processes over one bucket come between each other in two ways: an archive
\* is opened while another process retains media ("opened"), and a process whose
\* memory is older than what was pruned creates a document below the newest one
\* ("buried").
Race(race, happens) == races' = IF happens THEN races \cup {race} ELSE races

Start(p, o) == /\ op' = [op EXCEPT ![p] = o]
               /\ Race("opened", o.kind = "retain" /\ \E q \in Procs : op[q].kind = "open")
               /\ UNCHANGED <<store, phase, held, damaged, prunes, kept>>

Begin(p, policy) ==
  /\ Ready(p) /\ State(p).status = "none"
  /\ Start(p, Op("begin", "create", "-",
                 [status |-> "recording", media |-> {}, policy |-> policy]))

\* A repeat of what is held is acknowledged without storing anything.
RetainDuplicate(p, m) ==
  /\ Recording(p) /\ State(p).status = "recording" /\ m \in State(p).media
  /\ kept' = kept \cup {m}
  /\ UNCHANGED <<store, phase, held, damaged, op, prunes, races>>

Keeping(s, m) == [s EXCEPT !.media = s.media \cup {m}]

\* Broken variant: the state is written before the media it names.
Retain_unstored(p, m) ==
  /\ Recording(p) /\ State(p).status = "recording" /\ m \notin State(p).media
  /\ Start(p, Op("retain", "create", m, Keeping(State(p), m)))

\* Broken variant: the next state is built from the new media alone.
Retain_forgetful(p, m) ==
  /\ Recording(p) /\ State(p).status = "recording" /\ m \notin State(p).media
  /\ Start(p, Op("retain", "upload", m, [State(p) EXCEPT !.media = {m}]))

Retain(p, m) ==
  /\ Recording(p) /\ State(p).status = "recording" /\ m \notin State(p).media
  /\ Start(p, Op("retain", "upload", m, Keeping(State(p), m)))

\* Broken variant: a failure found while finalising is written as it stands.
Moved_unsettled(s, to) ==
  [s EXCEPT !.status = IF to = "failed" THEN "processing" ELSE to]

Moved(s, to) == [s EXCEPT !.status = to]
Released(s, to) == [s EXCEPT !.status = to, !.media = {}]

\* Broken variant: any recording with media becomes available, decodable or not.
Finalise_undecodable(p) ==
  /\ Recording(p) /\ State(p).status = "recording"
  /\ Start(p, Op("finalise", "verify", "-", Moved(State(p), "available")))

Finalise(p) ==
  /\ Recording(p) /\ Recorded!CanTransition(State(p).status, "processing")
  /\ IF Recorded!Playable(State(p).media)
     THEN Start(p, Op("finalise", "verify", "-", Moved(State(p), "available")))
     ELSE Start(p, Op("finalise", "create", "-", Moved(State(p), "failed")))

Fail(p) ==
  /\ Recording(p) /\ Recorded!CanTransition(State(p).status, "failed")
  /\ Start(p, Op("fail", "create", "-", Moved(State(p), "failed")))

Expire(p) ==
  /\ Recording(p) /\ State(p).policy = "expire"
  /\ Recorded!CanTransition(State(p).status, "expired")
  /\ Start(p, Op("release", "create", "-", Released(State(p), "expired")))

Delete(p) ==
  /\ Recording(p) /\ Recorded!CanTransition(State(p).status, "deleted")
  /\ Start(p, Op("release", "create", "-", Released(State(p), "deleted")))

-----------------------------------------------------------------------------
(* The store requests an operation makes, one at a time.                    *)

At(p, step) == op[p].step = step
Go(p, step) == op' = [op EXCEPT ![p].step = step]
Done(p) == op' = [op EXCEPT ![p] = Idle]

\* own(): the source is read, the object put, and a head measures what landed.
Upload(p) ==
  /\ At(p, "upload")
  /\ objects' \in {objects, objects \cup {op[p].arg}}
  /\ Done(p) \/ (op[p].arg \in objects' /\ Go(p, "create"))
  /\ UNCHANGED <<docs, phase, held, damaged, prunes, kept, races>>

\* missingObject, whose answer is also "missing" when a head fails.
Verify(p) ==
  /\ At(p, "verify")
  /\ \/ op[p].next.media \subseteq objects /\ Go(p, "create")
     \/ op' = [op EXCEPT ![p].step = "create", ![p].next = Moved(op[p].next, "failed")]
  /\ op[p].kind = "finalise"
  /\ UNCHANGED <<store, phase, held, damaged, prunes, kept, races>>

\* persist(): the next generation is created only if it does not exist.
NextGen(p) == held[p].gen + 1

\* Broken variant: the document is put without asking whether the key is taken.
Create_clobbering(p) ==
  /\ At(p, "create") /\ NextGen(p) <= MaxGen
  /\ docs' = [g \in DOMAIN docs \cup {NextGen(p)} |->
                IF g = NextGen(p) THEN op[p].next ELSE docs[g]]
  /\ Race("buried", NextGen(p) < Newest)
  /\ Go(p, "confirm")
  /\ UNCHANGED <<objects, phase, held, damaged, prunes, kept>>

Create(p) ==
  /\ At(p, "create") /\ NextGen(p) <= MaxGen
  /\ \/ Done(p) /\ UNCHANGED <<docs, races>>
     \/ /\ NextGen(p) \notin DOMAIN docs
        /\ docs' = [g \in DOMAIN docs \cup {NextGen(p)} |->
                      IF g = NextGen(p) THEN op[p].next ELSE docs[g]]
        /\ Race("buried", NextGen(p) < Newest)
        /\ Done(p) \/ Go(p, "confirm")
  /\ UNCHANGED <<objects, phase, held, damaged, prunes, kept>>

\* It is read back, and must be what this process wrote, before memory follows
\* it; then older generations are listed to be pruned.
Older(g) == {h \in DOMAIN docs : h < g}

Confirm(p) ==
  /\ At(p, "confirm")
  /\ \/ Done(p) /\ UNCHANGED <<held, prunes, kept>>
     \/ /\ NextGen(p) \in DOMAIN docs /\ docs[NextGen(p)] = op[p].next
        /\ held' = [held EXCEPT ![p] = [state |-> op[p].next, gen |-> NextGen(p)]]
        /\ prunes' = [prunes EXCEPT ![p] = @ \cup Older(NextGen(p))]
        /\ kept' = kept \cup (IF op[p].kind = "retain" THEN {op[p].arg} ELSE {})
        /\ IF op[p].kind = "release" THEN Go(p, "list") ELSE Done(p)
  /\ UNCHANGED <<store, phase, damaged, races>>

\* sweep(): everything listed that the state does not name.
SweepList(p) ==
  /\ At(p, "list")
  /\ \/ Done(p)
     \/ op' = [op EXCEPT ![p].step = "sweep", ![p].todo = objects \ op[p].next.media]
  /\ UNCHANGED <<store, phase, held, damaged, prunes, kept, races>>

SweepObject(p) ==
  /\ At(p, "sweep")
  /\ \E m \in op[p].todo :
       /\ op' = [op EXCEPT ![p].todo = @ \ {m}]
       /\ objects' \in {objects, objects \ {m}}
  /\ UNCHANGED <<docs, phase, held, damaged, prunes, kept, races>>

SweepEnd(p) ==
  /\ At(p, "sweep") /\ op[p].todo = {}
  /\ IF op[p].kind = "open"
     THEN /\ Go(p, "prune")
          /\ prunes' = [prunes EXCEPT ![p] = Older(held[p].gen)]
     ELSE Done(p) /\ UNCHANGED prunes
  /\ UNCHANGED <<store, phase, held, damaged, kept, races>>

\* pruneStates(): older generations go one by one, as the keys' fixed width
\* lists them; a failure ends the prune.
Prune(p) ==
  /\ \E g \in prunes[p] :
       /\ \A h \in prunes[p] : g <= h
       /\ \/ prunes' = [prunes EXCEPT ![p] = @ \ {g}] /\ docs' = Without(g)
          \/ prunes' = [prunes EXCEPT ![p] = {}] /\ UNCHANGED docs
  /\ UNCHANGED <<objects, phase, held, damaged, op, kept, races>>

-----------------------------------------------------------------------------
(* Opening the archive, and dying.                                          *)

\* The listing of loadRuns, which is taken to be complete: its limits (64 keys
\* for each run it may hold) are far above what one run leaves unpruned.
Open(p) ==
  /\ phase[p] = "down"
  /\ IF docs = <<>>
     THEN phase' = [phase EXCEPT ![p] = "up"] /\ UNCHANGED <<op, held, races>>
     ELSE /\ phase' = [phase EXCEPT ![p] = "loading"]
          /\ op' = [op EXCEPT ![p] =
                      [Op("open", "read", "-", None) EXCEPT !.todo = objects]]
          /\ held' = [held EXCEPT ![p].gen = Newest]
          /\ Race("opened", \E q \in Procs : op[q].kind = "retain")
  /\ UNCHANGED <<store, damaged, prunes, kept>>

Refused(p) == /\ damaged' = [damaged EXCEPT ![p] = TRUE]
              /\ phase' = [phase EXCEPT ![p] = "up"]
              /\ held' = [held EXCEPT ![p] = [state |-> None, gen |-> 0]]
              /\ Done(p)

\* The newest document is read; it may have been pruned since the listing.
OpenRead(p) ==
  /\ At(p, "read")
  /\ \/ Refused(p)
     \/ /\ held[p].gen \in DOMAIN docs
        /\ op' = [op EXCEPT ![p].step = "intact", ![p].next = docs[held[p].gen]]
        /\ UNCHANGED <<phase, held, damaged>>
  /\ UNCHANGED <<store, prunes, kept, races>>

\* Its media must be there; what else was listed goes.
OpenVerify(p) ==
  /\ At(p, "intact")
  /\ \/ Refused(p)
     \/ /\ op[p].next.media \subseteq objects
        /\ held' = [held EXCEPT ![p].state = op[p].next]
        /\ op' = [op EXCEPT ![p].step = "sweep", ![p].todo = @ \ op[p].next.media]
        /\ UNCHANGED <<phase, damaged>>
  /\ UNCHANGED <<store, prunes, kept, races>>

OpenEnd(p) ==
  /\ At(p, "prune") /\ prunes[p] = {}
  /\ phase' = [phase EXCEPT ![p] = "up"]
  /\ Done(p)
  /\ UNCHANGED <<store, held, damaged, prunes, kept, races>>

Crash(p) ==
  /\ phase[p] # "down"
  /\ phase' = [phase EXCEPT ![p] = "down"]
  /\ held' = [held EXCEPT ![p] = [state |-> None, gen |-> 0]]
  /\ damaged' = [damaged EXCEPT ![p] = FALSE]
  /\ op' = [op EXCEPT ![p] = Idle]
  /\ prunes' = [prunes EXCEPT ![p] = {}]
  /\ UNCHANGED <<store, kept, races>>

\* What a broadcast asks of the archive while it is on air and when it ends.
Capture(p) == /\ p \in Hosts
              /\ \/ \E policy \in Policies : Begin(p, policy)
                 \/ \E m \in Media : Retain(p, m) \/ RetainDuplicate(p, m)
                 \/ Finalise(p)
                 \/ Fail(p)

Request(p) == \/ Upload(p) \/ Verify(p) \/ Create(p) \/ Confirm(p)
              \/ SweepList(p) \/ SweepObject(p) \/ SweepEnd(p) \/ Prune(p)

Lifetime(p) == Open(p) \/ OpenRead(p) \/ OpenVerify(p) \/ OpenEnd(p) \/ Crash(p)

Next == \E p \in Procs : \/ Capture(p) \/ Expire(p) \/ Delete(p)
                          \/ Request(p) \/ Lifetime(p)
Spec == Init /\ [][Next]_vars

-----------------------------------------------------------------------------
Doc == [status : {"none", "recording", "available", "failed", "expired", "deleted"},
        media : SUBSET Media, policy : {"keep", "expire"}]

\* "processing" is passed through in memory and never written: finalise persists
\* once, at its end.
TypeOK ==
  /\ DOMAIN docs \subseteq 1..MaxGen
  /\ \A g \in DOMAIN docs : docs[g] \in Doc
  /\ objects \subseteq Media /\ kept \subseteq Media
  /\ races \subseteq {"opened", "buried"}
  /\ phase \in [Procs -> {"down", "loading", "up"}]
  /\ held \in [Procs -> [state : Doc, gen : 0..MaxGen]]
  /\ damaged \in [Procs -> BOOLEAN]
  /\ \A p \in Procs : op[p].next \in Doc /\ op[p].todo \subseteq Media
  /\ prunes \in [Procs -> SUBSET (1..MaxGen)]

\* The newest state document names only media that is in the store, whatever
\* was interrupted: media is uploaded before state names it and removed after
\* state let it go ("THE ORDERING SURVIVES THE MOVE").
TruthIsWhole == Truth.media \subseteq objects

\* A segment whose retention was acknowledged stays in the recording until the
\* recording is let go, through lost answers, crashes and prunes.
AcknowledgedIsKept ==
  Truth.status \in {"recording", "available", "failed"} => kept \subseteq Truth.media

\* Both, unless the processes came between each other: with any number of them
\* opening, sweeping, pruning and dying, only an opening during a retention or a
\* buried document can take media from the newest document ...
WholeUnlessRaced == races = {} => TruthIsWhole

\* ... and only a buried document can lose a segment that was acknowledged.
KeptUnlessBuried == "buried" \notin races => AcknowledgedIsKept

\* "Two writers cannot both create generation 8" and "the highest generation that
\* exists is the truth": whoever changes the newest document held that document
\* in memory, so a stale writer never replaces what another process recorded and
\* no prune uncovers an older document.
StaleLoses ==
  [][Truth' # Truth =>
       \E p \in Procs : /\ At(p, "create") /\ Truth' = op[p].next
                        /\ held[p] = [state |-> Truth, gen |-> Newest]]_vars

\* "This process is working from a stale view and its write was refused": a
\* state document is only ever created on top of the newest one.
WrittenOnTop ==
  [][\A g \in DOMAIN docs' \ DOMAIN docs : g > Newest]_vars

\* The newest document goes through the declared life of a replay and no other.
FollowsLifecycle == Recorded!Spec
=============================================================================
