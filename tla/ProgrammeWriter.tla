--------------------------- MODULE ProgrammeWriter ---------------------------
(***************************************************************************)
(* Which process may write a programme run, and what reaches its journal:  *)
(* the lease file (services/media-ingest/src/file-run-writer-lease.ts),    *)
(* the ownership that claims and renews it (programme-writer-ownership.ts),*)
(* the fenced journal (journal-timeline-store.ts) and the registry that    *)
(* opens and recovers runs (programme-timeline-registry.ts), as index.ts   *)
(* joins them.                                                             *)
(*                                                                         *)
(* One run, several processes over one volume, each able to die anywhere.  *)
(* A lease may expire at any moment.  A restarted process keeps its owner  *)
(* identity: the process and host id of a container.  The output buffer is *)
(* represented by whether it has failed.                                   *)
(***************************************************************************)
EXTENDS Naturals, Sequences

CONSTANTS Procs,
          MaxToken,       \* bound: tokens issued
          MaxEvents,      \* bound: events a process authors in one life
          MaxJournal      \* bound: events on the volume that are counted; after
                          \* them nothing more is sent to the journal

ASSUME WriterAssumption == /\ MaxToken \in Nat \ {0}
                           /\ MaxEvents \in Nat \ {0}
                           /\ MaxJournal \in Nat \ {0}

VARIABLES lease,       \* the lease file; token 0 when there is none
          claimFile,   \* whether the exclusive claim file exists
          journal,     \* how many events are on the volume, up to MaxJournal
          run,         \* each process: "down", "none", "opened" or "recovered"
          claim,       \* its acquire() in progress: the step and a token
          grant,       \* ownership.held: the token, 0 when nothing is held
          renewing,    \* the lease a renewal has read and not yet written back
          presented,   \* the store's fenceToken, 0 for null
          fencedOut,
          failed,      \* whether the output buffer has failed
          authored,    \* events authored on the timeline in this life
          queue,       \* appends queued by the store
          written,     \* ghost: the appends of this life that landed, in order
          putBack      \* ghost: whether a renewal wrote back a superseded lease
lock == <<lease, claimFile, putBack>>
held == <<grant, renewing>>
store == <<presented, fencedOut, queue, journal, written>>
vars == <<lock, journal, run, claim, held, presented, fencedOut, failed,
          authored, queue, written>>

NoLease == [token |-> 0, fresh |-> FALSE]
Leases == {NoLease} \cup [token : 1..MaxToken, fresh : BOOLEAN, owner : Procs]

\* Broken variant: the lease is written without its owner.
Lease_unnamed(n, p) == [token |-> n, fresh |-> TRUE]

Lease(n, p) == [token |-> n, fresh |-> TRUE, owner |-> p]
Step(s, n) == [step |-> s, token |-> n]
NotClaiming == Step("no", 0)

Init == /\ lease = NoLease /\ claimFile = FALSE /\ journal = 0 /\ putBack = FALSE
        /\ run = [p \in Procs |-> "down"]
        /\ claim = [p \in Procs |-> NotClaiming]
        /\ grant = [p \in Procs |-> 0]
        /\ renewing = [p \in Procs |-> NoLease]
        /\ presented = [p \in Procs |-> 0]
        /\ fencedOut = [p \in Procs |-> FALSE]
        /\ failed = [p \in Procs |-> FALSE]
        /\ authored = [p \in Procs |-> 0]
        /\ queue = [p \in Procs |-> <<>>]
        /\ written = [p \in Procs |-> <<>>]

-----------------------------------------------------------------------------
(* The life of a process and of the run in it.                              *)

\* recoverRunsFromDisk: a journal whose media is still on the spool comes back
\* as a timeline.  Media it needs and cannot find fails the buffer.
Start(p) ==
  /\ run[p] = "down"
  /\ \/ /\ run' = [run EXCEPT ![p] = "none"]
        /\ UNCHANGED failed
     \/ /\ journal # 0
        /\ run' = [run EXCEPT ![p] = "recovered"]
        /\ \E missing \in BOOLEAN : failed' = [failed EXCEPT ![p] = missing]
  /\ UNCHANGED <<lock, claim, held, store, authored>>

\* registry.open for a run not tracked here; its listener begins the claim and
\* nothing waits for it.
Open(p) ==
  /\ run[p] = "none"
  /\ run' = [run EXCEPT ![p] = "opened"]
  /\ claim' = [claim EXCEPT ![p] = Step("read", 0)]
  /\ UNCHANGED <<lock, held, store, failed, authored>>

Crash(p) ==
  /\ run[p] # "down"
  /\ run' = [run EXCEPT ![p] = "down"]
  /\ claim' = [claim EXCEPT ![p] = NotClaiming]
  /\ grant' = [grant EXCEPT ![p] = 0]
  /\ renewing' = [renewing EXCEPT ![p] = NoLease]
  /\ presented' = [presented EXCEPT ![p] = 0]
  /\ fencedOut' = [fencedOut EXCEPT ![p] = FALSE]
  /\ failed' = [failed EXCEPT ![p] = FALSE]
  /\ authored' = [authored EXCEPT ![p] = 0]
  /\ queue' = [queue EXCEPT ![p] = <<>>]
  /\ written' = [written EXCEPT ![p] = <<>>]
  /\ UNCHANGED <<lock, journal>>

-----------------------------------------------------------------------------
(* acquire(), one file operation at a time, and what claim() does with it.  *)

Taken(p) == lease.token # 0 /\ lease.fresh /\ lease.owner # p
Go(p, c) == claim' = [claim EXCEPT ![p] = c]
FailBuffer(p) == failed' = [failed EXCEPT ![p] = TRUE]

\* FAILED CLOSED: a process refused the run stops its own broadcast.
Refused(p) == Go(p, NotClaiming) /\ FailBuffer(p)

AcquireRead(p) ==
  /\ claim[p].step = "read"
  /\ IF Taken(p) THEN Refused(p)
                 ELSE Go(p, Step("open", 0)) /\ UNCHANGED failed
  /\ UNCHANGED <<lock, run, held, store, authored>>

\* Broken variant: the claim file is opened whether or not it exists.
AcquireOpen_shared(p) ==
  /\ claim[p].step = "open"
  /\ claimFile' = TRUE /\ Go(p, Step("confirm", 0))
  /\ UNCHANGED <<lease, putBack, run, held, store, failed, authored>>

\* open(claimPath, 'wx')
AcquireOpen(p) ==
  /\ claim[p].step = "open"
  /\ \/ Refused(p) /\ UNCHANGED claimFile
     \/ /\ ~claimFile /\ claimFile' = TRUE
        /\ Go(p, Step("confirm", 0)) /\ UNCHANGED failed
  /\ UNCHANGED <<lease, putBack, run, held, store, authored>>

\* The lease is read again under the claim, and judged by the time acquire
\* began: one that has expired since still refuses.
AcquireConfirm(p) ==
  /\ claim[p].step = "confirm"
  /\ \/ /\ lease.token # 0 /\ lease.owner # p
        /\ Go(p, Step("refused", 0))
     \/ /\ ~Taken(p) /\ lease.token < MaxToken
        /\ Go(p, Step("write", lease.token + 1))
  /\ UNCHANGED <<lock, run, held, store, failed, authored>>

AcquireWrite(p) ==
  /\ claim[p].step = "write"
  /\ lease' = Lease(claim[p].token, p)
  /\ Go(p, Step("granted", claim[p].token))
  /\ UNCHANGED <<claimFile, putBack, run, held, store, failed, authored>>

\* finally: the claim file goes, or cannot be removed and stays.
AcquireEnd(p) ==
  /\ claim[p].step \in {"granted", "refused"}
  /\ claimFile' \in BOOLEAN
  /\ IF claim[p].step = "refused"
     THEN Refused(p) /\ UNCHANGED <<grant, presented>>
     ELSE /\ Go(p, NotClaiming)
          /\ grant' = [grant EXCEPT ![p] = claim[p].token]
          /\ presented' = [presented EXCEPT ![p] = claim[p].token]
          /\ UNCHANGED failed
  /\ UNCHANGED <<lease, putBack, run, renewing, fencedOut, queue, journal, written, authored>>

Claiming(p) == \/ AcquireRead(p) \/ AcquireOpen(p) \/ AcquireConfirm(p)
               \/ AcquireWrite(p) \/ AcquireEnd(p)

-----------------------------------------------------------------------------
Expire == /\ lease.fresh
          /\ lease' = [lease EXCEPT !.fresh = FALSE]
          /\ UNCHANGED <<claimFile, putBack, run, claim, held, store, failed, authored>>

\* Broken variant: a lost lease is forgotten and the broadcast goes on.
RenewRead_unheeded(p) ==
  /\ grant[p] # 0 /\ renewing[p] = NoLease
  /\ IF lease.token = grant[p]
     THEN renewing' = [renewing EXCEPT ![p] = lease] /\ UNCHANGED grant
     ELSE grant' = [grant EXCEPT ![p] = 0] /\ UNCHANGED renewing
  /\ UNCHANGED <<lock, run, claim, store, failed, authored>>

\* renewAll: a lease that carries another token is lost, and so is one that
\* could not be read.
RenewRead(p) ==
  /\ grant[p] # 0 /\ renewing[p] = NoLease
  /\ \/ /\ lease.token = grant[p]
        /\ renewing' = [renewing EXCEPT ![p] = lease]
        /\ UNCHANGED <<grant, failed>>
     \/ /\ grant' = [grant EXCEPT ![p] = 0]
        /\ FailBuffer(p) /\ UNCHANGED renewing
  /\ UNCHANGED <<lock, run, claim, store, authored>>

\* Somebody may have taken the run since the read.
RenewWrite(p) ==
  /\ renewing[p] # NoLease
  /\ putBack' = (putBack \/ renewing[p].token # lease.token)
  /\ lease' = [renewing[p] EXCEPT !.fresh = TRUE]
  /\ renewing' = [renewing EXCEPT ![p] = NoLease]
  /\ UNCHANGED <<claimFile, run, claim, grant, store, failed, authored>>

-----------------------------------------------------------------------------
(* The timeline and the journal.                                            *)

\* timeline.append: only a timeline made by open has a sink.
Author(p) ==
  /\ run[p] \in {"opened", "recovered"} 
  /\ authored[p] < MaxEvents
  /\ run[p] = "opened" => journal < MaxJournal
  /\ authored' = [authored EXCEPT ![p] = @ + 1]
  /\ queue' = IF run[p] = "opened"
              THEN [queue EXCEPT ![p] = Append(@, authored[p] + 1)] ELSE queue
  /\ UNCHANGED <<lock, run, claim, held, presented, fencedOut, journal, written, failed>>

\* admitted(): the volume is asked at most once a second, so a write may also be
\* admitted on the word of an earlier answer.
Superseded(p) == lease.token > presented[p]
Unfenced(p) == presented[p] = 0

\* Broken variant: a process that was superseded is admitted between two checks.
Admitted_anew(p) == TRUE

Admitted(p) == Unfenced(p) \/ ~fencedOut[p]

Landed(p) == /\ journal' = IF journal < MaxJournal THEN journal + 1 ELSE journal
             /\ written' = [written EXCEPT ![p] = Append(@, Head(queue[p]))]

\* Broken variant: an append that failed leaves the buffer running.
AppendFails_quietly(p) ==
  /\ queue[p] # <<>>
  /\ queue' = [queue EXCEPT ![p] = Tail(@)]
  /\ UNCHANGED <<lock, run, claim, held, presented, fencedOut, journal, written,
                 failed, authored>>

AppendLands(p) ==
  /\ queue[p] # <<>> /\ Admitted(p)
  /\ queue' = [queue EXCEPT ![p] = Tail(@)]
  /\ Landed(p)
  /\ UNCHANGED <<lock, run, claim, held, presented, fencedOut, failed, authored>>

\* The disk refuses the append.
AppendFails(p) ==
  /\ queue[p] # <<>>
  /\ queue' = [queue EXCEPT ![p] = Tail(@)]
  /\ FailBuffer(p)
  /\ UNCHANGED <<lock, run, claim, held, presented, fencedOut, journal, written, authored>>

\* The volume shows a higher token: this store is out for good.
AppendFenced(p) ==
  /\ queue[p] # <<>> /\ ~Unfenced(p) /\ (fencedOut[p] \/ Superseded(p))
  /\ queue' = [queue EXCEPT ![p] = Tail(@)]
  /\ fencedOut' = [fencedOut EXCEPT ![p] = TRUE]
  /\ FailBuffer(p)
  /\ UNCHANGED <<lock, run, claim, held, presented, journal, written, authored>>

Next == \/ Expire
        \/ \E p \in Procs : \/ Start(p) \/ Open(p) \/ Crash(p)
                            \/ Claiming(p)
                            \/ RenewRead(p) \/ RenewWrite(p)
                            \/ Author(p)
                            \/ AppendLands(p) \/ AppendFails(p) \/ AppendFenced(p)

\* File operations return, and the renewal timer fires.
Fairness == \A p \in Procs : /\ WF_vars(Claiming(p))
                             /\ WF_vars(RenewRead(p) \/ RenewWrite(p))

Spec == Init /\ [][Next]_vars /\ Fairness

-----------------------------------------------------------------------------
Steps == {"no", "read", "open", "confirm", "write", "granted", "refused"}

TypeOK ==
  /\ lease \in Leases
  /\ claimFile \in BOOLEAN
  /\ run \in [Procs -> {"down", "none", "opened", "recovered"}]
  /\ claim \in [Procs -> [step : Steps, token : 0..MaxToken]]
  /\ grant \in [Procs -> 0..MaxToken] /\ presented \in [Procs -> 0..MaxToken]
  /\ renewing \in [Procs -> Leases]
  /\ fencedOut \in [Procs -> BOOLEAN] /\ failed \in [Procs -> BOOLEAN]
  /\ authored \in [Procs -> Nat] /\ journal \in 0..MaxJournal
  /\ putBack \in BOOLEAN

\* "Monotonic, and never reused for a run": two processes never hold the same
\* token, so the token tells every former owner from the present one.
OneHolderPerToken ==
  \A p, q \in Procs : p # q /\ grant[p] # 0 => grant[p] # grant[q]

\* renew() compares the token it read and then writes: the one way to a second
\* holder of a token is a renewal that puts a superseded lease back.
OneHolderUnlessPutBack == ~putBack => OneHolderPerToken

\* "PERSISTED AS IT IS WRITTEN ... when a write fails, the buffer fails CLOSED":
\* what a process has authored is on the volume or queued for it, whole and in
\* order, or its output has stopped.
Recorded(p) == written[p] \o queue[p] = [n \in 1..authored[p] |-> n]
RecordedOrFailed == \A p \in Procs : run[p] = "opened" => Recorded(p) \/ failed[p]

\* The same of every run a process has on air, the recovered ones included.
EveryRunRecorded == \A p \in Procs : run[p] # "none" => Recorded(p) \/ failed[p]

\* "A process that has been superseded does not become valid again by waiting":
\* once the fence has refused it, it writes nothing more.
FencedForGood ==
  [][\A p \in Procs : fencedOut[p] => written'[p] \in {written[p], <<>>}]_vars

\* "CLAIMED BEFORE THE FIRST EVENT IS WRITTEN".
ClaimedBeforeWritten ==
  \A p \in Procs : written[p] # <<>> /\ ~failed[p] => presented[p] # 0

\* "LOSING THE LEASE FAILS THE BROADCAST": a process whose token was superseded
\* finds out and stops, unless a renewal, its own or another's, puts that very
\* token back on the lease.
Stopped(p) == failed[p] \/ run[p] = "down"
SupersededStops ==
  \A p \in Procs : grant[p] # 0 /\ lease.token > grant[p]
                    ~> Stopped(p) \/ lease.token = grant[p]
=============================================================================
