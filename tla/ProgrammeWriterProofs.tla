------------------------ MODULE ProgrammeWriterProofs ------------------------
(***************************************************************************)
(* What ProgrammeWriter promises for every set of processes and every      *)
(* bound: typing, the fence that stays shut, the journal that a process on *)
(* air keeps whole, and that no two processes hold one token before a      *)
(* renewal has put a superseded lease back.                                *)
(***************************************************************************)
EXTENDS ProgrammeWriter, SequenceTheorems, TLAPS

-----------------------------------------------------------------------------
(* Types.  A token about to be written has been counted up from the lease.  *)

TokensAreIssued ==
  \A p \in Procs : claim[p].step \in {"write", "granted"} => claim[p].token # 0

TInv == TypeOK /\ TokensAreIssued

Claims == [step : Steps, token : 0..MaxToken]

LEMMA ClaimType ==
  ASSUME NEW s \in Steps, NEW n \in 0..MaxToken
  PROVE  /\ Step(s, n) \in Claims /\ NotClaiming \in Claims
         /\ Step(s, n).step = s /\ Step(s, n).token = n
         /\ NotClaiming.step = "no" /\ NotClaiming.token = 0
BY WriterAssumption DEF Step, NotClaiming, Claims, Steps

LEMMA LeaseType ==
  ASSUME NEW n \in 1..MaxToken, NEW p \in Procs
  PROVE  Lease(n, p) \in Leases /\ Lease(n, p).token = n /\ NoLease \in Leases
BY DEF Lease, Leases, NoLease

LEMMA LeaseFields ==
  ASSUME NEW l \in Leases, l # NoLease
  PROVE  /\ l.token \in 1..MaxToken
         /\ \A f \in BOOLEAN : /\ [l EXCEPT !.fresh = f] \in Leases
                               /\ [l EXCEPT !.fresh = f].token = l.token
BY DEF Leases, NoLease

LEMMA LeaseToken ==
  ASSUME NEW l \in Leases
  PROVE  l.token \in 0..MaxToken /\ (l.token = 0 <=> l = NoLease)
BY WriterAssumption DEF Leases, NoLease

LEMMA InitTInv == Init => TInv
<1> SUFFICES ASSUME Init PROVE TInv
  OBVIOUS
<1>1. NotClaiming \in Claims /\ NotClaiming.step = "no"
  BY WriterAssumption DEF NotClaiming, Step, Claims, Steps
<1>2. NoLease \in Leases
  BY DEF Leases
<1>3. 0 \in 0..MaxToken /\ 0 \in 0..MaxJournal
  BY WriterAssumption
<1>4. TypeOK
  BY <1>1, <1>2, <1>3 DEF Init, TypeOK, Claims
<1>5. TokensAreIssued
  BY <1>1 DEF Init, TokensAreIssued
<1> QED
  BY <1>4, <1>5 DEF TInv

\* The steps of a claim but its end change the claim, and at most one of the
\* lease, the claim file and the buffer.
LEMMA GoType ==
  ASSUME TInv, NEW p \in Procs, NEW c \in Claims, Go(p, c),
         c.step \in {"write", "granted"} => c.token # 0
  PROVE  claim' \in [Procs -> Claims] /\ TokensAreIssued'
BY DEF TInv, TypeOK, Go, Claims, TokensAreIssued

LEMMA ClaimingType ==
  ASSUME TInv, NEW p \in Procs, Claiming(p)
  PROVE  TInv'
<1> USE DEF lock, held, store
<1>0. /\ lease.token \in 0..MaxToken /\ claim[p].token \in 0..MaxToken
      /\ 0 \in 0..MaxToken
  BY LeaseToken, WriterAssumption DEF TInv, TypeOK
<1>1. NotClaiming \in Claims /\ NotClaiming.step = "no"
  BY WriterAssumption DEF NotClaiming, Step, Claims, Steps
<1>2. ASSUME Refused(p)
      PROVE  claim' \in [Procs -> Claims] /\ TokensAreIssued' /\ failed' \in [Procs -> BOOLEAN]
  BY <1>1, <1>2, GoType DEF Refused, FailBuffer, TInv, TypeOK
<1>3. CASE AcquireRead(p)
  <2>1. Step("open", 0) \in Claims /\ Step("open", 0).step = "open"
    BY <1>0, ClaimType DEF Steps
  <2>2. claim' \in [Procs -> Claims] /\ TokensAreIssued' /\ failed' \in [Procs -> BOOLEAN]
    BY <1>2, <1>3, <2>1, GoType DEF AcquireRead, TInv, TypeOK
  <2> QED
    BY <1>3, <2>2 DEF AcquireRead, TInv, TypeOK, Claims
<1>4. CASE AcquireOpen(p)
  <2>1. Step("confirm", 0) \in Claims /\ Step("confirm", 0).step = "confirm"
    BY <1>0, ClaimType DEF Steps
  <2>2. claim' \in [Procs -> Claims] /\ TokensAreIssued' /\ failed' \in [Procs -> BOOLEAN]
    BY <1>2, <1>4, <2>1, GoType DEF AcquireOpen, TInv, TypeOK
  <2> QED
    BY <1>4, <2>2 DEF AcquireOpen, TInv, TypeOK, Claims
<1>5. CASE AcquireConfirm(p)
  <2>1. Step("refused", 0) \in Claims /\ Step("refused", 0).step = "refused"
    BY <1>0, ClaimType DEF Steps
  <2>2. ASSUME lease.token < MaxToken
        PROVE  /\ Step("write", lease.token + 1) \in Claims
               /\ Step("write", lease.token + 1).token # 0
    <3>1. lease.token + 1 \in 0..MaxToken /\ lease.token + 1 # 0
      BY <1>0, <2>2, WriterAssumption
    <3> QED
      BY <3>1, ClaimType DEF Steps
  <2>3. claim' \in [Procs -> Claims] /\ TokensAreIssued'
    BY <1>5, <2>1, <2>2, GoType DEF AcquireConfirm
  <2> QED
    BY <1>5, <2>3 DEF AcquireConfirm, TInv, TypeOK, Claims
<1>6. CASE AcquireWrite(p)
  <2>1. claim[p].token \in 1..MaxToken
    BY <1>0, <1>6 DEF AcquireWrite, TInv, TokensAreIssued
  <2>2. /\ Step("granted", claim[p].token) \in Claims
        /\ Step("granted", claim[p].token).token # 0
    BY <1>0, <2>1, ClaimType DEF Steps
  <2>3. claim' \in [Procs -> Claims] /\ TokensAreIssued'
    BY <1>6, <2>2, GoType DEF AcquireWrite
  <2>4. lease' \in Leases
    BY <1>6, <2>1, LeaseType DEF AcquireWrite
  <2> QED
    BY <1>6, <2>3, <2>4 DEF AcquireWrite, TInv, TypeOK, Claims
<1>7. CASE AcquireEnd(p)
  <2>1. claim' \in [Procs -> Claims] /\ TokensAreIssued' /\ failed' \in [Procs -> BOOLEAN]
    BY <1>1, <1>2, <1>7, GoType DEF AcquireEnd, TInv, TypeOK
  <2>2. grant' \in [Procs -> 0..MaxToken] /\ presented' \in [Procs -> 0..MaxToken]
    BY <1>0, <1>7 DEF AcquireEnd, TInv, TypeOK
  <2> QED
    BY <1>7, <2>1, <2>2 DEF AcquireEnd, TInv, TypeOK, Claims
<1> QED
  BY <1>3, <1>4, <1>5, <1>6, <1>7 DEF Claiming

LEMMA NextTInv == TInv /\ [Next]_vars => TInv'
<1> SUFFICES ASSUME TInv, [Next]_vars PROVE TInv'
  OBVIOUS
<1> USE DEF lock, held, store
<1>0. /\ 0 \in 0..MaxToken /\ NotClaiming \in Claims /\ NotClaiming.step = "no"
      /\ NoLease \in Leases
  BY WriterAssumption DEF NotClaiming, Step, Claims, Steps, Leases
<1>1. ASSUME NEW p \in Procs, Claiming(p) PROVE TInv'
  BY <1>1, ClaimingType
<1>2. CASE Expire
  <2>1. lease # NoLease
    BY <1>2 DEF Expire, NoLease
  <2>2. lease' \in Leases
    BY <1>2, <2>1, LeaseFields DEF Expire, TInv, TypeOK
  <2> QED
    BY <1>2, <2>2 DEF Expire, TInv, TypeOK, TokensAreIssued
<1>3. ASSUME NEW p \in Procs, Start(p) PROVE TInv'
  BY <1>3 DEF Start, TInv, TypeOK, TokensAreIssued
<1>4. ASSUME NEW p \in Procs, Open(p) PROVE TInv'
  <2>1. Step("read", 0) \in Claims /\ Step("read", 0).step = "read"
    BY <1>0, ClaimType DEF Steps
  <2>2. claim' \in [Procs -> Claims] /\ TokensAreIssued'
    BY <1>4, <2>1, GoType DEF Open, Go
  <2> QED
    BY <1>4, <2>2 DEF Open, TInv, TypeOK, Claims
<1>5. ASSUME NEW p \in Procs, Crash(p) PROVE TInv'
  <2>1. claim' \in [Procs -> Claims] /\ TokensAreIssued'
    BY <1>0, <1>5, GoType DEF Crash, Go
  <2>2. /\ grant' \in [Procs -> 0..MaxToken] /\ presented' \in [Procs -> 0..MaxToken]
        /\ renewing' \in [Procs -> Leases]
    BY <1>0, <1>5 DEF Crash, TInv, TypeOK
  <2> QED
    BY <1>5, <2>1, <2>2 DEF Crash, TInv, TypeOK, Claims
<1>6. ASSUME NEW p \in Procs, RenewRead(p) PROVE TInv'
  <2>1. grant' \in [Procs -> 0..MaxToken] /\ renewing' \in [Procs -> Leases]
    BY <1>0, <1>6 DEF RenewRead, TInv, TypeOK
  <2> QED
    BY <1>6, <2>1 DEF RenewRead, FailBuffer, TInv, TypeOK, TokensAreIssued
<1>7. ASSUME NEW p \in Procs, RenewWrite(p) PROVE TInv'
  <2>1. lease' \in Leases
    BY <1>7, LeaseFields DEF RenewWrite, TInv, TypeOK
  <2>2. renewing' \in [Procs -> Leases]
    BY <1>0, <1>7 DEF RenewWrite, TInv, TypeOK
  <2> QED
    BY <1>7, <2>1, <2>2 DEF RenewWrite, TInv, TypeOK, TokensAreIssued
<1>8. ASSUME NEW p \in Procs, Author(p) PROVE TInv'
  BY <1>8 DEF Author, TInv, TypeOK, TokensAreIssued
<1>9. ASSUME NEW p \in Procs, AppendLands(p) \/ AppendFails(p) \/ AppendFenced(p)
      PROVE  TInv'
  <2>1. Landed(p) => journal' \in 0..MaxJournal
    BY WriterAssumption DEF Landed, TInv, TypeOK
  <2>2. journal' \in 0..MaxJournal
    BY <1>9, <2>1 DEF AppendLands, AppendFails, AppendFenced, TInv, TypeOK
  <2> QED
    BY <1>9, <2>2 DEF AppendLands, AppendFails, AppendFenced, FailBuffer,
                      TInv, TypeOK, TokensAreIssued
<1>10. CASE UNCHANGED vars
  BY <1>10 DEF vars, TInv, TypeOK, TokensAreIssued
<1> QED
  BY <1>1, <1>2, <1>3, <1>4, <1>5, <1>6, <1>7, <1>8, <1>9, <1>10 DEF Next

\* Every variable of every process keeps its type, and no token above MaxToken
\* is written: acquire() in file-run-writer-lease.ts.
THEOREM TypeCorrect == Spec => []TypeOK
<1>1. TInv => TypeOK
  BY DEF TInv
<1> QED
  BY <1>1, InitTInv, NextTInv, PTL DEF Spec

-----------------------------------------------------------------------------
(* The fence, which a process has only once it presented a token.           *)

FencedByToken == \A p \in Procs : fencedOut[p] => presented[p] # 0

LEMMA NextFenced == TInv /\ FencedByToken /\ [Next]_vars => FencedByToken'
<1> SUFFICES ASSUME TInv, FencedByToken, [Next]_vars PROVE FencedByToken'
  OBVIOUS
<1> USE DEF lock, held, store, TInv, TypeOK, FencedByToken
<1>1. ASSUME NEW p \in Procs, AcquireEnd(p) PROVE FencedByToken'
  <2>1. claim[p].step = "granted" => claim[p].token # 0
    BY DEF TokensAreIssued
  <2> QED
    BY <1>1, <2>1 DEF AcquireEnd
<1>2. ASSUME NEW p \in Procs, Crash(p) PROVE FencedByToken'
  BY <1>2 DEF Crash
<1>3. ASSUME NEW p \in Procs, AppendFenced(p) PROVE FencedByToken'
  BY <1>3 DEF AppendFenced, Unfenced
<1>4. ASSUME UNCHANGED <<presented, fencedOut>> PROVE FencedByToken'
  BY <1>4
<1>5. ASSUME NEW p \in Procs, Claiming(p), ~AcquireEnd(p)
      PROVE  UNCHANGED <<presented, fencedOut>>
  BY <1>5 DEF Claiming, AcquireRead, AcquireOpen, AcquireConfirm, AcquireWrite
<1>6. ASSUME NEW p \in Procs,
             \/ Start(p) \/ Open(p) \/ RenewRead(p) \/ RenewWrite(p)
             \/ Author(p) \/ AppendLands(p) \/ AppendFails(p)
      PROVE  UNCHANGED <<presented, fencedOut>>
  BY <1>6 DEF Start, Open, RenewRead, RenewWrite, Author, AppendLands, AppendFails
<1>7. Expire \/ UNCHANGED vars => UNCHANGED <<presented, fencedOut>>
  BY DEF Expire, vars
<1> QED
  BY <1>1, <1>2, <1>3, <1>4, <1>5, <1>6, <1>7 DEF Next

LEMMA StepFencedForGood ==
  TInv /\ FencedByToken /\ [Next]_vars =>
    [\A p \in Procs : fencedOut[p] => written'[p] \in {written[p], <<>>}]_vars
<1> SUFFICES ASSUME TInv, FencedByToken, [Next]_vars, NEW q \in Procs, fencedOut[q]
             PROVE  written'[q] \in {written[q], <<>>}
  OBVIOUS
<1> USE DEF lock, held, store
<1>1. ASSUME NEW p \in Procs, Crash(p) PROVE written'[q] \in {written[q], <<>>}
  BY <1>1 DEF Crash
<1>2. ASSUME NEW p \in Procs, AppendLands(p) PROVE written'[q] \in {written[q], <<>>}
  <2>1. presented[q] # 0
    BY DEF FencedByToken
  <2>2. p # q
    BY <1>2, <2>1 DEF AppendLands, Admitted, Unfenced
  <2> QED
    BY <1>2, <2>2 DEF AppendLands, Landed
<1>3. ASSUME UNCHANGED written PROVE written'[q] \in {written[q], <<>>}
  BY <1>3
<1>4. ASSUME NEW p \in Procs, Claiming(p) PROVE UNCHANGED written
  BY <1>4 DEF Claiming, AcquireRead, AcquireOpen, AcquireConfirm, AcquireWrite, AcquireEnd
<1>5. ASSUME NEW p \in Procs,
             \/ Start(p) \/ Open(p) \/ RenewRead(p) \/ RenewWrite(p)
             \/ Author(p) \/ AppendFenced(p) \/ AppendFails(p)
      PROVE  UNCHANGED written
  BY <1>5 DEF Start, Open, RenewRead, RenewWrite, Author, AppendFenced, AppendFails
<1>6. Expire \/ UNCHANGED vars => UNCHANGED written
  BY DEF Expire, vars
<1> QED
  BY <1>1, <1>2, <1>3, <1>4, <1>5, <1>6 DEF Next

\* A process the fence refused writes nothing more in that life, however long
\* it waits and whatever it read before: admitted() in journal-timeline-store.ts.
THEOREM FenceStaysShut == Spec => FencedForGood
<1>1. Init => FencedByToken
  BY DEF Init, FencedByToken
<1> QED
  BY <1>1, InitTInv, NextTInv, NextFenced, StepFencedForGood, PTL DEF Spec, FencedForGood

-----------------------------------------------------------------------------
(* What is queued follows what has landed, event by event.                  *)

\* RecordedOrFailed of one process, and that a run not yet opened is empty.
Booked(p) ==
  /\ run[p] \in {"down", "none"} =>
       queue[p] = <<>> /\ written[p] = <<>> /\ authored[p] = 0
  /\ run[p] = "opened" => Recorded(p) \/ failed[p]

QueueTyped == queue \in [Procs -> Seq(Nat)] /\ written \in [Procs -> Seq(Nat)]

RecordInv == QueueTyped /\ \A p \in Procs : Booked(p)

UpTo(n) == [i \in 1..n |-> i]

LEMMA AuthoredNext ==
  ASSUME NEW w \in Seq(Nat), NEW q \in Seq(Nat), NEW n \in Nat, w \o q = UpTo(n)
  PROVE  Append(q, n + 1) \in Seq(Nat) /\ w \o Append(q, n + 1) = UpTo(n + 1)
<1>1. n + 1 \in Nat /\ Append(q, n + 1) \in Seq(Nat)
  OBVIOUS
<1>2. w \o Append(q, n + 1) = Append(w \o q, n + 1)
  BY SMTT(30)
<1>3. Append(UpTo(n), n + 1) = UpTo(n + 1)
  BY DEF UpTo
<1> QED
  BY <1>1, <1>2, <1>3

LEMMA NothingYet == <<>> \o <<>> = UpTo(0)
<1>1. <<>> \in Seq(Nat) /\ UpTo(0) \in Seq(Nat) /\ Len(UpTo(0)) = 0
  BY DEF UpTo
<1>2. UpTo(0) = <<>>
  BY <1>1, EmptySeq
<1> QED
  BY <1>1, <1>2, ConcatEmptySeq

LEMMA LandedNext ==
  ASSUME NEW w \in Seq(Nat), NEW q \in Seq(Nat), q # <<>>
  PROVE  /\ Append(w, Head(q)) \in Seq(Nat) /\ Tail(q) \in Seq(Nat)
         /\ Append(w, Head(q)) \o Tail(q) = w \o q
<1>1. Head(q) \in Nat /\ Tail(q) \in Seq(Nat)
  BY HeadTailProperties
<1>2. Append(w, Head(q)) \in Seq(Nat)
  BY <1>1
<1>3. Append(w, Head(q)) \o Tail(q) = w \o q
  BY <1>1, <1>2, SMTT(30)
<1> QED
  BY <1>1, <1>2, <1>3

LEMMA RecordedSame ==
  ASSUME NEW p \in Procs, Booked(p),
         UNCHANGED <<queue[p], written[p], authored[p], run[p]>>,
         failed[p] => failed'[p]
  PROVE  Booked(p)'
BY DEF Booked, Recorded

LEMMA NextQueueTyped == TInv /\ QueueTyped /\ [Next]_vars => QueueTyped'
<1> SUFFICES ASSUME TInv, QueueTyped, [Next]_vars PROVE QueueTyped'
  OBVIOUS
<1> USE DEF lock, held, store
<1>1. ASSUME NEW p \in Procs, Claiming(p) PROVE QueueTyped'
  BY <1>1 DEF Claiming, AcquireRead, AcquireOpen, AcquireConfirm, AcquireWrite, AcquireEnd,
              QueueTyped
<1>2. ASSUME NEW p \in Procs, Start(p) \/ Open(p) \/ RenewRead(p) \/ RenewWrite(p)
      PROVE  QueueTyped'
  BY <1>2 DEF Start, Open, RenewRead, RenewWrite, QueueTyped
<1>3. ASSUME NEW p \in Procs, Crash(p) PROVE QueueTyped'
  <2>1. <<>> \in Seq(Nat)
    OBVIOUS
  <2> QED
    BY <1>3, <2>1 DEF Crash, QueueTyped
<1>4. ASSUME NEW p \in Procs, Author(p) PROVE QueueTyped'
  <2>1. Append(queue[p], authored[p] + 1) \in Seq(Nat)
    BY DEF QueueTyped, TInv, TypeOK
  <2> QED
    BY <1>4, <2>1 DEF Author, QueueTyped
<1>5. ASSUME NEW p \in Procs, AppendLands(p) \/ AppendFails(p) \/ AppendFenced(p)
      PROVE  QueueTyped'
  <2>1. queue[p] \in Seq(Nat) /\ written[p] \in Seq(Nat) /\ queue[p] # <<>>
    BY <1>5 DEF AppendLands, AppendFails, AppendFenced, QueueTyped
  <2>2. Append(written[p], Head(queue[p])) \in Seq(Nat) /\ Tail(queue[p]) \in Seq(Nat)
    BY <2>1, LandedNext
  <2> QED
    BY <1>5, <2>2 DEF AppendLands, AppendFails, AppendFenced, Landed, QueueTyped
<1>6. Expire \/ UNCHANGED vars => QueueTyped'
  BY DEF Expire, vars, QueueTyped
<1> QED
  BY <1>1, <1>2, <1>3, <1>4, <1>5, <1>6 DEF Next

LEMMA NextBooked ==
  ASSUME TInv, RecordInv, [Next]_vars, NEW q \in Procs
  PROVE  Booked(q)'
<1> USE DEF lock, held, store
<1>0. Booked(q) /\ authored[q] \in Nat /\ queue[q] \in Seq(Nat) /\ written[q] \in Seq(Nat)
  BY DEF RecordInv, QueueTyped, TInv, TypeOK
<1>1. ASSUME NEW p \in Procs, Claiming(p) PROVE Booked(q)'
  <2>1. UNCHANGED <<queue[q], written[q], authored[q], run[q]>>
    BY <1>1 DEF Claiming, AcquireRead, AcquireOpen, AcquireConfirm, AcquireWrite, AcquireEnd
  <2>2. failed[q] => failed'[q]
    BY <1>1 DEF Claiming, AcquireRead, AcquireOpen, AcquireConfirm, AcquireWrite, AcquireEnd,
                Refused, FailBuffer, TInv, TypeOK
  <2> QED
    BY <1>0, <2>1, <2>2, RecordedSame
<1>2. ASSUME NEW p \in Procs, RenewRead(p) \/ RenewWrite(p) PROVE Booked(q)'
  <2>1. UNCHANGED <<queue[q], written[q], authored[q], run[q]>>
    BY <1>2 DEF RenewRead, RenewWrite
  <2>2. failed[q] => failed'[q]
    BY <1>2 DEF RenewRead, RenewWrite, FailBuffer, TInv, TypeOK
  <2> QED
    BY <1>0, <2>1, <2>2, RecordedSame
<1>3. ASSUME Expire \/ UNCHANGED vars PROVE Booked(q)'
  BY <1>0, <1>3, RecordedSame DEF Expire, vars
<1>4. ASSUME NEW p \in Procs, Start(p) PROVE Booked(q)'
  <2>1. CASE p = q
    BY <1>0, <1>4, <2>1 DEF Start, Booked, TInv, TypeOK
  <2>2. CASE p # q
    BY <1>0, <1>4, <2>2, RecordedSame DEF Start, TInv, TypeOK
  <2> QED
    BY <2>1, <2>2
<1>5. ASSUME NEW p \in Procs, Open(p) PROVE Booked(q)'
  <2>1. CASE p = q
    <3>1. /\ queue[q] = <<>> /\ written[q] = <<>> /\ authored[q] = 0
          /\ UNCHANGED <<queue, written, authored>>
      BY <1>0, <1>5, <2>1 DEF Open, Booked
    <3>2. Recorded(q)'
      BY <3>1, NothingYet DEF Recorded, UpTo
    <3> QED
      BY <1>0, <1>5, <2>1, <3>2 DEF Open, Booked, TInv, TypeOK
  <2>2. CASE p # q
    BY <1>0, <1>5, <2>2, RecordedSame DEF Open, TInv, TypeOK
  <2> QED
    BY <2>1, <2>2
<1>6. ASSUME NEW p \in Procs, Crash(p) PROVE Booked(q)'
  <2>0. /\ queue' = [queue EXCEPT ![p] = <<>>] /\ written' = [written EXCEPT ![p] = <<>>]
        /\ run' = [run EXCEPT ![p] = "down"] /\ authored' = [authored EXCEPT ![p] = 0]
        /\ failed' = [failed EXCEPT ![p] = FALSE]
    BY <1>6 DEF Crash
  <2>1. CASE p = q
    BY <2>0, <2>1 DEF Booked, RecordInv, QueueTyped, TInv, TypeOK
  <2>2. CASE p # q
    BY <1>0, <2>0, <2>2, RecordedSame DEF RecordInv, QueueTyped, TInv, TypeOK
  <2> QED
    BY <2>1, <2>2
<1>7. ASSUME NEW p \in Procs, Author(p) PROVE Booked(q)'
  <2>1. CASE p = q /\ run[q] = "opened"
    <3>1. /\ queue'[q] = Append(queue[q], authored[q] + 1)
          /\ authored'[q] = authored[q] + 1
          /\ UNCHANGED <<written, run, failed>>
      BY <1>7, <2>1 DEF Author, RecordInv, QueueTyped, TInv, TypeOK
    <3>2. ASSUME Recorded(q) PROVE Recorded(q)'
      <4>1. written[q] \o queue[q] = UpTo(authored[q])
        BY <3>2 DEF Recorded, UpTo
      <4>2. written[q] \o Append(queue[q], authored[q] + 1) = UpTo(authored[q] + 1)
        BY <1>0, <4>1, AuthoredNext
      <4>3. written'[q] \o queue'[q] = UpTo(authored'[q])
        BY <3>1, <4>2
      <4> QED
        BY <4>3 DEF Recorded, UpTo
    <3> QED
      BY <1>0, <2>1, <3>1, <3>2 DEF Booked
  <2>2. CASE p = q /\ run[q] # "opened"
    BY <1>7, <2>2 DEF Author, Booked
  <2>3. CASE p # q
    BY <1>0, <1>7, <2>3, RecordedSame DEF Author, RecordInv, QueueTyped, TInv, TypeOK
  <2> QED
    BY <2>1, <2>2, <2>3
<1>8. ASSUME NEW p \in Procs, AppendLands(p) PROVE Booked(q)'
  <2>1. CASE p = q
    <3>1. /\ queue[q] # <<>> /\ queue'[q] = Tail(queue[q])
          /\ written'[q] = Append(written[q], Head(queue[q]))
          /\ UNCHANGED <<authored, run, failed>>
      BY <1>8, <2>1 DEF AppendLands, Landed, RecordInv, QueueTyped
    <3>2. written'[q] \o queue'[q] = written[q] \o queue[q]
      BY <1>0, <3>1, LandedNext
    <3> QED
      BY <1>0, <3>1, <3>2 DEF Booked, Recorded
  <2>2. CASE p # q
    BY <1>0, <1>8, <2>2, RecordedSame DEF AppendLands, Landed, RecordInv, QueueTyped
  <2> QED
    BY <2>1, <2>2
<1>9. ASSUME NEW p \in Procs, AppendFails(p) \/ AppendFenced(p) PROVE Booked(q)'
  <2>1. CASE p = q
    <3>1. queue[q] # <<>> /\ UNCHANGED <<run, authored, written>> /\ failed'[q]
      BY <1>9, <2>1 DEF AppendFails, AppendFenced, FailBuffer, TInv, TypeOK
    <3> QED
      BY <1>0, <3>1 DEF Booked
  <2>2. CASE p # q
    BY <1>0, <1>9, <2>2, RecordedSame
    DEF AppendFails, AppendFenced, FailBuffer, RecordInv, QueueTyped, TInv, TypeOK
  <2> QED
    BY <2>1, <2>2
<1> QED
  BY <1>1, <1>2, <1>3, <1>4, <1>5, <1>6, <1>7, <1>8, <1>9 DEF Next

\* On a timeline that was opened, every event is on the volume or queued for it,
\* in order and without a gap, or the output has stopped: the sink of
\* programme-timeline-registry.ts.
THEOREM NothingIsSkipped == Spec => []RecordedOrFailed
<1>1. Init => RecordInv
  BY DEF Init, RecordInv, QueueTyped, Booked
<1>2. TInv /\ RecordInv /\ [Next]_vars => RecordInv'
  BY NextQueueTyped, NextBooked DEF RecordInv
<1>3. RecordInv => RecordedOrFailed
  BY DEF RecordInv, Booked, RecordedOrFailed
<1> QED
  BY <1>1, <1>2, <1>3, InitTInv, NextTInv, PTL DEF Spec

-----------------------------------------------------------------------------
(* One holder per token, until a renewal puts a superseded lease back.  A   *)
(* process between opening the claim file and removing it is alone there,   *)
(* so the lease it reads is the lease it replaces: the token it writes is   *)
(* above every token held, and stays the lease's own until it is granted.   *)
(* A renewal may be overtaken by all of that between its read and its       *)
(* write; then what it holds is below the lease, and writing it is what     *)
(* putBack records.                                                         *)

Inside(p) == claim[p].step \in {"confirm", "write", "granted", "refused"}

\* A process claims once in a life, before it holds or renews anything.
Holding(p) ==
  /\ claim[p].step # "no" => grant[p] = 0
  /\ run[p] \in {"down", "none"} => claim[p].step = "no" /\ grant[p] = 0
  /\ grant[p] = 0 => renewing[p] = NoLease

\* What a process knows of tokens agrees with the lease.
Following(p) ==
  /\ Inside(p) => claimFile
  /\ grant[p] <= lease.token
  /\ renewing[p] # NoLease => renewing[p].token <= lease.token
  /\ claim[p].step = "write" => claim[p].token = lease.token + 1
  /\ claim[p].step = "granted" => claim[p].token = lease.token /\ lease.token # 0

Apart(p, q) ==
  /\ ~(Inside(p) /\ Inside(q))
  /\ grant[p] # 0 => grant[p] # grant[q]
  /\ claim[p].step = "granted" => grant[q] # claim[p].token

HolderInv == /\ \A p \in Procs : Holding(p) /\ Following(p)
             /\ \A p, q \in Procs : p # q => Apart(p, q)

\* A step that leaves the lease's token, the claim file and one process alone
\* leaves what that process knows true.
LEMMA Untouched ==
  ASSUME NEW p \in Procs, Holding(p), Following(p),
         UNCHANGED <<claim[p], grant[p], renewing[p], run[p]>>,
         lease'.token = lease.token, Inside(p) => claimFile'
  PROVE  Holding(p)' /\ Following(p)'
BY DEF Holding, Following, Inside

LEMMA UntouchedPair ==
  ASSUME NEW p \in Procs, NEW q \in Procs, Apart(p, q),
         UNCHANGED <<claim[p], grant[p], claim[q], grant[q]>>
  PROVE  Apart(p, q)'
BY DEF Apart, Inside

\* So a step of one process is judged by that process and by its pairs.
LEMMA OnlyOne ==
  ASSUME HolderInv, NEW p \in Procs, Holding(p)', Following(p)',
         lease'.token = lease.token,
         \A q \in Procs \ {p} :
           /\ Inside(q) => claimFile'
           /\ UNCHANGED <<claim[q], grant[q], renewing[q], run[q]>>
           /\ Apart(p, q)' /\ Apart(q, p)'
  PROVE  HolderInv'
<1>1. ASSUME NEW q \in Procs PROVE Holding(q)' /\ Following(q)'
  BY <1>1, Untouched DEF HolderInv
<1>2. ASSUME NEW q \in Procs, NEW r \in Procs, q # r PROVE Apart(q, r)'
  <2>1. CASE q = p \/ r = p
    BY <1>2, <2>1
  <2>2. CASE q # p /\ r # p
    BY <1>2, <2>2, UntouchedPair DEF HolderInv
  <2> QED
    BY <2>1, <2>2
<1> QED
  BY <1>1, <1>2 DEF HolderInv

\* The steps of a claim that leave the lease alone: what the process goes on to
\* (c) and what it then holds (g).
LEMMA ClaimStep ==
  ASSUME TInv, HolderInv, NEW p \in Procs, NEW c \in Claims, NEW g \in 0..MaxToken,
         claim[p].step # "no",
         Go(p, c), grant' = [grant EXCEPT ![p] = g], UNCHANGED <<lease, run, renewing>>,
         c.step \notin {"granted"},
         c.step = "no" \/ g = 0,
         g # 0 => /\ Inside(p) /\ g = lease.token
                  /\ \A q \in Procs \ {p} : grant[q] # g,
         c.step = "write" => c.token = lease.token + 1,
         c.step \in {"confirm", "write", "refused"} =>
           claimFile' /\ (Inside(p) \/ ~claimFile),
         \A q \in Procs \ {p} : Inside(q) => claimFile'
  PROVE  HolderInv'
<1>1. /\ claim'[p] = c /\ grant'[p] = g /\ grant[p] = 0 /\ renewing[p] = NoLease
      /\ run[p] \notin {"down", "none"} /\ lease.token \in 0..MaxToken
  BY LeaseToken DEF TInv, TypeOK, Go, HolderInv, Holding
<1>2. \A q \in Procs \ {p} : UNCHANGED <<claim[q], grant[q], renewing[q], run[q]>>
  BY DEF TInv, TypeOK, Go
<1>3. Holding(p)'
  BY <1>1 DEF Holding
<1>4. Following(p)'
  BY <1>1 DEF Following, Inside
<1>5. ASSUME NEW q \in Procs \ {p} PROVE Apart(p, q)' /\ Apart(q, p)'
  <2>1. Apart(p, q) /\ Apart(q, p) /\ Following(q)
    BY DEF HolderInv
  <2>2. ~(Inside(p)' /\ Inside(q)')
    BY <1>1, <1>2, <2>1 DEF Apart, Following, Inside
  <2>3. grant'[p] # 0 => grant'[p] # grant'[q]
    BY <1>1, <1>2
  <2>4. claim'[q].step = "granted" => grant'[p] # claim'[q].token
    BY <1>1, <1>2, <2>1 DEF Apart, Following, Inside
  <2> QED
    BY <1>1, <1>2, <2>2, <2>3, <2>4 DEF Apart
<1> QED
  BY <1>2, <1>3, <1>4, <1>5, OnlyOne

LEMMA WriteStep ==
  ASSUME TInv, HolderInv, NEW p \in Procs, AcquireWrite(p)
  PROVE  HolderInv'
<1> DEFINE n == claim[p].token
<1>1. /\ grant[p] = 0 /\ renewing[p] = NoLease /\ run[p] \notin {"down", "none"}
      /\ lease.token \in 0..MaxToken /\ n = lease.token + 1 /\ n \in 1..MaxToken
      /\ claimFile /\ claimFile' = claimFile
  BY LeaseToken DEF AcquireWrite, TInv, TypeOK, TokensAreIssued, HolderInv,
                    Holding, Following, Inside
<1>2. lease'.token = n
  BY <1>1, LeaseType DEF AcquireWrite
<1>3. claim'[p].step = "granted" /\ claim'[p].token = n
  BY <1>1, ClaimType DEF AcquireWrite, Go, TInv, TypeOK, Steps
<1>4. /\ \A q \in Procs \ {p} : UNCHANGED claim[q]
      /\ \A q \in Procs : UNCHANGED <<grant[q], renewing[q], run[q]>>
  BY DEF AcquireWrite, Go, TInv, TypeOK, held
<1>5. \A q \in Procs : /\ grant[q] \in 0..MaxToken /\ grant[q] <= lease.token
                       /\ renewing[q].token \in 0..MaxToken
  BY LeaseToken DEF TInv, TypeOK, HolderInv, Following
<1> HIDE DEF n
<1>6. ASSUME NEW q \in Procs PROVE Holding(q)' /\ Following(q)'
  <2>1. CASE q = p
    BY <1>1, <1>2, <1>3, <1>4, <2>1 DEF Holding, Following, Inside
  <2>2. CASE q # p
    <3>1. Holding(q) /\ Following(q) /\ ~Inside(q)
      BY <2>2 DEF HolderInv, Apart, Inside, AcquireWrite
    <3> QED
      BY <1>1, <1>2, <1>4, <1>5, <2>2, <3>1 DEF Holding, Following, Inside
  <2> QED
    BY <2>1, <2>2
<1>7. ASSUME NEW q \in Procs, NEW r \in Procs, q # r PROVE Apart(q, r)'
  <2>1. Apart(q, r) /\ Apart(r, q) /\ (q # p => ~Inside(q)) /\ (r # p => ~Inside(r))
    BY <1>7 DEF HolderInv, Apart, Inside, AcquireWrite
  <2> QED
    BY <1>1, <1>3, <1>4, <1>5, <1>7, <2>1 DEF Apart, Inside
<1> QED
  BY <1>6, <1>7 DEF HolderInv

LEMMA ClaimingHolder ==
  ASSUME TInv, HolderInv, NEW p \in Procs, Claiming(p)
  PROVE  HolderInv'
<1> USE DEF lock, held, store
<1>0. /\ 0 \in 0..MaxToken /\ NotClaiming \in Claims /\ NotClaiming.step = "no"
      /\ lease.token \in 0..MaxToken /\ claim[p].token \in 0..MaxToken
      /\ grant[p] = 0 \/ claim[p].step = "no"
      /\ \A q \in Procs : Inside(q) => claimFile
      /\ \A q \in Procs \ {p} : ~(Inside(p) /\ Inside(q))
  BY LeaseToken, WriterAssumption
  DEF NotClaiming, Step, Claims, Steps, TInv, TypeOK, HolderInv, Holding, Following, Apart
<1>1. ASSUME UNCHANGED grant, grant[p] = 0 PROVE grant' = [grant EXCEPT ![p] = 0]
  BY <1>1 DEF TInv, TypeOK
<1>2. CASE AcquireRead(p)
  <2>1. Step("open", 0) \in Claims /\ Step("open", 0).step = "open"
    BY <1>0, ClaimType DEF Steps
  <2>2. grant' = [grant EXCEPT ![p] = 0]
    BY <1>0, <1>1, <1>2 DEF AcquireRead
  <2>3. CASE Go(p, NotClaiming)
    BY <1>0, <1>2, <2>2, <2>3, ClaimStep DEF AcquireRead
  <2>4. CASE Go(p, Step("open", 0))
    BY <1>0, <1>2, <2>1, <2>2, <2>4, ClaimStep DEF AcquireRead
  <2> QED
    BY <1>2, <2>3, <2>4 DEF AcquireRead, Refused
<1>3. CASE AcquireOpen(p)
  <2>1. Step("confirm", 0) \in Claims /\ Step("confirm", 0).step = "confirm"
    BY <1>0, ClaimType DEF Steps
  <2>2. grant' = [grant EXCEPT ![p] = 0]
    BY <1>0, <1>1, <1>3 DEF AcquireOpen
  <2>3. CASE Go(p, NotClaiming) /\ UNCHANGED claimFile
    BY <1>0, <1>3, <2>2, <2>3, ClaimStep DEF AcquireOpen
  <2>4. CASE Go(p, Step("confirm", 0)) /\ ~claimFile /\ claimFile'
    BY <1>0, <1>3, <2>1, <2>2, <2>4, ClaimStep DEF AcquireOpen
  <2> QED
    BY <1>3, <2>3, <2>4 DEF AcquireOpen, Refused
<1>4. CASE AcquireConfirm(p)
  <2>1. Step("refused", 0) \in Claims /\ Step("refused", 0).step = "refused"
    BY <1>0, ClaimType DEF Steps
  <2>2. grant' = [grant EXCEPT ![p] = 0] /\ Inside(p)
    BY <1>0, <1>1, <1>4 DEF AcquireConfirm, Inside
  <2>3. CASE Go(p, Step("refused", 0))
    BY <1>0, <1>4, <2>1, <2>2, <2>3, ClaimStep DEF AcquireConfirm
  <2>4. CASE lease.token < MaxToken /\ Go(p, Step("write", lease.token + 1))
    <3>1. lease.token + 1 \in 0..MaxToken
      BY <1>0, <2>4, WriterAssumption
    <3>2. LET c == Step("write", lease.token + 1)
          IN  c \in Claims /\ c.step = "write" /\ c.token = lease.token + 1
      BY <3>1, ClaimType DEF Steps
    <3> QED
      BY <1>0, <1>4, <2>2, <2>4, <3>2, ClaimStep DEF AcquireConfirm
  <2> QED
    BY <1>4, <2>3, <2>4 DEF AcquireConfirm
<1>5. CASE AcquireWrite(p)
  BY <1>5, WriteStep
<1>6. CASE AcquireEnd(p)
  <2>1. Inside(p) /\ Go(p, NotClaiming)
    BY <1>6 DEF AcquireEnd, Inside, Refused
  <2>2. CASE claim[p].step = "refused"
    <3>1. grant' = [grant EXCEPT ![p] = 0]
      BY <1>0, <1>1, <1>6, <2>2 DEF AcquireEnd
    <3> QED
      BY <1>0, <1>6, <2>1, <3>1, ClaimStep DEF AcquireEnd
  <2>3. CASE claim[p].step = "granted"
    <3>1. grant' = [grant EXCEPT ![p] = claim[p].token]
      BY <1>6, <2>3 DEF AcquireEnd
    <3>2. claim[p].token = lease.token /\ \A q \in Procs \ {p} : grant[q] # claim[p].token
      BY <2>3 DEF HolderInv, Following, Apart
    <3> QED
      BY <1>0, <1>6, <2>1, <3>1, <3>2, ClaimStep DEF AcquireEnd
  <2> QED
    BY <1>6, <2>2, <2>3 DEF AcquireEnd
<1> QED
  BY <1>2, <1>3, <1>4, <1>5, <1>6 DEF Claiming

\* A step that only lets go: of the claim, the grant or the renewal of a process.
LEMMA LettingGo ==
  ASSUME TInv, HolderInv, NEW p \in Procs, lease' = lease, claimFile' = claimFile,
         claim'[p] = claim[p] \/ claim'[p].step = "no",
         grant'[p] = grant[p] \/ grant'[p] = 0,
         Holding(p)', Following(p)',
         \A q \in Procs \ {p} : UNCHANGED <<claim[q], grant[q], renewing[q], run[q]>>
  PROVE  HolderInv'
<1>1. ASSUME NEW q \in Procs \ {p}
      PROVE  Apart(p, q)' /\ Apart(q, p)' /\ (Inside(q) => claimFile')
  <2>1. Apart(p, q) /\ Apart(q, p) /\ Following(q)
    BY DEF HolderInv
  <2>2. claim[q].step = "granted" => claim[q].token # 0
    BY DEF TInv, TokensAreIssued
  <2> QED
    BY <2>1, <2>2 DEF Apart, Inside, Following
<1> QED
  BY <1>1, OnlyOne

LEMMA NextHolder ==
  ASSUME TInv, HolderInv, [Next]_vars, ~putBack'
  PROVE  HolderInv'
<1> USE DEF lock, held, store
<1>1. ASSUME NEW p \in Procs, Claiming(p) PROVE HolderInv'
  BY <1>1, ClaimingHolder
<1>2. ASSUME UNCHANGED <<claim, grant, renewing, run, claimFile>>, lease'.token = lease.token
      PROVE  HolderInv'
  BY <1>2 DEF HolderInv, Holding, Following, Apart, Inside
<1>3. CASE Expire
  <2>1. lease # NoLease
    BY <1>3 DEF Expire, NoLease
  <2>2. lease'.token = lease.token
    BY <1>3, <2>1, LeaseFields DEF Expire, TInv, TypeOK
  <2> QED
    BY <1>2, <1>3, <2>2 DEF Expire
<1>4. ASSUME NEW p \in Procs, Start(p) PROVE HolderInv'
  <2>1. /\ \A q \in Procs \ {p} : UNCHANGED <<claim[q], grant[q], renewing[q], run[q]>>
        /\ UNCHANGED <<claim[p], grant[p], renewing[p], lease, claimFile>>
        /\ run[p] = "down" /\ run'[p] \in {"none", "recovered"}
    BY <1>4 DEF Start, TInv, TypeOK
  <2>2. Holding(p)' /\ Following(p)'
    BY <2>1 DEF HolderInv, Holding, Following, Inside
  <2> QED
    BY <2>1, <2>2, LettingGo
<1>5. ASSUME NEW p \in Procs, Open(p) PROVE HolderInv'
  <2>1. Step("read", 0) \in Claims /\ Step("read", 0).step = "read"
    BY ClaimType, WriterAssumption DEF Steps
  <2>2. /\ \A q \in Procs \ {p} : UNCHANGED <<claim[q], grant[q], renewing[q], run[q]>>
        /\ UNCHANGED <<grant[p], renewing[p], lease, claimFile>>
        /\ run[p] = "none" /\ run'[p] = "opened" /\ claim'[p].step = "read"
    BY <1>5, <2>1 DEF Open, TInv, TypeOK
  <2>3. Holding(p)' /\ Following(p)'
    BY <2>2 DEF HolderInv, Holding, Following, Inside
  <2>4. ASSUME NEW q \in Procs \ {p}
        PROVE  Apart(p, q)' /\ Apart(q, p)' /\ (Inside(q) => claimFile')
    <3>1. Apart(p, q) /\ Apart(q, p) /\ Following(q)
      BY DEF HolderInv
    <3> QED
      BY <2>2, <3>1 DEF Apart, Inside, Following
  <2> QED
    BY <2>2, <2>3, <2>4, OnlyOne
<1>6. ASSUME NEW p \in Procs, Crash(p) PROVE HolderInv'
  <2>1. /\ \A q \in Procs \ {p} : UNCHANGED <<claim[q], grant[q], renewing[q], run[q]>>
        /\ UNCHANGED <<lease, claimFile>>
        /\ claim'[p].step = "no" /\ grant'[p] = 0 /\ renewing'[p] = NoLease
    BY <1>6 DEF Crash, TInv, TypeOK, NotClaiming, Step
  <2>2. lease.token \in 0..MaxToken
    BY LeaseToken DEF TInv, TypeOK
  <2>3. Holding(p)' /\ Following(p)'
    BY <2>1, <2>2 DEF Holding, Following, Inside
  <2> QED
    BY <2>1, <2>3, LettingGo
<1>7. ASSUME NEW p \in Procs, RenewRead(p) PROVE HolderInv'
  <2>1. /\ \A q \in Procs \ {p} : UNCHANGED <<claim[q], grant[q], renewing[q], run[q]>>
        /\ UNCHANGED <<lease, claimFile, claim, run>>
        /\ grant[p] # 0 /\ renewing[p] = NoLease
        /\ \/ renewing'[p] = lease /\ grant'[p] = grant[p]
           \/ renewing'[p] = NoLease /\ grant'[p] = 0
    BY <1>7 DEF RenewRead, TInv, TypeOK
  <2>2. lease.token \in 0..MaxToken
    BY LeaseToken DEF TInv, TypeOK
  <2>3. Holding(p)' /\ Following(p)'
    BY <2>1, <2>2 DEF HolderInv, Holding, Following, Inside
  <2> QED
    BY <2>1, <2>3, LettingGo
<1>8. ASSUME NEW p \in Procs, RenewWrite(p) PROVE HolderInv'
  <2>1. /\ \A q \in Procs \ {p} : UNCHANGED <<claim[q], grant[q], renewing[q], run[q]>>
        /\ UNCHANGED <<claimFile, claim, run, grant>> /\ renewing'[p] = NoLease
        /\ renewing[p].token = lease.token
    BY <1>8 DEF RenewWrite, TInv, TypeOK
  <2>2. lease'.token = lease.token /\ lease.token \in 0..MaxToken
    BY <1>8, <2>1, LeaseFields, LeaseToken DEF RenewWrite, TInv, TypeOK
  <2>3. Holding(p)' /\ Following(p)'
    BY <2>1, <2>2 DEF HolderInv, Holding, Following, Inside
  <2>4. ASSUME NEW q \in Procs \ {p}
        PROVE  Apart(p, q)' /\ Apart(q, p)' /\ (Inside(q) => claimFile')
    BY <2>1 DEF HolderInv, Apart, Inside, Following
  <2> QED
    BY <2>1, <2>2, <2>3, <2>4, OnlyOne
<1>9. ASSUME NEW p \in Procs,
             Author(p) \/ AppendLands(p) \/ AppendFails(p) \/ AppendFenced(p)
      PROVE  HolderInv'
  BY <1>2, <1>9 DEF Author, AppendLands, AppendFails, AppendFenced
<1>10. CASE UNCHANGED vars
  BY <1>2, <1>10 DEF vars
<1> QED
  BY <1>1, <1>3, <1>4, <1>5, <1>6, <1>7, <1>8, <1>9, <1>10 DEF Next

\* What was put back once was put back.
LEMMA PutBackStays == TInv /\ [Next]_vars /\ putBack => putBack'
<1> SUFFICES ASSUME TInv, [Next]_vars, putBack PROVE putBack'
  OBVIOUS
<1> USE DEF lock
<1>1. ASSUME NEW p \in Procs, RenewWrite(p) PROVE putBack'
  BY <1>1 DEF RenewWrite
<1>2. ASSUME UNCHANGED putBack PROVE putBack'
  BY <1>2
<1>3. ASSUME NEW p \in Procs, Claiming(p) PROVE UNCHANGED putBack
  BY <1>3 DEF Claiming, AcquireRead, AcquireOpen, AcquireConfirm, AcquireWrite, AcquireEnd
<1>4. ASSUME NEW p \in Procs,
             \/ Start(p) \/ Open(p) \/ Crash(p) \/ RenewRead(p)
             \/ Author(p) \/ AppendLands(p) \/ AppendFails(p) \/ AppendFenced(p)
      PROVE  UNCHANGED putBack
  BY <1>4 DEF Start, Open, Crash, RenewRead, Author, AppendLands, AppendFails, AppendFenced
<1>5. Expire \/ UNCHANGED vars => UNCHANGED putBack
  BY DEF Expire, vars
<1> QED
  BY <1>1, <1>2, <1>3, <1>4, <1>5 DEF Next

\* "Monotonic, and never reused for a run": whatever dies, whichever claims race
\* and wherever a renewal stalls, two processes hold the same token only after
\* a renewal has put a superseded lease back: acquire() and renew() in
\* file-run-writer-lease.ts.
THEOREM OneHolder == Spec => []OneHolderUnlessPutBack
<1> DEFINE HInv == putBack \/ HolderInv
<1>1. Init => HInv
  BY DEF Init, HolderInv, Holding, Following, Apart, Inside, NotClaiming, Step, NoLease
<1>2. TInv /\ HInv /\ [Next]_vars => HInv'
  BY NextHolder, PutBackStays
<1>3. HInv => OneHolderUnlessPutBack
  BY DEF HolderInv, Apart, OneHolderPerToken, OneHolderUnlessPutBack
<1> HIDE DEF HInv
<1> QED
  BY <1>1, <1>2, <1>3, InitTInv, NextTInv, PTL DEF Spec
=============================================================================
