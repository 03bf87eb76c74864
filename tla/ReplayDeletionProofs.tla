------------------------- MODULE ReplayDeletionProofs -------------------------
(***************************************************************************)
(* What holds of the replay archive and of its deletion for every set of   *)
(* processes over the bucket, every set of media and any number of         *)
(* generations.                                                             *)
(***************************************************************************)
EXTENDS ReplayDeletion, TLAPS

Kinds == {"idle", "open", "begin", "retain", "finalise", "fail", "release"}
Steps == {"-", "upload", "verify", "create", "confirm", "list", "sweep",
          "prune", "read", "intact"}
AnyOperation == [kind : Kinds, step : Steps, arg : Media \cup {"-"}, next : Doc,
                 todo : SUBSET Media]
\* Only a retention uploads, and it names what.
Operations == {o \in AnyOperation : /\ o.step = "upload" => o.kind = "retain"
                                    /\ o.kind = "retain" => o.arg \in Media}

-----------------------------------------------------------------------------
(* The documents in the store, whatever processes there are: there is      *)
(* always a newest one, and only what lies below it is going to be pruned. *)

Filed == /\ DOMAIN docs \subseteq 1..MaxGen
         /\ \A g \in DOMAIN docs : docs[g] \in Doc /\ docs[g].status # "none"
         /\ docs # <<>> => \E g \in DOMAIN docs : \A h \in DOMAIN docs : h <= g

LEMMA NewestIs ==
  ASSUME Filed
  PROVE  /\ Newest \in 0..MaxGen /\ Truth \in Doc
         /\ docs = <<>> => Newest = 0 /\ Truth = None
         /\ docs # <<>> => /\ Newest \in DOMAIN docs /\ Truth = docs[Newest]
                           /\ \A h \in DOMAIN docs : h <= Newest
<1>1. None \in Doc
  BY DEF None, Doc
<1>2. CASE docs = <<>>
  <2>1. DOMAIN docs = {}
    BY <1>2
  <2>2. Newest = 0
    BY <1>2 DEF Newest
  <2> QED
    BY <1>1, <1>2, <2>2, ArchiveAssumption DEF Truth
<1>3. CASE docs # <<>>
  <2>1. PICK g \in DOMAIN docs : \A h \in DOMAIN docs : h <= g
    BY <1>3 DEF Filed
  <2>2. \A h \in DOMAIN docs : h \in Nat /\ h >= 0 /\ h <= MaxGen
    BY ArchiveAssumption DEF Filed
  <2>3. g \in DOMAIN docs /\ \A h \in DOMAIN docs : g >= h
    BY <2>1, <2>2
  <2>4. Newest \in DOMAIN docs /\ \A h \in DOMAIN docs : Newest >= h
    BY <1>3, <2>3 DEF Newest, Max
  <2>5. Newest = g
    BY <2>1, <2>2, <2>3, <2>4
  <2> QED
    BY <1>3, <2>1, <2>2, <2>5, ArchiveAssumption DEF Truth, Filed
<1> QED
  BY <1>2, <1>3

\* A document newer than all the rest is the newest one from then on.
LEMMA FiledMore ==
  ASSUME Filed, NEW n \in 1..MaxGen, \A h \in DOMAIN docs : h < n,
         NEW next \in Doc, next.status # "none",
         docs' = [g \in DOMAIN docs \cup {n} |-> IF g = n THEN next ELSE docs[g]]
  PROVE  Filed' /\ Newest' = n /\ Truth' = next /\ docs' # <<>>
<1>1. DOMAIN docs' = DOMAIN docs \cup {n} /\ docs'[n] = next
  OBVIOUS
<1>2. docs' # <<>>
  BY <1>1
<1>3. \A h \in DOMAIN docs' : h <= n
  BY <1>1, ArchiveAssumption DEF Filed
<1>4. Filed'
  <2>1. DOMAIN docs' \subseteq 1..MaxGen
    BY <1>1 DEF Filed
  <2>2. \A g \in DOMAIN docs' : docs'[g] \in Doc /\ docs'[g].status # "none"
    BY <1>1 DEF Filed
  <2>3. Doc' = Doc
    BY DEF Doc, Media
  <2> QED
    BY <2>1, <2>2, <1>1, <1>3 DEF Filed, Doc, Media
<1>5. Newest' = n
  <2>1. n \in DOMAIN docs' /\ \A h \in DOMAIN docs' : n >= h /\ h \in Nat
    BY <1>1, <1>3, ArchiveAssumption DEF Filed
  <2>2. (CHOOSE x \in DOMAIN docs' : \A y \in DOMAIN docs' : x >= y) = n
    BY <2>1
  <2> QED
    BY <1>2, <2>2 DEF Newest, Max
<1> QED
  BY <1>1, <1>2, <1>4, <1>5 DEF Truth

\* One created below the newest one, by a process that fell behind, changes
\* nothing about that one.
LEMMA FiledUnder ==
  ASSUME Filed, NEW n \in 1..MaxGen, n < Newest, n \notin DOMAIN docs,
         NEW next \in Doc, next.status # "none",
         docs' = [g \in DOMAIN docs \cup {n} |-> IF g = n THEN next ELSE docs[g]]
  PROVE  Filed' /\ Newest' = Newest /\ Truth' = Truth
<1>1. docs # <<>>
  BY NewestIs, ArchiveAssumption
<1>2. /\ Newest \in DOMAIN docs /\ Truth = docs[Newest]
      /\ \A h \in DOMAIN docs : h <= Newest
  BY <1>1, NewestIs
<1>3. /\ DOMAIN docs' = DOMAIN docs \cup {n} /\ docs'[n] = next
      /\ \A h \in DOMAIN docs : docs'[h] = docs[h]
  OBVIOUS
<1>4. Newest \in DOMAIN docs' /\ docs' # <<>>
  BY <1>2, <1>3
<1>5. \A h \in DOMAIN docs' : h <= Newest
  BY <1>2, <1>3, NewestIs, ArchiveAssumption
<1>6. Filed'
  <2>1. DOMAIN docs' \subseteq 1..MaxGen
    BY <1>3 DEF Filed
  <2>2. \A h \in DOMAIN docs' : docs'[h] \in Doc /\ docs'[h].status # "none"
    BY <1>3 DEF Filed
  <2> QED
    BY <2>1, <2>2, <1>4, <1>5 DEF Filed, Doc, Media
<1>7. Newest' = Newest
  <2>1. Newest \in DOMAIN docs' /\ \A h \in DOMAIN docs' : Newest >= h /\ h \in Nat
    BY <1>3, <1>4, <1>5, ArchiveAssumption, NewestIs DEF Filed
  <2>2. (CHOOSE x \in DOMAIN docs' : \A y \in DOMAIN docs' : x >= y) = Newest
    BY <2>1, NewestIs
  <2> QED
    BY <1>4, <1>5, <2>2 DEF Newest, Max
<1> QED
  BY <1>2, <1>3, <1>4, <1>6, <1>7 DEF Truth

\* Pruning a document below the newest one leaves that one where it is.
LEMMA FiledLess ==
  ASSUME Filed, NEW g, g < Newest, g \in 1..MaxGen, docs' = Without(g)
  PROVE  Filed' /\ Newest' = Newest /\ Truth' = Truth /\ docs # <<>> /\ docs' # <<>>
<1>1. docs # <<>>
  BY NewestIs
<1>2. /\ Newest \in DOMAIN docs /\ Truth = docs[Newest]
      /\ \A h \in DOMAIN docs : h <= Newest
  BY <1>1, NewestIs
<1>3. DOMAIN docs' = DOMAIN docs \ {g} /\ \A h \in DOMAIN docs' : docs'[h] = docs[h]
  BY DEF Without
<1>4. Newest \in DOMAIN docs'
  BY <1>2, <1>3, NewestIs
<1>5. docs' # <<>>
  BY <1>4
<1>6. Filed'
  <2>1. DOMAIN docs' \subseteq 1..MaxGen
    BY <1>3 DEF Filed
  <2>2. \A h \in DOMAIN docs' : docs'[h] \in Doc /\ docs'[h].status # "none"
    BY <1>3 DEF Filed
  <2> QED
    BY <2>1, <2>2, <1>2, <1>3, <1>4 DEF Filed, Doc, Media
<1>7. Newest' = Newest
  <2>1. Newest \in DOMAIN docs' /\ \A h \in DOMAIN docs' : Newest >= h /\ h \in Nat
    BY <1>2, <1>3, <1>4, ArchiveAssumption DEF Filed
  <2>2. (CHOOSE x \in DOMAIN docs' : \A y \in DOMAIN docs' : x >= y) = Newest
    BY <2>1, NewestIs
  <2> QED
    BY <1>4, <1>5, <2>2 DEF Newest, Max
<1> QED
  BY <1>2, <1>3, <1>4, <1>5, <1>6, <1>7 DEF Truth

LEMMA FiledStill ==
  ASSUME Filed, UNCHANGED docs
  PROVE  Filed' /\ Newest' = Newest /\ Truth' = Truth
BY DEF Filed, Newest, Truth, Doc, Media

-----------------------------------------------------------------------------
(* Type correctness.                                                        *)

Below == \A p \in Procs : /\ held[p].gen <= Newest
                          /\ \A g \in prunes[p] : g < Newest
Shaped == TypeOK /\ op \in [Procs -> Operations]
Base == Filed /\ Shaped /\ Below

LEMMA IdleShape == Idle \in Operations /\ None \in Doc
BY DEF Idle, None, Operations, AnyOperation, Kinds, Steps, Doc

\* What an operation is begun with.
LEMMA Begun ==
  ASSUME Shaped, NEW p \in Procs, NEW o \in Operations, Start(p, o)
  PROVE  Shaped'
BY DEF Start, Race, Shaped, TypeOK, store, Doc, Media, Operations, AnyOperation

LEMMA OpShape ==
  ASSUME NEW kind \in Kinds, NEW step \in Steps, NEW arg \in Media \cup {"-"}, NEW next \in Doc,
         step = "upload" => kind = "retain", kind = "retain" => arg \in Media
  PROVE  Op(kind, step, arg, next) \in Operations
BY DEF Op, Operations, AnyOperation

LEMMA NextShape ==
  ASSUME NEW s \in Doc
  PROVE  /\ \A m \in Media : Keeping(s, m) \in Doc
         /\ \A to \in {"available", "failed", "expired", "deleted"} :
              Moved(s, to) \in Doc /\ Released(s, to) \in Doc
         /\ \A policy \in Policies :
              [status |-> "recording", media |-> {}, policy |-> policy] \in Doc
<1>1. \A m \in Media : Keeping(s, m) \in Doc
  BY DEF Keeping, Doc
<1>2. \A to \in {"available", "failed", "expired", "deleted"} :
        Moved(s, to) \in Doc /\ Released(s, to) \in Doc
  BY DEF Moved, Released, Doc
<1>3. \A policy \in Policies :
        [status |-> "recording", media |-> {}, policy |-> policy] \in Doc
  BY ArchiveAssumption DEF Doc
<1> QED BY <1>1, <1>2, <1>3

\* Everything that only judges leaves the archive's documents alone and begins
\* an operation of its kind.
LEMMA BegunShape ==
  ASSUME Shaped, NEW p \in Procs, Capture(p) \/ Expire(p) \/ Delete(p)
  PROVE  Shaped' /\ UNCHANGED <<docs, prunes>>
<1> DEFINE s == State(p)
<1>1. s \in Doc
  BY DEF Shaped, TypeOK, State
<1>2. \A kind \in Kinds, step \in Steps, arg \in Media \cup {"-"}, next \in Doc :
        /\ step = "upload" => kind = "retain"
        /\ kind = "retain" => arg \in Media
        /\ Start(p, Op(kind, step, arg, next))
        => Shaped' /\ UNCHANGED <<docs, prunes>>
  BY OpShape, Begun DEF Start, store
<1>3. /\ \A m \in Media : Keeping(s, m) \in Doc
      /\ \A to \in {"available", "failed", "expired", "deleted"} :
           Moved(s, to) \in Doc /\ Released(s, to) \in Doc
      /\ \A policy \in Policies :
           [status |-> "recording", media |-> {}, policy |-> policy] \in Doc
  BY <1>1, NextShape
<1>4. {"begin", "retain", "finalise", "fail", "release"} \subseteq Kinds
      /\ {"create", "upload", "verify"} \subseteq Steps
  BY DEF Kinds, Steps
<1> HIDE DEF s
<1>5. ASSUME NEW policy \in Policies, Begin(p, policy) PROVE Shaped' /\ UNCHANGED <<docs, prunes>>
  BY <1>2, <1>3, <1>4, <1>5, IdleShape DEF Begin
<1>6. ASSUME NEW m \in Media, Retain(p, m) PROVE Shaped' /\ UNCHANGED <<docs, prunes>>
  BY <1>2, <1>3, <1>4, <1>6 DEF Retain, s
<1>7. ASSUME NEW m \in Media, RetainDuplicate(p, m)
      PROVE  Shaped' /\ UNCHANGED <<docs, prunes>>
  BY <1>7 DEF RetainDuplicate, Shaped, TypeOK, store, Doc, Media, Operations, AnyOperation
<1>8. CASE Finalise(p)
  BY <1>2, <1>3, <1>4, <1>8 DEF Finalise, s
<1>9. CASE Fail(p)
  BY <1>2, <1>3, <1>4, <1>9 DEF Fail, s
<1>10. CASE Expire(p)
  BY <1>2, <1>3, <1>4, <1>10 DEF Expire, s
<1>11. CASE Delete(p)
  BY <1>2, <1>3, <1>4, <1>11 DEF Delete, s
<1> QED
  BY <1>5, <1>6, <1>7, <1>8, <1>9, <1>10, <1>11 DEF Capture

LEMMA Going ==
  ASSUME op \in [Procs -> Operations], NEW p \in Procs, NEW step \in Steps \ {"upload"}
  PROVE  /\ Go(p, step) => op' \in [Procs -> Operations]
         /\ Done(p) => op' \in [Procs -> Operations]
         /\ \A next \in Doc : [op EXCEPT ![p].step = step, ![p].next = next]
                               \in [Procs -> Operations]
         /\ \A todo \in SUBSET Media :
              /\ [op EXCEPT ![p].step = step, ![p].todo = todo] \in [Procs -> Operations]
              /\ [op EXCEPT ![p].todo = todo] \in [Procs -> Operations]
<1> USE DEF Operations, AnyOperation
<1>1. Go(p, step) => op' \in [Procs -> Operations]
  BY DEF Go
<1>2. Done(p) => op' \in [Procs -> Operations]
  BY IdleShape DEF Done
<1>3. \A next \in Doc : [op EXCEPT ![p].step = step, ![p].next = next]
                        \in [Procs -> Operations]
  OBVIOUS
<1>4. \A todo \in SUBSET Media :
        /\ [op EXCEPT ![p].step = step, ![p].todo = todo] \in [Procs -> Operations]
        /\ [op EXCEPT ![p].todo = todo] \in [Procs -> Operations]
  OBVIOUS
<1> QED
  BY <1>1, <1>2, <1>3, <1>4

\* The type is about each part by itself.
LEMMA ShapeParts ==
  ASSUME Shaped, op' \in [Procs -> Operations],
         DOMAIN docs' \subseteq 1..MaxGen /\ \A g \in DOMAIN docs' : docs'[g] \in Doc,
         objects' \subseteq Media, kept' \subseteq Media,
         races' \subseteq {"opened", "buried"},
         phase' \in [Procs -> {"down", "loading", "up"}],
         held' \in [Procs -> [state : Doc, gen : 0..MaxGen]],
         damaged' \in [Procs -> BOOLEAN],
         prunes' \in [Procs -> SUBSET (1..MaxGen)]
  PROVE  Shaped'
<1>1. Doc' = Doc /\ Media' = Media /\ Operations' = Operations
  BY DEF Doc, Media, Operations, AnyOperation
<1>2. \A p \in Procs : op'[p].next \in Doc /\ op'[p].todo \subseteq Media
  BY DEF Operations, AnyOperation
<1> QED
  BY <1>1, <1>2 DEF Shaped, TypeOK

LEMMA RequestShape ==
  ASSUME Filed, Shaped, NEW p \in Procs, Request(p)
  PROVE  Shaped'
<1> USE DEF Shaped, TypeOK, store
<1>0. /\ {"create", "confirm", "list", "sweep", "prune"} \subseteq Steps \ {"upload"}
      /\ op[p] \in Operations
      /\ op[p].next \in Doc /\ op[p].todo \in SUBSET Media
      /\ op[p].step = "upload" => op[p].kind = "retain"
      /\ op[p].kind = "retain" => op[p].arg \in Media
  BY DEF Steps, Operations, AnyOperation
<1>2. CASE Upload(p)
  <2>1. op' \in [Procs -> Operations]
    BY <1>0, <1>2, Going DEF Upload
  <2>2. objects' \subseteq Media
    BY <1>0, <1>2 DEF Upload, At
  <2> QED
    BY <1>2, <2>1, <2>2, ShapeParts DEF Upload
<1>3. CASE Verify(p)
  <2>1. Moved(op[p].next, "failed") \in Doc
    BY <1>0, NextShape
  <2>2. op' \in [Procs -> Operations]
    <3>1. CASE Go(p, "create")
      BY <1>0, <3>1, Going
    <3>2. CASE op' = [op EXCEPT ![p].step = "create", ![p].next = Moved(op[p].next, "failed")]
      <4>1. PICK next \in Doc : next = Moved(op[p].next, "failed")
        BY <2>1
      <4> QED
        BY <1>0, <3>2, <4>1, Going
    <3> QED
      BY <1>3, <3>1, <3>2 DEF Verify
  <2> QED
    BY <1>3, <2>2, ShapeParts DEF Verify
<1>4. CASE Create(p)
  <2>1. op' \in [Procs -> Operations]
    BY <1>0, <1>4, Going DEF Create
  <2>2. NextGen(p) \in 1..MaxGen
    BY <1>4, ArchiveAssumption DEF Create, NextGen
  <2>3. DOMAIN docs' \subseteq 1..MaxGen /\ \A g \in DOMAIN docs' : docs'[g] \in Doc
    BY <1>0, <1>4, <2>2 DEF Create
  <2>4. races' \subseteq {"opened", "buried"}
    BY <1>4 DEF Create, Race
  <2> QED
    BY <1>4, <2>1, <2>3, <2>4, ShapeParts DEF Create
<1>5. CASE Confirm(p)
  <2>1. op' \in [Procs -> Operations]
    BY <1>0, <1>5, Going DEF Confirm
  <2>2. /\ held' \in [Procs -> [state : Doc, gen : 0..MaxGen]]
        /\ prunes' \in [Procs -> SUBSET (1..MaxGen)]
    <3>1. CASE UNCHANGED <<held, prunes>>
      BY <3>1
    <3>2. CASE /\ NextGen(p) \in DOMAIN docs
               /\ held' = [held EXCEPT ![p] = [state |-> op[p].next, gen |-> NextGen(p)]]
               /\ prunes' = [prunes EXCEPT ![p] = prunes[p] \cup Older(NextGen(p))]
      <4>1. NextGen(p) \in 0..MaxGen /\ Older(NextGen(p)) \subseteq 1..MaxGen
        BY <3>2, ArchiveAssumption DEF Older
      <4>2. [state |-> op[p].next, gen |-> NextGen(p)] \in [state : Doc, gen : 0..MaxGen]
        BY <1>0, <4>1
      <4> QED
        BY <3>2, <4>1, <4>2
    <3> QED
      BY <1>5, <3>1, <3>2 DEF Confirm
  <2>3. kept' \subseteq Media
    <3>1. (IF op[p].kind = "retain" THEN {op[p].arg} ELSE {}) \subseteq Media
      BY <1>0
    <3> QED
      BY <1>5, <3>1 DEF Confirm
  <2> QED
    BY <1>5, <2>1, <2>2, <2>3, ShapeParts DEF Confirm
<1>6. CASE SweepList(p)
  <2>1. op' \in [Procs -> Operations]
    <3>1. objects \ op[p].next.media \in SUBSET Media
      BY <1>0
    <3>2. CASE op' = [op EXCEPT ![p].step = "sweep", ![p].todo = objects \ op[p].next.media]
      BY <1>0, <3>1, <3>2, Going
    <3> QED
      BY <1>0, <1>6, <3>2, Going DEF SweepList
  <2> QED
    BY <1>6, <2>1, ShapeParts DEF SweepList
<1>7. CASE SweepObject(p)
  <2>1. op' \in [Procs -> Operations]
    <3>1. PICK m \in op[p].todo : op' = [op EXCEPT ![p].todo = op[p].todo \ {m}]
      BY <1>7 DEF SweepObject
    <3> QED
      BY <1>0, <3>1, Going
  <2> QED
    BY <1>7, <2>1, ShapeParts DEF SweepObject
<1>8. CASE SweepEnd(p)
  <2>1. op' \in [Procs -> Operations]
    BY <1>0, <1>8, Going DEF SweepEnd
  <2>2. prunes' \in [Procs -> SUBSET (1..MaxGen)]
    BY <1>8 DEF SweepEnd, Older
  <2> QED
    BY <1>8, <2>1, <2>2, ShapeParts DEF SweepEnd
<1>9. CASE Prune(p)
  <2>1. DOMAIN docs' \subseteq 1..MaxGen /\ \A g \in DOMAIN docs' : docs'[g] \in Doc
    BY <1>9 DEF Prune, Without
  <2>2. prunes' \in [Procs -> SUBSET (1..MaxGen)]
    BY <1>9 DEF Prune
  <2> QED
    BY <1>9, <2>1, <2>2, ShapeParts DEF Prune
<1> QED
  BY <1>2, <1>3, <1>4, <1>5, <1>6, <1>7, <1>8, <1>9 DEF Request

LEMMA LifetimeShape ==
  ASSUME Filed, Shaped, NEW p \in Procs, Lifetime(p)
  PROVE  Shaped'
<1> USE DEF Shaped, TypeOK, store
<1>0. /\ {"read", "intact", "sweep"} \subseteq Steps \ {"upload"} /\ "open" \in Kinds
      /\ op[p].next \in Doc /\ op[p].todo \in SUBSET Media
      /\ Newest \in 0..MaxGen /\ 0 \in 0..MaxGen
  BY NewestIs, ArchiveAssumption DEF Steps, Kinds
<1>1. [state |-> None, gen |-> 0] \in [state : Doc, gen : 0..MaxGen]
  BY <1>0, IdleShape
<1>2. CASE Open(p)
  <2>1. Op("open", "read", "-", None) \in Operations
    BY <1>0, OpShape, IdleShape
  <2>2. [Op("open", "read", "-", None) EXCEPT !.todo = objects] \in Operations
    BY <2>1 DEF Operations, AnyOperation
  <2>3. op' \in [Procs -> Operations]
    BY <1>2, <2>2 DEF Open
  <2>4. held' \in [Procs -> [state : Doc, gen : 0..MaxGen]]
    <3>1. [held EXCEPT ![p].gen = Newest] \in [Procs -> [state : Doc, gen : 0..MaxGen]]
      BY <1>0
    <3> QED
      BY <1>2, <3>1 DEF Open
  <2>5. races' \subseteq {"opened", "buried"}
    BY <1>2 DEF Open, Race
  <2> QED
    BY <1>2, <2>3, <2>4, <2>5, ShapeParts DEF Open
<1>3. ASSUME Refused(p)
      PROVE  /\ op' \in [Procs -> Operations] /\ damaged' \in [Procs -> BOOLEAN]
             /\ held' \in [Procs -> [state : Doc, gen : 0..MaxGen]]
             /\ phase' \in [Procs -> {"down", "loading", "up"}]
  <2>1. op' \in [Procs -> Operations]
    BY <1>3, IdleShape DEF Refused, Done
  <2> QED
    BY <1>1, <1>3, <2>1 DEF Refused
<1>4. CASE OpenRead(p)
  <2>1. CASE Refused(p)
    BY <1>3, <1>4, <2>1, ShapeParts DEF OpenRead
  <2>2. CASE held[p].gen \in DOMAIN docs
             /\ op' = [op EXCEPT ![p].step = "intact", ![p].next = docs[held[p].gen]]
             /\ UNCHANGED <<phase, held, damaged>>
    <3>1. op' \in [Procs -> Operations]
      BY <1>0, <2>2, Going
    <3> QED
      BY <1>4, <2>2, <3>1, ShapeParts DEF OpenRead
  <2> QED
    BY <1>4, <2>1, <2>2 DEF OpenRead
<1>5. CASE OpenVerify(p)
  <2>1. CASE Refused(p)
    BY <1>3, <1>5, <2>1, ShapeParts DEF OpenVerify
  <2>2. CASE /\ held' = [held EXCEPT ![p].state = op[p].next]
             /\ op' = [op EXCEPT ![p].step = "sweep", ![p].todo = @ \ op[p].next.media]
             /\ UNCHANGED <<phase, damaged>>
    <3>1. op[p].todo \ op[p].next.media \in SUBSET Media
      BY <1>0
    <3>2. op' \in [Procs -> Operations]
      BY <1>0, <2>2, <3>1, Going
    <3>3. held' \in [Procs -> [state : Doc, gen : 0..MaxGen]]
      BY <1>0, <2>2
    <3> QED
      BY <1>5, <2>2, <3>2, <3>3, ShapeParts DEF OpenVerify
  <2> QED
    BY <1>5, <2>1, <2>2 DEF OpenVerify
<1>6. CASE OpenEnd(p)
  <2>1. op' \in [Procs -> Operations]
    BY <1>6, IdleShape DEF OpenEnd, Done
  <2> QED
    BY <1>6, <2>1, ShapeParts DEF OpenEnd
<1>7. CASE Crash(p)
  <2>1. op' \in [Procs -> Operations]
    BY <1>7, IdleShape DEF Crash
  <2>2. prunes' \in [Procs -> SUBSET (1..MaxGen)]
    BY <1>7 DEF Crash
  <2> QED
    BY <1>1, <1>7, <2>1, <2>2, ShapeParts DEF Crash
<1> QED
  BY <1>2, <1>4, <1>5, <1>6, <1>7 DEF Lifetime

-----------------------------------------------------------------------------
\* The newest generation never falls, so what lay below it still does.
LEMMA Rising ==
  ASSUME Filed, Shaped, Below, Newest' \in Nat, Newest' >= Newest,
         UNCHANGED <<held, prunes>>
  PROVE  Below'
<1>1. /\ Newest \in 0..MaxGen
      /\ \A p \in Procs : held[p].gen \in 0..MaxGen /\ prunes[p] \in SUBSET (1..MaxGen)
  BY NewestIs DEF Shaped, TypeOK
<1> QED
  BY <1>1, ArchiveAssumption DEF Below

\* What is on its way to be written is a recording that has begun.
Written == \A p \in Procs :
  op[p].step \in {"upload", "verify", "create"} => op[p].next.status # "none"

LEMMA BelowKept ==
  ASSUME Base, Written, [Next]_vars
  PROVE  Filed' /\ Below' /\ Newest' >= Newest
<1> USE DEF Base
<1>0. Newest \in 0..MaxGen /\ \A p \in Procs : held[p].gen \in 0..MaxGen
  BY NewestIs DEF Shaped, TypeOK
<1>1. ASSUME UNCHANGED docs, UNCHANGED <<held, prunes>> PROVE Filed' /\ Below' /\ Newest' >= Newest
  <2>1. Filed' /\ Newest' = Newest
    BY <1>1, FiledStill
  <2> QED
    BY <1>0, <1>1, <2>1, Rising, ArchiveAssumption
<1>2. ASSUME NEW p \in Procs, UNCHANGED docs, NEW n \in 0..MaxGen, n <= Newest, NEW s,
             \/ held' = [held EXCEPT ![p] = [state |-> s, gen |-> n]]
             \/ held' = [held EXCEPT ![p].gen = n]
             \/ held' = [held EXCEPT ![p].state = s]
             \/ UNCHANGED held,
             \/ UNCHANGED prunes
             \/ prunes' = [prunes EXCEPT ![p] = {}]
             \/ prunes' = [prunes EXCEPT ![p] = Older(n)]
             \/ prunes' = [prunes EXCEPT ![p] = prunes[p] \cup Older(n)]
      PROVE  Filed' /\ Below' /\ Newest' >= Newest
  <2>1. Filed' /\ Newest' = Newest
    BY <1>2, FiledStill
  <2>2. \A g \in Older(n) : g < Newest
    BY <1>0, <1>2 DEF Older, Filed
  <2>3. \A q \in Procs : held'[q].gen = held[q].gen \/ held'[q].gen = n
    BY <1>2 DEF Shaped, TypeOK
  <2>4. \A q \in Procs : prunes'[q] \subseteq prunes[q] \cup Older(n)
    BY <1>2 DEF Shaped, TypeOK
  <2> QED
    BY <1>0, <1>2, <2>1, <2>2, <2>3, <2>4 DEF Below
<1>3. CASE UNCHANGED vars
  BY <1>1, <1>3 DEF vars
<1>4. ASSUME NEW p \in Procs, Capture(p) \/ Expire(p) \/ Delete(p)
      PROVE  Filed' /\ Below' /\ Newest' >= Newest
  <2>1. UNCHANGED <<docs, prunes>>
    BY <1>4, BegunShape
  <2>2. UNCHANGED held
    BY <1>4 DEF Capture, Begin, Retain, RetainDuplicate, Finalise, Fail, Expire, Delete, Start
  <2> QED
    BY <1>1, <2>1, <2>2
<1>5. ASSUME NEW p \in Procs, Upload(p) \/ Verify(p) \/ SweepList(p) \/ SweepObject(p)
                              \/ OpenEnd(p)
      PROVE  Filed' /\ Below' /\ Newest' >= Newest
  BY <1>1, <1>5 DEF Upload, Verify, SweepList, SweepObject, OpenEnd, store
<1>6. ASSUME NEW p \in Procs, Create(p) PROVE Filed' /\ Below' /\ Newest' >= Newest
  <2>1. CASE UNCHANGED docs
    BY <1>1, <1>6, <2>1 DEF Create
  <2>2. CASE /\ NextGen(p) \notin DOMAIN docs
             /\ docs' = [g \in DOMAIN docs \cup {NextGen(p)} |->
                           IF g = NextGen(p) THEN op[p].next ELSE docs[g]]
    <3>1. /\ NextGen(p) \in 1..MaxGen
          /\ op[p].next \in Doc /\ op[p].next.status # "none"
      BY <1>0, <1>6, ArchiveAssumption DEF Create, NextGen, Written, At, Shaped, TypeOK
    <3>2. NextGen(p) # Newest
      <4>1. docs = <<>> => Newest = 0
        BY NewestIs
      <4>2. docs # <<>> => Newest \in DOMAIN docs
        BY NewestIs
      <4> QED
        BY <2>2, <3>1, <4>1, <4>2
    <3>3. CASE NextGen(p) < Newest
      <4>1. Filed' /\ Newest' = Newest
        BY <2>2, <3>1, <3>3, FiledUnder
      <4> QED
        BY <1>0, <1>6, <4>1, Rising, ArchiveAssumption DEF Create
    <3>4. CASE NextGen(p) > Newest
      <4>1. \A h \in DOMAIN docs : h < NextGen(p)
        BY <1>0, <3>1, <3>4, NewestIs, ArchiveAssumption DEF Filed
      <4>2. Filed' /\ Newest' = NextGen(p)
        BY <2>2, <3>1, <4>1, FiledMore
      <4> QED
        BY <1>0, <1>6, <3>1, <3>4, <4>2, Rising, ArchiveAssumption DEF Create
    <3> QED
      BY <1>0, <3>1, <3>2, <3>3, <3>4, ArchiveAssumption
  <2> QED
    BY <1>6, <2>1, <2>2 DEF Create
<1>7. ASSUME NEW p \in Procs, Confirm(p) PROVE Filed' /\ Below' /\ Newest' >= Newest
  <2>1. UNCHANGED docs
    BY <1>7 DEF Confirm, store
  <2>2. CASE UNCHANGED <<held, prunes>>
    BY <1>1, <2>1, <2>2
  <2>3. CASE /\ NextGen(p) \in DOMAIN docs
             /\ held' = [held EXCEPT ![p] = [state |-> op[p].next, gen |-> NextGen(p)]]
             /\ prunes' = [prunes EXCEPT ![p] = prunes[p] \cup Older(NextGen(p))]
    <3>1. NextGen(p) \in 0..MaxGen /\ NextGen(p) <= Newest
      <4>1. docs # <<>>
        BY <2>3
      <4> QED
        BY <2>3, <4>1, NewestIs, ArchiveAssumption DEF Filed
    <3> QED
      BY <1>2, <2>1, <2>3, <3>1
  <2> QED
    BY <1>7, <2>2, <2>3 DEF Confirm
<1>8. ASSUME NEW p \in Procs, SweepEnd(p) PROVE Filed' /\ Below' /\ Newest' >= Newest
  <2>1. UNCHANGED docs /\ UNCHANGED held
    BY <1>8 DEF SweepEnd, store
  <2>2. held[p].gen \in 0..MaxGen /\ held[p].gen <= Newest
    BY <1>0 DEF Below
  <2>3. \/ UNCHANGED prunes
        \/ prunes' = [prunes EXCEPT ![p] = Older(held[p].gen)]
    BY <1>8 DEF SweepEnd
  <2> QED
    BY <1>2, <2>1, <2>2, <2>3
<1>9. ASSUME NEW p \in Procs, Prune(p) PROVE Filed' /\ Below' /\ Newest' >= Newest
  <2>1. PICK g \in prunes[p] :
          \/ prunes' = [prunes EXCEPT ![p] = @ \ {g}] /\ docs' = Without(g)
          \/ prunes' = [prunes EXCEPT ![p] = {}] /\ UNCHANGED docs
    BY <1>9 DEF Prune
  <2>2. UNCHANGED held
    BY <1>9 DEF Prune
  <2>3. g < Newest /\ g \in 1..MaxGen
    BY DEF Below, Shaped, TypeOK
  <2>4. Filed' /\ Newest' = Newest
    BY <2>1, <2>3, FiledLess, FiledStill
  <2>5. \A q \in Procs : prunes'[q] \subseteq prunes[q]
    BY <2>1 DEF Shaped, TypeOK
  <2> QED
    BY <1>0, <2>2, <2>4, <2>5 DEF Below
<1>10. ASSUME NEW p \in Procs, Open(p) \/ OpenRead(p) \/ OpenVerify(p) \/ Crash(p)
       PROVE  Filed' /\ Below' /\ Newest' >= Newest
  <2>1. UNCHANGED docs
    BY <1>10 DEF Open, OpenRead, OpenVerify, Crash, store
  <2>2. CASE Open(p)
    <3>1. /\ UNCHANGED held \/ held' = [held EXCEPT ![p].gen = Newest]
          /\ UNCHANGED prunes
      BY <2>2 DEF Open
    <3> QED
      BY <1>0, <1>2, <2>1, <3>1, ArchiveAssumption
  <2>3. CASE OpenRead(p) \/ OpenVerify(p)
    <3>1. \/ held' = [held EXCEPT ![p] = [state |-> None, gen |-> 0]]
          \/ held' = [held EXCEPT ![p].state = op[p].next]
          \/ UNCHANGED held
      BY <2>3 DEF OpenRead, OpenVerify, Refused
    <3>2. UNCHANGED prunes
      BY <2>3 DEF OpenRead, OpenVerify
    <3> QED
      BY <1>0, <1>2, <2>1, <3>1, <3>2, ArchiveAssumption
  <2>4. CASE Crash(p)
    <3>1. /\ held' = [held EXCEPT ![p] = [state |-> None, gen |-> 0]]
          /\ prunes' = [prunes EXCEPT ![p] = {}]
          /\ 0 \in 0..MaxGen /\ 0 <= Newest
      BY <1>0, <2>4, ArchiveAssumption DEF Crash
    <3> QED
      BY <1>2, <2>1, <3>1
  <2> QED
    BY <1>10, <2>2, <2>3, <2>4
<1> QED
  BY <1>3, <1>4, <1>5, <1>6, <1>7, <1>8, <1>9, <1>10 DEF Next, Request, Lifetime

LEMMA WrittenKept ==
  ASSUME Shaped, Written, [Next]_vars
  PROVE  Written'
<1>0. \A p \in Procs : op[p] \in AnyOperation
  BY DEF Shaped, Operations
<1>1. ASSUME UNCHANGED op PROVE Written'
  BY <1>1 DEF Written
<1>2. ASSUME NEW p \in Procs, NEW o, op' = [op EXCEPT ![p] = o],
             o.step \in {"upload", "verify", "create"} => o.next.status # "none"
      PROVE  Written'
  BY <1>2 DEF Written, Shaped
<1>3. ASSUME NEW p \in Procs, Done(p) PROVE Written'
  BY <1>3 DEF Done, Idle, Written, Shaped
<1>4. ASSUME NEW p \in Procs, NEW step \in Steps \ {"upload", "verify", "create"}, Go(p, step)
      PROVE  Written'
  BY <1>0, <1>4 DEF Go, Written, Shaped, AnyOperation
<1>5. ASSUME NEW p \in Procs, Go(p, "create"), op[p].step \in {"upload", "verify"} PROVE Written'
  BY <1>0, <1>5 DEF Go, Written, Shaped, AnyOperation
<1>6. {"confirm", "list", "sweep", "prune", "read", "intact"}
        \subseteq Steps \ {"upload", "verify", "create"}
  BY DEF Steps
<1>7. CASE UNCHANGED vars
  BY <1>1, <1>7 DEF vars
<1>8. ASSUME NEW p \in Procs, Capture(p) \/ Expire(p) \/ Delete(p) PROVE Written'
  <2>1. State(p) \in Doc
    BY DEF Shaped, TypeOK, State
  <2>2. ASSUME NEW kind, NEW step, NEW arg, NEW next, Start(p, Op(kind, step, arg, next)),
               next.status # "none"
        PROVE  Written'
    <3>1. PICK o : o = Op(kind, step, arg, next)
      OBVIOUS
    <3>2. o.step = step /\ o.next = next
      BY <3>1 DEF Op
    <3> QED
      BY <1>2, <2>2, <3>1, <3>2 DEF Start
  <2>3. \A to \in {"available", "failed", "expired", "deleted"} :
          Moved(State(p), to).status # "none" /\ Released(State(p), to).status # "none"
    BY <2>1 DEF Moved, Released, Doc
  <2>4. CASE \E policy \in Policies : Begin(p, policy)
    <3>1. PICK policy \in Policies : Begin(p, policy)
      BY <2>4
    <3>2. [status |-> "recording", media |-> {}, policy |-> policy].status # "none"
      OBVIOUS
    <3> QED
      BY <2>2, <3>1, <3>2 DEF Begin
  <2>5. CASE \E m \in Media : Retain(p, m)
    <3>1. PICK m \in Media : Retain(p, m)
      BY <2>5
    <3>2. Keeping(State(p), m).status = State(p).status
      BY <2>1 DEF Keeping, Doc
    <3> QED
      BY <2>2, <3>1, <3>2 DEF Retain
  <2>6. CASE \E m \in Media : RetainDuplicate(p, m)
    BY <1>1, <2>6 DEF RetainDuplicate
  <2>7. CASE Finalise(p)
    BY <2>2, <2>3, <2>7 DEF Finalise
  <2>8. CASE Fail(p)
    BY <2>2, <2>3, <2>8 DEF Fail
  <2>9. CASE Expire(p)
    BY <2>2, <2>3, <2>9 DEF Expire
  <2>10. CASE Delete(p)
    BY <2>2, <2>3, <2>10 DEF Delete
  <2> QED
    BY <1>8, <2>4, <2>5, <2>6, <2>7, <2>8, <2>9, <2>10 DEF Capture
<1>9. ASSUME NEW p \in Procs, Upload(p) \/ Create(p) \/ Confirm(p) PROVE Written'
  BY <1>1, <1>3, <1>4, <1>5, <1>6, <1>9 DEF Upload, Create, Confirm, At
<1>10. ASSUME NEW p \in Procs, Verify(p) PROVE Written'
  <2>1. CASE Go(p, "create")
    BY <1>5, <1>10, <2>1 DEF Verify, At
  <2>2. CASE op' = [op EXCEPT ![p].step = "create", ![p].next = Moved(op[p].next, "failed")]
    <3>1. PICK next : next = Moved(op[p].next, "failed")
      OBVIOUS
    <3>2. next.status # "none"
      BY <1>0, <3>1 DEF Moved, Doc, AnyOperation
    <3>3. op' = [op EXCEPT ![p] = [op[p] EXCEPT !.step = "create", !.next = next]]
      BY <2>2, <3>1
    <3> QED
      BY <1>0, <1>2, <3>2, <3>3 DEF AnyOperation
  <2> QED
    BY <1>10, <2>1, <2>2 DEF Verify
<1>11. ASSUME NEW p \in Procs, NEW todo, NEW step, step \notin {"upload", "verify", "create"},
              op' = [op EXCEPT ![p].step = step, ![p].todo = todo]
       PROVE  Written'
  BY <1>0, <1>11 DEF Written, Shaped, AnyOperation
<1>12. ASSUME NEW p \in Procs, SweepList(p) \/ SweepObject(p) \/ SweepEnd(p) \/ Prune(p)
       PROVE  Written'
  <2>1. CASE SweepList(p)
    BY <1>3, <1>11, <2>1 DEF SweepList
  <2>2. CASE SweepObject(p)
    <3>1. PICK m : op' = [op EXCEPT ![p].todo = op[p].todo \ {m}]
      BY <2>2 DEF SweepObject
    <3> QED
      BY <1>0, <3>1 DEF Written, Shaped, AnyOperation
  <2>3. CASE SweepEnd(p) \/ Prune(p)
    BY <1>1, <1>3, <1>4, <1>6, <2>3 DEF SweepEnd, Prune
  <2> QED
    BY <1>12, <2>1, <2>2, <2>3
<1>13. ASSUME NEW p \in Procs, Lifetime(p) PROVE Written'
  <2>1. CASE Open(p)
    <3>1. PICK o : o = [Op("open", "read", "-", None) EXCEPT !.todo = objects]
      OBVIOUS
    <3>2. o.step = "read"
      BY <3>1 DEF Op
    <3> QED
      BY <1>1, <1>2, <2>1, <3>1, <3>2 DEF Open
  <2>2. CASE OpenRead(p)
    <3>1. CASE \E next : op' = [op EXCEPT ![p].step = "intact", ![p].next = next]
      BY <1>0, <3>1 DEF Written, Shaped, AnyOperation
    <3> QED
      BY <1>3, <2>2, <3>1 DEF OpenRead, Refused
  <2>3. CASE OpenVerify(p)
    <3>1. CASE op' = [op EXCEPT ![p].step = "sweep", ![p].todo = op[p].todo \ op[p].next.media]
      BY <1>11, <3>1
    <3> QED
      BY <1>3, <2>3, <3>1 DEF OpenVerify, Refused
  <2>4. CASE OpenEnd(p)
    BY <1>3, <2>4 DEF OpenEnd
  <2>5. CASE Crash(p)
    <3>1. Done(p)
      BY <2>5 DEF Crash, Done
    <3> QED
      BY <1>3, <3>1
  <2> QED
    BY <1>13, <2>1, <2>2, <2>3, <2>4, <2>5 DEF Lifetime
<1> QED
  BY <1>7, <1>8, <1>9, <1>10, <1>12, <1>13 DEF Next, Request

-----------------------------------------------------------------------------
(* The deletion's steps are the archive's, or leave it alone.               *)

LEMMA DeletionSteps ==
  ASSUME [DeletionNext]_allvars
  PROVE  [Next]_vars
<1>1. CASE AskDelete \/ LeaseLapses \/ UNCHANGED allvars
  BY <1>1 DEF AskDelete, LeaseLapses, allvars
<1>2. ASSUME NEW p \in Procs,
             \/ (Capture(p) \/ Expire(p) \/ Request(p)) /\ UNCHANGED queue
             \/ Lifetime(p) /\ worker' = [worker EXCEPT ![p] = "idle"] /\ UNCHANGED request
             \/ Claim(p) \/ Judge(p) \/ CallDelete(p) \/ Answered(p)
      PROVE  [Next]_vars
  <2>1. CASE Capture(p) \/ Expire(p) \/ Request(p) \/ Lifetime(p) \/ Delete(p)
    BY <2>1 DEF Next
  <2>2. CASE Claim(p) \/ Judge(p) \/ Answered(p)
    BY <2>2 DEF Claim, Judge, Answered
  <2>3. CASE CallDelete(p)
    BY <2>1, <2>3 DEF CallDelete
  <2> QED
    BY <1>2, <2>1, <2>2, <2>3
<1> QED
  BY <1>1, <1>2 DEF DeletionNext

BaseInv == Base /\ Written

LEMMA BaseInvHolds == Spec => []BaseInv
<1>1. Init => BaseInv
  <2> SUFFICES ASSUME Init PROVE BaseInv
    OBVIOUS
  <2>1. docs = <<>> /\ DOMAIN docs = {}
    BY DEF Init
  <2>2. Filed
    BY <2>1 DEF Filed
  <2>3. Newest = 0
    BY <2>1, <2>2, NewestIs
  <2>4. Shaped
    <3>1. 0 \in 0..MaxGen
      BY ArchiveAssumption
    <3>2. op \in [Procs -> Operations] /\ held \in [Procs -> [state : Doc, gen : 0..MaxGen]]
      BY <3>1, IdleShape DEF Init
    <3>3. \A p \in Procs : op[p].next \in Doc /\ op[p].todo \subseteq Media
      BY <3>2 DEF Operations, AnyOperation
    <3> QED
      BY <2>1, <3>2, <3>3 DEF Init, Shaped, TypeOK
  <2>5. Below /\ Written
    BY <2>3 DEF Init, Below, Written, Idle
  <2> QED
    BY <2>2, <2>4, <2>5 DEF BaseInv, Base
<1>2. BaseInv /\ [Next]_vars => BaseInv'
  <2> SUFFICES ASSUME BaseInv, [Next]_vars PROVE BaseInv'
    OBVIOUS
  <2>1. Filed' /\ Below' /\ Written'
    BY BelowKept, WrittenKept DEF BaseInv, Base
  <2>2. Shaped'
    <3>1. CASE UNCHANGED vars
      BY <3>1 DEF vars, BaseInv, Base, Shaped, TypeOK, Doc, Media, Operations, AnyOperation
    <3>2. CASE Next
      BY <3>2, BegunShape, RequestShape, LifetimeShape DEF Next, BaseInv, Base
    <3> QED
      BY <3>1, <3>2
  <2> QED
    BY <2>1, <2>2 DEF BaseInv, Base
<1> QED
  BY <1>1, <1>2, PTL DEF Spec

LEMMA DeletionKeepsArchive == DeletionSpec => Spec
<1>1. DeletionInit => Init
  BY DEF DeletionInit
<1>2. [DeletionNext]_allvars => [Next]_vars
  BY DeletionSteps
<1> QED
  BY <1>1, <1>2, PTL DEF DeletionSpec, Spec

\* Every reachable state of the archive, the queue and the worker is well formed,
\* whatever is lost or dies and however many processes open the bucket.
THEOREM TypeCorrect == DeletionSpec => []DeletionTypeOK
<1> DEFINE QueueOK == /\ request \in {"none", "pending", "claimed"}
                      /\ worker \in [Procs -> {"idle", "claimed", "queued", "deleting"}]
<1>1. DeletionInit => QueueOK
  BY DEF DeletionInit
<1>2. QueueOK /\ [DeletionNext]_allvars => QueueOK'
  <2> SUFFICES ASSUME QueueOK, [DeletionNext]_allvars PROVE QueueOK'
    OBVIOUS
  <2> USE DEF queue, allvars
  <2>1. CASE AskDelete \/ LeaseLapses \/ UNCHANGED allvars
    BY <2>1 DEF AskDelete, LeaseLapses
  <2>2. ASSUME NEW p \in Procs,
               \/ (Capture(p) \/ Expire(p) \/ Request(p)) /\ UNCHANGED queue
               \/ Lifetime(p) /\ worker' = [worker EXCEPT ![p] = "idle"] /\ UNCHANGED request
               \/ Claim(p)
        PROVE  QueueOK'
    BY <2>2 DEF Claim
  <2>3. ASSUME NEW p \in Procs, NEW as \in {"none", "pending"}, Settle(p, as) PROVE QueueOK'
    BY <2>3 DEF Settle
  <2>4. ASSUME NEW p \in Procs, NEW for \in {"queued", "deleting"}, Wait(p, for) PROVE QueueOK'
    BY <2>4 DEF Wait
  <2>5. ASSUME NEW p \in Procs, Judge(p) \/ CallDelete(p) \/ Answered(p) PROVE QueueOK'
    <3>1. \/ Settle(p, "pending") \/ Settle(p, "none")
          \/ Wait(p, "queued") \/ Wait(p, "deleting")
      BY <2>5 DEF Judge, CallDelete, Answered
    <3> QED
      BY <2>3, <2>4, <3>1
  <2> QED
    BY <2>1, <2>2, <2>5 DEF DeletionNext
<1>3. BaseInv /\ QueueOK => DeletionTypeOK
  BY DEF BaseInv, Base, Shaped, DeletionTypeOK
<1> QED
  BY <1>1, <1>2, <1>3, BaseInvHolds, DeletionKeepsArchive, PTL DEF DeletionSpec

-----------------------------------------------------------------------------
(* What a process knows.  One whose memory is at the newest generation      *)
(* holds the newest document; whatever it is about to write follows from    *)
(* what it holds; and only such a process can create a newer document.  The *)
(* rest may be any number of generations behind.                            *)

Keeps == {"recording", "available", "failed"}
Gone == {"expired", "deleted"}

Current(p) == held[p].gen = Newest

\* What an operation writes is one move from what the process holds.
Asked(s, o) ==
  \/ /\ o.kind = "begin" /\ s.status = "none"
     /\ o.next.status = "recording" /\ o.next.media = {}
  \/ /\ o.kind = "retain" /\ s.status = "recording"
     /\ o.next.status = "recording" /\ o.next.media = s.media \cup {o.arg}
  \/ /\ o.kind = "finalise" /\ s.status = "recording" /\ Recorded!Playable(s.media)
     /\ o.next.status \in {"available", "failed"} /\ o.next.media = s.media
  \/ /\ o.kind \in {"finalise", "fail"} /\ s.status = "recording"
     /\ o.next.status = "failed" /\ o.next.media = s.media
  \/ /\ o.kind = "release" /\ o.next.status \in Gone
     /\ o.next.media = {} /\ Recorded!CanTransition(s.status, o.next.status)

\* Where the chain of a process that holds s may be.
Working(s, o) ==
  /\ o.kind # "open"
  /\ o.step \in {"-", "upload", "verify", "create", "confirm", "list", "sweep"}
  /\ o.step \in {"upload", "verify", "create", "confirm"} => Asked(s, o)
  /\ o.step = "verify" => o.kind = "finalise"
  /\ o.step \in {"list", "sweep"} => /\ o.kind = "release" /\ o.next = s
                                     /\ s.status \in Gone /\ s.media = {}

Blank == [state |-> None, gen |-> 0]

Resting(p) == op[p] = Idle /\ held[p] = Blank

Loading(p) ==
  /\ op[p].kind = "open" /\ docs # <<>> /\ held[p].gen # 0
  /\ \/ op[p].step = "read" /\ State(p) = None
     \/ op[p].step = "intact" /\ State(p) = None /\ (Current(p) => op[p].next = Truth)
     \/ op[p].step \in {"sweep", "prune"} /\ (Current(p) => State(p) = Truth)

View(p) ==
  /\ phase[p] = "down" => Resting(p) /\ ~damaged[p]
  /\ damaged[p] => phase[p] = "up" /\ Resting(p) /\ docs # <<>>
  /\ phase[p] = "loading" => Loading(p)
  /\ phase[p] = "up" /\ ~damaged[p] =>
       Working(State(p), op[p]) /\ (Current(p) => State(p) = Truth)

Views == \A p \in Procs : View(p)

LEMMA Facts ==
  ASSUME BaseInv, NEW p \in Procs
  PROVE  /\ Newest \in Nat /\ Truth \in Doc
         /\ held[p].gen \in Nat /\ State(p) \in Doc /\ held[p].state = State(p)
         /\ held[p] = [state |-> State(p), gen |-> held[p].gen]
         /\ held[p].gen <= Newest
         /\ op \in [Procs -> Operations] /\ op[p] \in Operations /\ op[p] \in AnyOperation
         /\ op[p].next \in Doc
         /\ phase[p] \in {"down", "loading", "up"}
         /\ docs = <<>> => Newest = 0 /\ Truth = None /\ Truth.status = "none"
         /\ docs # <<>> => /\ Newest \in DOMAIN docs /\ Truth.status # "none" /\ Newest # 0
                           /\ Truth = docs[Newest]
<1> USE DEF BaseInv, Base, Shaped, TypeOK
<1>1. /\ op \in [Procs -> Operations] /\ op[p] \in Operations /\ op[p] \in AnyOperation
      /\ op[p].next \in Doc /\ phase[p] \in {"down", "loading", "up"}
  BY DEF Operations, AnyOperation
<1>2. held[p].gen \in Nat /\ State(p) \in Doc /\ held[p].state = State(p)
      /\ held[p] = [state |-> State(p), gen |-> held[p].gen]
  BY ArchiveAssumption DEF State
<1>3. Newest \in Nat /\ Truth \in Doc
  BY NewestIs, ArchiveAssumption
<1>4. docs = <<>> => Newest = 0 /\ Truth = None /\ Truth.status = "none"
  BY NewestIs DEF None
<1>5. docs # <<>> => /\ Newest \in DOMAIN docs /\ Truth.status # "none" /\ Newest # 0
                     /\ Truth = docs[Newest]
  BY NewestIs, ArchiveAssumption DEF Filed
<1>6. held[p].gen <= Newest
  BY DEF Below
<1> QED
  BY <1>1, <1>2, <1>3, <1>4, <1>5, <1>6

\* How a step moves the operation of its process.
LEMMA Turned ==
  ASSUME BaseInv, NEW p \in Procs
  PROVE  /\ \A step : Go(p, step) => op'[p] = [op[p] EXCEPT !.step = step]
         /\ Done(p) => op'[p] = Idle
         /\ \A o : Start(p, o) => op'[p] = o
BY DEF BaseInv, Base, Shaped, Go, Done, Start

LEMMA TurnedStep ==
  ASSUME BaseInv, NEW p \in Procs, NEW step, Go(p, step)
  PROVE  /\ op'[p].step = step /\ op'[p].kind = op[p].kind
         /\ op'[p].next = op[p].next /\ op'[p].todo = op[p].todo
         /\ op'[p].arg = op[p].arg
<1>1. op'[p] = [op[p] EXCEPT !.step = step]
  BY Turned
<1>2. op[p] \in AnyOperation
  BY Facts
<1> QED
  BY <1>1, <1>2 DEF AnyOperation

\* A step is one process's, and the others keep what they have.
Same(q) == UNCHANGED <<phase[q], held[q], damaged[q], op[q]>>
Step(p) == Capture(p) \/ Expire(p) \/ Delete(p) \/ Request(p) \/ Lifetime(p)

LEMMA Apart ==
  ASSUME BaseInv, NEW p \in Procs, Step(p), NEW q \in Procs, q # p
  PROVE  Same(q)
<1> USE DEF Same, BaseInv, Base, Shaped, TypeOK
<1>1. ASSUME NEW o, Start(p, o) PROVE Same(q)
  BY <1>1 DEF Start
<1>2. CASE Capture(p) \/ Expire(p) \/ Delete(p)
  <2>1. CASE \E m \in Media : RetainDuplicate(p, m)
    BY <2>1 DEF RetainDuplicate
  <2> QED
    BY <1>1, <1>2, <2>1 DEF Capture, Begin, Retain, Finalise, Fail, Expire, Delete
<1>3. CASE Request(p)
  <2>1. CASE Upload(p) \/ Verify(p) \/ Create(p)
    <3>1. UNCHANGED <<phase, held, damaged>> /\ op'[q] = op[q]
      BY <2>1 DEF Upload, Verify, Create, Go, Done
    <3> QED
      BY <3>1
  <2>2. CASE Confirm(p)
    BY <2>2 DEF Confirm, Go, Done
  <2>3. CASE SweepList(p) \/ SweepObject(p)
    BY <2>3 DEF SweepList, SweepObject, Go, Done
  <2>4. CASE SweepEnd(p) \/ Prune(p)
    BY <2>4 DEF SweepEnd, Prune, Go, Done
  <2> QED
    BY <1>3, <2>1, <2>2, <2>3, <2>4 DEF Request
<1>4. CASE Lifetime(p)
  <2>1. CASE Open(p) \/ OpenEnd(p) \/ Crash(p)
    BY <2>1 DEF Open, OpenEnd, Crash, Done
  <2>2. CASE OpenRead(p)
    BY <2>2 DEF OpenRead, Refused, Done
  <2>3. CASE OpenVerify(p)
    BY <2>3 DEF OpenVerify, Refused, Done
  <2> QED
    BY <1>4, <2>1, <2>2, <2>3 DEF Lifetime
<1> QED
  BY <1>2, <1>3, <1>4 DEF Step

LEMMA StepIsNext ==
  ASSUME NEW p \in Procs, Step(p)
  PROVE  [Next]_vars
BY DEF Step, Next

\* A document is created on top of the newest one by a process that holds that
\* generation, or buried below it.
Filing(p) == /\ DOMAIN docs' = DOMAIN docs \cup {NextGen(p)}
             /\ docs'[NextGen(p)] = op[p].next
             /\ \A g \in DOMAIN docs : docs'[g] = docs[g]
             /\ docs' # <<>> /\ NextGen(p) \notin DOMAIN docs
             /\ op[p].next.status # "none"
             /\ Done(p) \/ Go(p, "confirm")
OnTop(p) == /\ Filing(p) /\ Current(p) /\ NextGen(p) = Newest + 1 /\ UNCHANGED races
            /\ Newest' = Newest + 1 /\ Truth' = op[p].next
Under(p) == /\ Filing(p) /\ ~Current(p) /\ docs # <<>> /\ "buried" \in races'
            /\ Newest' = Newest /\ Truth' = Truth

LEMMA CreateMoves ==
  ASSUME BaseInv, NEW p \in Procs, Create(p)
  PROVE  (UNCHANGED docs /\ UNCHANGED races /\ Done(p)) \/ OnTop(p) \/ Under(p)
<1>0. op[p].step = "create"
  BY DEF Create, At
<1>1. CASE /\ NextGen(p) \notin DOMAIN docs
           /\ docs' = [g \in DOMAIN docs \cup {NextGen(p)} |->
                         IF g = NextGen(p) THEN op[p].next ELSE docs[g]]
           /\ Race("buried", NextGen(p) < Newest)
           /\ Done(p) \/ Go(p, "confirm")
  <2>1. /\ Newest \in Nat /\ held[p].gen \in Nat /\ held[p].gen <= Newest
        /\ NextGen(p) = held[p].gen + 1
    BY Facts DEF NextGen
  <2>2. NextGen(p) \in 1..MaxGen
    BY <2>1, ArchiveAssumption DEF Create
  <2>3. op[p].next \in Doc /\ op[p].next.status # "none"
    BY <1>0, Facts DEF BaseInv, Written
  <2>4. Filed
    BY DEF BaseInv, Base
  <2>5. NextGen(p) # Newest
    <3>1. docs # <<>> => NextGen(p) # Newest
      BY <1>1, Facts
    <3>2. docs = <<>> => Newest = 0
      BY Facts
    <3> QED
      BY <2>1, <3>1, <3>2
  <2>6. Filing(p)
    <3>1. PICK n, next : n = NextGen(p) /\ next = op[p].next
      OBVIOUS
    <3>2. docs' = [g \in DOMAIN docs \cup {n} |-> IF g = n THEN next ELSE docs[g]]
      BY <1>1, <3>1
    <3>3. DOMAIN docs' = DOMAIN docs \cup {n} /\ docs'[n] = next
      BY <3>2
    <3>4. \A g \in DOMAIN docs : docs'[g] = docs[g]
      BY <1>1, <3>1, <3>2
    <3>5. docs' # <<>>
      BY <3>3
    <3> QED
      BY <1>1, <2>3, <3>1, <3>3, <3>4, <3>5 DEF Filing
  <2>7. CASE NextGen(p) < Newest
    <3>1. Newest' = Newest /\ Truth' = Truth
      <4>1. PICK n \in 1..MaxGen, next \in Doc : n = NextGen(p) /\ next = op[p].next
        BY <2>2, <2>3
      <4> QED
        BY <1>1, <2>3, <2>4, <2>7, <4>1, FiledUnder
    <3>2. docs = <<>> => Newest = 0
      BY Facts
    <3>3. docs # <<>> /\ ~Current(p)
      BY <2>1, <2>7, <3>2 DEF Current
    <3> QED
      BY <1>1, <2>6, <2>7, <3>1, <3>3 DEF Under, Race
  <2>8. CASE NextGen(p) > Newest
    <3>1. \A h \in DOMAIN docs : h \in Nat /\ h <= Newest
      <4>1. CASE docs = <<>>
        BY <4>1
      <4>2. CASE docs # <<>>
        BY <2>4, <4>2, NewestIs, ArchiveAssumption DEF Filed
      <4> QED
        BY <4>1, <4>2
    <3>2. \A h \in DOMAIN docs : h < NextGen(p)
      BY <2>1, <2>8, <3>1
    <3>3. Newest' = NextGen(p) /\ Truth' = op[p].next
      BY <1>1, <2>2, <2>3, <2>4, <3>2, FiledMore
    <3>4. Current(p) /\ NextGen(p) = Newest + 1
      BY <2>1, <2>8 DEF Current
    <3>5. ~(NextGen(p) < Newest)
      BY <2>1, <2>8
    <3> QED
      BY <1>1, <2>6, <3>3, <3>4, <3>5 DEF OnTop, Race
  <2> QED
    BY <2>1, <2>5, <2>7, <2>8
<1> QED
  BY <1>1 DEF Create

\* The newest document changes only when a process that holds its generation
\* creates the next; and unless a document is buried, no other one appears.
Fewer == \A g \in DOMAIN docs' : g \in DOMAIN docs /\ docs'[g] = docs[g]
Still == /\ Newest' = Newest /\ Truth' = Truth /\ (docs = <<>> <=> docs' = <<>>)
         /\ Fewer \/ "buried" \in races'

LEMMA NewestMoves ==
  ASSUME BaseInv, [Next]_vars
  PROVE  Still \/ \E p \in Procs : Create(p) /\ OnTop(p)
<1>1. ASSUME UNCHANGED docs PROVE Still
  BY <1>1, FiledStill DEF BaseInv, Base, Still, Fewer
<1>2. ASSUME NEW p \in Procs, Capture(p) \/ Expire(p) \/ Delete(p) PROVE UNCHANGED docs
  BY <1>2, BegunShape DEF BaseInv, Base
<1>3. ASSUME NEW p \in Procs, Lifetime(p) PROVE UNCHANGED docs
  BY <1>3 DEF Lifetime, Open, OpenRead, OpenVerify, OpenEnd, Crash, store
<1>4. ASSUME NEW p \in Procs, Upload(p) \/ Verify(p) \/ Confirm(p)
                              \/ SweepList(p) \/ SweepObject(p) \/ SweepEnd(p)
      PROVE  UNCHANGED docs
  BY <1>4 DEF Upload, Verify, Confirm, SweepList, SweepObject, SweepEnd, store
<1>5. ASSUME NEW p \in Procs, Prune(p) PROVE Still
  <2>1. PICK g \in prunes[p] : docs' = Without(g) \/ UNCHANGED docs
    BY <1>5 DEF Prune
  <2>2. g < Newest /\ g \in 1..MaxGen
    BY DEF BaseInv, Base, Below, Shaped, TypeOK
  <2>3. CASE docs' = Without(g)
    <3>1. Fewer
      BY <2>3 DEF Fewer, Without
    <3> QED
      BY <2>2, <2>3, <3>1, FiledLess DEF BaseInv, Base, Still
  <2> QED
    BY <1>1, <2>1, <2>3
<1>6. CASE UNCHANGED vars
  BY <1>1, <1>6 DEF vars
<1>7. ASSUME NEW p \in Procs, Create(p) PROVE Still \/ OnTop(p)
  <2>1. Under(p) => Still
    BY DEF Under, Filing, Still
  <2> QED
    BY <1>1, <1>7, <2>1, CreateMoves
<1> QED
  BY <1>1, <1>2, <1>3, <1>4, <1>5, <1>6, <1>7 DEF Next, Request

\* A process whose memory stands does not become current by what others do.
LEMMA Ageing ==
  ASSUME BaseInv, [Next]_vars, NEW q \in Procs, held'[q] = held[q]
  PROVE  /\ State(q)' = State(q)
         /\ Current(q)' => Current(q) /\ Truth' = Truth
         /\ docs # <<>> => docs' # <<>>
<1>1. CASE Still
  BY <1>1 DEF Still, Current, State
<1>2. CASE \E p \in Procs : OnTop(p)
  <2>1. Newest' = Newest + 1 /\ docs' # <<>>
    BY <1>2 DEF OnTop, Filing
  <2>2. held'[q].gen <= Newest /\ Newest \in Nat /\ held'[q].gen \in Nat
    BY Facts
  <2> QED
    BY <2>1, <2>2 DEF Current, State
<1> QED
  BY <1>1, <1>2, NewestMoves

LEMMA ViewStands ==
  ASSUME BaseInv, [Next]_vars, NEW q \in Procs, View(q), Same(q)
  PROVE  View(q)'
<1>1. /\ phase'[q] = phase[q] /\ held'[q] = held[q] /\ damaged'[q] = damaged[q]
      /\ op'[q] = op[q]
  BY DEF Same
<1>2. /\ State(q)' = State(q)
      /\ Current(q)' => Current(q) /\ Truth' = Truth
      /\ docs # <<>> => docs' # <<>>
  BY <1>1, Ageing
<1>3. Resting(q) => Resting(q)'
  BY <1>1 DEF Resting, Idle, Blank, None
<1>4. Loading(q) => Loading(q)'
  BY <1>1, <1>2 DEF Loading, None
<1>5. Working(State(q), op[q])' <=> Working(State(q), op[q])
  BY <1>1, <1>2 DEF Working, Asked
<1> QED
  BY <1>1, <1>2, <1>3, <1>4, <1>5 DEF View

\* A step of a process that serves, which leaves its memory alone.
LEMMA Serving ==
  ASSUME BaseInv, [Next]_vars, NEW p \in Procs, View(p),
         UNCHANGED <<phase, held, damaged>>, phase[p] = "up", ~damaged[p],
         Working(State(p), op'[p])
  PROVE  View(p)'
<1>1. /\ State(p)' = State(p)
      /\ Current(p)' => Current(p) /\ Truth' = Truth
  BY Ageing
<1>2. Working(State(p), op[p])'
  BY <1>1 DEF Working, Asked
<1> QED
  BY <1>1, <1>2 DEF View

LEMMA Rests == \A s : Working(s, Idle)
BY DEF Working, Idle

\* A process with an operation of its own under way is up and whole.
LEMMA AtWork ==
  ASSUME BaseInv, NEW p \in Procs, View(p),
         op[p].step \in {"upload", "verify", "create", "confirm", "list"}
  PROVE  /\ phase[p] = "up" /\ ~damaged[p] /\ Working(State(p), op[p])
         /\ Current(p) => State(p) = Truth
<1>1. op[p] # Idle
  BY DEF Idle
<1> QED
  BY <1>1, Facts DEF View, Resting, Loading

LEMMA Moves ==
  ASSUME NEW s \in Doc
  PROVE  /\ Recorded!CanTransition(s.status, "processing") <=> s.status = "recording"
         /\ Recorded!CanTransition(s.status, "failed") <=> s.status = "recording"
         /\ Recorded!CanTransition(s.status, "expired") <=> s.status = "available"
<1> DEFINE st == s.status
<1>1. st \in {"none", "recording", "available", "failed", "expired", "deleted"}
  BY DEF Doc
<1>2. Recorded!Statuses = {"recording", "processing", "available", "failed", "expired", "deleted"}
  BY DEF Recorded!Statuses
<1>3. /\ Recorded!Transitions["recording"] = {"processing", "failed", "deleted"}
      /\ Recorded!Transitions["available"] = {"expired", "deleted"}
      /\ Recorded!Transitions["failed"] = {"deleted"}
      /\ Recorded!Transitions["expired"] = {"deleted"}
      /\ Recorded!Transitions["deleted"] = {}
  BY <1>2 DEF Recorded!Transitions
<1> HIDE DEF st
<1>4. \A to : Recorded!CanTransition(st, to)
              <=> st \in Recorded!Statuses /\ to \in Recorded!Transitions[st]
  BY DEF Recorded!CanTransition
<1>5. /\ Recorded!CanTransition(st, "processing") <=> st = "recording"
      /\ Recorded!CanTransition(st, "failed") <=> st = "recording"
      /\ Recorded!CanTransition(st, "expired") <=> st = "available"
  BY <1>1, <1>2, <1>3, <1>4
<1> QED
  BY <1>5 DEF st

\* What an operation is begun with follows from what the process holds.
LEMMA JudgedWorks ==
  ASSUME BaseInv, NEW p \in Procs, Capture(p) \/ Expire(p) \/ Delete(p)
  PROVE  /\ UNCHANGED <<store, phase, held, damaged>> /\ Ready(p)
         /\ \/ \E m \in Media : RetainDuplicate(p, m)
            \/ Working(State(p), op'[p]) /\ UNCHANGED kept
<1>0. State(p) \in Doc
  BY Facts
<1> DEFINE Judged == /\ UNCHANGED <<store, phase, held, damaged>> /\ Ready(p)
                     /\ \/ \E m \in Media : RetainDuplicate(p, m)
                        \/ Working(State(p), op'[p]) /\ UNCHANGED kept
<1>1. ASSUME NEW kind, NEW step, NEW arg, NEW next, Start(p, Op(kind, step, arg, next)), Ready(p),
             kind # "open", step \in {"upload", "verify", "create"},
             \A o : o.kind = kind /\ o.arg = arg /\ o.next = next => Asked(State(p), o),
             step = "verify" => kind = "finalise"
      PROVE  Judged
  <2>1. PICK o : o = Op(kind, step, arg, next)
    OBVIOUS
  <2>2. o.kind = kind /\ o.step = step /\ o.arg = arg /\ o.next = next
    BY <2>1 DEF Op
  <2>3. op'[p] = o
    BY <1>1, <2>1, Turned
  <2>4. Asked(State(p), o)
    BY <1>1, <2>2
  <2>5. Working(State(p), o)
    BY <1>1, <2>2, <2>4 DEF Working
  <2> QED
    BY <1>1, <2>3, <2>5 DEF Start
<1>2. CASE \E policy \in Policies : Begin(p, policy)
  <2>1. PICK policy \in Policies : Begin(p, policy)
    BY <1>2
  <2>2. PICK next : next = [status |-> "recording", media |-> {}, policy |-> policy]
    OBVIOUS
  <2>3. next.status = "recording" /\ next.media = {}
    BY <2>2
  <2>4. \A o : o.kind = "begin" /\ o.next = next => Asked(State(p), o)
    BY <2>1, <2>3 DEF Asked, Begin
  <2>5. Start(p, Op("begin", "create", "-", next)) /\ Ready(p)
    BY <2>1, <2>2 DEF Begin
  <2> QED
    BY <1>1, <2>4, <2>5
<1>3. CASE \E m \in Media : Retain(p, m)
  <2>1. PICK m \in Media : Retain(p, m)
    BY <1>3
  <2>2. PICK next : next = Keeping(State(p), m)
    OBVIOUS
  <2>3. next.status = State(p).status /\ next.media = State(p).media \cup {m}
    BY <1>0, <2>2 DEF Keeping, Doc
  <2>4. \A o : o.kind = "retain" /\ o.arg = m /\ o.next = next => Asked(State(p), o)
    BY <2>1, <2>3 DEF Asked, Retain
  <2> QED
    BY <1>1, <2>1, <2>2, <2>4 DEF Retain, Recording
<1>4. CASE \E m \in Media : RetainDuplicate(p, m)
  BY <1>4 DEF RetainDuplicate, Recording, Judged
<1>5. ASSUME NEW to \in {"available", "failed", "expired", "deleted"}
      PROVE  /\ Moved(State(p), to).status = to /\ Moved(State(p), to).media = State(p).media
             /\ Released(State(p), to).status = to /\ Released(State(p), to).media = {}
  BY <1>0 DEF Moved, Released, Doc
<1>6. CASE Finalise(p)
  <2>1. State(p).status = "recording"
    BY <1>0, <1>6, Moves DEF Finalise
  <2>2. CASE Recorded!Playable(State(p).media)
    <3>1. PICK next : next = Moved(State(p), "available")
      OBVIOUS
    <3>2. \A o : o.kind = "finalise" /\ o.next = next => Asked(State(p), o)
      BY <1>5, <2>1, <2>2, <3>1 DEF Asked
    <3> QED
      BY <1>1, <1>6, <2>2, <3>1, <3>2 DEF Finalise, Recording
  <2>3. CASE ~Recorded!Playable(State(p).media)
    <3>1. PICK next : next = Moved(State(p), "failed")
      OBVIOUS
    <3>2. \A o : o.kind = "finalise" /\ o.next = next => Asked(State(p), o)
      BY <1>5, <2>1, <3>1 DEF Asked
    <3> QED
      BY <1>1, <1>6, <2>3, <3>1, <3>2 DEF Finalise, Recording
  <2> QED
    BY <2>2, <2>3
<1>7. CASE Fail(p)
  <2>1. PICK next : next = Moved(State(p), "failed")
    OBVIOUS
  <2>2. \A o : o.kind = "fail" /\ o.next = next => Asked(State(p), o)
    BY <1>0, <1>5, <1>7, <2>1, Moves DEF Asked, Fail
  <2> QED
    BY <1>1, <1>7, <2>1, <2>2 DEF Fail, Recording
<1>8. ASSUME NEW to \in Gone, Recording(p),
             Recorded!CanTransition(State(p).status, to),
             Start(p, Op("release", "create", "-", Released(State(p), to)))
      PROVE  Judged
  <2>1. PICK next : next = Released(State(p), to)
    OBVIOUS
  <2>2. \A o : o.kind = "release" /\ o.next = next => Asked(State(p), o)
    BY <1>5, <1>8, <2>1 DEF Asked, Gone
  <2> QED
    BY <1>1, <1>8, <2>1, <2>2 DEF Recording
<1> QED
  BY <1>2, <1>3, <1>4, <1>6, <1>7, <1>8 DEF Capture, Expire, Delete, Gone, Judged

LEMMA JudgedView ==
  ASSUME BaseInv, [Next]_vars, NEW p \in Procs, View(p), Capture(p) \/ Expire(p) \/ Delete(p)
  PROVE  View(p)'
<1>1. UNCHANGED <<phase, held, damaged>> /\ Ready(p)
  BY JudgedWorks
<1>2. phase[p] = "up" /\ ~damaged[p] /\ op[p] = Idle
  BY <1>1 DEF Ready
<1>3. CASE \E m \in Media : RetainDuplicate(p, m)
  <2>1. op'[p] = Idle
    BY <1>2, <1>3 DEF RetainDuplicate
  <2> QED
    BY <1>1, <1>2, <2>1, Rests, Serving
<1> QED
  BY <1>1, <1>2, <1>3, JudgedWorks, Serving

\* Verification settles which way a finalisation goes.
LEMMA Verified ==
  ASSUME BaseInv, NEW p \in Procs, View(p), Verify(p)
  PROVE  /\ op'[p].step = "create" /\ op'[p].kind = "finalise"
         /\ op'[p].next.media = State(p).media
         /\ Asked(State(p), op'[p])
<1>0. op[p].step = "verify" /\ op[p].kind = "finalise"
  BY DEF Verify, At
<1>1. Asked(State(p), op[p])
  BY <1>0, AtWork DEF Working
<1>2. State(p).status = "recording" /\ op[p].next.media = State(p).media
  BY <1>0, <1>1 DEF Asked
<1>3. /\ op'[p].step = "create" /\ op'[p].kind = "finalise"
      /\ op'[p].next.media = State(p).media
      /\ op'[p].next.status = "failed" \/ op'[p].next = op[p].next
  <2>1. CASE Go(p, "create")
    BY <1>0, <1>2, <2>1, TurnedStep
  <2>2. CASE op' = [op EXCEPT ![p].step = "create", ![p].next = Moved(op[p].next, "failed")]
    <3>1. PICK next : next = Moved(op[p].next, "failed")
      OBVIOUS
    <3>2. next.status = "failed" /\ next.media = op[p].next.media
      BY <3>1, Facts DEF Moved, Doc
    <3>3. op \in [Procs -> Operations] /\ op[p] \in AnyOperation
      BY Facts
    <3>4. op'[p] = [op[p] EXCEPT !.step = "create", !.next = next]
      BY <2>2, <3>1, <3>3
    <3> QED
      BY <1>0, <1>2, <3>2, <3>3, <3>4 DEF AnyOperation
  <2> QED
    BY <2>1, <2>2 DEF Verify
<1>4. Asked(State(p), op'[p])
  BY <1>0, <1>1, <1>2, <1>3 DEF Asked
<1> QED
  BY <1>3, <1>4

\* A document read back is what the process wrote, and memory follows it.
LEMMA Confirmed ==
  ASSUME BaseInv, NEW p \in Procs, View(p), Confirm(p)
  PROVE  /\ UNCHANGED <<docs, objects, phase, damaged, races>>
         /\ phase[p] = "up" /\ ~damaged[p] /\ Asked(State(p), op[p])
         /\ \/ Done(p) /\ UNCHANGED <<held, kept>>
            \/ /\ NextGen(p) \in DOMAIN docs /\ docs[NextGen(p)] = op[p].next
               /\ held'[p] = [state |-> op[p].next, gen |-> NextGen(p)]
               /\ State(p)' = op[p].next
               /\ kept' = kept \cup (IF op[p].kind = "retain" THEN {op[p].arg} ELSE {})
               /\ IF op[p].kind = "release" THEN Go(p, "list") ELSE Done(p)
<1>0. op[p].step = "confirm"
  BY DEF Confirm, At
<1>1. phase[p] = "up" /\ ~damaged[p] /\ Asked(State(p), op[p])
  BY <1>0, AtWork DEF Working
<1>2. ASSUME held' = [held EXCEPT ![p] = [state |-> op[p].next, gen |-> NextGen(p)]]
      PROVE  /\ held'[p] = [state |-> op[p].next, gen |-> NextGen(p)]
             /\ State(p)' = op[p].next
  <2>1. held \in [Procs -> [state : Doc, gen : 0..MaxGen]]
    BY DEF BaseInv, Base, Shaped, TypeOK
  <2> QED
    BY <1>2, <2>1 DEF State
<1> QED
  BY <1>1, <1>2 DEF Confirm, store

LEMMA ConfirmView ==
  ASSUME BaseInv, [Next]_vars, NEW p \in Procs, View(p), Confirm(p)
  PROVE  View(p)'
<1>1. /\ UNCHANGED <<docs, phase, damaged>>
      /\ phase[p] = "up" /\ ~damaged[p] /\ Asked(State(p), op[p])
  BY Confirmed
<1>2. Newest' = Newest /\ Truth' = Truth
  BY <1>1, FiledStill DEF BaseInv, Base
<1>3. CASE Done(p) /\ UNCHANGED held
  <2>1. op'[p] = Idle
    BY <1>3, Turned
  <2> QED
    BY <1>1, <1>3, <2>1, Rests, Serving
<1>4. CASE /\ NextGen(p) \in DOMAIN docs /\ docs[NextGen(p)] = op[p].next
           /\ held'[p] = [state |-> op[p].next, gen |-> NextGen(p)]
           /\ State(p)' = op[p].next
           /\ IF op[p].kind = "release" THEN Go(p, "list") ELSE Done(p)
  <2>1. Current(p)' => State(p)' = Truth'
    <3>1. docs # <<>>
      BY <1>4
    <3>2. Truth = docs[Newest]
      BY <3>1, Facts
    <3> QED
      BY <1>2, <1>4, <3>2 DEF Current
  <2>2. Working(State(p), op[p])'
    <3>1. CASE op[p].kind = "release" /\ Go(p, "list")
      <4>1. op'[p].step = "list" /\ op'[p].kind = "release" /\ op'[p].next = op[p].next
        BY <3>1, TurnedStep
      <4>2. op[p].next.media = {} /\ op[p].next.status \in Gone
        BY <1>1, <3>1 DEF Asked
      <4> QED
        BY <1>4, <4>1, <4>2 DEF Working
    <3>2. CASE Done(p)
      <4>1. op'[p] = Idle
        BY <3>2, Turned
      <4> QED
        BY <4>1 DEF Working, Idle
    <3> QED
      BY <1>4, <3>1, <3>2
  <2> QED
    BY <1>1, <2>1, <2>2 DEF View
<1> QED
  BY <1>3, <1>4, Confirmed

\* A sweep belongs to an opening or to a release.
LEMMA Sweeping ==
  ASSUME BaseInv, NEW p \in Procs, View(p), op[p].step = "sweep"
  PROVE  /\ ~damaged[p]
         /\ \/ phase[p] = "loading" /\ op[p].kind = "open" /\ Loading(p)
            \/ phase[p] = "up" /\ op[p].kind = "release" /\ Working(State(p), op[p])
<1>1. op[p] # Idle
  BY DEF Idle
<1> QED
  BY <1>1, Facts DEF View, Resting, Loading, Working

LEMMA RequestView ==
  ASSUME BaseInv, [Next]_vars, NEW p \in Procs, View(p), Request(p)
  PROVE  View(p)'
<1>1. ASSUME Done(p) PROVE op'[p] = Idle
  BY <1>1, Turned
<1>2. CASE Upload(p)
  <2>0. op[p].step = "upload" /\ op[p].kind = "retain"
    BY <1>2, Facts DEF Upload, At, Operations
  <2>1. /\ phase[p] = "up" /\ ~damaged[p] /\ Working(State(p), op[p])
    BY <2>0, AtWork
  <2>2. UNCHANGED <<phase, held, damaged>>
    BY <1>2 DEF Upload
  <2>3. CASE Go(p, "create")
    <3>1. /\ op'[p].step = "create" /\ op'[p].kind = "retain" /\ op'[p].next = op[p].next
          /\ op'[p].arg = op[p].arg
      BY <2>0, <2>3, TurnedStep
    <3>2. Working(State(p), op'[p])
      BY <2>0, <2>1, <3>1 DEF Working, Asked
    <3> QED
      BY <2>1, <2>2, <3>2, Serving
  <2> QED
    BY <1>1, <1>2, <2>1, <2>2, <2>3, Rests, Serving DEF Upload
<1>3. CASE Verify(p)
  <2>1. phase[p] = "up" /\ ~damaged[p]
    BY <1>3, AtWork DEF Verify, At
  <2>2. UNCHANGED <<phase, held, damaged>>
    BY <1>3 DEF Verify
  <2>3. Working(State(p), op'[p])
    BY <1>3, Verified DEF Working
  <2> QED
    BY <2>1, <2>2, <2>3, Serving
<1>4. CASE Create(p)
  <2>1. phase[p] = "up" /\ ~damaged[p] /\ Working(State(p), op[p]) /\ op[p].step = "create"
    BY <1>4, AtWork DEF Create, At
  <2>2. UNCHANGED <<phase, held, damaged>>
    BY <1>4 DEF Create
  <2>3. CASE Go(p, "confirm")
    <3>1. /\ op'[p].step = "confirm" /\ op'[p].kind = op[p].kind /\ op'[p].next = op[p].next
          /\ op'[p].arg = op[p].arg
      BY <2>3, TurnedStep
    <3>2. Working(State(p), op'[p])
      BY <2>1, <3>1 DEF Working, Asked
    <3> QED
      BY <2>1, <2>2, <3>2, Serving
  <2> QED
    BY <1>1, <1>4, <2>1, <2>2, <2>3, Rests, Serving DEF Create
<1>5. CASE Confirm(p)
  BY <1>5, ConfirmView
<1>6. CASE SweepList(p)
  <2>1. phase[p] = "up" /\ ~damaged[p] /\ Working(State(p), op[p]) /\ op[p].step = "list"
    BY <1>6, AtWork DEF SweepList, At
  <2>2. UNCHANGED <<phase, held, damaged>>
    BY <1>6 DEF SweepList
  <2>3. CASE op' = [op EXCEPT ![p].step = "sweep", ![p].todo = objects \ op[p].next.media]
    <3>1. op'[p].step = "sweep" /\ op'[p].kind = op[p].kind /\ op'[p].next = op[p].next
      BY <2>3, Facts DEF AnyOperation
    <3>2. Working(State(p), op'[p])
      BY <2>1, <3>1 DEF Working
    <3> QED
      BY <2>1, <2>2, <3>2, Serving
  <2> QED
    BY <1>1, <1>6, <2>1, <2>2, <2>3, Rests, Serving DEF SweepList
<1>7. CASE SweepObject(p) \/ SweepEnd(p)
  <2>0. op[p].step = "sweep"
    BY <1>7 DEF SweepObject, SweepEnd, At
  <2>1. UNCHANGED <<phase, held, damaged, docs>>
    BY <1>7 DEF SweepObject, SweepEnd, store
  <2>2. /\ State(p)' = State(p) /\ (Current(p)' => Current(p) /\ Truth' = Truth)
        /\ docs' = docs
    BY <2>1, Ageing
  <2>3. CASE phase[p] = "loading" /\ op[p].kind = "open" /\ Loading(p) /\ ~damaged[p]
    <3>1. op'[p].kind = "open" /\ op'[p].step \in {"sweep", "prune"}
      <4>1. CASE SweepObject(p)
        BY <2>0, <2>3, <4>1, Facts DEF SweepObject, AnyOperation
      <4>2. CASE SweepEnd(p)
        BY <2>3, <4>2, TurnedStep DEF SweepEnd
      <4> QED
        BY <1>7, <4>1, <4>2
    <3>2. Loading(p)'
      BY <2>0, <2>1, <2>2, <2>3, <3>1 DEF Loading
    <3> QED
      BY <2>1, <2>3, <3>2 DEF View
  <2>4. CASE phase[p] = "up" /\ op[p].kind = "release" /\ Working(State(p), op[p]) /\ ~damaged[p]
    <3>1. Working(State(p), op'[p])
      <4>1. CASE SweepObject(p)
        <5>1. op'[p].kind = op[p].kind /\ op'[p].step = op[p].step /\ op'[p].next = op[p].next
          BY <4>1, Facts DEF SweepObject, AnyOperation
        <5> QED
          BY <2>0, <2>4, <5>1 DEF Working
      <4>2. CASE SweepEnd(p)
        BY <1>1, <2>4, <4>2, Rests DEF SweepEnd
      <4> QED
        BY <1>7, <4>1, <4>2
    <3> QED
      BY <2>1, <2>4, <3>1, Serving
  <2> QED
    BY <2>0, <2>3, <2>4, Sweeping
<1>8. CASE Prune(p)
  <2>1. Same(p)
    BY <1>8 DEF Prune, Same
  <2> QED
    BY <2>1, ViewStands
<1> QED
  BY <1>2, <1>3, <1>4, <1>5, <1>6, <1>7, <1>8 DEF Request

\* The steps of an opening are taken by a process that loads.
LEMMA Opening ==
  ASSUME BaseInv, NEW p \in Procs, View(p), op[p].step \in {"read", "intact", "prune"}
  PROVE  phase[p] = "loading" /\ ~damaged[p] /\ Loading(p)
<1>1. op[p] # Idle
  BY DEF Idle
<1> QED
  BY <1>1, Facts DEF View, Resting, Working

LEMMA LifetimeView ==
  ASSUME BaseInv, [Next]_vars, NEW p \in Procs, View(p), Lifetime(p)
  PROVE  View(p)'
<1>0. /\ Newest \in Nat /\ op[p] \in AnyOperation
      /\ docs = <<>> => Newest = 0 /\ Truth = None
      /\ docs # <<>> => Newest # 0 /\ Truth = docs[Newest]
      /\ op \in [Procs -> Operations] /\ DOMAIN held = Procs /\ DOMAIN phase = Procs
      /\ DOMAIN damaged = Procs
      /\ held[p] = [state |-> State(p), gen |-> held[p].gen]
      /\ held \in [Procs -> [state : Doc, gen : 0..MaxGen]]
  BY Facts DEF BaseInv, Base, Shaped, TypeOK
<1>2. UNCHANGED docs
  BY DEF Lifetime, Open, OpenRead, OpenVerify, OpenEnd, Crash, store
<1>3. Newest' = Newest /\ Truth' = Truth
  BY <1>2, FiledStill DEF BaseInv, Base
<1>5. ASSUME Refused(p), docs # <<>> PROVE View(p)'
  <2>1. /\ op'[p] = Idle /\ damaged'[p] /\ phase'[p] = "up" /\ held'[p] = Blank
    BY <1>0, <1>5, Turned DEF Refused, Blank
  <2>2. Resting(p)'
    BY <2>1 DEF Resting, Blank, Idle, None
  <2> QED
    BY <1>2, <1>5, <2>1, <2>2 DEF View
<1>6. CASE Open(p)
  <2>1. phase[p] = "down" /\ op[p] = Idle /\ held[p] = Blank /\ ~damaged[p]
    BY <1>6 DEF Open, View, Resting
  <2>2. UNCHANGED damaged
    BY <1>6 DEF Open
  <2>3. CASE docs = <<>>
    <3>1. phase'[p] = "up" /\ op'[p] = Idle /\ held'[p] = Blank
      BY <1>0, <1>6, <2>1, <2>3 DEF Open
    <3>2. State(p)' = Truth'
      BY <1>0, <1>3, <2>3, <3>1 DEF State, Blank
    <3>3. Working(State(p), op[p])'
      BY <3>1 DEF Working, Idle
    <3> QED
      BY <2>1, <2>2, <3>1, <3>2, <3>3 DEF View
  <2>4. CASE docs # <<>>
    <3>1. PICK o : o = [Op("open", "read", "-", None) EXCEPT !.todo = objects]
      OBVIOUS
    <3>2. o.kind = "open" /\ o.step = "read"
      BY <3>1 DEF Op
    <3>3. /\ phase'[p] = "loading" /\ op'[p] = o /\ held'[p] = [Blank EXCEPT !.gen = Newest]
      BY <1>0, <1>6, <2>1, <2>4, <3>1 DEF Open
    <3>4. State(p)' = None /\ held'[p].gen = Newest
      BY <3>3 DEF State, Blank
    <3>5. Loading(p)'
      BY <1>0, <1>2, <2>4, <3>2, <3>3, <3>4 DEF Loading, None
    <3> QED
      BY <2>1, <2>2, <3>3, <3>5 DEF View
  <2> QED
    BY <2>3, <2>4
<1>7. CASE OpenRead(p)
  <2>1. op[p].step = "read"
    BY <1>7 DEF OpenRead, At
  <2>2. phase[p] = "loading" /\ ~damaged[p] /\ Loading(p) /\ docs # <<>>
    BY <2>1, Opening DEF Loading
  <2>3. CASE /\ op' = [op EXCEPT ![p].step = "intact", ![p].next = docs[held[p].gen]]
             /\ held[p].gen \in DOMAIN docs
             /\ UNCHANGED <<phase, held, damaged>>
    <3>1. held[p].gen # 0 /\ State(p) = None /\ op[p].kind = "open"
      BY <2>1, <2>2 DEF Loading
    <3>2. op'[p].step = "intact" /\ op'[p].next = docs[held[p].gen] /\ op'[p].kind = "open"
      BY <1>0, <2>3, <3>1 DEF AnyOperation
    <3>3. State(p)' = None
      BY <2>3, <3>1 DEF State
    <3>4. Current(p)' => op'[p].next = Truth'
      BY <1>0, <1>3, <2>2, <2>3, <3>2 DEF Current
    <3>5. Loading(p)'
      BY <1>2, <2>2, <2>3, <3>1, <3>2, <3>3, <3>4 DEF Loading, None
    <3> QED
      BY <2>2, <2>3, <3>5 DEF View
  <2> QED
    BY <1>5, <1>7, <2>2, <2>3 DEF OpenRead
<1>8. CASE OpenVerify(p)
  <2>1. op[p].step = "intact"
    BY <1>8 DEF OpenVerify, At
  <2>2. phase[p] = "loading" /\ ~damaged[p] /\ Loading(p) /\ docs # <<>>
    BY <2>1, Opening DEF Loading
  <2>3. CASE /\ held' = [held EXCEPT ![p].state = op[p].next]
             /\ op' = [op EXCEPT ![p].step = "sweep", ![p].todo = @ \ op[p].next.media]
             /\ UNCHANGED <<phase, damaged>>
    <3>1. /\ held[p].gen # 0 /\ op[p].kind = "open"
          /\ Current(p) => op[p].next = Truth
      BY <2>1, <2>2 DEF Loading
    <3>2. op'[p].step = "sweep" /\ op'[p].kind = "open"
      BY <1>0, <2>3, <3>1 DEF AnyOperation
    <3>3. State(p)' = op[p].next /\ held'[p].gen = held[p].gen
      BY <1>0, <2>3 DEF State
    <3>4. Current(p)' => State(p)' = Truth'
      BY <1>3, <3>1, <3>3 DEF Current
    <3>5. Loading(p)'
      BY <1>2, <2>2, <3>1, <3>2, <3>3, <3>4 DEF Loading
    <3> QED
      BY <2>2, <2>3, <3>5 DEF View
  <2> QED
    BY <1>5, <1>8, <2>2, <2>3 DEF OpenVerify
<1>9. CASE OpenEnd(p)
  <2>1. op[p].step = "prune"
    BY <1>9 DEF OpenEnd, At
  <2>2. phase[p] = "loading" /\ ~damaged[p] /\ (Current(p) => State(p) = Truth)
    BY <2>1, Opening DEF Loading
  <2>3. /\ phase'[p] = "up" /\ op'[p] = Idle /\ UNCHANGED <<held, damaged>>
    BY <1>0, <1>9, Turned DEF OpenEnd
  <2>4. Current(p)' => State(p)' = Truth'
    BY <1>3, <2>2, <2>3 DEF Current, State
  <2>5. Working(State(p), op[p])'
    BY <2>3 DEF Working, Idle
  <2> QED
    BY <2>2, <2>3, <2>4, <2>5 DEF View
<1>10. CASE Crash(p)
  <2>1. /\ phase'[p] = "down" /\ op'[p] = Idle /\ held'[p] = Blank /\ damaged'[p] = FALSE
    BY <1>0, <1>10 DEF Crash, Blank
  <2>2. Resting(p)'
    BY <2>1 DEF Resting, Blank, Idle, None
  <2> QED
    BY <2>1, <2>2 DEF View
<1> QED
  BY <1>6, <1>7, <1>8, <1>9, <1>10 DEF Lifetime

LEMMA ViewsHold == Spec => []Views
<1>1. Init => Views
  <2> SUFFICES ASSUME Init, NEW p \in Procs PROVE View(p)
    BY DEF Views
  <2> QED
    BY DEF Init, View, Resting, Blank
<1>2. BaseInv /\ Views /\ [Next]_vars => Views'
  <2> SUFFICES ASSUME BaseInv, Views, [Next]_vars, NEW q \in Procs PROVE View(q)'
    BY DEF Views
  <2>0. View(q)
    BY DEF Views
  <2>1. CASE UNCHANGED vars
    <3>1. Same(q)
      BY <2>1 DEF vars, Same
    <3> QED
      BY <2>0, <3>1, ViewStands
  <2>2. ASSUME NEW p \in Procs, Step(p) PROVE View(q)'
    <3>1. CASE q # p
      BY <2>0, <2>2, <3>1, Apart, ViewStands
    <3>2. CASE q = p
      BY <2>0, <2>2, <3>2, JudgedView, RequestView, LifetimeView DEF Step
    <3> QED
      BY <3>1, <3>2
  <2> QED
    BY <2>1, <2>2 DEF Next, Step
<1> QED
  BY <1>1, <1>2, BaseInvHolds, PTL DEF Spec

-----------------------------------------------------------------------------
(* What follows for the newest document.                                    *)

LEMMA TruthMoves ==
  ASSUME BaseInv, Views, [Next]_vars
  PROVE  \/ Truth' = Truth
         \/ \E p \in Procs : /\ At(p, "create") /\ Truth' = op[p].next
                            /\ held[p] = [state |-> Truth, gen |-> Newest]
                            /\ State(p) = Truth /\ Asked(State(p), op[p])
<1>1. ASSUME NEW p \in Procs, Create(p), OnTop(p)
      PROVE  /\ At(p, "create") /\ Truth' = op[p].next
             /\ held[p] = [state |-> Truth, gen |-> Newest]
             /\ State(p) = Truth /\ Asked(State(p), op[p])
  <2>1. At(p, "create") /\ op[p].step = "create" /\ View(p)
    BY <1>1 DEF Create, At, Views
  <2>2. Working(State(p), op[p]) /\ (Current(p) => State(p) = Truth)
    BY <2>1, AtWork
  <2>3. Current(p) /\ Truth' = op[p].next
    BY <1>1 DEF OnTop
  <2>4. held[p] = [state |-> State(p), gen |-> held[p].gen]
    BY Facts
  <2> QED
    BY <2>1, <2>2, <2>3, <2>4 DEF Working, Current
<1>2. CASE Still
  BY <1>2 DEF Still
<1>3. CASE \E p \in Procs : Create(p) /\ OnTop(p)
  <2>1. PICK p \in Procs : Create(p) /\ OnTop(p)
    BY <1>3
  <2> QED
    BY <1>1, <2>1
<1> QED
  BY <1>2, <1>3, NewestMoves

\* Whoever changes the newest document held it in memory: the conditional create
\* of persist refuses a process whose memory is older, or files what it writes
\* below the newest document, and pruning uncovers no older one, however many
\* processes write, prune and die over the bucket.
THEOREM StaleWriterLoses == DeletionSpec => StaleLoses
<1>1. BaseInv /\ Views /\ [Next]_vars
        => [Truth' # Truth =>
              \E p \in Procs : /\ At(p, "create") /\ Truth' = op[p].next
                               /\ held[p] = [state |-> Truth, gen |-> Newest]]_vars
  BY TruthMoves
<1> QED
  BY <1>1, BaseInvHolds, ViewsHold, DeletionKeepsArchive, PTL DEF Spec, StaleLoses

LEMMA AskedLives ==
  ASSUME BaseInv, NEW p \in Procs,
         State(p) = Truth, Asked(State(p), op[p]), Truth' = op[p].next
  PROVE  Recorded!Next
<1>1. State(p) = Truth /\ op[p] \in Operations
  BY Facts
<1>2. Recorded!CanTransition("recording", "processing") /\ Recorded!CanTransition("recording", "failed")
  <2>1. PICK s : s = [status |-> "recording", media |-> {}, policy |-> "keep"]
    OBVIOUS
  <2>2. s \in Doc /\ s.status = "recording"
    BY <2>1 DEF Doc
  <2> QED
    BY <2>2, Moves
<1>3. CASE op[p].kind = "begin" /\ Truth.status = "none"
           /\ op[p].next.status = "recording" /\ op[p].next.media = {}
  <2>1. Truth.media = {}
    <3>1. docs = <<>>
      BY <1>3, Facts
    <3>2. Truth = None
      BY <3>1, Facts
    <3> QED
      BY <3>2 DEF None
  <2> QED
    BY <1>3, <2>1 DEF Recorded!Next, Recorded!Begin
<1>4. CASE op[p].kind = "retain" /\ Truth.status = "recording"
           /\ op[p].next.status = "recording" /\ op[p].next.media = Truth.media \cup {op[p].arg}
  <2>1. op[p].arg \in Recorded!Media
    BY <1>1, <1>4 DEF Operations, Recorded!Media, Media
  <2>2. Recorded!Retain(op[p].arg)
    BY <1>4 DEF Recorded!Retain
  <2> QED
    BY <2>1, <2>2 DEF Recorded!Next
<1>5. CASE Truth.status = "recording" /\ Recorded!Playable(Truth.media)
           /\ op[p].next.status = "available" /\ op[p].next.media = Truth.media
  BY <1>2, <1>5 DEF Recorded!Next, Recorded!Finalise
<1>6. CASE Truth.status = "recording"
           /\ op[p].next.status = "failed" /\ op[p].next.media = Truth.media
  BY <1>2, <1>6 DEF Recorded!Next, Recorded!Fail
<1>7. CASE op[p].next.status \in Gone /\ op[p].next.media = {}
           /\ Recorded!CanTransition(Truth.status, op[p].next.status)
  <2>1. PICK to \in {"expired", "deleted"} : op[p].next.status = to
    BY <1>7 DEF Gone
  <2>2. Recorded!Release(to)
    BY <1>7, <2>1 DEF Recorded!Release
  <2> QED
    BY <2>2 DEF Recorded!Next
<1> QED
  BY <1>1, <1>3, <1>4, <1>5, <1>6, <1>7 DEF Asked

\* The archive implements the declared life of a replay: whatever the store loses
\* or refuses, whichever process writes and wherever it dies, the newest document
\* makes no move that lifecycle.ts does not list.
THEOREM LivesAsDeclared == DeletionSpec => FollowsLifecycle
<1>1. Init => Recorded!Init
  BY DEF Init, Recorded!Init, Truth, None
<1>2. BaseInv /\ Views /\ [Next]_vars => [Recorded!Next]_(Recorded!vars)
  <2> SUFFICES ASSUME BaseInv, Views, [Next]_vars
               PROVE  Recorded!Next \/ UNCHANGED Recorded!vars
    OBVIOUS
  <2>1. CASE Truth' = Truth
    BY <2>1 DEF Recorded!vars
  <2> QED
    BY <2>1, TruthMoves, AskedLives
<1> QED
  BY <1>1, <1>2, BaseInvHolds, ViewsHold, DeletionKeepsArchive, PTL
     DEF Spec, FollowsLifecycle, Recorded!Spec

\* What the declared life promises, for every set of media.
LifeInv == Recorded!TypeOK /\ Recorded!ServedIsPlayable

LEMMA LifeBegins == Recorded!Init => LifeInv
BY DEF Recorded!Init, LifeInv, Recorded!TypeOK, Recorded!ServedIsPlayable

LEMMA LifeGoesOn == LifeInv /\ [Recorded!Next]_(Recorded!vars) => LifeInv'
<1> SUFFICES ASSUME LifeInv, [Recorded!Next]_(Recorded!vars) PROVE LifeInv'
  OBVIOUS
<1> USE DEF LifeInv, Recorded!TypeOK, Recorded!ServedIsPlayable
<1>1. CASE Recorded!Begin
  BY <1>1 DEF Recorded!Begin, Recorded!Statuses
<1>2. ASSUME NEW m \in Recorded!Media, Recorded!Retain(m) PROVE LifeInv'
  BY <1>2 DEF Recorded!Retain, Recorded!Statuses
<1>3. CASE Recorded!Finalise
  BY <1>3 DEF Recorded!Finalise, Recorded!Statuses, Recorded!Playable
<1>4. CASE Recorded!Fail
  BY <1>4 DEF Recorded!Fail, Recorded!Statuses
<1>5. ASSUME NEW to \in {"expired", "deleted"}, Recorded!Release(to) PROVE LifeInv'
  BY <1>5 DEF Recorded!Release, Recorded!Statuses
<1>6. CASE UNCHANGED Recorded!vars
  BY <1>6 DEF Recorded!vars, Recorded!Playable
<1> QED
  BY <1>1, <1>2, <1>3, <1>4, <1>5, <1>6 DEF Recorded!Next

\* So what is served decodes from its first segment to its last, and what was let
\* go holds nothing, in the newest document of every reachable state and with any
\* number of processes: finalise and releaseMedia of recording.ts.
THEOREM ServedFromStore == DeletionSpec => [](Recorded!TypeOK /\ Recorded!ServedIsPlayable)
<1>1. DeletionSpec => Recorded!Spec
  BY LivesAsDeclared DEF FollowsLifecycle
<1>2. LifeInv => Recorded!TypeOK /\ Recorded!ServedIsPlayable
  BY DEF LifeInv
<1> QED
  BY <1>1, <1>2, LifeBegins, LifeGoesOn, PTL DEF Recorded!Spec

\* No move of REPLAY_TRANSITIONS leads out of deleted, back to recording, or
\* from failed or expired to available.
LEMMA NoWayBack ==
  /\ ~\E to : Recorded!CanTransition("deleted", to)
  /\ \A from \in {"available", "failed", "expired"} :
       /\ ~Recorded!CanTransition(from, "processing")
       /\ ~Recorded!CanTransition(from, "failed")
  /\ ~Recorded!CanTransition("failed", "expired")
BY DEF Recorded!CanTransition, Recorded!Transitions, Recorded!Statuses

\* A removed replay never returns and an ended broadcast is never reopened, in the
\* newest document of the store, whichever process wrote it: the table of
\* lifecycle.ts, kept by release and finalise across lost answers, crashes and
\* stale writers.
THEOREM NothingReturns == DeletionSpec => Recorded!NeverResurrected
<1> DEFINE from == Truth.status
           back == /\ from = "deleted" => from' = "deleted"
                   /\ from \in {"available", "failed", "expired"} => from' # "recording"
                   /\ from \in {"failed", "expired"} => from' # "available"
<1>1. Recorded!Next => back
  <2> SUFFICES ASSUME Recorded!Next PROVE back
    OBVIOUS
  <2>1. CASE Recorded!Begin
    BY <2>1 DEF Recorded!Begin
  <2>2. ASSUME NEW m \in Recorded!Media, Recorded!Retain(m)
        PROVE  from = "recording" /\ from' = "recording"
    BY <2>2 DEF Recorded!Retain
  <2>3. CASE Recorded!Finalise
    BY <2>3, NoWayBack DEF Recorded!Finalise
  <2>4. CASE Recorded!Fail
    BY <2>4, NoWayBack DEF Recorded!Fail
  <2>5. ASSUME NEW to \in {"expired", "deleted"}, Recorded!Release(to)
        PROVE  from' = to /\ from # "deleted"
    BY <2>5, NoWayBack DEF Recorded!Release
  <2> QED
    BY <2>1, <2>2, <2>3, <2>4, <2>5 DEF Recorded!Next
<1>2. DeletionSpec => Recorded!Spec
  BY LivesAsDeclared DEF FollowsLifecycle
<1>3. [Recorded!Next]_(Recorded!vars) => [back]_(Recorded!vars)
  BY <1>1
<1> QED
  BY <1>2, <1>3, PTL DEF Recorded!Spec, Recorded!NeverResurrected
-----------------------------------------------------------------------------
(* The worker's look at the archive stays true until it acts on it: from    *)
(* the moment a run is found to have ended, the process that found it so    *)
(* holds an ended recording, whatever is still queued on the run's chain    *)
(* and whatever the other processes do.                                     *)

Ended == {"available", "failed", "expired", "deleted"}

Patient(p) == /\ worker[p] = "queued" => State(p).status \in Ended
              /\ op[p].kind = "release" => State(p).status \in Ended

\* A step of an operation ends it or leaves it what it was, and memory is moved
\* only when a document just written is read back.
LEMMA RequestTurns ==
  ASSUME BaseInv, Views, NEW p \in Procs, Request(p)
  PROVE  /\ op'[p].kind \in {op[p].kind, "idle"}
         /\ \/ State(p)' = State(p)
            \/ State(p)' = op[p].next /\ Asked(State(p), op[p])
<1>0. op \in [Procs -> Operations] /\ op[p] \in AnyOperation /\ View(p)
  BY Facts DEF Views
<1>1. ASSUME Done(p) PROVE op'[p].kind = "idle"
  BY <1>1, Turned DEF Idle
<1>2. ASSUME NEW step, Go(p, step) PROVE op'[p].kind = op[p].kind
  BY <1>2, TurnedStep
<1>3. CASE Upload(p) \/ SweepEnd(p)
  BY <1>1, <1>2, <1>3 DEF Upload, SweepEnd, State
<1>4. CASE SweepList(p)
  <2>1. CASE op' = [op EXCEPT ![p].step = "sweep", ![p].todo = objects \ op[p].next.media]
    BY <1>0, <1>4, <2>1 DEF SweepList, State, AnyOperation
  <2> QED
    BY <1>1, <1>4, <2>1 DEF SweepList, State
<1>5. CASE Verify(p)
  <2>1. op'[p].kind \in {op[p].kind, "idle"}
    BY <1>0, <1>2, <1>5 DEF Verify, AnyOperation
  <2> QED
    BY <1>5, <2>1 DEF Verify, State
<1>6. CASE Create(p)
  BY <1>1, <1>2, <1>6 DEF Create, State
<1>7. CASE Confirm(p)
  BY <1>0, <1>1, <1>2, <1>7, Confirmed DEF State
<1>8. CASE SweepObject(p)
  <2>1. op'[p].kind = op[p].kind
    BY <1>0, <1>8 DEF SweepObject, AnyOperation
  <2> QED
    BY <1>8, <2>1 DEF SweepObject, State
<1>9. CASE Prune(p)
  BY <1>9 DEF Prune, State
<1> QED
  BY <1>3, <1>4, <1>5, <1>6, <1>7, <1>8, <1>9 DEF Request

\* Nothing is released while the archive opens.
LEMMA LifetimeTurns ==
  ASSUME BaseInv, Views, NEW p \in Procs, Lifetime(p)
  PROVE  op'[p].kind # "release"
<1>0. op \in [Procs -> Operations] /\ op[p] \in AnyOperation /\ View(p)
  BY Facts DEF Views
<1>1. CASE Done(p)
  BY <1>1, Turned DEF Idle
<1>2. CASE Open(p)
  <2>1. op[p] = Idle
    BY <1>0, <1>2 DEF Open, View, Resting
  <2>2. CASE UNCHANGED op
    BY <2>1, <2>2 DEF Idle
  <2>3. CASE op' = [op EXCEPT ![p] = [Op("open", "read", "-", None) EXCEPT !.todo = objects]]
    BY <1>0, <2>3 DEF Op
  <2> QED
    BY <1>2, <2>2, <2>3 DEF Open
<1>3. CASE OpenRead(p) \/ OpenVerify(p)
  <2>1. op[p].kind = "open"
    BY <1>0, <1>3, Opening DEF OpenRead, OpenVerify, At, Loading
  <2>2. op'[p].kind = op[p].kind \/ Done(p)
    BY <1>0, <1>3 DEF OpenRead, OpenVerify, Refused, AnyOperation
  <2> QED
    BY <1>1, <2>1, <2>2
<1>4. CASE Crash(p)
  BY <1>0, <1>4 DEF Crash, Idle
<1> QED
  BY <1>1, <1>2, <1>3, <1>4 DEF Lifetime, OpenEnd

\* What is asked of the archive moves no memory, and lets go only of what is over.
LEMMA CaptureTurns ==
  ASSUME BaseInv, NEW p \in Procs, Capture(p) \/ Expire(p)
  PROVE  /\ State(p)' = State(p)
         /\ op'[p].kind = "release" => State(p).status \in Ended \/ op[p].kind = "release"
<1>0. State(p) \in Doc
  BY Facts
<1>1. UNCHANGED held
  BY DEF Capture, Begin, Retain, RetainDuplicate, Finalise, Fail, Expire, Start
<1>2. ASSUME NEW kind, NEW step, NEW arg, NEW next, Start(p, Op(kind, step, arg, next))
      PROVE  op'[p].kind = kind
  BY <1>2, Turned DEF Op
<1>3. CASE Expire(p)
  <2>1. State(p).status = "available"
    BY <1>0, <1>3, Moves DEF Expire
  <2> QED
    BY <1>1, <2>1 DEF State, Ended
<1>4. CASE Capture(p)
  <2>1. op'[p].kind # "release" \/ UNCHANGED op
    BY <1>2, <1>4 DEF Capture, Begin, Retain, RetainDuplicate, Finalise, Fail
  <2> QED
    BY <1>1, <2>1 DEF State
<1> QED
  BY <1>3, <1>4

Places == worker \in [Procs -> {"idle", "claimed", "queued", "deleting"}]
Waits == \A p \in Procs : Patient(p)

\* A step of the deletion is one process's, like the archive's.
Deals(p) ==
  \/ (Capture(p) \/ Expire(p) \/ Request(p)) /\ UNCHANGED queue
  \/ Lifetime(p) /\ worker' = [worker EXCEPT ![p] = "idle"] /\ UNCHANGED request
  \/ Claim(p) \/ Judge(p) \/ CallDelete(p) \/ Answered(p)

LEMMA DealsApart ==
  ASSUME BaseInv, Places, NEW p \in Procs, Deals(p), NEW q \in Procs, q # p, Patient(q)
  PROVE  Patient(q)'
<1>1. Same(q)
  <2>1. CASE Step(p)
    BY <2>1, Apart
  <2>2. CASE UNCHANGED vars
    BY <2>2 DEF vars, Same
  <2> QED
    BY <2>1, <2>2 DEF Deals, Step, Claim, Judge, CallDelete, Answered
<1>2. worker'[q] = "queued" => worker[q] = "queued"
  <2>1. ASSUME NEW as, Settle(p, as) \/ Wait(p, as) PROVE worker'[q] = worker[q]
    BY <2>1 DEF Settle, Wait, Places
  <2>2. CASE Judge(p) \/ CallDelete(p) \/ Answered(p)
    BY <2>1, <2>2 DEF Judge, CallDelete, Answered
  <2> QED
    BY <2>2 DEF Deals, Claim, queue, Places
<1> QED
  BY <1>1, <1>2 DEF Patient, Same, State

LEMMA PatientKept ==
  ASSUME BaseInv, Views, Places, NEW p \in Procs, Deals(p), Patient(p)
  PROVE  Patient(p)'
<1>3. State(p) \in Doc /\ State(p).status \in Ended \cup {"none", "recording"}
  BY Facts DEF Doc, Ended
<1>4. CASE (Capture(p) \/ Expire(p)) /\ UNCHANGED queue
  <2>1. UNCHANGED worker
    BY <1>4 DEF queue
  <2> QED
    BY <1>4, <2>1, CaptureTurns DEF Patient
<1>5. CASE Request(p) /\ UNCHANGED queue
  <2>1. UNCHANGED worker
    BY <1>5 DEF queue
  <2>2. Asked(State(p), op[p]) /\ State(p).status \in Ended => op[p].next.status \in Ended
    BY DEF Asked, Ended, Gone
  <2>3. State(p).status \in Ended => State(p)'.status \in Ended
    BY <1>5, <2>2, RequestTurns
  <2>4. op'[p].kind = "release" => op[p].kind = "release"
    BY <1>5, RequestTurns
  <2> QED
    BY <2>1, <2>3, <2>4 DEF Patient
<1>6. CASE Lifetime(p) /\ worker' = [worker EXCEPT ![p] = "idle"]
  <2>1. worker'[p] = "idle"
    BY <1>6 DEF Places
  <2> QED
    BY <1>6, <2>1, LifetimeTurns DEF Patient
<1>7. ASSUME UNCHANGED <<op, held>>, worker'[p] = "queued" => State(p).status \in Ended
      PROVE  Patient(p)'
  BY <1>7 DEF Patient, State
<1>8. ASSUME NEW as, Settle(p, as) PROVE worker'[p] # "queued"
  BY <1>8 DEF Settle, Places
<1>9. CASE Claim(p) \/ Answered(p)
  <2>1. UNCHANGED <<op, held>>
    BY <1>9 DEF Claim, Answered, vars
  <2>2. worker'[p] = "queued" => worker[p] = "queued"
    BY <1>8, <1>9 DEF Claim, Answered, Places
  <2> QED
    BY <1>7, <2>1, <2>2 DEF Patient
<1>10. CASE Judge(p)
  <2>1. UNCHANGED <<op, held>>
    BY <1>10 DEF Judge, vars
  <2>2. State(p).status \notin Ended => Settle(p, "none") \/ Settle(p, "pending")
    BY <1>3, <1>10 DEF Judge
  <2> QED
    BY <1>7, <1>8, <2>1, <2>2
<1>11. CASE CallDelete(p)
  <2>1. State(p).status \in Ended
    BY <1>11 DEF CallDelete, Patient
  <2>2. UNCHANGED held
    BY <1>11 DEF CallDelete, Delete, Start, vars
  <2> QED
    BY <2>1, <2>2 DEF Patient, State
<1> QED
  BY <1>4, <1>5, <1>6, <1>9, <1>10, <1>11 DEF Deals

\* Nothing but a finished recording is ever recorded as deleted, whatever was asked
\* between a worker's look at the archive and its call, and whichever process the
\* worker is in: deleteOne of lifecycle-worker.ts, with release judged at the head
\* of the run's chain and refused if the broadcast wrote since.
THEOREM LiveIsSpared == DeletionSpec => BroadcastNotDestroyed
<1>1. DeletionInit => Waits
  BY DEF DeletionInit, Init, Patient, Idle, Waits
<1>2. DeletionTypeOK => Places
  BY DEF DeletionTypeOK, Places
<1>3. BaseInv /\ Views /\ Places /\ Waits /\ [DeletionNext]_allvars => Waits'
  <2> SUFFICES ASSUME BaseInv, Views, Places, Waits, [DeletionNext]_allvars, NEW q \in Procs
               PROVE  Patient(q)'
    BY DEF Waits
  <2>0. Patient(q)
    BY DEF Waits
  <2>1. CASE AskDelete \/ LeaseLapses \/ UNCHANGED allvars
    BY <2>0, <2>1 DEF AskDelete, LeaseLapses, allvars, queue, vars, Patient, State
  <2>2. ASSUME NEW p \in Procs, Deals(p) PROVE Patient(q)'
    BY <2>0, <2>2, DealsApart, PatientKept
  <2> QED
    BY <2>1, <2>2 DEF DeletionNext, Deals
<1>4. BaseInv /\ Views /\ Waits /\ [DeletionNext]_allvars
        => [Truth'.status = "deleted" => Truth.status # "recording"]_allvars
  <2> SUFFICES ASSUME BaseInv, Views, Waits, [DeletionNext]_allvars,
                      Truth'.status = "deleted", Truth.status = "recording"
               PROVE  FALSE
    OBVIOUS
  <2>1. PICK p \in Procs : State(p) = Truth /\ Asked(State(p), op[p]) /\ Truth' = op[p].next
    BY DeletionSteps, TruthMoves
  <2>2. op[p].kind = "release"
    BY <2>1 DEF Asked
  <2>3. State(p).status \in Ended /\ State(p) = Truth
    BY <2>1, <2>2 DEF Patient, Waits
  <2> QED
    BY <2>3 DEF Ended
<1>5. DeletionSpec => []DeletionTypeOK /\ []BaseInv /\ []Views
  BY TypeCorrect, BaseInvHolds, ViewsHold, DeletionKeepsArchive, PTL
<1> QED
  BY <1>1, <1>2, <1>3, <1>4, <1>5, PTL DEF DeletionSpec, BroadcastNotDestroyed

-----------------------------------------------------------------------------
(* What was acknowledged.  Unless a document is buried, every document was  *)
(* once the newest, so it and every memory of it lie before the newest one: *)
(* while that keeps media it keeps all of theirs, and once one of them let  *)
(* its media go it has too.                                                 *)

Before(s, t) == /\ t.status \in Keeps => s.media \subseteq t.media
                /\ s.status \in Gone => t.status \in Gone

Passed(p) == /\ Before(State(p), Truth)
             /\ op[p].step = "intact" => Before(op[p].next, Truth)

Succeeded ==
  /\ docs = <<>> => kept = {}
  /\ Truth.status \in Keeps => kept \subseteq Truth.media
  /\ Truth.status \in Gone => Truth.media = {}
  /\ \A g \in DOMAIN docs : Before(docs[g], Truth)
  /\ \A p \in Procs : Passed(p)

LEMMA BeforeAll == \A t : Before(None, t) /\ Before(t, t)
BY DEF Before, None, Keeps, Gone

\* Before the first document nobody holds anything.
LEMMA NothingYet ==
  ASSUME BaseInv, Views, docs = <<>>, NEW p \in Procs
  PROVE  State(p) = None /\ op[p].step # "intact"
<1>1. View(p) /\ held[p].gen = 0 /\ Newest = 0 /\ Truth = None /\ phase[p] \in {"down", "loading", "up"}
  <2>1. Newest = 0 /\ Truth = None
    BY Facts
  <2>2. held[p].gen \in Nat /\ held[p].gen <= Newest /\ phase[p] \in {"down", "loading", "up"}
    BY Facts
  <2> QED
    BY <2>1, <2>2 DEF Views
<1>2. CASE Resting(p)
  BY <1>2 DEF Resting, Blank, Idle, State
<1>3. CASE phase[p] = "up" /\ ~damaged[p]
  BY <1>1, <1>3 DEF View, Working, Current
<1> QED
  BY <1>1, <1>2, <1>3 DEF View, Loading

\* The newest document follows the one it replaces.
LEMMA Follows ==
  ASSUME BaseInv, NEW p \in Procs, Asked(Truth, op[p])
  PROVE  /\ op[p].next.status \in Gone => op[p].next.media = {}
         /\ Truth.status # "none" =>
              \A s : Before(s, Truth) => Before(s, op[p].next)
         /\ op[p].kind # "retain" /\ Truth.status # "none" => op[p].next.media \subseteq Truth.media
         /\ op[p].kind = "retain" => Truth.status = "recording"
<1>1. Truth \in Doc /\ op[p].next \in Doc
  BY Facts
<1>2. Truth.status \in Keeps \cup Gone \cup {"none"} /\ Keeps \cap Gone = {}
  BY <1>1 DEF Doc, Keeps, Gone
<1>3. Truth.status \in Gone => op[p].next.status \in Gone
  BY DEF Asked, Gone
<1>4. Truth.status # "none" /\ op[p].next.status \in Keeps
        => Truth.status \in Keeps /\ Truth.media \subseteq op[p].next.media
  <2>1. op[p].next.status \in Keeps /\ Truth.status # "none" => Truth.status = "recording"
                                                         /\ Truth.media \subseteq op[p].next.media
    BY DEF Asked, Keeps, Gone
  <2> QED
    BY <2>1 DEF Keeps
<1>5. Truth.status # "none" => \A s : Before(s, Truth) => Before(s, op[p].next)
  BY <1>2, <1>3, <1>4 DEF Before
<1>6. op[p].next.status \in Gone => op[p].next.media = {}
  BY DEF Asked, Gone
<1>7. op[p].kind # "retain" /\ Truth.status # "none" => op[p].next.media \subseteq Truth.media
  BY DEF Asked
<1>8. op[p].kind = "retain" => Truth.status = "recording"
  BY DEF Asked
<1> QED
  BY <1>5, <1>6, <1>7, <1>8

\* Whoever creates on top holds the newest document.
LEMMA TopHolds ==
  ASSUME BaseInv, Views, NEW p \in Procs, Create(p), OnTop(p)
  PROVE  /\ State(p) = Truth /\ Asked(Truth, op[p]) /\ Truth' = op[p].next
         /\ op[p].step = "create" /\ Current(p)
<1>1. op[p].step = "create" /\ View(p)
  BY DEF Create, At, Views
<1>2. Current(p) /\ Truth' = op[p].next
  BY DEF OnTop
<1> QED
  BY <1>1, <1>2, AtWork DEF Working

LEMMA TopSucceeds ==
  ASSUME BaseInv, Views, Succeeded, NEW p \in Procs, Create(p), OnTop(p)
  PROVE  Succeeded'
<1>0. /\ State(p) = Truth /\ Asked(Truth, op[p]) /\ Truth' = op[p].next
      /\ UNCHANGED <<held, kept>> /\ docs' # <<>>
      /\ DOMAIN docs' = DOMAIN docs \cup {NextGen(p)} /\ docs'[NextGen(p)] = op[p].next
      /\ \A g \in DOMAIN docs : docs'[g] = docs[g]
      /\ op[p].next.status # "none"
  BY TopHolds DEF OnTop, Filing, Create
<1>1. /\ Truth'.status \in Gone => Truth'.media = {}
      /\ Truth.status # "none" => \A s : Before(s, Truth) => Before(s, Truth')
  BY <1>0, Follows
<1>2. op'[p].step # "intact"
  <2>1. Done(p) => op'[p].step # "intact"
    BY Turned DEF Idle
  <2>2. Go(p, "confirm") => op'[p].step # "intact"
    BY TurnedStep
  <2> QED
    BY <2>1, <2>2 DEF OnTop, Filing
<1>3. \A q \in Procs : q # p => op'[q] = op[q]
  BY Apart DEF Step, Request, Same
<1>4. CASE docs = <<>>
  <2>1. kept' = {}
    BY <1>0, <1>4 DEF Succeeded
  <2>2. \A q \in Procs : Passed(q)'
    BY <1>0, <1>2, <1>3, <1>4, NothingYet, BeforeAll DEF Passed, State
  <2>3. DOMAIN docs = {}
    BY <1>4
  <2>4. \A g \in DOMAIN docs' : Before(docs'[g], Truth')
    BY <1>0, <2>3, BeforeAll
  <2> QED
    BY <1>1, <2>1, <2>2, <2>4 DEF Succeeded
<1>5. CASE docs # <<>>
  <2>1. \A s : Before(s, Truth) => Before(s, Truth')
    BY <1>1, <1>5, Facts
  <2>2. \A q \in Procs : Passed(q)'
    BY <1>0, <1>2, <1>3, <2>1 DEF Passed, State, Succeeded
  <2>3. \A g \in DOMAIN docs' : Before(docs'[g], Truth')
    BY <1>0, <2>1, BeforeAll DEF Succeeded
  <2>4. Truth'.status \in Keeps => kept' \subseteq Truth'.media
    <3>1. Truth'.status \in Keeps => Truth.status \in Keeps /\ Truth.media \subseteq Truth'.media
      <4>1. Truth \in Doc /\ Truth.status # "none"
        BY <1>5, Facts
      <4>2. Before(Truth, Truth')
        BY <2>1, BeforeAll
      <4>3. Truth.status \in Gone => Truth'.status \in Gone
        BY <4>2 DEF Before
      <4> QED
        BY <4>1, <4>2, <4>3 DEF Before, Doc, Keeps, Gone
    <3> QED
      BY <1>0, <3>1 DEF Succeeded
  <2> QED
    BY <1>0, <1>1, <2>2, <2>3, <2>4 DEF Succeeded
<1> QED
  BY <1>4, <1>5

\* A step that leaves the newest document and adds none.
LEMMA StaysSucceeded ==
  ASSUME BaseInv, Succeeded, NEW p \in Procs, Step(p), Truth' = Truth, Fewer,
         docs = <<>> <=> docs' = <<>>,
         docs = <<>> => kept' = {}, Truth.status \in Keeps => kept' \subseteq Truth.media,
         Before(State(p)', Truth), op'[p].step = "intact" => Before(op'[p].next, Truth)
  PROVE  Succeeded'
<1>1. \A q \in Procs : q # p => op'[q] = op[q] /\ held'[q] = held[q]
  BY Apart DEF Same
<1>2. \A q \in Procs : Passed(q)'
  BY <1>1 DEF Passed, Succeeded, State
<1>3. \A g \in DOMAIN docs' : Before(docs'[g], Truth')
  BY DEF Fewer, Succeeded
<1> QED
  BY <1>2, <1>3 DEF Succeeded

LEMMA SucceededKept ==
  ASSUME BaseInv, Views, Succeeded, [Next]_vars, "buried" \notin races'
  PROVE  Succeeded'
<1>1. CASE \E p \in Procs : Create(p) /\ OnTop(p)
  BY <1>1, TopSucceeds
<1>2. CASE UNCHANGED vars
  <2>1. Truth' = Truth
    BY <1>2, FiledStill DEF BaseInv, Base, vars
  <2> QED
    BY <1>2, <2>1 DEF vars, Succeeded, Passed, State
<1>3. ASSUME NEW p \in Procs, Step(p), Still PROVE Succeeded'
  <2>0. Truth' = Truth /\ Fewer /\ (docs = <<>> <=> docs' = <<>>)
    BY <1>3 DEF Still
  <2>1. /\ docs = <<>> => kept = {}
        /\ Truth.status \in Keeps => kept \subseteq Truth.media
        /\ Passed(p) /\ View(p) /\ op[p] \in AnyOperation /\ op \in [Procs -> Operations]
        /\ held[p] = [state |-> State(p), gen |-> held[p].gen]
        /\ held \in [Procs -> [state : Doc, gen : 0..MaxGen]]
    BY Facts DEF Succeeded, Views, BaseInv, Base, Shaped, TypeOK
  <2>2. ASSUME UNCHANGED kept, Before(State(p)', Truth),
               op'[p].step = "intact" => Before(op'[p].next, Truth)
        PROVE  Succeeded'
    BY <1>3, <2>0, <2>1, <2>2, StaysSucceeded
  <2>3. CASE Capture(p) \/ Expire(p) \/ Delete(p)
    <3>1. UNCHANGED held /\ Ready(p)
      BY <2>3, JudgedWorks
    <3>2. Before(State(p)', Truth)
      BY <2>1, <3>1 DEF Passed, State
    <3>3. CASE \E m \in Media : RetainDuplicate(p, m)
      <4>1. PICK m \in Media : RetainDuplicate(p, m)
        BY <3>3
      <4>2. /\ UNCHANGED op /\ kept' = kept \cup {m} /\ m \in State(p).media
            /\ State(p).status = "recording"
        BY <4>1 DEF RetainDuplicate
      <4>3. docs # <<>>
        BY <4>2, NothingYet DEF None
      <4>4. Truth.status \in Keeps => m \in Truth.media
        BY <2>1, <4>2 DEF Passed, Before
      <4>5. op'[p].step = "intact" => Before(op'[p].next, Truth)
        BY <2>1, <4>2 DEF Passed
      <4> QED
        BY <1>3, <2>0, <2>1, <3>2, <4>2, <4>3, <4>4, <4>5, StaysSucceeded
    <3>4. CASE Working(State(p), op'[p]) /\ UNCHANGED kept
      BY <2>2, <3>2, <3>4 DEF Working
    <3> QED
      BY <2>3, <3>3, <3>4, JudgedWorks
  <2>4. ASSUME Done(p) PROVE op'[p].step # "intact"
    BY <2>4, Turned DEF Idle
  <2>5. ASSUME NEW step, step # "intact", Go(p, step) PROVE op'[p].step # "intact"
    BY <2>5, TurnedStep
  <2>6. CASE Upload(p) \/ Create(p) \/ SweepEnd(p)
    <3>1. UNCHANGED <<held, kept>> /\ op'[p].step # "intact"
      BY <2>4, <2>5, <2>6 DEF Upload, Create, SweepEnd
    <3> QED
      BY <2>1, <2>2, <3>1 DEF Passed, State
  <2>7. CASE Verify(p) \/ SweepList(p) \/ SweepObject(p)
    <3>1. UNCHANGED <<held, kept>>
      BY <2>7 DEF Verify, SweepList, SweepObject
    <3>2. op'[p].step # "intact"
      <4>1. CASE Verify(p)
        BY <2>1, <4>1, Verified
      <4>2. CASE SweepList(p)
        <5>1. CASE op' = [op EXCEPT ![p].step = "sweep", ![p].todo = objects \ op[p].next.media]
          BY <2>1, <5>1 DEF AnyOperation
        <5> QED
          BY <2>4, <4>2, <5>1 DEF SweepList
      <4>3. CASE SweepObject(p)
        BY <2>1, <4>3 DEF SweepObject, At, AnyOperation
      <4> QED
        BY <2>7, <4>1, <4>2, <4>3
    <3> QED
      BY <2>1, <2>2, <3>1, <3>2 DEF Passed, State
  <2>8. CASE Confirm(p)
    <3>1. CASE Done(p) /\ UNCHANGED <<held, kept>>
      BY <2>1, <2>2, <2>4, <3>1 DEF Passed, State
    <3>2. CASE /\ NextGen(p) \in DOMAIN docs /\ docs[NextGen(p)] = op[p].next
               /\ State(p)' = op[p].next
               /\ kept' = kept \cup (IF op[p].kind = "retain" THEN {op[p].arg} ELSE {})
               /\ IF op[p].kind = "release" THEN Go(p, "list") ELSE Done(p)
      <4>1. Before(State(p)', Truth) /\ docs # <<>>
        BY <3>2 DEF Succeeded
      <4>2. op[p].kind = "retain" => op[p].arg \in op[p].next.media
        BY <2>1, <2>8, Confirmed DEF Asked
      <4>3. Truth.status \in Keeps => kept' \subseteq Truth.media
        BY <2>1, <3>2, <4>1, <4>2 DEF Before
      <4>4. op'[p].step # "intact"
        BY <2>4, <2>5, <3>2
      <4> QED
        BY <1>3, <2>0, <4>1, <4>3, <4>4, StaysSucceeded
    <3> QED
      BY <2>1, <2>8, <3>1, <3>2, Confirmed
  <2>9. CASE Prune(p)
    BY <2>1, <2>2, <2>9 DEF Prune, Passed, State
  <2>10. ASSUME Lifetime(p), State(p)' = None \/ State(p)' = State(p), op'[p].step # "intact"
         PROVE  Succeeded'
    <3>1. UNCHANGED kept
      BY <2>10 DEF Lifetime, Open, OpenRead, OpenVerify, OpenEnd, Crash
    <3> QED
      BY <2>1, <2>2, <2>10, <3>1, BeforeAll DEF Passed
  <2>11. ASSUME Refused(p) PROVE State(p)' = None /\ op'[p].step # "intact"
    BY <2>1, <2>4, <2>11 DEF Refused, State
  <2>12. CASE Open(p)
    <3>1. State(p)' = State(p)
      BY <2>1, <2>12 DEF Open, State
    <3>2. op'[p].step # "intact"
      <4>1. op[p] = Idle
        BY <2>1, <2>12 DEF View, Resting, Open
      <4>2. CASE UNCHANGED op
        BY <4>1, <4>2 DEF Idle
      <4>3. CASE op' = [op EXCEPT ![p] = [Op("open", "read", "-", None) EXCEPT !.todo = objects]]
        BY <2>1, <4>3 DEF Op
      <4> QED
        BY <2>12, <4>2, <4>3 DEF Open
    <3> QED
      BY <2>10, <2>12, <3>1, <3>2 DEF Lifetime
  <2>13. CASE OpenRead(p)
    <3>1. CASE /\ held[p].gen \in DOMAIN docs
               /\ op' = [op EXCEPT ![p].step = "intact", ![p].next = docs[held[p].gen]]
               /\ UNCHANGED held
      <4>1. op'[p].next = docs[held[p].gen]
        BY <2>1, <3>1 DEF AnyOperation
      <4>2. Before(op'[p].next, Truth)
        BY <3>1, <4>1 DEF Succeeded
      <4>3. Before(State(p)', Truth) /\ UNCHANGED kept
        BY <2>1, <2>13, <3>1 DEF Passed, State, OpenRead
      <4> QED
        BY <2>2, <4>2, <4>3
    <3> QED
      BY <2>10, <2>11, <2>13, <3>1 DEF OpenRead, Lifetime
  <2>14. CASE OpenVerify(p)
    <3>1. CASE /\ held' = [held EXCEPT ![p].state = op[p].next]
               /\ op' = [op EXCEPT ![p].step = "sweep", ![p].todo = @ \ op[p].next.media]
      <4>1. State(p)' = op[p].next /\ op'[p].step # "intact"
        BY <2>1, <3>1 DEF State, AnyOperation
      <4>2. Before(State(p)', Truth) /\ UNCHANGED kept
        BY <2>1, <2>14, <4>1 DEF Passed, OpenVerify, At
      <4> QED
        BY <2>2, <4>1, <4>2
    <3> QED
      BY <2>10, <2>11, <2>14, <3>1 DEF OpenVerify, Lifetime
  <2>15. CASE OpenEnd(p) \/ Crash(p)
    <3>1. /\ State(p)' = None \/ State(p)' = State(p)
          /\ op'[p].step # "intact"
      BY <2>1, <2>4, <2>15 DEF OpenEnd, Crash, State, Idle
    <3> QED
      BY <2>10, <2>15, <3>1 DEF Lifetime
  <2> QED
    BY <1>3, <2>3, <2>6, <2>7, <2>8, <2>9, <2>12, <2>13, <2>14, <2>15
       DEF Step, Request, Lifetime
<1> QED
  BY <1>1, <1>2, <1>3, NewestMoves DEF Next, Step

\* The history of what the processes did to each other only grows.
LEMMA RacesGrow ==
  ASSUME [Next]_vars
  PROVE  races \subseteq races'
<1>1. ASSUME NEW race, NEW happens, Race(race, happens) PROVE races \subseteq races'
  BY <1>1 DEF Race
<1>2. ASSUME NEW p \in Procs, Capture(p) \/ Expire(p) \/ Delete(p) PROVE races \subseteq races'
  BY <1>1, <1>2 DEF Capture, Begin, Retain, RetainDuplicate, Finalise, Fail, Expire, Delete, Start
<1>3. ASSUME NEW p \in Procs, Request(p) PROVE races \subseteq races'
  BY <1>1, <1>3 DEF Request, Upload, Verify, Create, Confirm, SweepList, SweepObject, SweepEnd, Prune
<1>4. ASSUME NEW p \in Procs, Lifetime(p) PROVE races \subseteq races'
  BY <1>1, <1>4 DEF Lifetime, Open, OpenRead, OpenVerify, OpenEnd, Crash
<1>5. CASE UNCHANGED vars
  BY <1>5 DEF vars
<1> QED
  BY <1>2, <1>3, <1>4, <1>5 DEF Next

SuccInv == "buried" \notin races => Succeeded

LEMMA SuccInvHolds == Spec => []SuccInv
<1>1. Init => SuccInv
  <2> SUFFICES ASSUME Init PROVE Succeeded
    BY DEF SuccInv
  <2>1. docs = <<>> /\ kept = {} /\ DOMAIN docs = {}
    BY DEF Init
  <2>2. Truth = None
    BY <2>1 DEF Truth
  <2>3. \A p \in Procs : Passed(p)
    BY <2>2, BeforeAll DEF Init, Passed, State, Idle
  <2> QED
    BY <2>1, <2>2, <2>3 DEF Succeeded, None
<1>2. BaseInv /\ Views /\ SuccInv /\ [Next]_vars => SuccInv'
  BY SucceededKept, RacesGrow DEF SuccInv
<1> QED
  BY <1>1, <1>2, BaseInvHolds, ViewsHold, PTL DEF Spec

\* A segment whose retention was acknowledged stays in the newest document until
\* the recording is let go, with any number of processes writing, opening, sweeping
\* and dying, as long as none of them buries a document: own and persist of
\* object-archive.ts.
THEOREM NothingIsLost == DeletionSpec => []KeptUnlessBuried
<1>1. SuccInv => KeptUnlessBuried
  BY DEF SuccInv, Succeeded, KeptUnlessBuried, AcknowledgedIsKept, Keeps
<1> QED
  BY <1>1, SuccInvHolds, DeletionKeepsArchive, PTL

-----------------------------------------------------------------------------
(* What is stored.  Unless the processes came between each other, no        *)
(* retention runs beside an opening: so nothing the newest document names   *)
(* is on a list to be swept, and what the process that holds it is about to *)
(* write is stored.                                                         *)

Stored(p) ==
  /\ op[p].step = "create" /\ Current(p) => op[p].next.media \subseteq objects
  /\ op[p].step = "read" /\ held[p].gen \in DOMAIN docs
       => Truth.media \subseteq docs[held[p].gen].media
  /\ op[p].step = "intact" => Truth.media \subseteq op[p].next.media
  /\ op[p].step = "sweep" => op[p].todo \cap Truth.media = {}

Separate == \A p, q \in Procs : op[q].kind = "open" => op[p].kind # "retain"

Whole == /\ Truth.media \subseteq objects
         /\ Separate
         /\ \A p \in Procs : Stored(p)

Clearing == {"read", "intact", "sweep"}

\* A process that opens or lets go excludes a retention on top of the newest
\* document, so that document comes to name no more than it did.
LEMMA NothingAdded ==
  ASSUME BaseInv, Views, Succeeded, Separate,
         NEW p \in Procs, op[p].step \in Clearing,
         NEW q \in Procs, Asked(Truth, op[q])
  PROVE  op[q].next.media \subseteq Truth.media
<1>1. View(p) /\ op[p] # Idle /\ phase[p] \in {"down", "loading", "up"} /\ Passed(p)
  <2>1. op[p] # Idle
    BY DEF Idle, Clearing
  <2> QED
    BY <2>1, Facts DEF Views, Succeeded
<1>2. CASE op[p].kind = "open" /\ docs # <<>>
  <2>1. op[q].kind # "retain"
    BY <1>2 DEF Separate
  <2>2. Truth.status # "none"
    BY <1>2, Facts
  <2> QED
    BY <2>1, <2>2, Follows
<1>3. CASE op[p].kind = "release" /\ State(p).status \in Gone
  <2>1. Truth.status \in Gone
    BY <1>1, <1>3 DEF Passed, Before
  <2>2. op[q].kind # "retain" /\ Truth.status # "none"
    BY <2>1, Follows DEF Gone
  <2> QED
    BY <2>2, Follows
<1> QED
  BY <1>1, <1>2, <1>3 DEF View, Resting, Loading, Working, Clearing

\* A step that moves the chain of a process only as follows leaves the rest apart.
LEMMA Parting ==
  ASSUME BaseInv, Separate, NEW p \in Procs, Step(p),
         \/ op'[p].kind \in {op[p].kind, "idle"}
         \/ op'[p].kind \notin {"open", "retain"}
         \/ op'[p].kind = "retain" /\ \A q \in Procs : op[q].kind # "open"
         \/ op'[p].kind = "open" /\ \A q \in Procs : op[q].kind # "retain"
  PROVE  Separate'
<1>1. \A q \in Procs : q # p => op'[q] = op[q]
  BY Apart DEF Same
<1>2. ASSUME NEW q \in Procs, NEW r \in Procs, op'[q].kind = "open", op'[r].kind = "retain"
      PROVE  FALSE
  <2>1. CASE q = p
    <3>1. r # p /\ op[r].kind = "retain"
      BY <1>1, <1>2, <2>1
    <3> QED
      BY <1>2, <2>1, <3>1 DEF Separate
  <2>2. CASE q # p /\ r = p
    <3>1. op[q].kind = "open"
      BY <1>1, <2>2, <1>2
    <3> QED
      BY <1>2, <2>2, <3>1 DEF Separate
  <2>3. CASE q # p /\ r # p
    BY <1>1, <1>2, <2>3 DEF Separate
  <2> QED
    BY <2>1, <2>2, <2>3
<1> QED
  BY <1>2 DEF Separate

\* What the processes may do that is left when they did not come between each other.
LEMMA JudgedParts ==
  ASSUME BaseInv, NEW p \in Procs, Capture(p) \/ Expire(p) \/ Delete(p), "opened" \notin races'
  PROVE  \/ UNCHANGED op
         \/ op'[p].kind \notin {"open", "retain"} /\ op'[p].step \in {"verify", "create"}
         \/ /\ op'[p].kind = "retain" /\ op'[p].step = "upload"
            /\ \A q \in Procs : op[q].kind # "open"
<1>1. ASSUME NEW kind, NEW step, NEW arg, NEW next, Start(p, Op(kind, step, arg, next))
      PROVE  /\ op'[p].kind = kind /\ op'[p].step = step
             /\ kind = "retain" => \A q \in Procs : op[q].kind # "open"
  <2>1. PICK o : o = Op(kind, step, arg, next)
    OBVIOUS
  <2>2. o.kind = kind /\ o.step = step
    BY <2>1 DEF Op
  <2>3. op'[p] = o
    BY <1>1, <2>1, Turned
  <2>4. Race("opened", o.kind = "retain" /\ \E q \in Procs : op[q].kind = "open")
    BY <1>1, <2>1 DEF Start
  <2> QED
    BY <2>2, <2>3, <2>4 DEF Race
<1>2. CASE \E policy \in Policies : Begin(p, policy)
  BY <1>1, <1>2 DEF Begin
<1>3. CASE \E m \in Media : Retain(p, m)
  BY <1>1, <1>3 DEF Retain
<1>4. CASE \E m \in Media : RetainDuplicate(p, m)
  BY <1>4 DEF RetainDuplicate
<1>5. CASE Finalise(p)
  BY <1>1, <1>5 DEF Finalise
<1>6. CASE Fail(p)
  BY <1>1, <1>6 DEF Fail
<1>7. CASE Expire(p)
  BY <1>1, <1>7 DEF Expire
<1>8. CASE Delete(p)
  BY <1>1, <1>8 DEF Delete
<1> QED
  BY <1>2, <1>3, <1>4, <1>5, <1>6, <1>7, <1>8 DEF Capture

LEMMA KindsApart ==
  ASSUME BaseInv, Views, Separate, NEW p \in Procs, Step(p), "opened" \notin races'
  PROVE  Separate'
<1>1. CASE Capture(p) \/ Expire(p) \/ Delete(p)
  BY <1>1, JudgedParts, Parting
<1>2. CASE Request(p)
  BY <1>2, RequestTurns, Parting
<1>3. CASE Lifetime(p)
  <2>0. op \in [Procs -> Operations] /\ op[p] \in AnyOperation
    BY Facts
  <2>1. CASE Open(p)
    <3>1. CASE UNCHANGED op
      BY <3>1, Parting
    <3>2. CASE /\ op' = [op EXCEPT ![p] = [Op("open", "read", "-", None) EXCEPT !.todo = objects]]
               /\ Race("opened", \E q \in Procs : op[q].kind = "retain")
      <4>1. \A q \in Procs : op[q].kind # "retain"
        BY <3>2 DEF Race
      <4>2. op'[p].kind = "open"
        BY <2>0, <3>2 DEF Op
      <4> QED
        BY <4>1, <4>2, Parting
    <3> QED
      BY <2>1, <3>1, <3>2 DEF Open
  <2>2. CASE Done(p)
    BY <2>2, Turned, Parting DEF Idle
  <2>3. CASE OpenRead(p) \/ OpenVerify(p)
    <3>1. op'[p].kind = op[p].kind \/ Done(p)
      BY <2>0, <2>3 DEF OpenRead, OpenVerify, Refused, AnyOperation
    <3> QED
      BY <2>2, <3>1, Parting
  <2>4. CASE Crash(p)
    BY <2>2, <2>4 DEF Crash, Done
  <2> QED
    BY <1>3, <2>1, <2>2, <2>3, <2>4 DEF Lifetime, OpenEnd
<1> QED
  BY <1>1, <1>2, <1>3 DEF Step

\* Only a sweep takes objects away.
LEMMA ObjectsStand ==
  ASSUME BaseInv, NEW p \in Procs, Step(p)
  PROVE  objects \subseteq objects' \/ SweepObject(p)
<1>2. CASE Capture(p) \/ Expire(p) \/ Delete(p)
  <2>1. UNCHANGED objects
    BY <1>2, JudgedWorks DEF store
  <2> QED
    BY <2>1
<1>3. CASE Request(p)
  BY <1>3 DEF Request, Upload, Verify, Create, Confirm, SweepList, SweepEnd, Prune, store
<1>4. CASE Lifetime(p)
  BY <1>4 DEF Lifetime, Open, OpenRead, OpenVerify, OpenEnd, Crash, store
<1> QED
  BY <1>2, <1>3, <1>4 DEF Step

\* A step keeps what the newest document names, and what a current process is
\* about to write, in the store.
LEMMA NamedKept ==
  ASSUME BaseInv, Views, Succeeded, Whole, NEW p \in Procs, Step(p)
  PROVE  /\ Truth.media \subseteq objects'
         /\ \A q \in Procs : op[q].step = "create" /\ Current(q) => op[q].next.media \subseteq objects'
<1>1. CASE objects \subseteq objects'
  BY <1>1 DEF Whole, Stored
<1>2. CASE SweepObject(p)
  <2>1. op[p].step = "sweep"
    BY <1>2 DEF SweepObject, At
  <2>2. PICK m \in op[p].todo : objects' \in {objects, objects \ {m}}
    BY <1>2 DEF SweepObject
  <2>3. Truth.media \subseteq objects'
    BY <2>1, <2>2 DEF Whole, Stored
  <2>4. ASSUME NEW q \in Procs, op[q].step = "create", Current(q)
        PROVE  op[q].next.media \subseteq objects'
    <3>1. View(q)
      BY DEF Views
    <3>2. State(q) = Truth /\ Asked(Truth, op[q])
      BY <2>4, <3>1, AtWork DEF Working
    <3>3. op[q].next.media \subseteq Truth.media
      BY <2>1, <3>2, NothingAdded DEF Whole, Clearing
    <3> QED
      BY <2>3, <3>3
  <2> QED
    BY <2>3, <2>4
<1> QED
  BY <1>1, <1>2, ObjectsStand

\* A process that does not move keeps its part.
LEMMA StoredStands ==
  ASSUME BaseInv, Views, Succeeded, Whole, [Next]_vars, "buried" \notin races',
         NEW p \in Procs, Step(p), NEW q \in Procs, op'[q] = op[q], held'[q] = held[q]
  PROVE  Stored(q)'
<1>1. /\ State(q)' = State(q)
      /\ Current(q)' => Current(q) /\ Truth' = Truth
  BY Ageing
<1>2. op[q].step = "create" /\ Current(q) => op[q].next.media \subseteq objects'
  BY NamedKept
<1>3. CASE Still
  <2>1. Truth' = Truth /\ Fewer
    BY <1>3 DEF Still
  <2>2. held[q].gen \in DOMAIN docs' => /\ held[q].gen \in DOMAIN docs
                                        /\ docs'[held[q].gen] = docs[held[q].gen]
    BY <2>1 DEF Fewer
  <2> QED
    BY <1>1, <1>2, <2>1, <2>2 DEF Whole, Stored
<1>4. CASE \E r \in Procs : Create(r) /\ OnTop(r)
  <2>1. PICK r \in Procs : Create(r) /\ OnTop(r)
    BY <1>4
  <2>2. Asked(Truth, op[r]) /\ Truth' = op[r].next
    BY <2>1, TopHolds
  <2>3. op[q].step \in Clearing => Truth'.media \subseteq Truth.media
    BY <2>2, NothingAdded DEF Whole
  <2>4. held[q].gen \in DOMAIN docs' => /\ held[q].gen \in DOMAIN docs
                                        /\ docs'[held[q].gen] = docs[held[q].gen]
    <3>1. held[q].gen \in Nat /\ held[q].gen <= Newest /\ Newest \in Nat
      BY Facts
    <3>2. NextGen(r) = Newest + 1 /\ DOMAIN docs' = DOMAIN docs \cup {NextGen(r)}
          /\ \A g \in DOMAIN docs : docs'[g] = docs[g]
      BY <2>1 DEF OnTop, Filing
    <3>3. held[q].gen # NextGen(r)
      BY <3>1, <3>2
    <3> QED
      BY <3>2, <3>3
  <2> QED
    BY <1>1, <1>2, <2>3, <2>4 DEF Whole, Stored, Clearing
<1> QED
  BY <1>3, <1>4, NewestMoves

\* An operation at none of these steps has no part of its own.
Quiet == {"create", "read", "intact", "sweep"}

LEMMA RequestStored ==
  ASSUME BaseInv, Views, Succeeded, Whole, [Next]_vars, "buried" \notin races',
         NEW p \in Procs, Request(p)
  PROVE  Stored(p)'
<1>0. /\ View(p) /\ Stored(p) /\ Step(p) /\ Passed(p)
      /\ op \in [Procs -> Operations] /\ op[p] \in AnyOperation
  BY Facts DEF Views, Whole, Succeeded, Step
<1>1. ASSUME op'[p].step \notin Quiet PROVE Stored(p)'
  BY <1>1 DEF Stored, Quiet
<1>2. ASSUME Done(p) PROVE Stored(p)'
  BY <1>1, <1>2, Turned DEF Idle, Quiet
<1>3. ASSUME NEW step, step \notin Quiet, Go(p, step) PROVE Stored(p)'
  BY <1>1, <1>3, TurnedStep
<1>4. CASE Upload(p) /\ Go(p, "create") /\ op[p].arg \in objects'
  <2>1. op[p].step = "upload" /\ op[p].kind = "retain"
    BY <1>0, <1>4, Facts DEF Upload, At, Operations
  <2>2. UNCHANGED <<docs, held>> /\ objects \subseteq objects'
    BY <1>4 DEF Upload
  <2>3. op'[p].step = "create" /\ op'[p].next = op[p].next
    BY <1>4, TurnedStep
  <2>4. Current(p)' => Current(p)
    BY <2>2, Ageing
  <2>5. /\ Asked(State(p), op[p])
        /\ Current(p) => State(p) = Truth
    BY <1>0, <2>1, AtWork DEF Working
  <2>6. op[p].next.media = State(p).media \cup {op[p].arg}
    BY <2>1, <2>5 DEF Asked
  <2>7. Current(p) => op[p].next.media \subseteq objects'
    BY <1>4, <2>2, <2>5, <2>6 DEF Whole
  <2> QED
    BY <2>3, <2>4, <2>7 DEF Stored
<1>5. CASE Verify(p)
  <2>1. op'[p].step = "create" /\ op'[p].next.media = State(p).media
    BY <1>0, <1>5, Verified
  <2>2. UNCHANGED <<docs, held, objects>>
    BY <1>5 DEF Verify, store
  <2>3. Current(p)' => Current(p)
    BY <2>2, Ageing
  <2>4. Current(p) => State(p) = Truth
    BY <1>0, <1>5, AtWork DEF Verify, At
  <2> QED
    BY <2>1, <2>2, <2>3, <2>4 DEF Stored, Whole
<1>6. CASE SweepList(p) /\ op' = [op EXCEPT ![p].step = "sweep", ![p].todo = objects \ op[p].next.media]
  <2>1. op'[p].step = "sweep"
    BY <1>0, <1>6 DEF AnyOperation
  <2>2. State(p).status \in Gone
    BY <1>0, <1>6, AtWork DEF SweepList, At, Working
  <2>3. Truth.media = {}
    BY <1>0, <2>2 DEF Passed, Before, Succeeded
  <2>4. Truth' = Truth
    BY <1>6, FiledStill DEF SweepList, store, BaseInv, Base
  <2> QED
    BY <2>1, <2>3, <2>4 DEF Stored
<1>7. CASE SweepObject(p)
  <2>1. PICK m \in op[p].todo : op' = [op EXCEPT ![p].todo = op[p].todo \ {m}]
    BY <1>7 DEF SweepObject
  <2>2. op'[p].step = "sweep" /\ op'[p].todo \subseteq op[p].todo /\ op[p].step = "sweep"
    BY <1>0, <1>7, <2>1 DEF SweepObject, At, AnyOperation
  <2>3. Truth' = Truth
    BY <1>7, FiledStill DEF SweepObject, BaseInv, Base
  <2> QED
    BY <1>0, <2>2, <2>3 DEF Stored
<1>8. CASE Prune(p)
  BY <1>0, <1>8, StoredStands DEF Prune
<1>9. CASE Create(p) \/ Confirm(p) \/ SweepEnd(p)
  BY <1>2, <1>3, <1>9 DEF Create, Confirm, SweepEnd, Quiet
<1> QED
  BY <1>2, <1>4, <1>5, <1>6, <1>7, <1>8, <1>9 DEF Request, Upload, SweepList

LEMMA LifetimeStored ==
  ASSUME BaseInv, Views, Succeeded, Whole, NEW p \in Procs, Lifetime(p)
  PROVE  Stored(p)'
<1>0. /\ View(p) /\ Stored(p)
      /\ op \in [Procs -> Operations] /\ op[p] \in AnyOperation
      /\ held \in [Procs -> [state : Doc, gen : 0..MaxGen]]
  BY Facts DEF Views, Whole, BaseInv, Base, Shaped, TypeOK
<1>1. UNCHANGED docs
  BY DEF Lifetime, Open, OpenRead, OpenVerify, OpenEnd, Crash, store
<1>2. Truth' = Truth /\ Newest' = Newest
  BY <1>1, FiledStill DEF BaseInv, Base
<1>3. ASSUME Done(p) PROVE Stored(p)'
  BY <1>3, Turned DEF Idle, Stored
<1>4. CASE Open(p)
  <2>1. CASE UNCHANGED op
    <3>1. op[p] = Idle
      BY <1>0, <1>4 DEF View, Resting, Open
    <3> QED
      BY <1>3, <2>1, <3>1 DEF Stored, Idle
  <2>2. CASE /\ op' = [op EXCEPT ![p] = [Op("open", "read", "-", None) EXCEPT !.todo = objects]]
             /\ held' = [held EXCEPT ![p].gen = Newest] /\ docs # <<>>
    <3>1. op'[p].step = "read" /\ held'[p].gen = Newest
      BY <1>0, <2>2 DEF Op
    <3>2. Truth = docs[Newest]
      BY <2>2, Facts
    <3> QED
      BY <1>1, <1>2, <3>1, <3>2 DEF Stored
  <2> QED
    BY <1>4, <2>1, <2>2 DEF Open
<1>5. CASE OpenRead(p)
  <2>1. CASE /\ held[p].gen \in DOMAIN docs
             /\ op' = [op EXCEPT ![p].step = "intact", ![p].next = docs[held[p].gen]]
    <3>1. op'[p].step = "intact" /\ op'[p].next = docs[held[p].gen]
      BY <1>0, <2>1 DEF AnyOperation
    <3>2. Truth.media \subseteq docs[held[p].gen].media
      BY <1>0, <1>5, <2>1 DEF Stored, OpenRead, At
    <3> QED
      BY <1>2, <3>1, <3>2 DEF Stored
  <2> QED
    BY <1>3, <1>5, <2>1 DEF OpenRead, Refused
<1>6. CASE OpenVerify(p)
  <2>1. CASE op' = [op EXCEPT ![p].step = "sweep", ![p].todo = @ \ op[p].next.media]
    <3>1. op'[p].step = "sweep" /\ op'[p].todo = op[p].todo \ op[p].next.media
      BY <1>0, <2>1 DEF AnyOperation
    <3>2. Truth.media \subseteq op[p].next.media
      BY <1>0, <1>6 DEF Stored, OpenVerify, At
    <3> QED
      BY <1>2, <3>1, <3>2 DEF Stored
  <2> QED
    BY <1>3, <1>6, <2>1 DEF OpenVerify, Refused
<1>7. CASE OpenEnd(p) \/ Crash(p)
  BY <1>3, <1>7 DEF OpenEnd, Crash, Done
<1> QED
  BY <1>4, <1>5, <1>6, <1>7 DEF Lifetime

LEMMA JudgedStored ==
  ASSUME BaseInv, Views, Succeeded, Whole, [Next]_vars, "buried" \notin races', "opened" \notin races',
         NEW p \in Procs, Capture(p) \/ Expire(p) \/ Delete(p)
  PROVE  Stored(p)'
<1>1. UNCHANGED <<docs, objects, held>> /\ Ready(p)
  BY JudgedWorks DEF store
<1>2. CASE UNCHANGED op
  BY <1>1, <1>2, StoredStands DEF Step
<1>3. CASE \E m \in Media : RetainDuplicate(p, m)
  BY <1>2, <1>3 DEF RetainDuplicate
<1>4. CASE Working(State(p), op'[p])
  <2>1. View(p) /\ (Current(p)' => Current(p))
    BY <1>1, Ageing DEF Views
  <2>2. Current(p) => State(p) = Truth
    BY <1>1, <2>1 DEF View, Ready
  <2>3. op'[p].step = "create" => op'[p].kind # "retain" \/ UNCHANGED op
    BY JudgedParts
  <2>4. op'[p].step \notin Clearing \/ UNCHANGED op
    BY JudgedParts DEF Clearing
  <2>5. op'[p].step = "create" /\ op'[p].kind # "retain" => op'[p].next.media \subseteq State(p).media
    BY <1>4 DEF Working, Asked
  <2>6. CASE op'[p].kind # "retain" \/ op'[p].step # "create"
    BY <1>1, <1>2, <2>1, <2>2, <2>4, <2>5, <2>6 DEF Stored, Whole, Clearing
  <2> QED
    BY <1>2, <2>3, <2>6
<1> QED
  BY <1>3, <1>4, JudgedWorks

LEMMA WholeKept ==
  ASSUME BaseInv, Views, Succeeded, Whole, [Next]_vars, races' = {}
  PROVE  Whole'
<1>1. CASE UNCHANGED vars
  <2>1. Truth' = Truth /\ Newest' = Newest
    BY <1>1, FiledStill DEF BaseInv, Base, vars
  <2> QED
    BY <1>1, <2>1 DEF vars, Whole, Separate, Stored, Current
<1>2. ASSUME NEW p \in Procs, Step(p) PROVE Whole'
  <2>1. Separate'
    BY <1>2, KindsApart DEF Whole
  <2>2. Truth'.media \subseteq objects'
    <3>1. CASE Truth' = Truth
      BY <1>2, <3>1, NamedKept
    <3>2. CASE \E r \in Procs : Create(r) /\ OnTop(r)
      <4>1. PICK r \in Procs : Create(r) /\ OnTop(r)
        BY <3>2
      <4> QED
        BY <1>2, <4>1, TopHolds, NamedKept
    <3> QED
      BY <3>1, <3>2, NewestMoves DEF Still
  <2>3. ASSUME NEW q \in Procs PROVE Stored(q)'
    <3>1. CASE q # p
      BY <1>2, <3>1, Apart, StoredStands DEF Same
    <3>2. CASE q = p
      BY <1>2, <3>2, JudgedStored, RequestStored, LifetimeStored DEF Step
    <3> QED
      BY <3>1, <3>2
  <2> QED
    BY <2>1, <2>2, <2>3 DEF Whole
<1> QED
  BY <1>1, <1>2 DEF Next, Step

WholeInv == races = {} => Whole

\* The newest document names nothing that is not in the store, with any number of
\* processes, as long as none is opened while another retains media and none buries
\* a document: an upload is verified before it is named, and a sweep spares what is
\* named (own, persist and sweep of object-archive.ts).
THEOREM NamedIsStored == DeletionSpec => []WholeUnlessRaced
<1>1. Init => WholeInv
  <2> SUFFICES ASSUME Init PROVE Whole
    BY DEF WholeInv
  <2>1. Truth = None
    BY DEF Init, Truth
  <2> QED
    BY <2>1 DEF Init, Whole, Separate, Stored, Idle, None
<1>2. BaseInv /\ Views /\ SuccInv /\ WholeInv /\ [Next]_vars => WholeInv'
  BY WholeKept, RacesGrow DEF SuccInv, WholeInv
<1>3. WholeInv => WholeUnlessRaced
  BY DEF WholeInv, Whole, WholeUnlessRaced, TruthIsWhole
<1> QED
  BY <1>1, <1>2, <1>3, BaseInvHolds, ViewsHold, SuccInvHolds, DeletionKeepsArchive, PTL DEF Spec
=============================================================================
