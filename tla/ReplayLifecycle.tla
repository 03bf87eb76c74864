--------------------------- MODULE ReplayLifecycle ---------------------------
(***************************************************************************)
(* What the replay of one programme run promises: the table of permitted   *)
(* moves (packages/programme-replay/src/lifecycle.ts) and what a recording *)
(* retains in each state.  The archive that keeps it over a faulty object  *)
(* store, ReplayArchive, is shown to implement this specification.         *)
(***************************************************************************)

CONSTANTS Inits,      \* initialisation generations of the run
          Segments,   \* media segments of the run
          InitOf      \* the initialisation generation each segment needs

VARIABLES status,     \* "none" before a recording is begun
          media       \* what the recording retains
vars == <<status, media>>

Media == Inits \cup Segments
Statuses == {"recording", "processing", "available", "failed", "expired", "deleted"}

\* REPLAY_TRANSITIONS: the moves a replay may make, and by omission the rest.
Transitions == [s \in Statuses |->
  CASE s = "recording"  -> {"processing", "failed", "deleted"}
    [] s = "processing" -> {"available", "failed", "deleted"}
    [] s = "available"  -> {"expired", "deleted"}
    [] s = "failed"     -> {"deleted"}
    [] s = "expired"    -> {"deleted"}
    [] s = "deleted"    -> {}]

CanTransition(from, to) == from \in Statuses /\ to \in Transitions[from]

\* finalisationComplaint: nothing to play, or an initialisation never kept.
Playable(m) == /\ m \cap Segments # {}
               /\ \A s \in m \cap Segments : InitOf[s] \in m

-----------------------------------------------------------------------------
Init == status = "none" /\ media = {}

Begin == /\ status = "none"
         /\ status' = "recording"
         /\ UNCHANGED media

Retain(m) == /\ status = "recording"
             /\ media' = media \cup {m}
             /\ UNCHANGED status

\* Finalisation passes through processing and is recorded once, at its end.
Finalise == /\ CanTransition(status, "processing")
            /\ Playable(media)
            /\ status' = "available"
            /\ UNCHANGED media

Fail == /\ CanTransition(status, "failed")
        /\ status' = "failed"
        /\ UNCHANGED media

Release(to) == /\ CanTransition(status, to)
               /\ status' = to
               /\ media' = {}

Next == \/ Begin
        \/ \E m \in Media : Retain(m)
        \/ Finalise
        \/ Fail
        \/ \E to \in {"expired", "deleted"} : Release(to)

Spec == Init /\ [][Next]_vars

-----------------------------------------------------------------------------
TypeOK == status \in Statuses \cup {"none"} /\ media \subseteq Media

\* A replay that can be served decodes from its first segment to its last,
\* and one that was let go holds nothing: isServable and releaseMedia.
ServedIsPlayable ==
  /\ status = "available" => Playable(media)
  /\ status \in {"none", "expired", "deleted"} => media = {}

\* Nothing brings a removed replay back, and nothing reopens a broadcast that
\* has ended: the empty lists of REPLAY_TRANSITIONS.
NeverResurrected ==
  [][/\ status = "deleted" => status' = "deleted"
     /\ status \in {"available", "failed", "expired"} => status' # "recording"
     /\ status \in {"failed", "expired"} => status' # "available"]_vars
=============================================================================
