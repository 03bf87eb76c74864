--------------------------- MODULE MCCallSession ---------------------------
(***************************************************************************)
(* CallSession on two small instances: two people with every setting, and   *)
(* three seats with joins, knocks, governance and leaves in every order.    *)
(***************************************************************************)
EXTENDS CallSession

Languages2 == {"en", "es"}

\* Two speakers; the first joins under language detection.
Speaker(name, l, captions, auto) ==
  [name |-> name, subject |-> NoSubject, account |-> FALSE, speak |-> l,
   hear |-> l, audio |-> "heard", captions |-> captions, auto |-> auto]

PairProfiles == {Speaker("ana", "en", TRUE, TRUE), Speaker("ben", "es", FALSE, FALSE)}
PairSetups == {[type |-> "conference", mode |-> "translated", privacy |-> "private"]}

\* Two accounts, and a partner with two devices.
Member(name, subject, account, l, captions) ==
  [name |-> name, subject |-> subject, account |-> account, speak |-> l,
   hear |-> l, audio |-> "heard", captions |-> captions, auto |-> FALSE]

SeatsProfiles ==
  {Member("ana", NoSubject, TRUE, "en", TRUE), Member("ben", NoSubject, TRUE, "en", FALSE),
   Member("cleo", "s", FALSE, "es", FALSE), Member("cleo's tablet", "s", FALSE, "es", FALSE)}
SeatsSetups ==
  {[type |-> "conference", mode |-> "translated", privacy |-> "restricted"],
   [type |-> "personal",   mode |-> "translated", privacy |-> "private"]}
=============================================================================
