---------------------------- MODULE MCCallIngest ----------------------------
(* CallIngest for a conversation of two languages.                         *)
EXTENDS CallIngest

IngestLanguages == {"en", "es"}
Speaker(name, l, captions, auto) ==
  [name |-> name, subject |-> NoSubject, account |-> TRUE, speak |-> l,
   hear |-> l, audio |-> "heard", captions |-> captions, auto |-> auto]

IngestProfiles == {Speaker("ana", "en", FALSE, TRUE), Speaker("ben", "es", FALSE, FALSE)}
IngestSetups == {[type |-> "conference", mode |-> "translated", privacy |-> "restricted"]}
=============================================================================
