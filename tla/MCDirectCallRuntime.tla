------------------------ MODULE MCDirectCallRuntime ------------------------
(***************************************************************************)
(* DirectCallRuntime for two people with a phone each.                     *)
(***************************************************************************)
EXTENDS DirectCallRuntime, TLC

CONSTANTS alice, bob, phoneA, phoneB

MCAccountOf == phoneA :> alice @@ phoneB :> bob

\* For the run with two calls: each account starts at most one of them, no ended
\* id is used again, no socket closes during its own join, and what only the
\* ringing distinguishes is left to the run with one call.
TwoCallsBound ==
  /\ \A a \in Accounts : Cardinality({c \in Calls : rec[c].caller = a}) <= 1
  /\ \A c \in Calls :
       /\ forgets[c] # {} =>
            ~Session(c) /\ \A p \in Phones : joining[p].call # c
       /\ rec[c].reached = "unknown" /\ ~timers[c].graced
       /\ timers[c].stray = "no"
       /\ \A p \in Phones : seats[c][p] # "ghost"
  /\ \A p \in Phones : joining[p] # Idle => joining[p].open
=============================================================================
