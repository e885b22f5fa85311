----------------------------- MODULE Scoreboard -----------------------------
(***************************************************************************)
(* What the referee promises its clients about the recorded result: an     *)
(* acceptance is never taken back, each one has been paid for out of a     *)
(* bounded number of attempts, and no client is told anything that is not  *)
(* recorded.  Nothing here knows of threads, locks, saves or crashes.      *)
(***************************************************************************)
EXTENDS Naturals, FiniteSets

CONSTANTS Flags, Budgets

VARIABLES
    accepted,    \* the flags recorded as accepted
    attempts,    \* the attempts recorded as spent
    announced,   \* the flags clients were told are accepted
    answered     \* the judged submissions clients got an answer to

vars == <<accepted, attempts, announced, answered>>

Init ==
    /\ accepted = {} /\ attempts = 0
    /\ announced = {} /\ answered = 0

\* The record moves forward, at least one attempt at a time (an attempt whose
\* save failed is recorded by the next one that succeeds).
Record ==
    /\ attempts' \in Nat /\ attempts' > attempts
    /\ \E b \in Budgets : attempts' <= b
    /\ accepted' \in SUBSET Flags /\ accepted \subseteq accepted'
    /\ Cardinality(accepted') <= attempts'
    /\ UNCHANGED <<announced, answered>>

Answer ==
    /\ answered < attempts
    /\ answered' = answered + 1
    /\ \/ announced' = announced
       \/ \E f \in accepted : announced' = announced \cup {f}
    /\ UNCHANGED <<accepted, attempts>>

Next == Record \/ Answer

Spec == Init /\ [][Next]_vars
=============================================================================
