---------------------------- MODULE Containment ----------------------------
(***************************************************************************)
(* What the Defender promises to those who stand behind Nginx and to those *)
(* who come to it: a list of blocked addresses that outlives the process,  *)
(* each block ending by itself, and answers that follow the list.  There   *)
(* are no ticks here, no event log, no batches and no file: a list changes *)
(* in one step.  Defender implements this with its state file as the list. *)
(***************************************************************************)
EXTENDS Policy

CONSTANT Clients   \* addresses that visit locations Nginx asks about

VARIABLES
    now,      \* the clock
    server,   \* "down", "up", or "dying"
    listed,   \* the live blocks
    request   \* the last request of each client and what became of it

vars == <<now, server, listed, request>>

Init ==
    /\ now = 0
    /\ server = "down"
    /\ listed = NoBlocks
    /\ request = [a \in Clients |-> "idle"]

\* Blocks end by themselves.
Advance ==
    /\ now' = now + 1
    /\ listed' = Prune(listed, now')
    /\ UNCHANGED <<server, request>>

\* A healthy server blocks an address, or replaces its block by one that may
\* end earlier.  No block is of a protected address or longer than allowed.
Contain ==
    /\ server = "up"
    /\ listed' \in [Addresses -> Nat]
    /\ \A a \in Addresses : listed'[a] # listed[a] =>
          ~IsProtected(a) /\ listed'[a] <= now + MaxDuration * SubSecond
    /\ UNCHANGED <<now, server, request>>

\* It starts with the list it left, or with none when that cannot be read.
Start ==
    /\ server = "down"
    /\ server' = "up"
    /\ listed' \in {listed, NoBlocks}
    /\ UNCHANGED <<now, request>>

Fails ==
    /\ server = "up"
    /\ server' = "dying"
    /\ UNCHANGED <<now, listed, request>>

Stop ==
    /\ server # "down"
    /\ server' = "down"
    /\ UNCHANGED <<now, listed, request>>

Ask(a) ==
    /\ request[a] # "waiting"
    /\ request' = [request EXCEPT ![a] = "waiting"]
    /\ UNCHANGED <<now, server, listed>>

\* A healthy server turns away the listed and no one else; one that dies may
\* not know the list any more.
Answer(a) ==
    /\ request[a] = "waiting" /\ server # "down"
    /\ \E verdict \in {"denied", "passed"} :
          /\ server = "up" => (verdict = "denied") = (listed[a] > now)
          /\ request' = [request EXCEPT ![a] = verdict]
    /\ UNCHANGED <<now, server, listed>>

\* Nginx may give up and refuse whom it cannot ask about.
NoAnswer(a) ==
    /\ request[a] = "waiting"
    /\ request' = [request EXCEPT ![a] = "failed"]
    /\ UNCHANGED <<now, server, listed>>

Next ==
    \/ Advance \/ Contain \/ Start \/ Fails \/ Stop
    \/ \E a \in Clients : Ask(a) \/ Answer(a) \/ NoAnswer(a)

Spec == Init /\ [][Next]_vars
=============================================================================
