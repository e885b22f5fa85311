------------------------- MODULE MCCapabilityGraph -------------------------
(* An instance of CapabilityGraph for TLC: two nodes, one flag, a line of a   *)
(* visitor, and findings that claim as much as a result file can.            *)
EXTENDS CapabilityGraph, TLC

CONSTANTS public, attempt, flag, line, finding, verdict, action

Bare(id, source) ==
    [id |-> id, source |-> source, fingerprint |-> id, node |-> None, status |-> "confirmed",
     flag |-> None, acquisition |-> None, submission |-> None, provenance |-> None]

MCEvidence ==
    {Bare(line, "nginx_access_log"),
     [Bare(finding, "scanner_result") EXCEPT
        !.flag = flag, !.acquisition = "confirmed", !.submission = "rejected"],
     [Bare(verdict, "scanner_result") EXCEPT
        !.node = attempt, !.flag = flag, !.submission = "accepted"]}
=============================================================================
