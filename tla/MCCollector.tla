---------------------------- MODULE MCCollector ----------------------------
(***************************************************************************)
(* A small instance of Collector: two lines, of which any may be odd, and  *)
(* one scan, or one line that is not and two scans.  No invariant is about *)
(* two lines and two scans.  The scans' numbers are names, so the first to *)
(* write is taken for scan 1.                                              *)
(***************************************************************************)
EXTENDS Collector

MCNext ==
    /\ Next
    /\ stamps'[2] = 0 \/ (odd' = {} /\ written' < 2)
    /\ stamps = [s \in Scans |-> 0] => stamps'[2] = 0

MCSpec == Init /\ [][MCNext]_vars
=============================================================================
