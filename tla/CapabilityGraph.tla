-------------------------- MODULE CapabilityGraph --------------------------
(***************************************************************************)
(* The Defender's picture of the attacker (defender/capability_graph.py):  *)
(* capability nodes and flag objectives, each with a status and the ids of *)
(* the evidence it rests on.  A tick of service.py applies collected       *)
(* evidence to both, then what Kimi suspects to the nodes, and saves;      *)
(* every application normalises the whole graph first, and so does a start.*)
(* The metadata of a scanner finding is whatever the result file says.     *)
(* Confidence, labels and times are left out.                              *)
(***************************************************************************)
EXTENDS Naturals, Sequences, FiniteSets

CONSTANTS
    Nodes,        \* capability nodes of the ontology
    PublicNode,   \* public_endpoint_reached
    AttemptNode,  \* exploit_attempt_observed
    Flags,        \* flag objectives
    Evidence,     \* evidence that may be collected
    ActionResults,\* evidence ids of the Defender's own actions
    None,         \* what metadata.get returns for a missing key
    Cap,          \* evidence ids that normalisation keeps, 100
    BatchLimit,   \* groups of evidence in a batch, 50
    MaxCited,     \* bound: evidence ids in one of Kimi's capability updates
    MaxBuffered,  \* bound: evidence in the buffer
    MaxApplied    \* bound: applications to one node or objective

Ids == {e.id : e \in Evidence} \cup ActionResults
NodeStatus == {"not_observed", "suspected", "confirmed"}
SubmissionStatus == {"not_submitted", "detected", "accepted", "rejected"}
Provenance == {"defender_estimate", "referee"}
Objects == Nodes \cup Flags

ASSUME OntologyAssumption ==
    /\ {PublicNode, AttemptNode} \subseteq Nodes
    /\ Nodes \cap Flags = {}
    /\ None \notin Objects
ASSUME LimitAssumption ==
    /\ {Cap, BatchLimit} \subseteq Nat \ {0}
    /\ {MaxCited, MaxBuffered, MaxApplied} \subseteq Nat

VARIABLES
    phase,    \* "down", "collecting", then for a batch "reasoning" (Kimi's analysis
              \* is applied), "executing" or "failed" until the save
    graph,    \* state["capability_graph"]
    flags,    \* state["flag_objectives"]
    buffer,   \* Defender.buffer, as ids and fingerprints
    batch,    \* ids of the evidence handed to Kimi
    pending,  \* the capability update at hand: a node and the ids to apply
    saved,    \* the graph and the objectives in the state file
    seen,     \* history: ids of evidence collected or produced
    vouched,  \* history: nodes confirmed by the system, flags by the referee
    applied   \* history: ids applied to each object, oldest first; it is saved
              \* and loaded with the state

vars == <<phase, graph, flags, buffer, batch, pending, saved, seen, vouched, applied>>

Members(s) == {s[i] : i \in DOMAIN s}

default_graph == [n \in Nodes |-> [status |-> "not_observed", ids |-> <<>>]]

default_flag_objectives ==
    [f \in Flags |-> [status |-> "not_observed", submission |-> "not_submitted",
                      provenance |-> "defender_estimate", ids |-> <<>>]]

NothingToApply == [node |-> None, ids |-> <<>>]
DefaultFile == [graph |-> default_graph, flags |-> default_flag_objectives,
                applied |-> [x \in Objects |-> <<>>]]

\* A missing file is loaded as one that cannot be read, with the same result.
Init ==
    /\ phase = "down"
    /\ graph = default_graph /\ flags = default_flag_objectives
    /\ buffer = <<>> /\ batch = {} /\ pending = NothingToApply
    /\ saved = DefaultFile
    /\ seen = {} /\ vouched = {}
    /\ applied = [x \in Objects |-> <<>>]

----------------------------------------------------------------------------
(* The algorithm                                                           *)

\* Mutant: the newest id is the one that is kept.
KeepNewest(objects) ==
    [x \in DOMAIN objects |->
        [objects[x] EXCEPT !.ids = IF Len(@) > Cap THEN SubSeq(@, Len(@) - Cap + 1, Len(@)) ELSE @]]

\* Mutant: the list of ids is not cut.
NormalizeUncut(objects) == objects

\* normalize_graph and normalize_flags: the first Cap ids stay.  They are
\* distinct already, and every status is one of the known ones.
Normalize(objects) ==
    [x \in DOMAIN objects |->
        [objects[x] EXCEPT !.ids = SubSeq(@, 1, IF Len(@) > Cap THEN Cap ELSE Len(@))]]

\* Mutant: a second suspicion counts as a confirmation.
TwoSuspicionsConfirm(g, n, id, status) ==
    LET h == Normalize(g)
    IN IF n \in Nodes /\ status \in {"suspected", "confirmed"} /\ id \notin Members(h[n].ids)
       THEN [h EXCEPT ![n] = [status |-> IF @.status = "not_observed" THEN status ELSE "confirmed",
                              ids |-> Append(@.ids, id)]]
       ELSE h

\* apply_observation
Observe(g, n, id, status) ==
    LET h == Normalize(g)
    IN IF n \in Nodes /\ status \in {"suspected", "confirmed"} /\ id \notin Members(h[n].ids)
       THEN [h EXCEPT ![n] =
                [status |-> IF status = "confirmed" \/ @.status = "not_observed" THEN status ELSE @.status,
                 ids |-> Append(@.ids, id)]]
       ELSE h

\* apply_system_evidence: a node in the metadata comes first, then the source.
SystemNode(e) ==
    IF e.node # None THEN e.node
    ELSE IF e.source = "nginx_access_log" THEN PublicNode ELSE AttemptNode

SystemStatus(e) ==
    IF e.node # None THEN e.status
    ELSE IF e.source = "nginx_access_log" THEN "confirmed" ELSE "suspected"

\* What the metadata may say of acquisition: a confirmation needs the referee.
Claimed(e) ==
    IF e.acquisition = "confirmed" /\ e.provenance # "referee" THEN "suspected" ELSE e.acquisition

\* The acquisition status before the submission is looked at.
Acquired(e, old) ==
    IF e.acquisition \in NodeStatus /\ (Claimed(e) = "confirmed" \/ old = "not_observed")
    THEN Claimed(e) ELSE old

\* Mutant: a rejection takes the acquisition back.
RejectionRevokes(e, flag) ==
    [flag EXCEPT
        !.status = CASE e.submission = "accepted" -> "confirmed"
                     [] e.submission = "rejected" -> "suspected"
                     [] OTHER -> Acquired(e, flag.status),
        !.submission = IF e.submission \in SubmissionStatus THEN e.submission ELSE @,
        !.provenance = IF e.submission \in {"accepted", "rejected"} THEN "referee" ELSE @]

\* The submission decides over the acquisition; a rejection leaves it alone.
Submitted(e, flag) ==
    LET status == Acquired(e, flag.status)
    IN [flag EXCEPT
            !.status = CASE e.submission = "accepted" -> "confirmed"
                         [] e.submission = "detected" /\ status = "not_observed" -> "suspected"
                         [] OTHER -> status,
            !.submission = IF e.submission \in SubmissionStatus THEN e.submission ELSE @,
            !.provenance = IF e.submission \in {"accepted", "rejected"} THEN "referee" ELSE @]

\* apply_flag_evidence
ApplyFlag(objectives, e) ==
    LET h == Normalize(objectives)
    IN IF e.flag \in Flags /\ e.id \notin Members(h[e.flag].ids)
       THEN [h EXCEPT ![e.flag] = [Submitted(e, h[e.flag]) EXCEPT !.ids = Append(@, e.id)]]
       ELSE h

----------------------------------------------------------------------------
(* Histories                                                               *)

\* The objects whose last id is new have had id applied.
AppliedTo(old, new, id) ==
    {x \in DOMAIN new : Len(new[x].ids) > Len(Normalize(old)[x].ids)}

Note(objects, id) ==
    /\ applied' = [x \in Objects |-> IF x \in objects THEN Append(applied[x], id) ELSE applied[x]]
    /\ \A x \in Objects : Len(applied'[x]) <= MaxApplied

\* What a piece of evidence vouches for when it comes from the system.
Vouches(e) ==
    {n \in Nodes : n = SystemNode(e) /\ SystemStatus(e) = "confirmed"} \cup
    {f \in Flags : /\ f = e.flag
                   /\ \/ e.submission = "accepted"
                      \/ e.acquisition = "confirmed" /\ e.provenance = "referee"}

----------------------------------------------------------------------------
(* The Defender's steps                                                    *)

\* StateStore.load with _migrate
Load ==
    /\ phase = "down"
    /\ phase' = "collecting"
    /\ graph' = Normalize(saved.graph)
    /\ flags' = Normalize(saved.flags)
    /\ applied' = saved.applied
    /\ UNCHANGED <<buffer, batch, pending, saved, seen, vouched>>

\* A file that is missing or cannot be read is replaced by the default state.
LoadDefault ==
    /\ phase = "down"
    /\ phase' = "collecting"
    /\ graph' = default_graph /\ flags' = default_flag_objectives
    /\ applied' = DefaultFile.applied
    /\ saved' = DefaultFile
    /\ UNCHANGED <<buffer, batch, pending, seen, vouched>>

\* tick, for one piece of collected evidence.  A line read twice, or a finding
\* of a later scan, comes with the id it had.
Collect(e) ==
    /\ phase = "collecting" /\ Len(buffer) < MaxBuffered
    /\ graph' = Observe(graph, SystemNode(e), e.id, SystemStatus(e))
    /\ flags' = ApplyFlag(flags, e)
    /\ buffer' = Append(buffer, [id |-> e.id, fingerprint |-> e.fingerprint])
    /\ seen' = seen \cup {e.id}
    /\ vouched' = vouched \cup Vouches(e)
    /\ Note(AppliedTo(graph, graph', e.id) \cup AppliedTo(flags, flags', e.id), e.id)
    /\ UNCHANGED <<phase, batch, pending, saved>>

\* aggregate: the first of each fingerprint, up to the limit
Firsts == {i \in DOMAIN buffer : \A j \in 1..(i - 1) : buffer[j].fingerprint # buffer[i].fingerprint}
Aggregated == {buffer[i].id : i \in {k \in Firsts : Cardinality(Firsts \cap 1..(k - 1)) < BatchLimit}}

Reason ==
    /\ phase = "collecting" /\ buffer # <<>>
    /\ phase' = "reasoning"
    /\ batch' = Aggregated
    /\ buffer' = <<>>
    /\ UNCHANGED <<graph, flags, pending, saved, seen, vouched, applied>>

\* Mutant: ids that are not in the batch are taken as well.
SuspectUnknown(n, ids) ==
    /\ phase = "reasoning" /\ pending = NothingToApply
    /\ pending' = [node |-> n, ids |-> ids]
    /\ UNCHANGED <<phase, graph, flags, buffer, batch, saved, seen, vouched, applied>>

\* apply_analysis: an update that cites evidence outside the batch is left.
Suspect(n, ids) ==
    /\ phase = "reasoning" /\ pending = NothingToApply
    /\ Members(ids) \subseteq batch
    /\ pending' = [node |-> n, ids |-> ids]
    /\ UNCHANGED <<phase, graph, flags, buffer, batch, saved, seen, vouched, applied>>

\* One evidence id of the update
Apply ==
    /\ pending.ids # <<>>
    /\ graph' = Observe(graph, pending.node, Head(pending.ids), "suspected")
    /\ pending' = IF Len(pending.ids) > 1 THEN [pending EXCEPT !.ids = Tail(@)] ELSE NothingToApply
    /\ Note(AppliedTo(graph, graph', Head(pending.ids)), Head(pending.ids))
    /\ UNCHANGED <<phase, flags, buffer, batch, saved, seen, vouched>>

\* A confidence that is no number raises in float(): the rest of the answer is
\* not applied, what was applied stays, and the tick goes on to its save.
ApplyRaises ==
    /\ pending.ids # <<>>
    /\ phase' = "failed"
    /\ pending' = NothingToApply
    /\ UNCHANGED <<graph, flags, buffer, batch, saved, seen, vouched, applied>>

\* execute_scenarios: a block leaves its result for the next batch.
Contain(id) ==
    /\ phase \in {"reasoning", "executing"} /\ pending = NothingToApply
    /\ Len(buffer) < MaxBuffered
    /\ phase' = "executing"
    /\ buffer' = Append(buffer, [id |-> id, fingerprint |-> id])
    /\ seen' = seen \cup {id}
    /\ UNCHANGED <<graph, flags, batch, pending, saved, vouched, applied>>

\* The end of the tick, whatever became of the analysis and the scenarios
Save ==
    /\ phase # "down" /\ pending = NothingToApply
    /\ phase' = "collecting"
    /\ batch' = {}
    /\ saved' = [graph |-> graph, flags |-> flags, applied |-> applied]
    /\ UNCHANGED <<graph, flags, buffer, pending, seen, vouched, applied>>

\* The process ends in the middle of a tick or between two.
Crash ==
    /\ phase # "down"
    /\ phase' = "down"
    /\ buffer' = <<>> /\ batch' = {} /\ pending' = NothingToApply
    /\ UNCHANGED <<graph, flags, saved, seen, vouched, applied>>

\* What Kimi may cite: any few ids, each once (dict.fromkeys).
Citations == {s \in UNION {[1..k -> Ids] : k \in 1..MaxCited} : Cardinality(Members(s)) = Len(s)}

Next ==
    \/ Load
    \/ LoadDefault
    \/ \E e \in Evidence : Collect(e)
    \/ Reason
    \/ \E n \in Nodes \cup {None}, ids \in Citations : Suspect(n, ids)
    \/ Apply
    \/ ApplyRaises
    \/ \E id \in ActionResults : Contain(id)
    \/ Save
    \/ Crash

Spec == Init /\ [][Next]_vars

----------------------------------------------------------------------------
(* Properties                                                              *)

Lists == UNION {[1..k -> Ids] : k \in 0..(Cap + 1)}

\* The nodes and the objectives, in memory and in the file, keep their kinds:
\* an application that follows a normalisation holds at most one id too many.
TypeOK ==
    /\ phase \in {"down", "collecting", "reasoning", "executing", "failed"}
    /\ \A g \in {graph, saved.graph} : \A n \in Nodes :
          g[n].status \in NodeStatus /\ g[n].ids \in Lists
    /\ \A fs \in {flags, saved.flags} : \A f \in Flags :
          /\ fs[f].status \in NodeStatus /\ fs[f].ids \in Lists
          /\ fs[f].submission \in SubmissionStatus /\ fs[f].provenance \in Provenance
    /\ batch \subseteq Ids /\ seen \subseteq Ids /\ vouched \subseteq Objects

\* A node is suspected or confirmed exactly when evidence stands for it, and
\* that evidence was really collected or produced: what Kimi makes up never
\* gets into the graph, over restarts and cut lists.
StatusIsEvidenced ==
    \A g \in {graph, saved.graph} : \A n \in Nodes :
        /\ g[n].status # "not_observed" <=> g[n].ids # <<>>
        /\ Members(g[n].ids) \subseteq seen

\* No number of suspicions, detections or restarts makes a confirmation: a
\* confirmed node had evidence of the system that confirms it, a confirmed
\* acquisition had the referee's word ("Detection alone is never confirmation").
ConfirmedIsVouched ==
    /\ \A n \in Nodes : graph[n].status = "confirmed" => n \in vouched
    /\ \A f \in Flags : flags[f].status = "confirmed" => f \in vouched

\* What the state file once calls confirmed it never takes back, whatever
\* suspicions, rejections and restarts follow, unless the file is replaced by
\* a default one because it could not be read.
ConfirmedStays ==
    [][phase # "down" =>
        /\ \A n \in Nodes : saved.graph[n].status = "confirmed" => saved'.graph[n].status = "confirmed"
        /\ \A f \in Flags : saved.flags[f].status = "confirmed" => saved'.flags[f].status = "confirmed"]_vars

\* Evidence that comes again with its id changes nothing: of all that was ever
\* applied to an object, the first Cap are applied once.  (Later ones fall out
\* of the list at the next normalisation and can be applied again.)
AppliedOnce ==
    \A x \in Objects : \A i, j \in DOMAIN applied[x] :
        i < j /\ applied[x][i] = applied[x][j] => i > Cap
=============================================================================
