----------------------- MODULE CapabilityGraphProofs -----------------------
(* Machine-checked proofs about CapabilityGraph, for every ontology, every    *)
(* evidence that results may claim, and every limit.                          *)
EXTENDS CapabilityGraph, TLAPS

----------------------------------------------------------------------------
(* The list of ids of one object                                           *)

(* What normalisation leaves of a list of ids. *)
Kept(ids) == SubSeq(ids, 1, IF Len(ids) > Cap THEN Cap ELSE Len(ids))

(* Of the first Cap ids of a history none comes again. *)
Once(a) == \A i, j \in DOMAIN a : i < j /\ a[i] = a[j] => i > Cap

(* An object's list and the history of what was applied to it agree on the   *)
(* first Cap ids, and on how many there are up to there.                     *)
Agree(ids, a) ==
    /\ ids \in Seq(Ids) /\ Len(ids) <= Cap + 1
    /\ a \in Seq(Ids) /\ Once(a)
    /\ Len(ids) < Cap => Len(a) = Len(ids)
    /\ Len(ids) >= Cap => Len(a) >= Cap
    /\ \A k \in 1..Len(ids) : k <= Cap => ids[k] = a[k]

(* Cutting a list takes no more away than what is beyond the limit.          *)
LEMMA KeptFacts ==
    ASSUME NEW ids \in Seq(Ids)
    PROVE  /\ Kept(ids) \in Seq(Ids)
           /\ Len(Kept(ids)) = IF Len(ids) > Cap THEN Cap ELSE Len(ids)
           /\ \A k \in 1..Len(Kept(ids)) : Kept(ids)[k] = ids[k]
           /\ Members(Kept(ids)) \subseteq Members(ids)
           /\ Kept(ids) = <<>> <=> ids = <<>>
<1> DEFINE m == IF Len(ids) > Cap THEN Cap ELSE Len(ids)
<1>1. Cap \in Nat \ {0} /\ Len(ids) \in Nat
  BY LimitAssumption
<1>2. m \in 0..Len(ids) /\ (m = 0 <=> Len(ids) = 0)
  BY <1>1
<1>3. /\ SubSeq(ids, 1, m) \in Seq(Ids) /\ Len(SubSeq(ids, 1, m)) = m
      /\ \A k \in 1..m : SubSeq(ids, 1, m)[k] = ids[k]
  <2> HIDE DEF m
  <2> QED
    BY <1>1, <1>2
<1>4. Kept(ids) = SubSeq(ids, 1, m)
  BY DEF Kept
<1>5. Members(Kept(ids)) \subseteq Members(ids)
  <2> HIDE DEF m
  <2>1. DOMAIN Kept(ids) = 1..m /\ DOMAIN ids = 1..Len(ids)
    BY <1>3, <1>4
  <2>2. \A k \in 1..m : k \in 1..Len(ids)
    BY <1>1, <1>2
  <2> QED
    BY <1>3, <1>4, <2>1, <2>2 DEF Members
<1>6. Kept(ids) = <<>> <=> ids = <<>>
  <2> HIDE DEF m
  <2> QED
    BY <1>2, <1>3, <1>4
<1> QED
  BY <1>3, <1>4, <1>5, <1>6

(* The list that is cut agrees with the history as the whole list did.       *)
LEMMA KeptAgrees ==
    ASSUME NEW ids, NEW a, Agree(ids, a)
    PROVE  Agree(Kept(ids), a) /\ Len(Kept(ids)) <= Cap
<1>1. Cap \in Nat \ {0} /\ ids \in Seq(Ids) /\ Len(ids) \in Nat
  BY LimitAssumption DEF Agree
<1>2. /\ Kept(ids) \in Seq(Ids)
      /\ Len(Kept(ids)) = IF Len(ids) > Cap THEN Cap ELSE Len(ids)
      /\ \A k \in 1..Len(Kept(ids)) : Kept(ids)[k] = ids[k]
  BY <1>1, KeptFacts
<1> QED
  BY <1>1, <1>2 DEF Agree

(* A new id at the end of a list that was cut is new in the history as well, *)
(* or comes after the first Cap ids of it.                                   *)
LEMMA AppendAgrees ==
    ASSUME NEW ids, NEW a, Agree(ids, a), Len(ids) <= Cap,
           NEW id \in Ids, id \notin Members(ids)
    PROVE  Agree(Append(ids, id), Append(a, id))
<1>1. /\ Cap \in Nat \ {0} /\ ids \in Seq(Ids) /\ a \in Seq(Ids)
      /\ Len(ids) \in Nat /\ Len(a) \in Nat
  BY LimitAssumption DEF Agree
<1>2. /\ Append(ids, id) \in Seq(Ids) /\ Len(Append(ids, id)) = Len(ids) + 1
      /\ \A k \in 1..Len(ids) : Append(ids, id)[k] = ids[k]
      /\ Append(ids, id)[Len(ids) + 1] = id
  BY <1>1
<1>3. /\ Append(a, id) \in Seq(Ids) /\ Len(Append(a, id)) = Len(a) + 1
      /\ DOMAIN Append(a, id) = 1..(Len(a) + 1) /\ DOMAIN a = 1..Len(a)
      /\ \A k \in 1..Len(a) : Append(a, id)[k] = a[k]
      /\ Append(a, id)[Len(a) + 1] = id
  BY <1>1
<1>4. \A k \in 1..Len(ids) : ids[k] # id
  BY <1>1 DEF Members
<1>5. Once(Append(a, id))
  <2> SUFFICES ASSUME NEW i \in 1..(Len(a) + 1), NEW j \in 1..(Len(a) + 1),
                      i < j, Append(a, id)[i] = Append(a, id)[j]
               PROVE  i > Cap
    BY <1>3 DEF Once
  <2>1. CASE j <= Len(a)
    <3>1. i \in DOMAIN a /\ j \in DOMAIN a /\ a[i] = a[j]
      BY <1>1, <1>3, <2>1
    <3> QED
      BY <3>1 DEF Agree, Once
  <2>2. CASE j = Len(a) + 1
    <3>1. i \in 1..Len(a) /\ a[i] = id
      BY <1>1, <1>3, <2>2
    <3>2. SUFFICES ASSUME i <= Cap PROVE FALSE
      BY <1>1
    <3>3. i \in 1..Len(ids)
      BY <1>1, <3>1, <3>2 DEF Agree
    <3>4. ids[i] = a[i]
      BY <3>2, <3>3 DEF Agree
    <3> QED
      BY <1>4, <3>1, <3>3, <3>4
  <2> QED
    BY <1>1, <2>1, <2>2
<1>6. \A k \in 1..(Len(ids) + 1) : k <= Cap => Append(ids, id)[k] = Append(a, id)[k]
  <2> SUFFICES ASSUME NEW k \in 1..(Len(ids) + 1), k <= Cap
               PROVE  Append(ids, id)[k] = Append(a, id)[k]
    OBVIOUS
  <2>1. CASE k <= Len(ids)
    <3>1. k \in 1..Len(ids) /\ k \in 1..Len(a) /\ ids[k] = a[k]
      BY <1>1, <2>1 DEF Agree
    <3> QED
      BY <1>2, <1>3, <3>1
  <2>2. CASE k = Len(ids) + 1
    <3>1. Len(a) = Len(ids)
      BY <1>1, <2>2 DEF Agree
    <3> QED
      BY <1>2, <1>3, <2>2, <3>1
  <2>3. k <= Len(ids) \/ k = Len(ids) + 1
    BY <1>1
  <2> QED
    BY <2>1, <2>2, <2>3
<1> QED
  BY <1>1, <1>2, <1>3, <1>5, <1>6 DEF Agree

----------------------------------------------------------------------------
(* The nodes and the objectives                                            *)

NodeRecords == [status : NodeStatus, ids : Seq(Ids)]
FlagRecords == [status : NodeStatus, submission : SubmissionStatus,
                provenance : Provenance, ids : Seq(Ids)]

(* What holds of the nodes g, in memory or saved, with the applications a to *)
(* them, the ids s seen and the objects v vouched for so far.                *)
NodesSound(g, a, s, v) ==
    /\ g \in [Nodes -> NodeRecords]
    /\ \A n \in Nodes :
          /\ Agree(g[n].ids, a[n])
          /\ g[n].status # "not_observed" <=> g[n].ids # <<>>
          /\ Members(g[n].ids) \subseteq s
          /\ g[n].status = "confirmed" => n \in v

FlagsSound(h, a, v) ==
    /\ h \in [Flags -> FlagRecords]
    /\ \A f \in Flags :
          /\ Agree(h[f].ids, a[f])
          /\ h[f].status = "confirmed" => f \in v

(* Nothing that is confirmed before is less after. *)
Keeps(before, after, objects) ==
    \A x \in objects : before[x].status = "confirmed" => after[x].status = "confirmed"

(* Normalisation cuts the lists and leaves everything else.                  *)
LEMMA NormalizeNodes ==
    ASSUME NEW g, NEW a, NEW s, NEW v, NodesSound(g, a, s, v)
    PROVE  /\ NodesSound(Normalize(g), a, s, v)
           /\ \A n \in Nodes : /\ Normalize(g)[n].status = g[n].status
                               /\ Len(Normalize(g)[n].ids) <= Cap
<1> DEFINE h == Normalize(g)
<1>1. g \in [Nodes -> NodeRecords]
  BY DEF NodesSound
<1>2. h = [n \in Nodes |-> [g[n] EXCEPT !.ids = Kept(@)]]
  BY <1>1 DEF Normalize, Kept
<1> HIDE DEF h
<1>3. ASSUME NEW n \in Nodes
      PROVE  /\ h[n] \in NodeRecords /\ h[n].status = g[n].status /\ h[n].ids = Kept(g[n].ids)
             /\ Agree(h[n].ids, a[n]) /\ Len(h[n].ids) <= Cap
             /\ h[n].status # "not_observed" <=> h[n].ids # <<>>
             /\ Members(h[n].ids) \subseteq s
  <2>1. g[n] \in NodeRecords /\ g[n].ids \in Seq(Ids)
    BY <1>1 DEF NodeRecords
  <2>2. h[n] = [g[n] EXCEPT !.ids = Kept(@)]
    BY <1>2
  <2>3. Kept(g[n].ids) \in Seq(Ids)
    BY <2>1, KeptFacts
  <2>4. h[n] \in NodeRecords /\ h[n].status = g[n].status /\ h[n].ids = Kept(g[n].ids)
    BY <2>1, <2>2, <2>3 DEF NodeRecords
  <2>5. Agree(h[n].ids, a[n]) /\ Len(h[n].ids) <= Cap
    BY <2>4, KeptAgrees DEF NodesSound
  <2>6. Members(h[n].ids) \subseteq Members(g[n].ids) /\ (h[n].ids = <<>> <=> g[n].ids = <<>>)
    BY <2>1, <2>4, KeptFacts
  <2> QED
    BY <2>4, <2>5, <2>6 DEF NodesSound
<1>4. NodesSound(h, a, s, v)
  BY <1>2, <1>3 DEF NodesSound
<1> QED
  BY <1>3, <1>4 DEF h

LEMMA NormalizeFlags ==
    ASSUME NEW g, NEW a, NEW v, FlagsSound(g, a, v)
    PROVE  /\ FlagsSound(Normalize(g), a, v)
           /\ \A f \in Flags : /\ Normalize(g)[f].status = g[f].status
                               /\ Len(Normalize(g)[f].ids) <= Cap
<1> DEFINE h == Normalize(g)
<1>1. g \in [Flags -> FlagRecords]
  BY DEF FlagsSound
<1>2. h = [f \in Flags |-> [g[f] EXCEPT !.ids = Kept(@)]]
  BY <1>1 DEF Normalize, Kept
<1> HIDE DEF h
<1>3. ASSUME NEW f \in Flags
      PROVE  /\ h[f] \in FlagRecords /\ h[f].status = g[f].status
             /\ Agree(h[f].ids, a[f]) /\ Len(h[f].ids) <= Cap
  <2>1. g[f] \in FlagRecords /\ g[f].ids \in Seq(Ids)
    BY <1>1 DEF FlagRecords
  <2>2. h[f] = [g[f] EXCEPT !.ids = Kept(@)]
    BY <1>2
  <2>3. Kept(g[f].ids) \in Seq(Ids)
    BY <2>1, KeptFacts
  <2>4. h[f] \in FlagRecords /\ h[f].status = g[f].status /\ h[f].ids = Kept(g[f].ids)
    BY <2>1, <2>2, <2>3 DEF FlagRecords
  <2> QED
    BY <2>4, KeptAgrees DEF FlagsSound
<1>4. FlagsSound(h, a, v)
  BY <1>2, <1>3 DEF FlagsSound
<1> QED
  BY <1>3, <1>4 DEF h

(* apply_observation touches one node, or none.                              *)
LEMMA ObserveFacts ==
    ASSUME NEW g, NEW a, NEW s, NEW v, NodesSound(g, a, s, v),
           NEW n, NEW id \in Ids, id \in s, NEW status,
           n \in Nodes /\ status = "confirmed" => n \in v,
           NEW b \in [Objects -> Seq(Ids)],
           \A x \in Nodes : b[x] = IF x \in AppliedTo(g, Observe(g, n, id, status), id)
                                   THEN Append(a[x], id) ELSE a[x]
    PROVE  NodesSound(Observe(g, n, id, status), b, s, v)
           /\ Keeps(g, Observe(g, n, id, status), Nodes)
<1> DEFINE h == Normalize(g)
           o == Observe(g, n, id, status)
           taken == n \in Nodes /\ status \in {"suspected", "confirmed"} /\ id \notin Members(h[n].ids)
           new == [status |-> IF status = "confirmed" \/ h[n].status = "not_observed"
                              THEN status ELSE h[n].status,
                   ids |-> Append(h[n].ids, id)]
<1> SUFFICES NodesSound(o, b, s, v) /\ Keeps(g, o, Nodes)
  OBVIOUS
<1>1. /\ NodesSound(h, a, s, v)
      /\ \A x \in Nodes : h[x].status = g[x].status /\ Len(h[x].ids) <= Cap
  BY NormalizeNodes
<1>2. h \in [Nodes -> NodeRecords]
  BY <1>1 DEF NodesSound
<1>3. o = IF taken THEN [h EXCEPT ![n] = new] ELSE h
  BY DEF Observe
<1>4. AppliedTo(g, o, id) = {x \in DOMAIN o : Len(o[x].ids) > Len(h[x].ids)}
  BY DEF AppliedTo
<1>5. \A x \in Nodes : b[x] = IF x \in AppliedTo(g, o, id) THEN Append(a[x], id) ELSE a[x]
  OBVIOUS
<1> HIDE DEF h, o, new
<1>6. \A x \in Nodes : h[x] \in NodeRecords /\ h[x].ids \in Seq(Ids) /\ Len(h[x].ids) \in Nat
  BY <1>2 DEF NodeRecords
<1>7. CASE ~taken
  <2>1. o = h
    BY <1>3, <1>7
  <2>2. AppliedTo(g, o, id) = {}
    BY <1>2, <1>4, <1>6, <2>1
  <2>3. \A x \in Nodes : b[x] = a[x]
    BY <1>5, <2>2
  <2> QED
    <3>1. NodesSound(o, b, s, v)
      BY <1>1, <2>1, <2>3 DEF NodesSound
    <3>2. \A x \in Nodes : o[x].status = g[x].status
      BY <1>1, <2>1
    <3> QED
      BY <3>1, <3>2 DEF Keeps
<1>8. CASE taken
  <2>1. o = [h EXCEPT ![n] = new] /\ n \in Nodes
    BY <1>3, <1>8
  <2>2. /\ Append(h[n].ids, id) \in Seq(Ids) /\ Len(Append(h[n].ids, id)) = Len(h[n].ids) + 1
        /\ Members(Append(h[n].ids, id)) \subseteq Members(h[n].ids) \cup {id}
        /\ Append(h[n].ids, id) # <<>>
    <3>1. h[n].ids \in Seq(Ids)
      BY <1>6, <2>1
    <3> QED
      BY <3>1 DEF Members
  <2>3. /\ new \in NodeRecords /\ new.ids = Append(h[n].ids, id)
        /\ new.status \in {"suspected", "confirmed"}
        /\ new.status = "confirmed" => status = "confirmed" \/ h[n].status = "confirmed"
        /\ h[n].status = "confirmed" => new.status = "confirmed"
    BY <1>6, <1>8, <2>1, <2>2 DEF new, NodeRecords, NodeStatus
  <2>4. o \in [Nodes -> NodeRecords] /\ o[n] = new /\ \A x \in Nodes \ {n} : o[x] = h[x]
    BY <1>2, <2>1, <2>3
  <2>5. \A x \in Nodes : x \in AppliedTo(g, o, id) <=> x = n
    BY <1>4, <1>6, <2>1, <2>2, <2>3, <2>4
  <2>6. b[n] = Append(a[n], id) /\ \A x \in Nodes \ {n} : b[x] = a[x]
    BY <1>5, <2>1, <2>5
  <2>7. Agree(o[n].ids, b[n])
    <3>1. Agree(h[n].ids, a[n]) /\ Len(h[n].ids) <= Cap /\ id \notin Members(h[n].ids)
      BY <1>1, <1>8 DEF NodesSound
    <3>2. Agree(Append(h[n].ids, id), Append(a[n], id))
      BY <3>1, AppendAgrees
    <3> QED
      BY <2>3, <2>4, <2>6, <3>2
  <2>8. o[n].status # "not_observed" /\ o[n].ids # <<>> /\ Members(o[n].ids) \subseteq s
    BY <1>1, <2>1, <2>2, <2>3, <2>4 DEF NodesSound
  <2>9. o[n].status = "confirmed" => n \in v
    BY <1>1, <2>1, <2>3, <2>4 DEF NodesSound
  <2>10. NodesSound(o, b, s, v)
    BY <1>1, <2>4, <2>6, <2>7, <2>8, <2>9 DEF NodesSound
  <2>11. Keeps(g, o, Nodes)
    <3>1. ASSUME NEW x \in Nodes, g[x].status = "confirmed" PROVE o[x].status = "confirmed"
      BY <1>1, <2>3, <2>4, <3>1
    <3> QED
      BY <3>1 DEF Keeps
  <2> QED
    BY <2>10, <2>11
<1> QED
  BY <1>7, <1>8

(* What evidence says of the acquisition of a flag, and whose word it is.    *)
Granted(e) == e.submission = "accepted" \/ (e.acquisition = "confirmed" /\ e.provenance = "referee")

LEMMA SubmittedFacts ==
    ASSUME NEW e, NEW flag \in FlagRecords
    PROVE  LET new == Submitted(e, flag) IN
           /\ new \in FlagRecords /\ new.ids = flag.ids
           /\ flag.status = "confirmed" => new.status = "confirmed"
           /\ new.status = "confirmed" => flag.status = "confirmed" \/ Granted(e)
<1> DEFINE old == flag.status
           acquired == Acquired(e, flag.status)
           status == CASE e.submission = "accepted" -> "confirmed"
                       [] e.submission = "detected" /\ acquired = "not_observed" -> "suspected"
                       [] OTHER -> acquired
           submission == IF e.submission \in SubmissionStatus THEN e.submission ELSE flag.submission
           provenance == IF e.submission \in {"accepted", "rejected"} THEN "referee" ELSE flag.provenance
<1>1. /\ flag.status \in NodeStatus /\ flag.submission \in SubmissionStatus
      /\ flag.provenance \in Provenance /\ flag.ids \in Seq(Ids)
  BY DEF FlagRecords
<1>2. /\ acquired \in NodeStatus
      /\ old = "confirmed" => acquired = "confirmed"
      /\ acquired = "confirmed" => old = "confirmed" \/ Granted(e)
  <2>1. Claimed(e) = "confirmed" => Granted(e)
    BY DEF Claimed, Granted
  <2>2. e.acquisition \in NodeStatus => Claimed(e) \in NodeStatus
    BY DEF Claimed, NodeStatus
  <2> QED
    BY <1>1, <2>1, <2>2 DEF Acquired
<1> HIDE DEF acquired
<1>3. /\ status \in NodeStatus
      /\ old = "confirmed" => status = "confirmed"
      /\ status = "confirmed" => old = "confirmed" \/ Granted(e)
  <2>1. CASE e.submission = "accepted"
    BY <2>1 DEF NodeStatus, Granted
  <2>2. CASE e.submission = "detected" /\ acquired = "not_observed"
    BY <1>2, <2>2 DEF NodeStatus
  <2>3. CASE e.submission # "accepted" /\ ~(e.submission = "detected" /\ acquired = "not_observed")
    BY <1>2, <2>3
  <2> QED
    BY <2>1, <2>2, <2>3
<1>4. submission \in SubmissionStatus /\ provenance \in Provenance
  BY <1>1 DEF Provenance
<1>5. Submitted(e, flag) =
        [flag EXCEPT !.status = status, !.submission = submission, !.provenance = provenance]
  BY DEF Submitted, acquired
<1> HIDE DEF status, submission, provenance
<1> QED
  BY <1>1, <1>3, <1>4, <1>5 DEF FlagRecords

(* apply_flag_evidence touches one objective, or none.                       *)
LEMMA ApplyFlagFacts ==
    ASSUME NEW g, NEW a, NEW v, FlagsSound(g, a, v), NEW e, e.id \in Ids,
           e.flag \in Flags /\ Granted(e) => e.flag \in v,
           NEW b \in [Objects -> Seq(Ids)],
           \A x \in Flags : b[x] = IF x \in AppliedTo(g, ApplyFlag(g, e), e.id)
                                   THEN Append(a[x], e.id) ELSE a[x]
    PROVE  FlagsSound(ApplyFlag(g, e), b, v) /\ Keeps(g, ApplyFlag(g, e), Flags)
<1> DEFINE h == Normalize(g)
           o == ApplyFlag(g, e)
           f == e.flag
           taken == f \in Flags /\ e.id \notin Members(h[f].ids)
           sub == Submitted(e, h[f])
           new == [sub EXCEPT !.ids = Append(@, e.id)]
<1> SUFFICES FlagsSound(o, b, v) /\ Keeps(g, o, Flags)
  OBVIOUS
<1>1. /\ FlagsSound(h, a, v)
      /\ \A x \in Flags : h[x].status = g[x].status /\ Len(h[x].ids) <= Cap
  BY NormalizeFlags
<1>2. h \in [Flags -> FlagRecords]
  BY <1>1 DEF FlagsSound
<1>3. o = IF taken THEN [h EXCEPT ![f] = new] ELSE h
  BY DEF ApplyFlag
<1>4. AppliedTo(g, o, e.id) = {x \in DOMAIN o : Len(o[x].ids) > Len(h[x].ids)}
  BY DEF AppliedTo
<1>5. /\ \A x \in Flags : b[x] = IF x \in AppliedTo(g, o, e.id) THEN Append(a[x], e.id) ELSE a[x]
      /\ f \in Flags /\ Granted(e) => f \in v
  OBVIOUS
<1> HIDE DEF h, o, sub, f
<1>6. \A x \in Flags : h[x] \in FlagRecords /\ h[x].ids \in Seq(Ids) /\ Len(h[x].ids) \in Nat
  BY <1>2 DEF FlagRecords
<1>7. CASE ~taken
  <2>1. o = h
    BY <1>3, <1>7
  <2>2. AppliedTo(g, o, e.id) = {}
    BY <1>2, <1>4, <1>6, <2>1
  <2>3. \A x \in Flags : b[x] = a[x]
    BY <1>5, <2>2
  <2>4. FlagsSound(o, b, v)
    BY <1>1, <2>1, <2>3 DEF FlagsSound
  <2> QED
    BY <1>1, <2>1, <2>4 DEF Keeps
<1>8. CASE taken
  <2>1. f \in Flags /\ h[f] \in FlagRecords /\ o = [h EXCEPT ![f] = new]
    BY <1>3, <1>6, <1>8
  <2>2. /\ sub \in FlagRecords /\ sub.ids = h[f].ids
        /\ h[f].status = "confirmed" => sub.status = "confirmed"
        /\ sub.status = "confirmed" => h[f].status = "confirmed" \/ Granted(e)
    BY <2>1, SubmittedFacts DEF sub
  <2>3. /\ Append(h[f].ids, e.id) \in Seq(Ids)
        /\ Len(Append(h[f].ids, e.id)) = Len(h[f].ids) + 1
    BY <1>6, <2>1
  <2>4. new \in FlagRecords /\ new.status = sub.status /\ new.ids = Append(h[f].ids, e.id)
    BY <2>2, <2>3 DEF FlagRecords
  <2> HIDE DEF new
  <2>5. o \in [Flags -> FlagRecords] /\ o[f] = new /\ \A x \in Flags \ {f} : o[x] = h[x]
    BY <1>2, <2>1, <2>4
  <2>6. \A x \in Flags : x \in AppliedTo(g, o, e.id) <=> x = f
    BY <1>4, <1>6, <2>1, <2>3, <2>4, <2>5
  <2>7. b[f] = Append(a[f], e.id) /\ \A x \in Flags \ {f} : b[x] = a[x]
    BY <1>5, <2>1, <2>6
  <2>8. Agree(o[f].ids, b[f])
    <3>1. Agree(h[f].ids, a[f]) /\ Len(h[f].ids) <= Cap /\ e.id \notin Members(h[f].ids)
      BY <1>1, <1>8 DEF FlagsSound
    <3>2. Agree(Append(h[f].ids, e.id), Append(a[f], e.id))
      BY <3>1, AppendAgrees
    <3> QED
      BY <2>4, <2>5, <2>7, <3>2
  <2>9. o[f].status = "confirmed" => f \in v
    BY <1>1, <1>5, <2>1, <2>2, <2>4, <2>5 DEF FlagsSound
  <2>10. FlagsSound(o, b, v)
    BY <1>1, <2>5, <2>7, <2>8, <2>9 DEF FlagsSound
  <2>11. ASSUME NEW x \in Flags, g[x].status = "confirmed" PROVE o[x].status = "confirmed"
    BY <1>1, <2>2, <2>4, <2>5, <2>11
  <2> QED
    BY <2>10, <2>11 DEF Keeps
<1> QED
  BY <1>7, <1>8

(* What is seen and vouched for later still stands for what was sound before.*)
LEMMA SoundLater ==
    ASSUME NEW g, NEW h, NEW a, NEW s, NEW v, NEW t, NEW w,
           NodesSound(g, a, s, v), FlagsSound(h, a, v), s \subseteq t, v \subseteq w
    PROVE  NodesSound(g, a, t, w) /\ FlagsSound(h, a, w)
  BY DEF NodesSound, FlagsSound

(* The graph and the objectives of a default state, and no history.          *)
LEMMA DefaultSound ==
    ASSUME NEW s, NEW v
    PROVE  /\ NodesSound(default_graph, DefaultFile.applied, s, v)
           /\ FlagsSound(default_flag_objectives, DefaultFile.applied, v)
           /\ DefaultFile.applied \in [Objects -> Seq(Ids)]
           /\ Keeps(default_graph, default_graph, Nodes)
           /\ Keeps(default_flag_objectives, default_flag_objectives, Flags)
<1>1. <<>> \in Seq(Ids) /\ Len(<<>>) = 0 /\ Members(<<>>) = {} /\ Once(<<>>)
  BY DEF Members, Once
<1>2. Cap \in Nat \ {0}
  BY LimitAssumption
<1>3. Agree(<<>>, <<>>)
  BY <1>1, <1>2 DEF Agree
<1>4. /\ default_graph \in [Nodes -> NodeRecords]
      /\ \A n \in Nodes : /\ default_graph[n].ids = <<>>
                          /\ default_graph[n].status = "not_observed"
  BY <1>1 DEF default_graph, NodeRecords, NodeStatus
<1>5. /\ default_flag_objectives \in [Flags -> FlagRecords]
      /\ \A f \in Flags : /\ default_flag_objectives[f].ids = <<>>
                          /\ default_flag_objectives[f].status = "not_observed"
  BY <1>1 DEF default_flag_objectives, FlagRecords, NodeStatus, SubmissionStatus, Provenance
<1>6. /\ DefaultFile.applied \in [Objects -> Seq(Ids)]
      /\ \A x \in Objects : DefaultFile.applied[x] = <<>>
  BY <1>1 DEF DefaultFile
<1>7. \A n \in Nodes : n \in Objects
  BY DEF Objects
<1>8. \A f \in Flags : f \in Objects
  BY DEF Objects
<1>9. NodesSound(default_graph, DefaultFile.applied, s, v)
  BY <1>1, <1>3, <1>4, <1>6, <1>7 DEF NodesSound
<1>10. FlagsSound(default_flag_objectives, DefaultFile.applied, v)
  BY <1>3, <1>5, <1>6, <1>8 DEF FlagsSound
<1> QED
  BY <1>6, <1>9, <1>10 DEF Keeps

----------------------------------------------------------------------------
(* The invariant                                                           *)

(* Whatever waits to be applied, or to be cited, has been seen. *)
Entries == [id : Ids, fingerprint : {e.fingerprint : e \in Evidence} \cup ActionResults]

Grounds ==
    /\ phase \in {"down", "collecting", "reasoning", "executing", "failed"}
    /\ seen \subseteq Ids /\ vouched \subseteq Objects /\ batch \subseteq seen
    /\ buffer \in Seq(Entries) /\ \A i \in DOMAIN buffer : buffer[i].id \in seen
    /\ pending \in [node : Nodes \cup {None}, ids : Seq(Ids)] /\ Members(pending.ids) \subseteq seen

Memory ==
    /\ applied \in [Objects -> Seq(Ids)]
    /\ NodesSound(graph, applied, seen, vouched) /\ FlagsSound(flags, applied, vouched)

(* The file is as sound as the memory, which has not lost a confirmation since. *)
File ==
    /\ saved.applied \in [Objects -> Seq(Ids)]
    /\ NodesSound(saved.graph, saved.applied, seen, vouched)
    /\ FlagsSound(saved.flags, saved.applied, vouched)
    /\ Keeps(saved.graph, graph, Nodes) /\ Keeps(saved.flags, flags, Flags)

IInv == Grounds /\ Memory /\ File

LEMMA Initially == Init => IInv
<1> SUFFICES ASSUME Init PROVE IInv
  OBVIOUS
<1>1. Grounds
  <2>1. buffer \in Seq(Entries) /\ \A i \in DOMAIN buffer : buffer[i].id \in seen
    BY DEF Init
  <2>2. /\ pending \in [node : Nodes \cup {None}, ids : Seq(Ids)]
        /\ Members(pending.ids) \subseteq seen
    BY DEF Init, NothingToApply, Members
  <2> QED
    BY <2>1, <2>2 DEF Init, Grounds
<1>2. applied = DefaultFile.applied /\ saved.applied = DefaultFile.applied
      /\ saved.graph = default_graph /\ saved.flags = default_flag_objectives
  BY DEF Init, DefaultFile
<1> QED
  BY <1>1, <1>2, DefaultSound DEF Init, IInv, Memory, File

(* Whatever is taken up to be applied or cited has been seen.                *)
LEMMA GroundsStep == ASSUME IInv, Next \/ UNCHANGED vars PROVE Grounds'
<1> USE DEF IInv, Grounds
<1>1. CASE Load \/ LoadDefault \/ UNCHANGED vars
  BY <1>1 DEF Load, LoadDefault, vars
<1>2. ASSUME NEW e \in Evidence, Collect(e) PROVE Grounds'
  <2>1. e.id \in Ids /\ [id |-> e.id, fingerprint |-> e.fingerprint] \in Entries
    BY DEF Ids, Entries
  <2>2. /\ buffer' = Append(buffer, [id |-> e.id, fingerprint |-> e.fingerprint])
        /\ seen' = seen \cup {e.id} /\ UNCHANGED <<phase, batch, pending>>
        /\ vouched' = vouched \cup Vouches(e)
    BY <1>2 DEF Collect
  <2>3. buffer' \in Seq(Entries) /\ \A i \in DOMAIN buffer' : buffer'[i].id \in seen'
    BY <2>1, <2>2
  <2>4. vouched' \subseteq Objects
    BY <2>2 DEF Vouches, Objects
  <2> QED
    BY <2>1, <2>2, <2>3, <2>4
<1>3. CASE Reason
  <2>1. buffer' = <<>> /\ batch' = Aggregated /\ phase' = "reasoning"
        /\ UNCHANGED <<pending, seen, vouched>>
    BY <1>3 DEF Reason
  <2>2. Aggregated \subseteq seen
    BY DEF Aggregated, Firsts
  <2>3. buffer' \in Seq(Entries) /\ \A i \in DOMAIN buffer' : buffer'[i].id \in seen'
    BY <2>1
  <2> QED
    BY <2>1, <2>2, <2>3
<1>4. ASSUME NEW n \in Nodes \cup {None}, NEW ids \in Citations, Suspect(n, ids) PROVE Grounds'
  <2>1. /\ pending' = [node |-> n, ids |-> ids] /\ Members(ids) \subseteq batch
        /\ UNCHANGED <<phase, buffer, batch, seen, vouched>>
    BY <1>4 DEF Suspect
  <2>2. PICK k \in 1..MaxCited : ids \in [1..k -> Ids]
    BY DEF Citations
  <2>3. ids \in Seq(Ids)
    BY <2>2, LimitAssumption
  <2> QED
    BY <2>1, <2>3
<1>5. CASE Apply
  <2>1. /\ pending.ids # <<>>
        /\ pending' = IF Len(pending.ids) > 1 THEN [pending EXCEPT !.ids = Tail(@)] ELSE NothingToApply
        /\ UNCHANGED <<phase, buffer, batch, seen, vouched>>
    BY <1>5 DEF Apply
  <2>2. /\ Tail(pending.ids) \in Seq(Ids)
        /\ Members(Tail(pending.ids)) \subseteq Members(pending.ids)
    BY <2>1 DEF Members
  <2>3. /\ NothingToApply \in [node : Nodes \cup {None}, ids : Seq(Ids)]
        /\ Members(NothingToApply.ids) = {}
    BY DEF NothingToApply, Members
  <2> QED
    BY <2>1, <2>2, <2>3
<1>6. ASSUME NEW id \in ActionResults, Contain(id) PROVE Grounds'
  <2>1. id \in Ids /\ [id |-> id, fingerprint |-> id] \in Entries
    BY DEF Ids, Entries
  <2>2. /\ buffer' = Append(buffer, [id |-> id, fingerprint |-> id]) /\ phase' = "executing"
        /\ seen' = seen \cup {id} /\ UNCHANGED <<batch, pending, vouched>>
    BY <1>6 DEF Contain
  <2>3. buffer' \in Seq(Entries) /\ \A i \in DOMAIN buffer' : buffer'[i].id \in seen'
    BY <2>1, <2>2
  <2> QED
    BY <2>1, <2>2, <2>3
<1>7. CASE ApplyRaises \/ Save \/ Crash
  <2>1. /\ NothingToApply \in [node : Nodes \cup {None}, ids : Seq(Ids)]
        /\ Members(NothingToApply.ids) = {}
    BY DEF NothingToApply, Members
  <2>2. <<>> \in Seq(Entries) /\ DOMAIN <<>> = {}
    OBVIOUS
  <2> QED
    BY <1>7, <2>1, <2>2 DEF ApplyRaises, Save, Crash
<1> HIDE DEF IInv, Grounds
<1> QED
  BY <1>1, <1>2, <1>3, <1>4, <1>5, <1>6, <1>7 DEF Next

(* An object that has nothing new applied keeps its history.                 *)
LEMMA NoteFacts ==
    ASSUME IInv, NEW objects, NEW id \in Ids, Note(objects, id)
    PROVE  /\ applied' \in [Objects -> Seq(Ids)]
           /\ \A x \in Objects : applied'[x] = IF x \in objects THEN Append(applied[x], id) ELSE applied[x]
  BY DEF Note, IInv, Memory

LEMMA ApartFacts ==
    ASSUME NEW g, NEW h, NEW n, NEW id, NEW status, NEW e,
           g \in [Nodes -> NodeRecords], h \in [Flags -> FlagRecords]
    PROVE  /\ AppliedTo(g, Observe(g, n, id, status), id) \subseteq Nodes
           /\ AppliedTo(h, ApplyFlag(h, e), id) \subseteq Flags
<1>1. DOMAIN Normalize(g) = Nodes /\ DOMAIN Normalize(h) = Flags
  BY DEF Normalize
<1>2. DOMAIN Observe(g, n, id, status) = Nodes
  BY <1>1 DEF Observe
<1>3. DOMAIN ApplyFlag(h, e) = Flags
  BY <1>1 DEF ApplyFlag
<1> QED
  BY <1>2, <1>3 DEF AppliedTo

(* tick and its save: memory and file stay sound, and memory keeps what the   *)
(* file calls confirmed.                                                     *)
LEMMA StateStep == ASSUME IInv, Next \/ UNCHANGED vars PROVE Memory' /\ File'
<1>0. /\ applied \in [Objects -> Seq(Ids)]
      /\ NodesSound(graph, applied, seen, vouched) /\ FlagsSound(flags, applied, vouched)
      /\ saved.applied \in [Objects -> Seq(Ids)]
      /\ NodesSound(saved.graph, saved.applied, seen, vouched)
      /\ FlagsSound(saved.flags, saved.applied, vouched)
      /\ Keeps(saved.graph, graph, Nodes) /\ Keeps(saved.flags, flags, Flags)
  BY DEF IInv, Memory, File
<1>1. CASE Load
  <2>1. /\ graph' = Normalize(saved.graph) /\ flags' = Normalize(saved.flags)
        /\ applied' = saved.applied /\ UNCHANGED <<saved, seen, vouched>>
    BY <1>1 DEF Load
  <2>2. /\ NodesSound(graph', applied', seen', vouched')
        /\ \A n \in Nodes : graph'[n].status = saved.graph[n].status
    BY <1>0, <2>1, NormalizeNodes
  <2>3. /\ FlagsSound(flags', applied', vouched')
        /\ \A f \in Flags : flags'[f].status = saved.flags[f].status
    BY <1>0, <2>1, NormalizeFlags
  <2> QED
    BY <1>0, <2>1, <2>2, <2>3 DEF Memory, File, Keeps
<1>2. CASE LoadDefault
  <2>1. /\ graph' = default_graph /\ flags' = default_flag_objectives
        /\ applied' = DefaultFile.applied
        /\ saved'.graph = default_graph /\ saved'.flags = default_flag_objectives
        /\ saved'.applied = DefaultFile.applied
    BY <1>2 DEF LoadDefault, DefaultFile
  <2> QED
    BY <2>1, DefaultSound DEF Memory, File
<1>3. ASSUME NEW e \in Evidence, Collect(e) PROVE Memory' /\ File'
  <2>1. /\ graph' = Observe(graph, SystemNode(e), e.id, SystemStatus(e))
        /\ flags' = ApplyFlag(flags, e)
        /\ seen' = seen \cup {e.id} /\ vouched' = vouched \cup Vouches(e) /\ saved' = saved
        /\ Note(AppliedTo(graph, graph', e.id) \cup AppliedTo(flags, flags', e.id), e.id)
    BY <1>3 DEF Collect
  <2>2. e.id \in Ids /\ e.id \in seen'
    BY <2>1 DEF Ids
  <2>3. /\ SystemNode(e) \in Nodes /\ SystemStatus(e) = "confirmed" => SystemNode(e) \in vouched'
        /\ e.flag \in Flags /\ Granted(e) => e.flag \in vouched'
    BY <2>1 DEF Vouches, Granted
  <2>4. /\ NodesSound(graph, applied, seen', vouched') /\ FlagsSound(flags, applied, vouched')
        /\ NodesSound(saved.graph, saved.applied, seen', vouched')
        /\ FlagsSound(saved.flags, saved.applied, vouched')
    <3>1. seen \subseteq seen' /\ vouched \subseteq vouched'
      BY <2>1
    <3>2. NodesSound(graph, applied, seen', vouched') /\ FlagsSound(flags, applied, vouched')
      BY <1>0, <3>1, SoundLater
    <3>3. /\ NodesSound(saved.graph, saved.applied, seen', vouched')
          /\ FlagsSound(saved.flags, saved.applied, vouched')
      BY <1>0, <3>1, SoundLater
    <3> QED
      BY <3>2, <3>3
  <2>5. /\ applied' \in [Objects -> Seq(Ids)]
        /\ \A x \in Objects : applied'[x] =
              IF x \in AppliedTo(graph, graph', e.id) \cup AppliedTo(flags, flags', e.id)
              THEN Append(applied[x], e.id) ELSE applied[x]
    BY <2>1, <2>2, NoteFacts
  <2>6. AppliedTo(graph, graph', e.id) \subseteq Nodes /\ AppliedTo(flags, flags', e.id) \subseteq Flags
    BY <1>0, <2>1, ApartFacts DEF NodesSound, FlagsSound
  <2>7. /\ \A x \in Nodes : applied'[x] = IF x \in AppliedTo(graph, graph', e.id)
                                          THEN Append(applied[x], e.id) ELSE applied[x]
        /\ \A x \in Flags : applied'[x] = IF x \in AppliedTo(flags, flags', e.id)
                                          THEN Append(applied[x], e.id) ELSE applied[x]
    BY <2>5, <2>6, OntologyAssumption DEF Objects
  <2>8. NodesSound(graph', applied', seen', vouched') /\ Keeps(graph, graph', Nodes)
    <3> DEFINE id == e.id
               n == SystemNode(e)
               status == SystemStatus(e)
    <3>1. /\ id \in Ids /\ id \in seen' /\ graph' = Observe(graph, n, id, status)
          /\ n \in Nodes /\ status = "confirmed" => n \in vouched'
          /\ \A x \in Nodes : applied'[x] = IF x \in AppliedTo(graph, graph', id)
                                             THEN Append(applied[x], id) ELSE applied[x]
      BY <2>1, <2>2, <2>3, <2>7
    <3> HIDE DEF id, n, status
    <3> QED
      BY <2>4, <2>5, <3>1, ObserveFacts
  <2>9. FlagsSound(flags', applied', vouched') /\ Keeps(flags, flags', Flags)
    BY <2>1, <2>2, <2>3, <2>4, <2>5, <2>7, ApplyFlagFacts
  <2>10. Keeps(saved.graph, graph', Nodes) /\ Keeps(saved.flags, flags', Flags)
    BY <1>0, <2>8, <2>9 DEF Keeps
  <2> QED
    BY <1>0, <2>1, <2>4, <2>5, <2>8, <2>9, <2>10 DEF Memory, File
<1>4. CASE Apply
  <2> DEFINE id == Head(pending.ids)
  <2>1. /\ graph' = Observe(graph, pending.node, id, "suspected")
        /\ Note(AppliedTo(graph, graph', id), id) /\ pending.ids # <<>>
        /\ UNCHANGED <<flags, saved, seen, vouched>>
    BY <1>4 DEF Apply
  <2>2. id \in Ids /\ id \in seen
    BY <2>1 DEF IInv, Grounds, Members
  <2> HIDE DEF id
  <2>3. /\ applied' \in [Objects -> Seq(Ids)]
        /\ \A x \in Objects : applied'[x] =
              IF x \in AppliedTo(graph, graph', id) THEN Append(applied[x], id) ELSE applied[x]
    BY <2>1, <2>2, NoteFacts
  <2>4. AppliedTo(graph, graph', id) \subseteq Nodes
    BY <1>0, <2>1, ApartFacts DEF NodesSound, FlagsSound
  <2>5. /\ \A x \in Nodes : applied'[x] = IF x \in AppliedTo(graph, graph', id)
                                          THEN Append(applied[x], id) ELSE applied[x]
        /\ \A x \in Flags : applied'[x] = applied[x]
    BY <2>3, <2>4, OntologyAssumption DEF Objects
  <2>6. NodesSound(graph', applied', seen, vouched) /\ Keeps(graph, graph', Nodes)
    BY <1>0, <2>1, <2>2, <2>3, <2>5, ObserveFacts
  <2>7. FlagsSound(flags, applied', vouched)
    BY <1>0, <2>5 DEF FlagsSound
  <2>8. Keeps(saved.graph, graph', Nodes)
    BY <1>0, <2>6 DEF Keeps
  <2> QED
    BY <1>0, <2>1, <2>3, <2>6, <2>7, <2>8 DEF Memory, File
<1>5. CASE Save
  <2>1. /\ saved'.graph = graph /\ saved'.flags = flags /\ saved'.applied = applied
        /\ UNCHANGED <<graph, flags, seen, vouched, applied>>
    BY <1>5 DEF Save
  <2> QED
    BY <1>0, <2>1 DEF Memory, File, Keeps
<1>6. ASSUME NEW id \in ActionResults, Contain(id) PROVE Memory' /\ File'
  <2>1. seen' = seen \cup {id} /\ UNCHANGED <<graph, flags, saved, vouched, applied>>
    BY <1>6 DEF Contain
  <2>2. /\ NodesSound(graph, applied, seen', vouched)
        /\ NodesSound(saved.graph, saved.applied, seen', vouched)
    BY <1>0, <2>1, SoundLater
  <2> QED
    BY <1>0, <2>1, <2>2 DEF Memory, File
<1>7. ASSUME UNCHANGED <<graph, flags, saved, seen, vouched, applied>> PROVE Memory' /\ File'
  BY <1>0, <1>7 DEF Memory, File
<1>8. CASE Reason \/ ApplyRaises \/ Crash \/ (\E n \in Nodes \cup {None}, ids \in Citations : Suspect(n, ids))
           \/ UNCHANGED vars
  BY <1>7, <1>8 DEF Reason, Suspect, ApplyRaises, Crash, vars
<1> QED
  BY <1>1, <1>2, <1>3, <1>4, <1>5, <1>6, <1>8 DEF Next

(* The invariant everything below follows from. *)
THEOREM Invariance == Spec => []IInv
<1>1. IInv /\ [Next]_vars => IInv'
  BY GroundsStep, StateStep DEF IInv
<1> QED
  BY <1>1, Initially, PTL DEF Spec

----------------------------------------------------------------------------
(* The properties                                                          *)

LEMMA InLists ==
    ASSUME NEW ids \in Seq(Ids), Len(ids) <= Cap + 1
    PROVE  ids \in Lists
<1>1. Len(ids) \in 0..(Cap + 1) /\ ids \in [1..Len(ids) -> Ids]
  BY LimitAssumption
<1> QED
  BY <1>1 DEF Lists

(* The nodes and the objectives, in memory and in the file, keep their kinds; *)
(* a list of ids holds at most one more than normalisation leaves.           *)
THEOREM TypeCorrect == Spec => []TypeOK
<1>1. ASSUME IInv PROVE TypeOK
  <2>1. ASSUME NEW g, NEW a, NodesSound(g, a, seen, vouched), NEW n \in Nodes
        PROVE  g[n].status \in NodeStatus /\ g[n].ids \in Lists
    <3>1. g[n] \in NodeRecords /\ Agree(g[n].ids, a[n])
      BY <2>1 DEF NodesSound
    <3> QED
      BY <3>1, InLists DEF NodeRecords, Agree
  <2>2. ASSUME NEW h, NEW a, FlagsSound(h, a, vouched), NEW f \in Flags
        PROVE  /\ h[f].status \in NodeStatus /\ h[f].ids \in Lists
               /\ h[f].submission \in SubmissionStatus /\ h[f].provenance \in Provenance
    <3>1. h[f] \in FlagRecords /\ Agree(h[f].ids, a[f])
      BY <2>2 DEF FlagsSound
    <3> QED
      BY <3>1, InLists DEF FlagRecords, Agree
  <2>3. \A g \in {graph, saved.graph} : \A n \in Nodes : g[n].status \in NodeStatus /\ g[n].ids \in Lists
    BY <1>1, <2>1 DEF IInv, Memory, File
  <2>4. \A h \in {flags, saved.flags} : \A f \in Flags :
           /\ h[f].status \in NodeStatus /\ h[f].ids \in Lists
           /\ h[f].submission \in SubmissionStatus /\ h[f].provenance \in Provenance
    BY <1>1, <2>2 DEF IInv, Memory, File
  <2> QED
    BY <1>1, <2>3, <2>4 DEF IInv, Grounds, TypeOK
<1> QED
  BY <1>1, Invariance, PTL

(* apply_observation, apply_analysis and the state file: a node is suspected  *)
(* or confirmed exactly when evidence that was collected or produced stands   *)
(* for it; what Kimi makes up never gets into the graph.                      *)
THEOREM Evidenced == Spec => []StatusIsEvidenced
<1>1. IInv => StatusIsEvidenced
  BY DEF IInv, Memory, File, NodesSound, StatusIsEvidenced
<1> QED
  BY <1>1, Invariance, PTL

(* apply_flag_evidence and apply_system_evidence: no number of suspicions,    *)
(* detections, rejections or restarts makes a confirmation.                   *)
THEOREM Vouched == Spec => []ConfirmedIsVouched
<1>1. IInv => ConfirmedIsVouched
  BY DEF IInv, Memory, NodesSound, FlagsSound, ConfirmedIsVouched
<1> QED
  BY <1>1, Invariance, PTL

(* What the state file once calls confirmed it never takes back, unless it is *)
(* replaced by a default one because it could not be read.                    *)
THEOREM Stays == Spec => ConfirmedStays
<1>1. ASSUME IInv, [Next]_vars, phase # "down"
      PROVE  /\ \A n \in Nodes : saved.graph[n].status = "confirmed" => saved'.graph[n].status = "confirmed"
             /\ \A f \in Flags : saved.flags[f].status = "confirmed" => saved'.flags[f].status = "confirmed"
  <2>1. CASE saved' = saved
    BY <2>1
  <2>2. CASE Save
    <3>1. saved'.graph = graph /\ saved'.flags = flags
      BY <2>2 DEF Save
    <3> QED
      BY <1>1, <3>1 DEF IInv, File, Keeps
  <2>3. saved' = saved \/ Save
    BY <1>1 DEF Next, Load, LoadDefault, Collect, Reason, Suspect, Apply, ApplyRaises, Contain,
                Crash, vars
  <2> QED
    BY <2>1, <2>2, <2>3
<1>2. IInv /\ [Next]_vars =>
        [phase # "down" =>
          /\ \A n \in Nodes : saved.graph[n].status = "confirmed" => saved'.graph[n].status = "confirmed"
          /\ \A f \in Flags : saved.flags[f].status = "confirmed" => saved'.flags[f].status = "confirmed"]_vars
  BY <1>1
<1> QED
  BY <1>2, Invariance, PTL DEF Spec, ConfirmedStays

(* Evidence that comes again with its id changes nothing, over restarts: of    *)
(* all that was ever applied to an object, the first Cap are applied once.     *)
THEOREM Applied == Spec => []AppliedOnce
<1>1. ASSUME IInv PROVE AppliedOnce
  <2>1. \A n \in Nodes : Once(applied[n])
    BY <1>1 DEF IInv, Memory, NodesSound, Agree
  <2>2. \A f \in Flags : Once(applied[f])
    BY <1>1 DEF IInv, Memory, FlagsSound, Agree
  <2> QED
    BY <2>1, <2>2 DEF AppliedOnce, Once, Objects
<1> QED
  BY <1>1, Invariance, PTL
=============================================================================
