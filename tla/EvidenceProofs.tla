--------------------------- MODULE EvidenceProofs ---------------------------
(* Machine-checked proofs about what the Defender does with the lines of the  *)
(* access log, for any number of lines, batches, failures and restarts.       *)
EXTENDS DefenderProofs, SelectionsProofs

----------------------------------------------------------------------------
(* The invariant                                                           *)

Items == [n : Nat, src : Addresses]

(* The log's lines are numbered as they are written. *)
LogInv ==
    /\ log.last <= MaxLines
    /\ \A i \in DOMAIN log.lines : log.lines[i].n \in 1..log.last

(* What is in the buffer is lines, and actions; a process that is gone has none. *)
BufferInv ==
    /\ Numbers(buffer) \subseteq Lines \cup {0}
    /\ mode = "down" => buffer = <<>>

(* The first process starts without a state file, and is not set back. *)
FirstInv == deaths = 0 => rewinds = 0 /\ (mode = "down" => disk = Missing)

(* Between two ticks the place in the log is the persisted one. *)
PersistedInv ==
    mode = "up" /\ pc = "sleep" =>
        disk # Missing /\ disk.inode = state.inode /\ disk.offset = state.offset

(* A line that is still to be read from the place in st. *)
Ahead(st, n) ==
    \/ n > log.last
    \/ \E i \in DOMAIN log.lines : i > ReadFrom(st) /\ log.lines[i].n = n

(* The place the next look at the log starts from. *)
Place ==
    IF mode # "down" THEN state
    ELSE IF disk = Missing THEN Default ELSE disk

One(b) == IF b THEN 1 ELSE 0

(* A line is ahead, in the buffer, given or dropped, and more than once only as *)
(* often as a process was set back.                                          *)
OnceInv ==
    \A n \in Lines :
        given[n] + One(n \in dropped) + One(n \in Numbers(buffer)) + One(Ahead(Place, n)) <= 1 + rewinds

(* What the first process has read is in the buffer, was given or was dropped. *)
Accounted ==
    deaths = 0 => read = (Numbers(buffer) \ {0}) \cup {n \in Lines : given[n] > 0} \cup dropped

EvidenceInv ==
    /\ EvidenceTypes /\ LogInv /\ BufferInv /\ FirstInv /\ PersistedInv
    /\ OnceInv /\ Accounted

----------------------------------------------------------------------------
(* What a read finds                                                       *)

LEMMA Bounds == MaxLines \in Nat /\ Lines = 1..MaxLines
  BY LimitAssumption DEF Lines

LEMMA Kinds ==
    ASSUME ControlTypes
    PROVE  /\ log.lines \in Seq(Items) /\ log.last \in Nat /\ log.inode \in Nat
           /\ Len(log.lines) \in Nat /\ DOMAIN log.lines = 1..Len(log.lines)
           /\ \A i \in DOMAIN log.lines : log.lines[i].n \in Nat
           /\ state \in States /\ Place \in States /\ rewinds \in Nat /\ deaths \in Nat
<1>1. log.lines \in Seq(Items) /\ log.last \in Nat /\ log.inode \in Nat
  BY DEF ControlTypes, Items
<1>2. \A i \in DOMAIN log.lines : log.lines[i] \in Items
  BY <1>1
<1>3. Place \in States
  BY DefaultFacts DEF ControlTypes, Place
<1> QED
  BY <1>1, <1>2, <1>3 DEF Items, ControlTypes

LEMMA Places ==
    ASSUME NEW st \in States
    PROVE  st.inode \in Nat /\ st.offset \in Nat
  BY DEF States

(* A read begins within the file and finds its lines from there. *)
LEMMA UnreadFacts ==
    ASSUME ControlTypes, NEW st \in States
    PROVE  /\ ReadFrom(st) \in Nat /\ ReadFrom(st) <= Len(log.lines)
           /\ Unread(st) \in Seq(Items)
           /\ \A k \in DOMAIN Unread(st) :
                 /\ k + ReadFrom(st) \in DOMAIN log.lines /\ k \in Nat /\ k > 0
                 /\ Unread(st)[k] = log.lines[k + ReadFrom(st)]
<1> DEFINE from == ReadFrom(st)
           len == Len(log.lines)
<1>1. log.lines \in Seq(Items) /\ len \in Nat /\ DOMAIN log.lines = 1..len
  BY Kinds
<1>2. from \in Nat /\ from <= len
  BY <1>1, Places DEF ReadFrom
<1> HIDE DEF from
<1>3. Unread(st) = SubSeq(log.lines, from + 1, len)
  BY DEF Unread, from
<1> HIDE DEF len
<1>4. /\ SubSeq(log.lines, from + 1, len) \in Seq(Items)
      /\ Len(SubSeq(log.lines, from + 1, len)) = len - from
      /\ \A k \in 1..(len - from) : SubSeq(log.lines, from + 1, len)[k] = log.lines[k + from]
  BY <1>1, <1>2 DEF len
<1>5. DOMAIN Unread(st) = 1..(len - from)
  BY <1>3, <1>4
<1>6. \A k \in 1..(len - from) : k + from \in 1..len /\ k \in Nat /\ k > 0
  BY <1>1, <1>2
<1> QED
  BY <1>1, <1>2, <1>3, <1>4, <1>5, <1>6 DEF from, len

(* What is kept of a read are lines that were ahead. *)
LEMMA FreshFacts ==
    ASSUME ControlTypes, LogInv
    PROVE  /\ Fresh \in Seq(Items)
           /\ \A n \in Numbers(Fresh) : n \in 1..log.last /\ n \in Lines /\ Ahead(state, n)
<1> DEFINE lines == Unread(state)
           K == {i \in DOMAIN lines : ~Trusted(lines[i])}
<1>1. state \in States /\ log.last \in Nat
  BY Kinds
<1>2. /\ ReadFrom(state) \in Nat /\ lines \in Seq(Items)
      /\ \A k \in DOMAIN lines :
            /\ k + ReadFrom(state) \in DOMAIN log.lines /\ k \in Nat /\ k > 0
            /\ lines[k] = log.lines[k + ReadFrom(state)]
  BY <1>1, UnreadFacts
<1>3. Fresh = Selected(lines, K)
  BY DEF Fresh
<1> HIDE DEF lines
<1>4. K \in SUBSET DOMAIN lines
  OBVIOUS
<1> HIDE DEF K
<1>5. /\ Selected(lines, K) \in Seq(Items) /\ Len(Selected(lines, K)) = Cardinality(K)
      /\ Ascending(K) \in [1..Cardinality(K) -> K]
      /\ \A k \in 1..Cardinality(K) : Selected(lines, K)[k] = lines[Ascending(K)[k]]
  BY <1>2, <1>4, SelectedFacts
<1>6. ASSUME NEW n \in Numbers(Fresh)
      PROVE  n \in 1..log.last /\ n \in Lines /\ Ahead(state, n)
  <2>1. PICK k \in DOMAIN Fresh : n = Fresh[k].n
    BY <1>6 DEF Numbers
  <2>2. k \in 1..Cardinality(K)
    BY <1>3, <1>5, <2>1
  <2>3. PICK i \in DOMAIN lines : n = lines[i].n
    BY <1>3, <1>4, <1>5, <2>1, <2>2
  <2>4. /\ i + ReadFrom(state) \in DOMAIN log.lines /\ i + ReadFrom(state) > ReadFrom(state)
        /\ n = log.lines[i + ReadFrom(state)].n
    BY <1>2, <2>3
  <2>5. n \in 1..log.last /\ n \in Lines
    BY <1>1, <2>4, Bounds DEF LogInv
  <2> QED
    BY <2>4, <2>5 DEF Ahead
<1> QED
  BY <1>3, <1>5, <1>6

(* The numbers in a buffer. *)
LEMMA NumbersFacts ==
    ASSUME NEW S, NEW b \in Seq(S)
    PROVE  /\ \A f \in Seq(S) : Numbers(b \o f) = Numbers(b) \cup Numbers(f)
           /\ \A x \in S : Numbers(Append(b, x)) = Numbers(b) \cup {x.n}
           /\ Numbers(<<>>) = {}
<1>1. ASSUME NEW f \in Seq(S) PROVE Numbers(b \o f) = Numbers(b) \cup Numbers(f)
  <2>1. /\ Len(b) \in Nat /\ Len(f) \in Nat /\ DOMAIN b = 1..Len(b) /\ DOMAIN f = 1..Len(f)
        /\ DOMAIN (b \o f) = 1..(Len(b) + Len(f))
        /\ \A i \in 1..Len(b) : (b \o f)[i] = b[i]
        /\ \A i \in 1..Len(f) : (b \o f)[i + Len(b)] = f[i]
    OBVIOUS
  <2>2. \A i \in 1..Len(b) : i \in DOMAIN (b \o f)
    BY <2>1
  <2>3. \A i \in 1..Len(f) : i + Len(b) \in DOMAIN (b \o f)
    BY <2>1
  <2>4. ASSUME NEW i \in 1..(Len(b) + Len(f)), ~(i \in 1..Len(b))
        PROVE  i - Len(b) \in 1..Len(f) /\ (i - Len(b)) + Len(b) = i
    BY <2>1, <2>4
  <2>5. Numbers(b) \cup Numbers(f) \subseteq Numbers(b \o f)
    <3>1. ASSUME NEW i \in 1..Len(b) PROVE b[i].n \in Numbers(b \o f)
      <4>1. (b \o f)[i] = b[i] /\ i \in DOMAIN (b \o f)
        BY <2>1, <2>2
      <4> QED
        BY <4>1 DEF Numbers
    <3>2. ASSUME NEW i \in 1..Len(f) PROVE f[i].n \in Numbers(b \o f)
      <4>1. (b \o f)[i + Len(b)] = f[i] /\ i + Len(b) \in DOMAIN (b \o f)
        BY <2>1, <2>3
      <4> QED
        BY <4>1 DEF Numbers
    <3> QED
      BY <2>1, <3>1, <3>2 DEF Numbers
  <2>6. ASSUME NEW i \in DOMAIN (b \o f) PROVE (b \o f)[i].n \in Numbers(b) \cup Numbers(f)
    <3>1. CASE i \in 1..Len(b)
      BY <2>1, <3>1 DEF Numbers
    <3>2. CASE ~(i \in 1..Len(b))
      <4>1. i - Len(b) \in 1..Len(f) /\ (b \o f)[i] = f[i - Len(b)]
        BY <2>1, <2>4, <2>6, <3>2
      <4> QED
        BY <2>1, <4>1 DEF Numbers
    <3> QED
      BY <3>1, <3>2
  <2>7. Numbers(b \o f) \subseteq Numbers(b) \cup Numbers(f)
    BY <2>6 DEF Numbers
  <2> QED
    BY <2>5, <2>7
<1>2. ASSUME NEW x \in S PROVE Numbers(Append(b, x)) = Numbers(b) \cup {x.n}
  <2>1. /\ Len(b) \in Nat /\ DOMAIN b = 1..Len(b) /\ DOMAIN Append(b, x) = 1..(Len(b) + 1)
        /\ \A i \in 1..Len(b) : Append(b, x)[i] = b[i]
        /\ Append(b, x)[Len(b) + 1] = x
    OBVIOUS
  <2>2. \A i \in 1..(Len(b) + 1) : i \in 1..Len(b) \/ i = Len(b) + 1
    BY <2>1
  <2>3. Len(b) + 1 \in DOMAIN Append(b, x) /\ \A i \in 1..Len(b) : i \in DOMAIN Append(b, x)
    BY <2>1
  <2>4. Numbers(b) \cup {x.n} \subseteq Numbers(Append(b, x))
    BY <2>1, <2>3 DEF Numbers
  <2>5. ASSUME NEW i \in DOMAIN Append(b, x) PROVE Append(b, x)[i].n \in Numbers(b) \cup {x.n}
    <3>1. CASE i \in 1..Len(b)
      BY <2>1, <3>1 DEF Numbers
    <3>2. CASE i = Len(b) + 1
      BY <2>1, <3>2
    <3> QED
      BY <2>1, <2>2, <2>5, <3>1, <3>2
  <2>6. Numbers(Append(b, x)) \subseteq Numbers(b) \cup {x.n}
    BY <2>5 DEF Numbers
  <2> QED
    BY <2>4, <2>6
<1>3. Numbers(<<>>) = {}
  BY DEF Numbers
<1> QED
  BY <1>1, <1>2, <1>3

----------------------------------------------------------------------------
(* Steps that leave the evidence where it is                               *)

(* The count of a line holds when nothing more is in hand or ahead. *)
LEMMA OnceKept ==
    ASSUME IInv, EvidenceInv, UNCHANGED <<given, dropped>>, rewinds' \in Nat, rewinds' >= rewinds,
           Numbers(buffer)' \subseteq Numbers(buffer),
           \A n \in Lines : Ahead(Place, n)' => Ahead(Place, n)
    PROVE  OnceInv'
<1>1. /\ OnceInv /\ rewinds \in Nat /\ \A n \in Lines : given[n] \in Nat
  BY DEF IInv, ControlTypes, EvidenceInv, EvidenceTypes
<1>2. ASSUME NEW n \in Lines
      PROVE  given'[n] + One(n \in dropped') + One(n \in Numbers(buffer)') + One(Ahead(Place, n)')
                <= 1 + rewinds'
  <2>1. given[n] + One(n \in dropped) + One(n \in Numbers(buffer)) + One(Ahead(Place, n)) <= 1 + rewinds
    BY <1>1 DEF OnceInv
  <2>2. /\ One(n \in Numbers(buffer)') <= One(n \in Numbers(buffer))
        /\ One(Ahead(Place, n)') <= One(Ahead(Place, n))
        /\ {One(n \in dropped), One(n \in Numbers(buffer)), One(Ahead(Place, n)),
            One(n \in Numbers(buffer)'), One(Ahead(Place, n)')} \subseteq Nat
    BY DEF One
  <2> QED
    BY <1>1, <2>1, <2>2
<1> QED
  BY <1>2 DEF OnceInv

(* Nothing is read, handed on, saved or lost. *)
LEMMA EvidenceKept ==
    ASSUME IInv, EvidenceInv,
           UNCHANGED <<buffer, disk, given, dropped, read, deaths, rewinds>>,
           state'.inode = state.inode, state'.offset = state.offset,
           mode' # "down" \/ mode' = mode, mode # "down" \/ mode' = mode,
           mode' = "up" /\ pc' = "sleep" => mode = "up" /\ pc = "sleep",
           LogInv',
           \A n \in Lines : Ahead(Place, n)' => Ahead(Place, n)
    PROVE  EvidenceInv'
<1>1. rewinds' \in Nat /\ rewinds' >= rewinds /\ Numbers(buffer)' \subseteq Numbers(buffer)
  BY DEF IInv, ControlTypes
<1>2. OnceInv'
  BY <1>1, OnceKept
<1>3. EvidenceTypes' /\ BufferInv' /\ FirstInv' /\ PersistedInv' /\ Accounted'
  BY DEF EvidenceInv, EvidenceTypes, BufferInv, FirstInv, PersistedInv, Accounted
<1> QED
  BY <1>2, <1>3 DEF EvidenceInv

(* The same when the log is left alone. *)
LEMMA Quiet ==
    ASSUME IInv, EvidenceInv,
           UNCHANGED <<log, buffer, disk, given, dropped, read, deaths, rewinds>>,
           state'.inode = state.inode, state'.offset = state.offset,
           mode' # "down" \/ mode' = mode, mode # "down" \/ mode' = mode,
           mode' = "up" /\ pc' = "sleep" => mode = "up" /\ pc = "sleep"
    PROVE  EvidenceInv'
<1>1. LogInv'
  BY DEF EvidenceInv, LogInv
<1>2. Place'.inode = Place.inode /\ Place'.offset = Place.offset
  BY DEF Place
<1>3. \A n \in Lines : Ahead(Place, n)' => Ahead(Place, n)
  BY <1>2 DEF Ahead, ReadFrom
<1> QED
  BY <1>1, <1>3, EvidenceKept

(* A line that is logged was ahead before. *)
LEMMA LoggedKept ==
    ASSUME IInv, EvidenceInv, NEW a \in Addresses, Logged(a),
           Place'.inode = Place.inode, Place'.offset = Place.offset
    PROVE  LogInv' /\ \A n \in Lines : Ahead(Place, n)' => Ahead(Place, n)
<1> DEFINE len == Len(log.lines)
<1>0. ControlTypes /\ LogInv
  BY DEF IInv, EvidenceInv
<1>1. /\ len \in Nat /\ DOMAIN log.lines = 1..len /\ log.last \in Nat /\ log.lines \in Seq(Items)
      /\ Place.offset \in Nat /\ Place'.offset \in Nat /\ MaxLines \in Nat
      /\ \A i \in 1..len : log.lines[i].n \in 1..log.last
  BY <1>0, Kinds, Places, Bounds DEF LogInv
<1>2. CASE log.last < MaxLines
  <2>1. /\ log'.lines = Append(log.lines, [n |-> log.last + 1, src |-> a])
        /\ log'.last = log.last + 1 /\ log'.inode = log.inode
    BY <1>0, <1>2 DEF Logged, ControlTypes
  <2>2. /\ Len(log'.lines) = len + 1 /\ DOMAIN log'.lines = 1..(len + 1)
        /\ \A i \in 1..len : log'.lines[i] = log.lines[i]
        /\ log'.lines[len + 1] = [n |-> log.last + 1, src |-> a]
    BY <1>1, <2>1
  <2> HIDE DEF len
  <2>3. \A i \in 1..(len + 1) : i \in 1..len \/ i = len + 1
    BY <1>1
  <2>4. LogInv'
    <3>1. \A i \in 1..(len + 1) : log'.lines[i].n \in 1..log'.last
      BY <1>1, <2>1, <2>2, <2>3
    <3> QED
      BY <1>1, <1>2, <2>1, <2>2, <3>1 DEF LogInv
  <2>5. ReadFrom(Place)' \in Nat /\ ReadFrom(Place) \in Nat /\ ReadFrom(Place)' >= ReadFrom(Place)
    BY <1>1, <2>1, <2>2 DEF ReadFrom, len
  <2>6. ASSUME NEW n \in Lines, Ahead(Place, n)' PROVE Ahead(Place, n)
    <3>1. n \in Nat
      BY Bounds
    <3>2. CASE n > log'.last
      BY <1>1, <2>1, <3>1, <3>2 DEF Ahead
    <3>3. ASSUME NEW i \in 1..(len + 1), i > ReadFrom(Place)', log'.lines[i].n = n
          PROVE  Ahead(Place, n)
      <4>1. CASE i = len + 1
        BY <1>1, <2>2, <3>3, <4>1 DEF Ahead
      <4>2. CASE i \in 1..len
        <5>1. i > ReadFrom(Place) /\ log.lines[i].n = n
          BY <2>2, <2>5, <3>3, <4>2
        <5> QED
          BY <1>1, <4>2, <5>1 DEF Ahead
      <4> QED
        BY <2>3, <4>1, <4>2
    <3> QED
      BY <2>2, <2>6, <3>2, <3>3 DEF Ahead
  <2> QED
    BY <2>4, <2>6
<1>3. CASE ~(log.last < MaxLines)
  <2>1. log' = log
    BY <1>3 DEF Logged
  <2>2. \A n \in Lines : Ahead(Place, n)' => Ahead(Place, n)
    BY <2>1 DEF Ahead, ReadFrom
  <2> QED
    BY <1>0, <2>1, <2>2 DEF LogInv
<1> QED
  BY <1>2, <1>3

LEMMA ClockSteps ==
    ASSUME IInv, EvidenceInv,
           Advance \/ IntervalPasses \/ (\E a \in Clients : Ask(a)) \/ UNCHANGED vars
    PROVE  EvidenceInv'
<1>1. UNCHANGED <<log, buffer, disk, state, given, dropped, read, deaths, rewinds, mode, pc>>
  <2>1. CASE Advance
    BY <2>1 DEF Advance, history
  <2>2. CASE IntervalPasses
    BY <2>2 DEF IntervalPasses, world, history
  <2>3. CASE \E a \in Clients : Ask(a)
    BY <2>3 DEF Ask, history
  <2>4. CASE UNCHANGED vars
    BY <2>4 DEF vars, world, history
  <2> QED
    BY <2>1, <2>2, <2>3, <2>4
<1> QED
  BY <1>1, Quiet

LEMMA LogSteps ==
    ASSUME IInv, EvidenceInv,
           \/ \E a \in Clients : Auth(a) \/ AuthFails(a)
           \/ \E a \in Addresses : Bypass(a)
    PROVE  EvidenceInv'
<1>1. PICK a \in Addresses :
         /\ Logged(a) /\ UNCHANGED <<buffer, disk, given, dropped, read, deaths, rewinds, mode, pc>>
         /\ state' = state \/ state' = [state EXCEPT !.blocks = Prune(@, now)]
  BY ClientAssumption DEF Auth, AuthFails, Bypass, history
<1>2. state'.inode = state.inode /\ state'.offset = state.offset
  BY <1>1 DEF IInv, ControlTypes, States
<1>3. Place'.inode = Place.inode /\ Place'.offset = Place.offset
  BY <1>1, <1>2 DEF Place
<1>4. LogInv' /\ \A n \in Lines : Ahead(Place, n)' => Ahead(Place, n)
  BY <1>1, <1>3, LoggedKept
<1> QED
  BY <1>1, <1>2, <1>4, EvidenceKept

LEMMA CutSteps == ASSUME IInv, EvidenceInv, Rotate \/ Truncate PROVE EvidenceInv'
<1>1. /\ log'.lines = <<>> /\ log'.last = log.last
      /\ UNCHANGED <<buffer, disk, state, given, dropped, read, deaths, rewinds, mode, pc>>
  BY DEF Rotate, Truncate, Cut, IInv, ControlTypes, history
<1>2. DOMAIN log'.lines = {}
  BY <1>1
<1>3. LogInv'
  BY <1>1, <1>2 DEF LogInv, EvidenceInv
<1>4. \A n \in Lines : Ahead(Place, n)' => Ahead(Place, n)
  BY <1>1, <1>2 DEF Ahead
<1> QED
  BY <1>1, <1>3, <1>4, EvidenceKept

LEMMA QuietTicks ==
    ASSUME IInv, EvidenceInv,
           \/ CollectRaises \/ PlanRaises \/ Analyze \/ AnalyzeRaises
           \/ Judge \/ Contain \/ ContainRaises \/ ExecuteRaises
           \/ ReasoningEnd \/ SafeFailure \/ SafeFailureRaises \/ SaveRaises
    PROVE  EvidenceInv'
<1>0. TickInv /\ state \in States
  BY DEF IInv, ControlTypes
<1>1. /\ UNCHANGED <<log, buffer, disk, given, dropped, read, deaths, rewinds>> /\ mode = "up"
      /\ mode' = "dying" \/ (mode' = "up" /\ pc' # "sleep")
      /\ state'.inode = state.inode /\ state'.offset = state.offset
  <2>1. CASE CollectRaises \/ PlanRaises \/ SafeFailureRaises \/ SaveRaises
    <3>1. Fatal /\ mode = "up"
      BY <1>0, <2>1 DEF CollectRaises, PlanRaises, SafeFailureRaises, SaveRaises, TickInv
    <3> QED
      BY <3>1 DEF Fatal, world, history
  <2>2. CASE Analyze \/ AnalyzeRaises \/ Judge \/ ExecuteRaises
    BY <1>0, <2>2 DEF Analyze, AnalyzeRaises, Judge, ExecuteRaises, Caught, TickInv, world, history
  <2>3. CASE Contain \/ ContainRaises
    <3>1. state' = [state EXCEPT !.blocks = BlockIp(@, Head(proposals).ip, Head(proposals).duration, now)]
      BY <2>3 DEF Contain, ContainRaises, Block
    <3>2. state'.inode = state.inode /\ state'.offset = state.offset
      BY <1>0, <3>1 DEF States
    <3> QED
      BY <1>0, <2>3, <3>2 DEF Contain, ContainRaises, Caught, TickInv, world, history
  <2>4. CASE ReasoningEnd \/ SafeFailure
    <3>1. state' = [state EXCEPT !.reasonings = @ + 1]
      BY <2>4 DEF ReasoningEnd, SafeFailure, Conclude
    <3>2. state'.inode = state.inode /\ state'.offset = state.offset
      BY <1>0, <3>1 DEF States
    <3> QED
      BY <1>0, <2>4, <3>2 DEF ReasoningEnd, SafeFailure, Conclude, TickInv, world, history
  <2> QED
    BY <2>1, <2>2, <2>3, <2>4
<1> QED
  BY <1>1, Quiet

(* A save persists the place, which is the one the next tick starts from. *)
LEMMA SaveStep == ASSUME IInv, EvidenceInv, Save PROVE EvidenceInv'
<1>1. /\ UNCHANGED <<log, buffer, state, given, dropped, read, deaths, rewinds, mode>> /\ disk' = state
      /\ mode = "up" /\ state \in States
  BY DEF Save, IInv, TickInv, ControlTypes, world, history
<1>2. disk' # Missing
  BY <1>1 DEF States, Missing
<1>3. rewinds' \in Nat /\ rewinds' >= rewinds /\ Numbers(buffer)' \subseteq Numbers(buffer)
  BY <1>1 DEF IInv, ControlTypes
<1>4. \A n \in Lines : Ahead(Place, n)' => Ahead(Place, n)
  BY <1>1 DEF Ahead, ReadFrom, Place
<1>5. OnceInv'
  BY <1>1, <1>3, <1>4, OnceKept
<1>6. EvidenceTypes' /\ LogInv' /\ BufferInv' /\ FirstInv' /\ PersistedInv' /\ Accounted'
  BY <1>1, <1>2 DEF EvidenceInv, EvidenceTypes, LogInv, BufferInv, FirstInv, PersistedInv, Accounted
<1> QED
  BY <1>5, <1>6 DEF EvidenceInv

(* An action that was verified enters the buffer as no line. *)
LEMMA VerifyStep == ASSUME IInv, EvidenceInv, Verify PROVE EvidenceInv'
<1>1. /\ UNCHANGED <<log, disk, given, dropped, read, deaths, rewinds, mode>>
      /\ mode = "up" /\ pc' = "execute"
      /\ state' = [state EXCEPT !.blocks = Prune(@, now)]
      /\ buffer' = Append(buffer, [n |-> 0, src |-> Head(proposals).ip])
      /\ state \in States
  BY DEF Verify, IInv, TickInv, ControlTypes, world, history
<1>2. Head(proposals).ip \in Addresses
  <2>1. Blocks(Head(proposals))
    BY DEF Verify, IInv, VettedInv
  <2> QED
    BY <2>1 DEF Blocks, Allows, ReadActions
<1>3. buffer \in Seq(Items) /\ [n |-> 0, src |-> Head(proposals).ip] \in Items
  BY <1>2 DEF EvidenceInv, EvidenceTypes, Items
<1>4. buffer' \in Seq(Items) /\ Numbers(buffer') = Numbers(buffer) \cup {0}
  BY <1>1, <1>3, NumbersFacts
<1>5. Place'.inode = Place.inode /\ Place'.offset = Place.offset
  BY <1>1 DEF Place, States
<1>6. ASSUME NEW n \in Lines PROVE Ahead(Place, n)' <=> Ahead(Place, n)
  BY <1>1, <1>5 DEF Ahead, ReadFrom
<1>7. \A n \in Lines : n # 0 /\ (n \in Numbers(buffer') <=> n \in Numbers(buffer))
  BY <1>4, Bounds
<1>8. OnceInv'
  BY <1>1, <1>6, <1>7 DEF OnceInv, EvidenceInv, One
<1>9. EvidenceTypes' /\ LogInv' /\ FirstInv' /\ PersistedInv'
  BY <1>1, <1>4 DEF EvidenceInv, EvidenceTypes, LogInv, FirstInv, PersistedInv, Items
<1>10. BufferInv' /\ Accounted'
  BY <1>1, <1>4 DEF EvidenceInv, BufferInv, Accounted
<1> QED
  BY <1>8, <1>9, <1>10 DEF EvidenceInv

(* A collection has in hand what was ahead, and leaves nothing ahead but lines *)
(* that are not written yet.                                                 *)
LEMMA CollectStep == ASSUME IInv, EvidenceInv, Collect PROVE EvidenceInv'
<1>0. /\ ControlTypes /\ LogInv /\ EvidenceTypes /\ BufferInv /\ OnceInv
      /\ rewinds \in Nat /\ \A n \in Lines : given[n] \in Nat
  BY DEF IInv, ControlTypes, EvidenceInv, EvidenceTypes
<1>1. /\ mode = "up" /\ mode' = mode /\ pc' # "sleep"
      /\ UNCHANGED <<log, disk, given, dropped, deaths, rewinds>>
      /\ read' = read \cup Numbers(Fresh) /\ buffer' = buffer \o Fresh
      /\ state' = [state EXCEPT !.inode = log.inode, !.offset = Len(log.lines),
                                !.blocks = Prune(state.blocks, now)]
  BY DEF Collect, Observe, world
<1>2. /\ Fresh \in Seq(Items)
      /\ \A n \in Numbers(Fresh) : n \in 1..log.last /\ n \in Lines /\ Ahead(state, n)
  BY <1>0, FreshFacts
<1>3. buffer \in Seq(Items)
  BY <1>0 DEF EvidenceTypes, Items
<1>4. buffer' \in Seq(Items) /\ Numbers(buffer') = Numbers(buffer) \cup Numbers(Fresh)
  BY <1>1, <1>2, <1>3, NumbersFacts
<1>5. state'.inode = log.inode /\ state'.offset = Len(log.lines)
  BY <1>0, <1>1 DEF ControlTypes, States
<1>6. Place = state /\ Place' = state'
  BY <1>1 DEF Place
<1>7. /\ Len(log.lines) \in Nat /\ DOMAIN log.lines = 1..Len(log.lines) /\ log.last \in Nat
      /\ Lines = 1..MaxLines
  BY <1>0, Kinds, Bounds
<1>8. ASSUME NEW n \in Lines, Ahead(Place, n)' PROVE n > log.last
  <2>1. ReadFrom(Place)' = Len(log.lines)
    BY <1>1, <1>5, <1>6, <1>7 DEF ReadFrom
  <2> QED
    BY <1>1, <1>7, <1>8, <2>1 DEF Ahead
<1>9. OnceInv'
  <2>1. ASSUME NEW n \in Lines
        PROVE  given'[n] + One(n \in dropped') + One(n \in Numbers(buffer)') + One(Ahead(Place, n)')
                  <= 1 + rewinds'
    <3>1. /\ given[n] + One(n \in dropped) + One(n \in Numbers(buffer)) + One(Ahead(state, n)) <= 1 + rewinds
          /\ {One(n \in dropped), One(n \in Numbers(buffer)), One(Ahead(state, n))} \subseteq {0, 1}
      BY <1>0, <1>6 DEF OnceInv, One
    <3>2. Ahead(Place, n)' => Ahead(state, n) /\ n \notin Numbers(Fresh)
      BY <1>2, <1>7, <1>8 DEF Ahead
    <3>3. n \in Numbers(Fresh) => Ahead(state, n)
      BY <1>2
    <3>4. n \in Numbers(buffer)' <=> n \in Numbers(buffer) \/ n \in Numbers(Fresh)
      BY <1>4
    <3>5. One(n \in Numbers(buffer)') + One(Ahead(Place, n)')
             <= One(n \in Numbers(buffer)) + One(Ahead(state, n))
      BY <3>2, <3>3, <3>4 DEF One
    <3>6. {One(n \in Numbers(buffer)'), One(Ahead(Place, n)')} \subseteq {0, 1}
      BY DEF One
    <3>7. given'[n] = given[n] /\ dropped' = dropped /\ rewinds' = rewinds /\ given[n] \in Nat
      BY <1>0, <1>1
    <3> QED
      BY <1>0, <3>1, <3>5, <3>6, <3>7
  <2> QED
    BY <2>1 DEF OnceInv
<1>10. EvidenceTypes'
  <2>1. Numbers(Fresh) \subseteq Nat
    BY <1>2, <1>7
  <2> QED
    BY <1>0, <1>1, <1>4, <2>1 DEF EvidenceTypes, Items
<1>11. LogInv' /\ BufferInv' /\ FirstInv' /\ PersistedInv'
  <2>1. Numbers(buffer') \subseteq Lines \cup {0}
    BY <1>0, <1>2, <1>4 DEF BufferInv
  <2> QED
    BY <1>1, <2>1 DEF EvidenceInv, LogInv, BufferInv, FirstInv, PersistedInv
<1>12. Accounted'
  <2>1. 0 \notin Numbers(Fresh)
    BY <1>2, <1>7
  <2>2. Numbers(buffer') \ {0} = (Numbers(buffer) \ {0}) \cup Numbers(Fresh)
    BY <1>4, <2>1
  <2> QED
    BY <1>1, <2>2 DEF EvidenceInv, Accounted
<1> QED
  BY <1>9, <1>10, <1>11, <1>12 DEF EvidenceInv

(* A batch takes every line of the buffer: it hands it on or drops it. *)
LEMMA PlanStep == ASSUME IInv, EvidenceInv, Plan PROVE EvidenceInv'
<1>0. /\ EvidenceTypes /\ BufferInv /\ OnceInv /\ Accounted /\ state \in States
      /\ rewinds \in Nat /\ \A n \in Lines : given[n] \in Nat
  BY DEF IInv, ControlTypes, EvidenceInv, EvidenceTypes
<1> DEFINE held == Numbers(buffer) \ {0}
<1>1. /\ mode = "up" /\ mode' = mode /\ pc' # "sleep"
      /\ UNCHANGED <<log, disk, read, deaths, rewinds>> /\ buffer' = <<>>
      /\ given' = [n \in Lines |-> IF n \in BatchLines THEN given[n] + 1 ELSE given[n]]
      /\ dropped' = dropped \cup (Numbers(buffer) \ ({0} \cup BatchLines))
      /\ state' = [state EXCEPT !.cycle = @ + 1]
  BY DEF Plan, IInv, TickInv, world
<1>2. BatchLines \subseteq held /\ held \subseteq Lines
  BY <1>0 DEF BatchLines, Batch, Numbers, BufferInv
<1>3. Place'.inode = Place.inode /\ Place'.offset = Place.offset
  BY <1>0, <1>1 DEF Place, States
<1>4. \A n \in Lines : Ahead(Place, n)' <=> Ahead(Place, n)
  BY <1>1, <1>3 DEF Ahead, ReadFrom
<1>5. Numbers(buffer') = {} /\ 0 \notin Lines
  BY <1>1, Bounds DEF Numbers
<1>6. dropped' = dropped \cup (held \ BatchLines)
  BY <1>1
<1>7. ASSUME NEW n \in Lines
      PROVE  given'[n] + One(n \in dropped') <= given[n] + One(n \in dropped) + One(n \in Numbers(buffer))
  <2>1. n \in held <=> n \in Numbers(buffer)
    BY <1>5
  <2> HIDE DEF held
  <2>2. CASE n \in BatchLines
    BY <1>0, <1>1, <1>2, <1>6, <2>1, <2>2 DEF One
  <2>3. CASE n \notin BatchLines
    BY <1>0, <1>1, <1>6, <2>1, <2>3 DEF One
  <2> QED
    BY <2>2, <2>3
<1>8. OnceInv'
  <2>1. ASSUME NEW n \in Lines
        PROVE  given'[n] + One(n \in dropped') + One(n \in Numbers(buffer)') + One(Ahead(Place, n)')
                  <= 1 + rewinds'
    <3>1. given[n] + One(n \in dropped) + One(n \in Numbers(buffer)) + One(Ahead(Place, n)) <= 1 + rewinds
      BY <1>0 DEF OnceInv
    <3>2. One(n \in Numbers(buffer)') = 0 /\ One(Ahead(Place, n)') = One(Ahead(Place, n))
      BY <1>4, <1>5 DEF One
    <3>3. given'[n] \in Nat /\ given[n] \in Nat /\ rewinds' = rewinds
      BY <1>0, <1>1
    <3>4. {One(n \in dropped), One(n \in dropped'), One(n \in Numbers(buffer)), One(Ahead(Place, n))}
             \subseteq {0, 1}
      BY DEF One
    <3> QED
      BY <1>0, <1>7, <3>1, <3>2, <3>3, <3>4
  <2> QED
    BY <2>1 DEF OnceInv
<1>9. EvidenceTypes'
  <2>1. <<>> \in Seq([n : Nat, src : Addresses]) /\ given' \in [Lines -> Nat]
    BY <1>0, <1>1
  <2>2. dropped' \subseteq Nat
    <3>1. Lines \subseteq Nat
      BY Bounds
    <3> QED
      BY <1>0, <1>1, <1>2, <3>1 DEF EvidenceTypes
  <2> QED
    BY <1>0, <1>1, <2>1, <2>2 DEF EvidenceTypes
<1>10. LogInv' /\ BufferInv' /\ FirstInv' /\ PersistedInv'
  BY <1>1, <1>5 DEF EvidenceInv, LogInv, BufferInv, FirstInv, PersistedInv
<1>11. Accounted'
  <2>1. {n \in Lines : given'[n] > 0} = {n \in Lines : given[n] > 0} \cup BatchLines
    BY <1>0, <1>1, <1>2
  <2> HIDE DEF held
  <2>2. held \cup {n \in Lines : given[n] > 0} \cup dropped
           = {n \in Lines : given'[n] > 0} \cup dropped'
    BY <1>2, <1>6, <2>1
  <2>3. Numbers(buffer') \ {0} = {}
    BY <1>5
  <2> QED
    BY <1>0, <1>1, <2>2, <2>3 DEF Accounted, held
<1> QED
  BY <1>8, <1>9, <1>10, <1>11 DEF EvidenceInv

(* A process that is set back may read everything again, which is counted. *)
LEMMA OnceAgain ==
    ASSUME IInv, EvidenceInv, UNCHANGED <<given, dropped>>, buffer' = <<>>, rewinds' = rewinds + 1
    PROVE  OnceInv'
<1>1. /\ OnceInv /\ rewinds \in Nat /\ \A n \in Lines : given[n] \in Nat
  BY DEF IInv, ControlTypes, EvidenceInv, EvidenceTypes
<1>2. ASSUME NEW n \in Lines
      PROVE  given'[n] + One(n \in dropped') + One(n \in Numbers(buffer)') + One(Ahead(Place, n)')
                <= 1 + rewinds'
  <2>1. given[n] + One(n \in dropped) + One(n \in Numbers(buffer)) + One(Ahead(Place, n)) <= 1 + rewinds
    BY <1>1 DEF OnceInv
  <2>2. One(n \in Numbers(buffer)') = 0
    BY DEF One, Numbers
  <2>3. {One(n \in dropped), One(n \in Numbers(buffer)), One(Ahead(Place, n)), One(Ahead(Place, n)')}
           \subseteq {0, 1}
    BY DEF One
  <2> QED
    BY <1>1, <2>1, <2>2, <2>3
<1> QED
  BY <1>2 DEF OnceInv

LEMMA StartEvidence == ASSUME IInv, EvidenceInv, Load \/ LoadDefault PROVE EvidenceInv'
<1>1. /\ mode = "down" /\ mode' = "up"
      /\ UNCHANGED <<log, pc, buffer, given, dropped, read, deaths>>
  BY DEF Load, LoadDefault, Serve, world
<1>2. buffer = <<>> /\ rewinds \in Nat
  BY <1>1 DEF EvidenceInv, BufferInv, IInv, ControlTypes
<1>3. /\ disk' = state' /\ disk' # Missing
      /\ \/ rewinds' = rewinds /\ state' = Place
         \/ rewinds' = rewinds + 1 /\ disk # Missing
  <2>1. CASE Load
    BY <1>1, <2>1 DEF Load, Serve, Place
  <2>2. CASE LoadDefault
    <3>1. Default # Missing
      BY DefaultFacts DEF States, Missing
    <3> QED
      BY <1>1, <2>2, <3>1 DEF LoadDefault, Serve, Place
  <2> QED
    BY <2>1, <2>2
<1>4. OnceInv'
  <2>1. CASE rewinds' = rewinds /\ state' = Place
    <3>1. Place' = Place
      BY <1>1, <2>1 DEF Place
    <3>2. \A n \in Lines : Ahead(Place, n)' => Ahead(Place, n)
      BY <1>1, <3>1 DEF Ahead, ReadFrom
    <3>3. rewinds' \in Nat /\ rewinds' >= rewinds /\ Numbers(buffer)' \subseteq Numbers(buffer)
      BY <1>1, <1>2, <2>1
    <3> QED
      BY <1>1, <3>2, <3>3, OnceKept
  <2>2. CASE rewinds' = rewinds + 1
    BY <1>1, <1>2, <2>2, OnceAgain
  <2> QED
    BY <1>3, <2>1, <2>2
<1>5. EvidenceTypes' /\ LogInv' /\ BufferInv' /\ PersistedInv' /\ Accounted'
  BY <1>1, <1>3 DEF EvidenceInv, EvidenceTypes, LogInv, BufferInv, PersistedInv, Accounted
<1>6. FirstInv'
  BY <1>1, <1>3 DEF EvidenceInv, FirstInv
<1> QED
  BY <1>4, <1>5, <1>6 DEF EvidenceInv

LEMMA StopEvidence == ASSUME IInv, EvidenceInv, Killed \/ Exits PROVE EvidenceInv'
<1>1. /\ mode # "down" /\ mode' = "down" /\ buffer' = <<>> /\ deaths' = deaths + 1
      /\ UNCHANGED <<log, disk, given, dropped, read>>
      /\ rewinds' = IF mode = "up" /\ pc = "sleep" THEN rewinds ELSE rewinds + 1
  BY DEF Killed, Exits, End, world
<1>2. rewinds \in Nat /\ deaths \in Nat
  BY DEF IInv, ControlTypes
<1>3. OnceInv'
  <2>1. CASE mode = "up" /\ pc = "sleep"
    <3>1. Place'.inode = Place.inode /\ Place'.offset = Place.offset
      BY <1>1, <2>1 DEF Place, EvidenceInv, PersistedInv
    <3>2. \A n \in Lines : Ahead(Place, n)' => Ahead(Place, n)
      BY <1>1, <3>1 DEF Ahead, ReadFrom
    <3>3. rewinds' \in Nat /\ rewinds' >= rewinds /\ Numbers(buffer)' \subseteq Numbers(buffer)
      BY <1>1, <1>2, <2>1 DEF Numbers
    <3> QED
      BY <1>1, <3>2, <3>3, OnceKept
  <2>2. CASE ~(mode = "up" /\ pc = "sleep")
    BY <1>1, <2>2, OnceAgain
  <2> QED
    BY <2>1, <2>2
<1>4. EvidenceTypes' /\ LogInv' /\ BufferInv'
  <2>1. <<>> \in Seq([n : Nat, src : Addresses]) /\ Numbers(<<>>) = {}
    BY DEF Numbers
  <2> QED
    BY <1>1, <2>1 DEF EvidenceInv, EvidenceTypes, LogInv, BufferInv
<1>5. FirstInv' /\ PersistedInv' /\ Accounted'
  BY <1>1, <1>2 DEF FirstInv, PersistedInv, Accounted
<1> QED
  BY <1>3, <1>4, <1>5 DEF EvidenceInv

----------------------------------------------------------------------------
(* The theorems                                                            *)

LEMMA EvidenceInitially == Init => EvidenceInv
<1> SUFFICES ASSUME Init PROVE EvidenceInv
  OBVIOUS
<1>1. /\ mode = "down" /\ disk = Missing /\ buffer = <<>> /\ log.lines = <<>> /\ log.last = 0
      /\ given = [n \in Lines |-> 0] /\ dropped = {} /\ read = {} /\ deaths = 0 /\ rewinds = 0
  BY DEF Init
<1>2. Numbers(buffer) = {} /\ MaxLines \in Nat
  BY <1>1, Bounds DEF Numbers
<1>3. EvidenceTypes /\ LogInv /\ BufferInv /\ FirstInv /\ PersistedInv
  BY <1>1, <1>2 DEF EvidenceTypes, LogInv, BufferInv, FirstInv, PersistedInv
<1>4. OnceInv
  BY <1>1, <1>2 DEF OnceInv, One
<1>5. Accounted
  BY <1>1, <1>2 DEF Accounted
<1> QED
  BY <1>3, <1>4, <1>5 DEF EvidenceInv

LEMMA EvidenceStep == IInv /\ EvidenceInv /\ [Next]_vars => EvidenceInv'
<1> SUFFICES ASSUME IInv, EvidenceInv, [Next]_vars PROVE EvidenceInv'
  OBVIOUS
<1>1. CASE Advance \/ IntervalPasses \/ UNCHANGED vars
  BY <1>1, ClockSteps
<1>2. CASE Rotate \/ Truncate
  BY <1>2, CutSteps
<1>3. CASE Process
  BY <1>3, StartEvidence, StopEvidence DEF Process
<1>4. CASE Tick
  BY <1>4, CollectStep, PlanStep, VerifyStep, SaveStep, QuietTicks DEF Tick
<1>5. CASE \E a \in Clients : Client(a)
  BY <1>5, ClockSteps, LogSteps DEF Client
<1>6. CASE \E a \in Addresses : Bypass(a)
  BY <1>6, LogSteps
<1> QED
  BY <1>1, <1>2, <1>3, <1>4, <1>5, <1>6 DEF Next

(* Whatever fails and restarts, the lines of the access log stay counted. *)
THEOREM Evidence == Spec => []EvidenceInv
<1>1. Init => EvidenceInv
  BY EvidenceInitially
<1>2. IInv /\ EvidenceInv /\ [Next]_vars => EvidenceInv'
  BY EvidenceStep
<1> QED
  BY <1>1, <1>2, Invariance, PTL DEF Spec

(* Every variable of the Defender holds a value of its kind. *)
THEOREM TypeCorrect == Spec => []TypeOK
<1>1. IInv /\ EvidenceInv => TypeOK
  BY DEF IInv, EvidenceInv, TypeOK
<1> QED
  BY <1>1, Invariance, Evidence, PTL

(* While the first process lives, each line read and not ignored is in the     *)
(* buffer, was handed to Kimi, or fell to the limit of a batch, and only one   *)
(* of these (collect, buffer.extend, aggregate).                             *)
THEOREM AccountedFor == Spec => []EvidenceAccounted
<1>1. IInv /\ EvidenceInv => EvidenceAccounted
  <2> SUFFICES ASSUME IInv, EvidenceInv, deaths = 0 PROVE
        /\ read = (Numbers(buffer) \ {0}) \cup {n \in Lines : given[n] > 0} \cup dropped
        /\ Numbers(buffer) \cap ({n \in Lines : given[n] > 0} \cup dropped) \subseteq {0}
    BY DEF EvidenceAccounted
  <2>1. /\ read = (Numbers(buffer) \ {0}) \cup {n \in Lines : given[n] > 0} \cup dropped
        /\ rewinds = 0 /\ Numbers(buffer) \subseteq Lines \cup {0}
        /\ \A n \in Lines : given[n] \in Nat
    BY DEF EvidenceInv, EvidenceTypes, Accounted, FirstInv, BufferInv
  <2>2. ASSUME NEW n \in Lines, n \in Numbers(buffer) PROVE ~(given[n] > 0) /\ n \notin dropped
    <3>1. given[n] + One(n \in dropped) + One(n \in Numbers(buffer)) + One(Ahead(Place, n)) <= 1
      BY <2>1 DEF EvidenceInv, OnceInv
    <3>2. One(n \in Numbers(buffer)) = 1 /\ One(n \in dropped) \in Nat /\ One(Ahead(Place, n)) \in Nat
      BY <2>2 DEF One
    <3>3. given[n] = 0 /\ One(n \in dropped) = 0
      BY <2>1, <3>1, <3>2
    <3> QED
      BY <3>3 DEF One
  <2> QED
    BY <2>1, <2>2
<1> QED
  BY <1>1, Invariance, Evidence, PTL

(* Kimi sees a line again only as often as the Defender was set back: by an    *)
(* end within a tick, or a state file that was given up (StateStore.load).    *)
THEOREM SeenOnce == Spec => []NotRepeated
<1>1. IInv /\ EvidenceInv => NotRepeated
  <2> SUFFICES ASSUME IInv, EvidenceInv, NEW n \in Lines PROVE given[n] <= 1 + rewinds
    BY DEF NotRepeated
  <2>1. given[n] + One(n \in dropped) + One(n \in Numbers(buffer)) + One(Ahead(Place, n)) <= 1 + rewinds
    BY DEF EvidenceInv, OnceInv
  <2>2. /\ {One(n \in dropped), One(n \in Numbers(buffer)), One(Ahead(Place, n))} \subseteq Nat
        /\ given[n] \in Nat /\ rewinds \in Nat
    BY DEF One, EvidenceInv, EvidenceTypes, IInv, ControlTypes
  <2> QED
    BY <2>1, <2>2
<1> QED
  BY <1>1, Invariance, Evidence, PTL
=============================================================================
