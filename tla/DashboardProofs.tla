-------------------------- MODULE DashboardProofs --------------------------
(* Machine-checked proofs about what the dashboard shows, for any windows, any *)
(* number of cycles, events, torn lines, restarts and failing reads.          *)
EXTENDS Dashboard, SelectionsProofs

----------------------------------------------------------------------------
(* The invariant                                                           *)

Answers == [state : States, event : Events, later : BOOLEAN, recent : 0..Recent]

Types ==
    /\ pc \in {"down", "idle", "reason", "error", "save"}
    /\ cycle \in 0..MaxCycles /\ file \in States /\ events \in Seq(Events)
    /\ step \in {"idle", "events", "later", "recent"} /\ answer \in Answers
    /\ tears \in Nat /\ resets \in 0..MaxResets /\ misreads \in Nat

(* Cycles are counted from the file on, and the file is of the present history. *)
FileInv ==
    /\ file.there => file.history = resets
    /\ ~file.there => pc = "down" /\ file = Unavailable
    /\ pc = "idle" => cycle = file.cycle
    /\ pc \in {"reason", "error", "save"} => cycle = file.cycle + 1

(* An event or a state e is not before cycle c of history h. *)
NotBefore(e, h, c) == e.history > h \/ (e.history = h /\ e.cycle >= c)

Reasons(e) == e.type \in Reasonings

(* The log es speaks of cycle c of history h, and from there on of none before. *)
Reached(es, h, c) ==
    \E i \in DOMAIN es :
        /\ Reasons(es[i])
        /\ \A j \in DOMAIN es : j >= i /\ Reasons(es[j]) => NotBefore(es[j], h, c)

(* Only a torn event leaves half a line. *)
HalfInv == tears = 0 => \A i \in DOMAIN events : events[i] # Half

(* A cycle under way is in the log, unless the torn line swallowed its start; then *)
(* the torn line has been ended and its end will be there.                     *)
CycleInv ==
    tears <= 1 =>
        /\ pc \in {"error", "save"} => Reached(events, resets, cycle)
        /\ pc = "reason" =>
              \/ Reached(events, resets, cycle)
              \/ tears = 1 /\ events # <<>> /\ Last(events) # Half

(* The log has reached the cycle of the file. *)
SavedInv == file.cycle > 0 /\ tears <= 1 => Reached(events, file.history, file.cycle)

(* What an answer holds of the file was there before. *)
ShownInv ==
    /\ NotBefore(file, answer.state.history, answer.state.cycle)
    /\ (answer.state.there \/ answer.later) => file.there

(* The log has reached the cycle of an answer that is about to read it. *)
AheadInv ==
    step = "events" /\ answer.state.cycle > 0 /\ tears <= 1 =>
        Reached(events, answer.state.history, answer.state.cycle)

IInv ==
    /\ Types /\ FileInv /\ HalfInv /\ CycleInv /\ SavedInv /\ ShownInv /\ AheadInv
    /\ ReasoningIsCurrent /\ NoFalseSilence

----------------------------------------------------------------------------
(* What a line and a read are                                              *)

LEMMA Bounds ==
    /\ MaxCycles \in Nat /\ MaxResets \in Nat
    /\ ReasoningWindow \in Nat /\ ReasoningWindow > 0
    /\ EventWindow \in Nat /\ EventWindow > 0 /\ Recent \in Nat
  BY WindowAssumption, BoundAssumption

LEMMA Kinds ==
    ASSUME Types
    PROVE  /\ cycle \in Nat /\ resets \in Nat /\ tears \in Nat /\ misreads \in Nat
           /\ file.history \in Nat /\ file.cycle \in Nat /\ file.there \in BOOLEAN
           /\ file.history \in 0..MaxResets /\ file.cycle \in 0..MaxCycles
           /\ answer.state \in States /\ answer.event \in Events
           /\ answer.later \in BOOLEAN /\ answer.recent \in 0..Recent
           /\ answer.state.history \in Nat /\ answer.state.cycle \in Nat
  BY Bounds DEF Types, Answers, States

LEMMA EventFacts ==
    /\ \A type \in Reasonings \cup {"EVIDENCE"}, h \in 0..MaxResets, c \in 0..MaxCycles :
          Event(type, h, c) \in Events
    /\ Half \in Events /\ Junk \in Events /\ NoEvent \in Events
    /\ ~Reasons(Half) /\ ~Reasons(Junk) /\ ~Reasons(NoEvent)
    /\ \A type, h, c : /\ Event(type, h, c).type = type
                       /\ Event(type, h, c).history = h /\ Event(type, h, c).cycle = c
    /\ Half.type = "half" /\ Junk # Half
  BY Bounds DEF Event, Half, Junk, NoEvent, Events, Reasons, Reasonings, Unparsable

LEMMA StateFacts ==
    /\ Unavailable \in States /\ ~Unavailable.there
    /\ Unavailable.cycle = 0 /\ Unavailable.history = 0
    /\ \A h \in 0..MaxResets, c \in 0..MaxCycles :
          /\ Saved(h, c) \in States /\ Saved(h, c).there
          /\ Saved(h, c).history = h /\ Saved(h, c).cycle = c
  BY Bounds DEF Unavailable, Saved, States

(* A part of a list. *)
LEMMA PartFacts ==
    ASSUME NEW S, NEW s \in Seq(S), NEW m \in Nat, NEW n \in Nat,
           1 <= m, m <= n + 1, n <= Len(s)
    PROVE  /\ SubSeq(s, m, n) \in Seq(S) /\ Len(SubSeq(s, m, n)) = n - m + 1
           /\ \A i \in 1..(n - m + 1) : SubSeq(s, m, n)[i] = s[m + i - 1]
  OBVIOUS

(* The largest number of a set is in it. *)
LEMMA MaxFacts ==
    ASSUME NEW n \in Nat, NEW T \in SUBSET (1..n), T # {}
    PROVE  Max(T) \in T /\ \A y \in T : y <= Max(T)
<1> DEFINE D == {n - y : y \in T}
<1>1. D \in SUBSET Nat /\ D # {}
  <2>1. ASSUME NEW y \in T PROVE n - y \in Nat
    OBVIOUS
  <2> QED
    BY <2>1
<1>2. PICK d \in D : \A e \in D : d <= e
  BY <1>1, Least
<1>3. PICK x \in T : d = n - x
  BY <1>2
<1>4. ASSUME NEW y \in T PROVE x >= y
  <2>1. n - x <= n - y
    BY <1>2, <1>3
  <2> QED
    BY <1>3, <2>1
<1>5. \E z \in T : \A y \in T : z >= y
  BY <1>3, <1>4
<1>6. Max(T) \in T /\ \A y \in T : Max(T) >= y
  BY <1>5 DEF Max
<1> QED
  BY <1>6

(* The last lines are lines, and all of them when they are few. *)
LEMMA LastLinesFacts ==
    ASSUME events \in Seq(Events), NEW n \in Nat, n > 0
    PROVE  /\ LastLines(n) \in Seq(Events)
           /\ Len(events) < n => LastLines(n) = events
           /\ \E d \in Nat :
                 /\ Len(events) = Len(LastLines(n)) + d
                 /\ \A i \in DOMAIN LastLines(n) : LastLines(n)[i] = events[i + d]
<1> DEFINE len == Len(events)
<1>1. len \in Nat
  OBVIOUS
<1>2. CASE len > n
  <2> DEFINE m == len - n + 1
  <2>1. m \in Nat /\ 1 <= m /\ m <= len + 1 /\ len - m + 1 = n /\ len - n \in Nat
    BY <1>1, <1>2
  <2>2. LastLines(n) = SubSeq(events, m, len)
    BY <1>2 DEF LastLines
  <2> HIDE DEF m
  <2>3. /\ LastLines(n) \in Seq(Events) /\ Len(LastLines(n)) = len - m + 1
        /\ \A i \in 1..(len - m + 1) : LastLines(n)[i] = events[m + i - 1]
    BY <1>1, <2>1, <2>2, PartFacts
  <2>4. \A i \in 1..n : LastLines(n)[i] = events[i + (len - n)]
    <3>1. ASSUME NEW i \in 1..n PROVE m + i - 1 = i + (len - n)
      BY <1>1, <2>1
    <3> QED
      BY <2>1, <2>3, <3>1
  <2>5. Len(LastLines(n)) = n /\ DOMAIN LastLines(n) = 1..n
    BY <2>1, <2>3
  <2>6. len - n \in Nat /\ len = n + (len - n) /\ ~(len < n)
    BY <1>1, <1>2
  <2> QED
    BY <2>3, <2>4, <2>5, <2>6
<1>3. CASE ~(len > n)
  <2>1. LastLines(n) = SubSeq(events, 1, len)
    BY <1>3 DEF LastLines
  <2>2. SubSeq(events, 1, len) = events
    BY <1>1
  <2>3. LastLines(n) = events
    BY <2>1, <2>2
  <2>4. len = len + 0 /\ \A i \in DOMAIN events : i = i + 0
    BY <1>1
  <2>5. \A i \in DOMAIN events : events[i] = events[i + 0]
    BY <2>4
  <2> QED
    BY <2>3, <2>4, <2>5
<1> QED
  BY <1>2, <1>3

----------------------------------------------------------------------------
(* How the log grows                                                       *)

(* fs is es with the half line at its end taken for something else, and one line *)
(* of new more.                                                              *)
Grown(es, fs, new) ==
    /\ fs \in Seq(Events) /\ Len(fs) >= Len(es)
    /\ \A i \in DOMAIN es : es[i] # Half => i \in DOMAIN fs /\ fs[i] = es[i]
    /\ \A i \in DOMAIN fs : (i \in DOMAIN es /\ fs[i] = es[i]) \/ fs[i] \in new

LEMMA AppendGrows ==
    ASSUME NEW es \in Seq(Events), NEW e \in Events
    PROVE  Grown(es, Append(es, e), {e}) /\ Last(Append(es, e)) = e /\ Append(es, e) # <<>>
<1> DEFINE fs == Append(es, e)
<1>1. /\ fs \in Seq(Events) /\ Len(es) \in Nat /\ Len(fs) = Len(es) + 1
      /\ DOMAIN es = 1..Len(es) /\ DOMAIN fs = 1..(Len(es) + 1)
      /\ \A i \in 1..Len(es) : fs[i] = es[i]
      /\ fs[Len(es) + 1] = e
  OBVIOUS
<1>2. \A i \in DOMAIN fs : i \in 1..Len(es) \/ i = Len(es) + 1
  BY <1>1
<1> HIDE DEF fs
<1>3. Grown(es, fs, {e})
  BY <1>1, <1>2 DEF Grown
<1>4. Last(fs) = e /\ fs # <<>>
  BY <1>1 DEF Last
<1> QED
  BY <1>3, <1>4 DEF fs

LEMMA LineFacts ==
    ASSUME events \in Seq(Events), NEW type, NEW c, Line(type, c),
           Event(type, resets, c) \in Events
    PROVE  /\ Grown(events, events', {Junk, Event(type, resets, c)})
           /\ events' # <<>>
           /\ \/ Last(events') = Event(type, resets, c)
              \/ events # <<>> /\ Last(events) = Half /\ Last(events') = Junk
<1>1. CASE events # <<>> /\ Last(events) = Half
  <2> DEFINE m == Len(events) - 1
             front == SubSeq(events, 1, m)
  <2>1. m \in Nat /\ m <= Len(events) /\ Len(events) = m + 1 /\ DOMAIN events = 1..(m + 1)
    BY <1>1
  <2>2. events' = Append(front, Junk)
    BY <1>1 DEF Line, Front
  <2>3. front \in Seq(Events) /\ Len(front) = m /\ \A i \in 1..m : front[i] = events[i]
    BY <2>1, PartFacts
  <2> HIDE DEF m, front
  <2>4. Grown(front, Append(front, Junk), {Junk}) /\ Last(events') = Junk /\ events' # <<>>
    BY <2>2, <2>3, AppendGrows, EventFacts
  <2>5. DOMAIN front = 1..m /\ Len(events') = m + 1 /\ DOMAIN events' = 1..(m + 1)
        /\ events'[m + 1] = Junk /\ \A i \in 1..m : events'[i] = front[i]
    BY <2>1, <2>2, <2>3
  <2>6. events[m + 1] = Half
    BY <1>1, <2>1 DEF Last
  <2>7. \A i \in 1..(m + 1) : i \in 1..m \/ i = m + 1
    BY <2>1
  <2>8. \A i \in DOMAIN events : events[i] # Half => i \in DOMAIN events' /\ events'[i] = events[i]
    BY <2>1, <2>3, <2>5, <2>6, <2>7
  <2>9. \A i \in DOMAIN events' : (i \in DOMAIN events /\ events'[i] = events[i]) \/ events'[i] = Junk
    BY <2>1, <2>3, <2>5, <2>7
  <2>10. events' \in Seq(Events) /\ Len(events') >= Len(events)
    BY <2>1, <2>2, <2>4, <2>5 DEF Grown
  <2> QED
    BY <1>1, <2>4, <2>8, <2>9, <2>10 DEF Grown
<1>2. CASE ~(events # <<>> /\ Last(events) = Half)
  <2>1. events' = Append(events, Event(type, resets, c))
    BY <1>2 DEF Line
  <2> QED
    BY <2>1, AppendGrows DEF Grown
<1> QED
  BY <1>1, <1>2

(* What the log has reached it keeps when only later reasoning is added.     *)
LEMMA ReachedStays ==
    ASSUME NEW es \in Seq(Events), NEW fs, NEW new, Grown(es, fs, new), NEW h, NEW c,
           \A e \in new : Reasons(e) => NotBefore(e, h, c), Reached(es, h, c)
    PROVE  Reached(fs, h, c)
<1>1. PICK i \in DOMAIN es :
          /\ Reasons(es[i])
          /\ \A j \in DOMAIN es : j >= i /\ Reasons(es[j]) => NotBefore(es[j], h, c)
  BY DEF Reached
<1>2. es[i] # Half
  BY <1>1, EventFacts
<1>3. i \in DOMAIN fs /\ fs[i] = es[i]
  BY <1>2 DEF Grown
<1>4. ASSUME NEW j \in DOMAIN fs, j >= i, Reasons(fs[j]) PROVE NotBefore(fs[j], h, c)
  BY <1>1, <1>4 DEF Grown
<1> QED
  BY <1>1, <1>3, <1>4 DEF Reached

LEMMA LastReaches ==
    ASSUME NEW es \in Seq(Events), es # <<>>, NEW h, NEW c,
           Reasons(Last(es)), NotBefore(Last(es), h, c)
    PROVE  Reached(es, h, c)
<1> DEFINE n == Len(es)
<1>1. n \in DOMAIN es /\ \A j \in DOMAIN es : j >= n => j = n
  OBVIOUS
<1> QED
  BY <1>1 DEF Last, Reached
----------------------------------------------------------------------------
(* The steps                                                               *)

LEMMA Sides ==
    ASSUME Next PROVE (Defend /\ UNCHANGED reader) \/ (Respond /\ UNCHANGED writer)
<1>1. CASE Defend
  <2>1. ASSUME NEW type, Conclude(type) PROVE UNCHANGED reader
    BY <2>1 DEF Conclude
  <2>2. ASSUME Load PROVE UNCHANGED reader
    BY <2>2 DEF Load
  <2>3. ASSUME LoadDefault PROVE UNCHANGED reader
    BY <2>3 DEF LoadDefault
  <2>4. ASSUME Collect PROVE UNCHANGED reader
    BY <2>4 DEF Collect
  <2>5. ASSUME Plan PROVE UNCHANGED reader
    BY <2>5 DEF Plan
  <2>6. ASSUME Tear PROVE UNCHANGED reader
    BY <2>6 DEF Tear
  <2>7. ASSUME Save PROVE UNCHANGED reader
    BY <2>7 DEF Save
  <2>8. ASSUME Die PROVE UNCHANGED reader
    BY <2>8 DEF Die
  <2> QED
    BY <1>1, <2>1, <2>2, <2>3, <2>4, <2>5, <2>6, <2>7, <2>8 DEF Defend
<1>2. CASE Respond
  BY <1>2 DEF Respond, ReadState, ReadEvents, ReadLater, ReadRecent
<1> QED
  BY <1>1, <1>2 DEF Next

(* An event is appended to the log of the history, after the cycles of the file. *)
Appends(type, c) ==
    /\ Line(type, c) /\ type \in Reasonings \cup {"EVIDENCE"} /\ c \in 0..MaxCycles
    /\ file.history = resets /\ (type \in Reasonings => c >= file.cycle)
    /\ UNCHANGED <<tears, file>>

(* What a step does to the log. *)
LEMMA LogStep ==
    ASSUME Types, FileInv, Next
    PROVE  \/ UNCHANGED events
           \/ \E type, c : Appends(type, c)
           \/ tears' = tears + 1 /\ events' = Append(events, Half)
<1>0. /\ pc # "down" => file.there /\ file.history = resets
      /\ cycle \in 0..MaxCycles /\ cycle \in Nat /\ file.cycle \in Nat /\ MaxCycles \in Nat
  BY Kinds, Bounds DEF FileInv, Types
<1>1. CASE Load \/ LoadDefault \/ Save \/ Die \/ Respond
  BY <1>1, Sides DEF Load, LoadDefault, Save, Die, writer, Respond, ReadState, ReadEvents,
                     ReadLater, ReadRecent
<1>2. CASE Collect
  <2>1. Appends("EVIDENCE", cycle)
    BY <1>0, <1>2 DEF Collect, Appends, Reasonings
  <2> QED
    BY <2>1
<1>3. CASE Plan
  <2>1. cycle + 1 \in 0..MaxCycles /\ cycle + 1 >= file.cycle /\ cycle' = cycle + 1
    BY <1>0, <1>3 DEF Plan, FileInv
  <2>2. Appends("REASONING_START", cycle + 1)
    BY <1>0, <1>3, <2>1 DEF Plan, Appends, Reasonings
  <2> QED
    BY <2>2
<1>4. ASSUME NEW type \in {"REASONING_END", "ERROR"}, Conclude(type)
      PROVE  \E t, c : Appends(t, c)
  <2>1. cycle >= file.cycle
    BY <1>0, <1>4 DEF Conclude, FileInv
  <2>2. Appends(type, cycle)
    BY <1>0, <1>4, <2>1 DEF Conclude, Appends, Reasonings
  <2> QED
    BY <2>2
<1>5. CASE Tear
  BY <1>5 DEF Tear
<1> QED
  BY <1>1, <1>2, <1>3, <1>4, <1>5 DEF Next, Defend

(* The log only grows, and what it has reached up to the file it keeps.      *)
LEMMA LogGrows ==
    ASSUME Types, FileInv, Next
    PROVE  /\ events' \in Seq(Events) /\ Len(events') >= Len(events)
           /\ tears' \in Nat /\ tears <= tears'
           /\ \A h, c \in Nat :
                 NotBefore(file, h, c) /\ Reached(events, h, c) => Reached(events', h, c)
<1>0. events \in Seq(Events) /\ tears \in Nat /\ Len(events) \in Nat
  BY DEF Types
<1>1. CASE UNCHANGED events
  <2>1. tears' \in Nat /\ tears <= tears'
    BY <1>0, Sides DEF Defend, Load, LoadDefault, Collect, Plan, Conclude, Tear, Save, Die,
                          writer
  <2> QED
    BY <1>0, <1>1, <2>1
<1>2. ASSUME NEW type, NEW c, Appends(type, c)
      PROVE  /\ events' \in Seq(Events) /\ Len(events') >= Len(events)
             /\ tears' \in Nat /\ tears <= tears'
             /\ \A h, d \in Nat :
                   NotBefore(file, h, d) /\ Reached(events, h, d) => Reached(events', h, d)
  <2> DEFINE e == Event(type, resets, c)
  <2>1. e \in Events /\ Line(type, c) /\ tears' = tears
    BY <1>2, EventFacts DEF Appends, Types
  <2>2. Grown(events, events', {Junk, e})
    BY <1>0, <2>1, LineFacts
  <2>3. ASSUME NEW h \in Nat, NEW d \in Nat, NotBefore(file, h, d), Reached(events, h, d)
        PROVE  Reached(events', h, d)
    <3>1. e.type = type /\ e.history = resets /\ e.cycle = c
      BY EventFacts
    <3>2. Reasons(e) => c >= file.cycle /\ c \in Nat /\ file.cycle \in Nat /\ file.history = resets
      BY <1>2, <3>1, Kinds, Bounds DEF Appends, Reasons
    <3> HIDE DEF e
    <3>3. Reasons(e) => NotBefore(e, h, d)
      BY <2>3, <3>1, <3>2 DEF NotBefore
    <3>4. \A x \in {Junk, e} : Reasons(x) => NotBefore(x, h, d)
      BY <3>3, EventFacts
    <3> QED
      BY <1>0, <2>2, <2>3, <3>4, ReachedStays
  <2> QED
    BY <1>0, <2>1, <2>2, <2>3 DEF Grown
<1>3. CASE tears' = tears + 1 /\ events' = Append(events, Half)
  <2>1. Grown(events, events', {Half})
    BY <1>0, <1>3, AppendGrows, EventFacts
  <2>2. ASSUME NEW h \in Nat, NEW d \in Nat, Reached(events, h, d) PROVE Reached(events', h, d)
    BY <1>0, <2>1, <2>2, ReachedStays, EventFacts
  <2> QED
    BY <1>0, <1>3, <2>1, <2>2 DEF Grown
<1> QED
  BY <1>1, <1>2, <1>3, LogStep

(* What a read leaves of the answer. *)
LEMMA ReadsFacts ==
    ASSUME misreads \in Nat, NEW value, NEW failed, Reads(value, failed)
    PROVE  /\ misreads' \in Nat /\ misreads' >= misreads
           /\ \/ answer' = value
              \/ answer' = failed /\ misreads' > 0 /\ misreads' # misreads
  BY DEF Reads

(* The event that is shown is the last one about reasoning in the window. *)
LEMMA LastReasoningFacts ==
    ASSUME Types
    PROVE  /\ LastReasoning \in Events
           /\ \/ LastReasoning = NoEvent
              \/ \E i \in DOMAIN events :
                    /\ LastReasoning = events[i] /\ Reasons(events[i])
                    /\ \A j \in DOMAIN events : Reasons(events[j]) => j <= i
           /\ Len(events) < ReasoningWindow =>
                 LastReasoning # NoEvent \/ \A i \in DOMAIN events : ~Reasons(events[i])
<1> DEFINE lines == LastLines(ReasoningWindow)
           at == {i \in DOMAIN lines : lines[i].type \in Reasonings}
<1>1. events \in Seq(Events)
  BY DEF Types
<1>2. /\ lines \in Seq(Events)
      /\ Len(events) < ReasoningWindow => lines = events
      /\ \E d \in Nat : /\ Len(events) = Len(lines) + d
                        /\ \A i \in DOMAIN lines : lines[i] = events[i + d]
  BY <1>1, Bounds, LastLinesFacts
<1>3. LastReasoning = IF at = {} THEN NoEvent ELSE lines[Max(at)]
  BY DEF LastReasoning
<1> HIDE DEF lines
<1>4. Len(lines) \in Nat /\ DOMAIN lines = 1..Len(lines)
  BY <1>2
<1>5. CASE at = {}
  <2>1. LastReasoning = NoEvent
    BY <1>3, <1>5
  <2>2. ASSUME Len(events) < ReasoningWindow, NEW i \in DOMAIN events PROVE ~Reasons(events[i])
    BY <1>2, <1>5, <2>2 DEF Reasons
  <2> QED
    BY <2>1, <2>2, EventFacts
<1>6. CASE at # {}
  <2>1. at \in SUBSET (1..Len(lines))
    BY <1>4
  <2> DEFINE m == Max(at)
  <2>2. m \in at /\ \A y \in at : y <= m
    BY <1>4, <1>6, <2>1, MaxFacts
  <2>3. LastReasoning = lines[m]
    BY <1>3, <1>6
  <2> HIDE DEF m
  <2>4. m \in 1..Len(lines) /\ Reasons(lines[m]) /\ lines[m] \in Events
    BY <1>2, <1>4, <2>2 DEF Reasons
  <2>5. lines[m] # NoEvent
    BY <2>4, EventFacts
  <2>6. PICK d \in Nat : /\ Len(events) = Len(lines) + d
                         /\ \A i \in DOMAIN lines : lines[i] = events[i + d]
    BY <1>2
  <2>7. DOMAIN events = 1..(Len(lines) + d)
    BY <1>1, <2>6
  <2>8. m + d \in DOMAIN events /\ lines[m] = events[m + d]
    BY <1>4, <2>4, <2>6, <2>7
  <2>9. ASSUME NEW j \in DOMAIN events, Reasons(events[j]) PROVE j <= m + d
    <3>1. CASE j <= d
      BY <1>4, <2>4, <2>6, <2>7, <3>1
    <3>2. CASE ~(j <= d)
      <4>1. j - d \in 1..Len(lines) /\ (j - d) + d = j
        BY <1>4, <2>6, <2>7, <3>2
      <4>2. lines[j - d] = events[j]
        BY <1>4, <2>6, <4>1
      <4>3. j - d \in at
        BY <1>4, <2>9, <4>1, <4>2 DEF Reasons
      <4>4. j - d <= m
        BY <2>2, <4>3
      <4> QED
        BY <2>4, <2>6, <4>1, <4>4
    <3> QED
      BY <3>1, <3>2
  <2> QED
    BY <2>3, <2>4, <2>5, <2>8, <2>9
<1> QED
  BY <1>5, <1>6

LEMMA TypesStep ==
    ASSUME Types, FileInv, Next PROVE Types'
<1>0. /\ events' \in Seq(Events) /\ tears' \in Nat
      /\ cycle \in 0..MaxCycles /\ file \in States /\ resets \in 0..MaxResets /\ misreads \in Nat
      /\ MaxCycles \in Nat /\ MaxResets \in Nat /\ cycle \in Nat /\ resets \in Nat
      /\ file.cycle \in 0..MaxCycles
  BY LogGrows, Kinds, Bounds DEF Types
<1>1. CASE Defend /\ UNCHANGED reader
  <2>1. step' = step /\ answer' = answer /\ misreads' = misreads
    BY <1>1 DEF reader
  <2>2. CASE Load
    BY <1>0, <2>1, <2>2 DEF Load, Types
  <2>3. CASE LoadDefault
    <3>1. resets' \in 0..MaxResets
      BY <1>0, <2>3 DEF LoadDefault
    <3>2. Saved(resets', 0) \in States
      BY <1>0, <3>1, StateFacts
    <3> QED
      BY <1>0, <2>1, <2>3, <3>1, <3>2 DEF LoadDefault, Types
  <2>4. CASE Collect
    BY <1>0, <2>1, <2>4 DEF Collect, Types
  <2>5. CASE Plan
    BY <1>0, <2>1, <2>5 DEF Plan, Types
  <2>6. ASSUME NEW type, Conclude(type) PROVE Types'
    BY <1>0, <2>1, <2>6 DEF Conclude, Types
  <2>7. CASE Tear
    <3>1. pc' \in {"error", "down"} /\ cycle' \in 0..MaxCycles
      BY <1>0, <2>7 DEF Tear
    <3>2. file' = file /\ resets' = resets
      BY <2>7 DEF Tear
    <3> QED
      BY <1>0, <2>1, <3>1, <3>2 DEF Types
  <2>8. CASE Save
    <3>1. Saved(resets, cycle) \in States
      BY <1>0, StateFacts
    <3> QED
      BY <1>0, <2>1, <2>8, <3>1 DEF Save, Types
  <2>9. CASE Die
    BY <1>0, <2>1, <2>9 DEF Die, Types
  <2> QED
    BY <1>1, <2>2, <2>3, <2>4, <2>5, <2>6, <2>7, <2>8, <2>9 DEF Defend
<1>2. CASE Respond /\ UNCHANGED writer
  <2>1. pc' = pc /\ cycle' = cycle /\ file' = file /\ resets' = resets
    BY <1>2 DEF writer
  <2>2. answer \in Answers /\ file.there \in BOOLEAN
    BY Kinds DEF Types
  <2>3. Recent \in Nat /\ 0 \in 0..Recent
    BY Bounds
  <2>4. \A st \in States : Begin(st) \in Answers
    BY <2>2, <2>3, EventFacts DEF Begin, Answers
  <2>5. CASE ReadState
    <3>1. answer' \in {Begin(file), Begin(Unavailable)} /\ misreads' \in Nat
      BY <1>0, <2>5, ReadsFacts DEF ReadState
    <3> QED
      BY <1>0, <2>1, <2>4, <2>5, <3>1, StateFacts DEF ReadState, Types
  <2>6. CASE ReadEvents
    <3>1. /\ answer' \in {[answer EXCEPT !.event = LastReasoning], [answer EXCEPT !.event = NoEvent]}
          /\ misreads' \in Nat
      BY <1>0, <2>6, ReadsFacts DEF ReadEvents
    <3>2. LastReasoning \in Events
      BY LastReasoningFacts
    <3>3. answer' \in Answers
      BY <2>2, <3>1, <3>2, EventFacts DEF Answers
    <3> QED
      BY <1>0, <2>1, <2>6, <3>1, <3>3 DEF ReadEvents, Types
  <2>7. CASE ReadLater
    <3>1. /\ answer' \in {[answer EXCEPT !.later = file.there], [answer EXCEPT !.later = FALSE]}
          /\ misreads' \in Nat
      BY <1>0, <2>7, ReadsFacts DEF ReadLater
    <3>2. answer' \in Answers
      BY <2>2, <3>1 DEF Answers
    <3> QED
      BY <1>0, <2>1, <2>7, <3>1, <3>2 DEF ReadLater, Types
  <2>8. CASE ReadRecent
    <3>1. RecentEvents \in 0..Recent
      <4> DEFINE lines == LastLines(EventWindow)
      <4>1. Len(lines) \in Nat
        BY Bounds, LastLinesFacts DEF Types
      <4> HIDE DEF lines
      <4>2. Min({Len(lines), Recent}) \in 0..Recent
        <5>1. \E x \in {Len(lines), Recent} : \A y \in {Len(lines), Recent} : x <= y
          BY <2>3, <4>1
        <5>2. /\ Min({Len(lines), Recent}) \in {Len(lines), Recent}
              /\ \A y \in {Len(lines), Recent} : Min({Len(lines), Recent}) <= y
          BY <5>1 DEF Min
        <5> QED
          BY <2>3, <4>1, <5>2
      <4> QED
        BY <2>3, <4>2 DEF RecentEvents, lines
    <3>2. /\ answer' \in {[answer EXCEPT !.recent = RecentEvents], [answer EXCEPT !.recent = 0]}
          /\ misreads' \in Nat
      <4>1. CASE Reads([answer EXCEPT !.recent = RecentEvents], [answer EXCEPT !.recent = 0])
        BY <1>0, <4>1, ReadsFacts
      <4>2. CASE answer' = [answer EXCEPT !.recent = 0] /\ UNCHANGED misreads
        BY <1>0, <4>2
      <4> QED
        BY <2>8, <4>1, <4>2 DEF ReadRecent
    <3>3. answer' \in Answers
      BY <2>2, <2>3, <3>1, <3>2 DEF Answers
    <3> QED
      BY <1>0, <2>1, <2>8, <3>2, <3>3 DEF ReadRecent, Types
  <2> QED
    BY <1>2, <2>5, <2>6, <2>7, <2>8 DEF Respond
<1> QED
  BY <1>1, <1>2, Sides

LEMMA FileStep ==
    ASSUME Types, FileInv, Next PROVE FileInv'
<1>0. cycle \in Nat /\ file.cycle \in Nat /\ resets \in 0..MaxResets /\ cycle \in 0..MaxCycles
      /\ MaxResets \in Nat
  BY Kinds, Bounds DEF Types
<1>1. CASE Load
  BY <1>1 DEF Load, FileInv
<1>2. CASE LoadDefault
  <2>1. resets' \in 0..MaxResets /\ 0 \in 0..MaxCycles
    BY <1>0, <1>2, Bounds DEF LoadDefault
  <2>2. Saved(resets', 0).there /\ Saved(resets', 0).history = resets' /\ Saved(resets', 0).cycle = 0
    BY <2>1, StateFacts
  <2> QED
    BY <1>2, <2>2 DEF LoadDefault, FileInv
<1>3. CASE Collect
  BY <1>3 DEF Collect, FileInv
<1>4. CASE Plan
  BY <1>0, <1>4 DEF Plan, FileInv
<1>5. ASSUME NEW type, Conclude(type) PROVE FileInv'
  BY <1>5 DEF Conclude, FileInv
<1>6. CASE Tear
  <2>1. pc # "down" /\ file' = file /\ resets' = resets
        /\ (pc' = "down" \/ (pc = "reason" /\ pc' = "error" /\ cycle' = cycle))
    BY <1>6 DEF Tear
  <2> QED
    BY <2>1 DEF FileInv
<1>7. CASE Save
  <2>1. /\ Saved(resets, cycle).there /\ Saved(resets, cycle).history = resets
        /\ Saved(resets, cycle).cycle = cycle
    BY <1>0, StateFacts
  <2> QED
    BY <1>7, <2>1 DEF Save, FileInv
<1>8. CASE Die
  BY <1>8 DEF Die, FileInv
<1>9. CASE Respond /\ UNCHANGED writer
  BY <1>9 DEF writer, FileInv
<1> QED
  BY <1>1, <1>2, <1>3, <1>4, <1>5, <1>6, <1>7, <1>8, <1>9, Sides DEF Defend

LEMMA HalfStep ==
    ASSUME Types, FileInv, HalfInv, Next PROVE HalfInv'
<1>0. tears \in Nat /\ tears' \in Nat /\ tears <= tears' /\ events \in Seq(Events)
  BY LogGrows DEF Types
<1>1. CASE UNCHANGED events
  BY <1>0, <1>1 DEF HalfInv
<1>2. ASSUME NEW type, NEW c, Appends(type, c), tears' = 0,
             NEW i \in DOMAIN events', events'[i] = Half
      PROVE  FALSE
  <2> DEFINE e == Event(type, resets, c)
  <2>1. e \in Events /\ Line(type, c) /\ tears' = tears /\ e.type = type
    BY <1>2, EventFacts DEF Appends, Types
  <2>2. Half # e
    BY <1>2, <2>1, EventFacts DEF Appends, Reasonings
  <2>3. Grown(events, events', {Junk, e})
    BY <1>0, <2>1, LineFacts
  <2>4. i \in DOMAIN events /\ events[i] = Half
    BY <1>2, <2>2, <2>3, EventFacts DEF Grown
  <2> QED
    BY <1>2, <2>1, <2>4 DEF HalfInv
<1>3. CASE tears' = tears + 1
  BY <1>0, <1>3 DEF HalfInv
<1> QED
  BY <1>1, <1>2, <1>3, LogStep DEF HalfInv

LEMMA CycleStep ==
    ASSUME Types, FileInv, HalfInv, CycleInv, Next PROVE CycleInv'
<1>0. /\ events \in Seq(Events) /\ tears \in Nat /\ cycle \in Nat /\ resets \in Nat
      /\ cycle \in 0..MaxCycles /\ resets \in 0..MaxResets /\ MaxCycles \in Nat
      /\ events' \in Seq(Events)
  BY LogGrows, Kinds, Bounds DEF Types
<1>1. CASE Load \/ LoadDefault \/ Collect \/ Save \/ Die
  <2>1. pc' \notin {"reason", "error", "save"}
    BY <1>1 DEF Load, LoadDefault, Collect, Save, Die
  <2> QED
    BY <2>1 DEF CycleInv
<1>2. CASE Plan
  <2> DEFINE e == Event("REASONING_START", resets, cycle + 1)
  <2>1. /\ cycle' = cycle + 1 /\ pc' = "reason" /\ resets' = resets /\ tears' = tears
        /\ Line("REASONING_START", cycle + 1) /\ cycle + 1 \in 0..MaxCycles
    BY <1>0, <1>2 DEF Plan
  <2>2. e \in Events /\ Reasons(e) /\ e.history = resets /\ e.cycle = cycle + 1
    BY <1>0, <2>1, EventFacts DEF Reasonings, Reasons
  <2>3. /\ events' # <<>>
        /\ Last(events') = e \/ (events # <<>> /\ Last(events) = Half /\ Last(events') = Junk)
    BY <1>0, <2>1, <2>2, LineFacts
  <2>4. NotBefore(e, resets, cycle + 1)
    BY <1>0, <2>2 DEF NotBefore
  <2> HIDE DEF e
  <2>5. CASE Last(events') = e
    <3>1. Reached(events', resets', cycle')
      BY <1>0, <2>1, <2>2, <2>3, <2>4, <2>5, LastReaches
    <3> QED
      BY <2>1, <3>1 DEF CycleInv
  <2>6. CASE events # <<>> /\ Last(events) = Half /\ Last(events') = Junk
    <3>1. \E i \in DOMAIN events : events[i] = Half
      BY <1>0, <2>6 DEF Last
    <3>2. tears # 0
      BY <3>1 DEF HalfInv
    <3>3. tears' <= 1 => tears' = 1
      BY <1>0, <2>1, <3>2
    <3> QED
      BY <2>1, <2>3, <2>6, <3>3, EventFacts DEF CycleInv
  <2> QED
    BY <2>3, <2>5, <2>6
<1>3. ASSUME NEW type \in {"REASONING_END", "ERROR"}, Conclude(type), tears <= 1
      PROVE  Reached(events', resets, cycle)
  <2> DEFINE e == Event(type, resets, cycle)
  <2>1. Line(type, cycle) /\ pc \in {"reason", "error"}
    BY <1>3 DEF Conclude
  <2>2. e \in Events /\ Reasons(e) /\ e.history = resets /\ e.cycle = cycle
    BY <1>0, EventFacts DEF Reasonings, Reasons
  <2>3. /\ events' # <<>> /\ Grown(events, events', {Junk, e})
        /\ Last(events') = e \/ (events # <<>> /\ Last(events) = Half)
    BY <1>0, <2>1, <2>2, LineFacts
  <2>4. NotBefore(e, resets, cycle)
    BY <1>0, <2>2 DEF NotBefore
  <2> HIDE DEF e
  <2>5. CASE Last(events') = e
    BY <1>0, <2>2, <2>3, <2>4, <2>5, LastReaches
  <2>6. CASE Last(events) = Half
    <3>1. Reached(events, resets, cycle)
      BY <1>3, <2>1, <2>6 DEF CycleInv
    <3>2. \A x \in {Junk, e} : Reasons(x) => NotBefore(x, resets, cycle)
      BY <2>4, EventFacts
    <3> QED
      BY <1>0, <2>3, <3>1, <3>2, ReachedStays
  <2> QED
    BY <2>3, <2>5, <2>6
<1>4. ASSUME NEW type \in {"REASONING_END", "ERROR"}, Conclude(type) PROVE CycleInv'
  <2>1. pc' = "save" /\ resets' = resets /\ cycle' = cycle /\ tears' = tears
    BY <1>4 DEF Conclude
  <2> QED
    BY <1>3, <1>4, <2>1 DEF CycleInv
<1>5. CASE Tear
  <2>1. /\ tears' = tears + 1 /\ resets' = resets
        /\ events' = events \/ events' = Append(events, Half)
        /\ pc' = "down" \/ (pc = "reason" /\ pc' = "error" /\ cycle' = cycle)
    BY <1>5 DEF Tear
  <2>2. ASSUME tears' <= 1, pc = "reason", cycle' = cycle PROVE Reached(events', resets', cycle')
    <3>1. tears = 0
      BY <1>0, <2>1, <2>2
    <3>2. Reached(events, resets, cycle)
      BY <2>2, <3>1 DEF CycleInv
    <3>3. Reached(Append(events, Half), resets, cycle)
      <4>1. Grown(events, Append(events, Half), {Half})
        BY <1>0, AppendGrows, EventFacts
      <4>2. \A x \in {Half} : Reasons(x) => NotBefore(x, resets, cycle)
        BY EventFacts
      <4> QED
        BY <1>0, <3>2, <4>1, <4>2, ReachedStays
    <3> QED
      BY <2>1, <2>2, <3>2, <3>3
  <2> QED
    BY <2>1, <2>2 DEF CycleInv
<1>6. CASE Respond /\ UNCHANGED writer
  BY <1>6 DEF writer, CycleInv
<1> QED
  BY <1>1, <1>2, <1>4, <1>5, <1>6, Sides DEF Defend

(* Only a save and a default state change the file. *)
LEMMA FileChanges ==
    ASSUME Next
    PROVE  \/ file' = file
           \/ Save /\ file' = Saved(resets, cycle) /\ events' = events /\ tears' = tears
           \/ LoadDefault /\ file' = Saved(resets', 0)
<1>1. CASE Load \/ Collect \/ Plan \/ Die
  BY <1>1 DEF Load, Collect, Plan, Die
<1>2. ASSUME NEW type, Conclude(type) PROVE file' = file
  BY <1>2 DEF Conclude
<1>3. CASE Tear
  BY <1>3 DEF Tear
<1>4. CASE Save
  BY <1>4 DEF Save
<1>5. CASE LoadDefault
  BY <1>5 DEF LoadDefault
<1>6. CASE Respond /\ UNCHANGED writer
  BY <1>6 DEF writer
<1> QED
  BY <1>1, <1>2, <1>3, <1>4, <1>5, <1>6, Sides DEF Defend

LEMMA SavedStep ==
    ASSUME Types, FileInv, CycleInv, SavedInv, Next PROVE SavedInv'
<1>0. /\ tears \in Nat /\ tears' \in Nat /\ tears <= tears'
      /\ file.history \in Nat /\ file.cycle \in Nat
      /\ cycle \in 0..MaxCycles /\ resets \in 0..MaxResets
  BY LogGrows, Kinds DEF Types
<1>1. CASE file' = file
  <2>1. NotBefore(file, file.history, file.cycle)
    BY <1>0 DEF NotBefore
  <2>2. tears' <= 1 => tears <= 1
    BY <1>0
  <2> QED
    BY <1>0, <1>1, <2>1, <2>2, LogGrows DEF SavedInv
<1>2. CASE Save /\ file' = Saved(resets, cycle) /\ events' = events /\ tears' = tears
  <2>1. file'.history = resets /\ file'.cycle = cycle
    BY <1>0, <1>2, StateFacts
  <2> QED
    BY <1>2, <2>1 DEF Save, CycleInv, SavedInv
<1>3. CASE LoadDefault /\ file' = Saved(resets', 0)
  <2>1. resets' \in 0..MaxResets /\ 0 \in 0..MaxCycles
    BY <1>3, Bounds, TypesStep DEF Types
  <2>2. file'.cycle = 0
    BY <1>3, <2>1, StateFacts
  <2> QED
    BY <2>2 DEF SavedInv
<1> QED
  BY <1>1, <1>2, <1>3, FileChanges

(* What a step of an answer changes of it. *)
LEMMA AnswerSteps ==
    ASSUME Types, Respond
    PROVE  \/ /\ step' = "events" /\ answer'.later = answer.later
              /\ answer'.state \in {file, Unavailable}
              /\ misreads' = misreads => answer'.state = file
           \/ /\ step = "events" /\ step' = "later" /\ answer'.state = answer.state
              /\ answer'.later = answer.later
              /\ \/ answer'.event = LastReasoning
                 \/ answer'.event = NoEvent /\ misreads' > 0
           \/ /\ step' = "recent" /\ answer'.state = answer.state
              /\ answer'.later \in {file.there, FALSE}
              /\ misreads' = misreads => answer'.later = file.there
           \/ step' = "idle" /\ answer'.state = answer.state /\ answer'.later = answer.later
<1>0. answer \in Answers /\ misreads \in Nat
  BY DEF Types
<1>1. CASE ReadState
  <2>1. answer' = Begin(file) \/ (answer' = Begin(Unavailable) /\ misreads' # misreads)
    BY <1>0, <1>1, ReadsFacts DEF ReadState
  <2>2. \A st : Begin(st).state = st /\ Begin(st).later = answer.later
    BY <1>0 DEF Begin, Answers
  <2> QED
    BY <1>1, <2>1, <2>2 DEF ReadState
<1>2. CASE ReadEvents
  <2>1. \/ answer' = [answer EXCEPT !.event = LastReasoning]
        \/ answer' = [answer EXCEPT !.event = NoEvent] /\ misreads' > 0
    BY <1>0, <1>2, ReadsFacts DEF ReadEvents
  <2> QED
    BY <1>0, <1>2, <2>1 DEF ReadEvents, Answers
<1>3. CASE ReadLater
  <2>1. \/ answer' = [answer EXCEPT !.later = file.there]
        \/ answer' = [answer EXCEPT !.later = FALSE] /\ misreads' # misreads
    BY <1>0, <1>3, ReadsFacts DEF ReadLater
  <2> QED
    BY <1>0, <1>3, <2>1 DEF ReadLater, Answers
<1>4. CASE ReadRecent
  <2>1. answer' \in {[answer EXCEPT !.recent = RecentEvents], [answer EXCEPT !.recent = 0]}
    <3>1. CASE Reads([answer EXCEPT !.recent = RecentEvents], [answer EXCEPT !.recent = 0])
      BY <1>0, <3>1, ReadsFacts
    <3>2. CASE answer' = [answer EXCEPT !.recent = 0]
      BY <3>2
    <3> QED
      BY <1>4, <3>1, <3>2 DEF ReadRecent
  <2> QED
    BY <1>0, <1>4, <2>1 DEF ReadRecent, Answers
<1> QED
  BY <1>1, <1>2, <1>3, <1>4 DEF Respond

LEMMA ShownStep ==
    ASSUME Types, FileInv, ShownInv, Next PROVE ShownInv'
<1>0. /\ file.history \in Nat /\ file.cycle \in Nat /\ file.there \in BOOLEAN
      /\ answer.state.history \in Nat /\ answer.state.cycle \in Nat
      /\ resets \in Nat /\ cycle \in 0..MaxCycles /\ resets \in 0..MaxResets
  BY Kinds DEF Types
<1>1. CASE Defend /\ UNCHANGED reader
  <2>1. answer' = answer
    BY <1>1 DEF reader
  <2>2. CASE file' = file
    BY <2>1, <2>2 DEF ShownInv
  <2>3. CASE Save /\ file' = Saved(resets, cycle)
    <3>1. file'.there /\ file'.history = resets /\ file'.cycle = cycle
      BY <1>0, <2>3, StateFacts
    <3>2. file.history = resets /\ cycle = file.cycle + 1
      BY <2>3 DEF Save, FileInv
    <3>3. NotBefore(file', answer.state.history, answer.state.cycle)
      BY <1>0, <3>1, <3>2 DEF ShownInv, NotBefore
    <3> QED
      BY <2>1, <3>1, <3>3 DEF ShownInv
  <2>4. CASE LoadDefault /\ file' = Saved(resets', 0)
    <3>1. resets' \in 0..MaxResets /\ 0 \in 0..MaxCycles
      BY <2>4, Bounds, TypesStep DEF Types
    <3>2. file'.there /\ file'.history = resets' /\ file'.cycle = 0
      BY <2>4, <3>1, StateFacts
    <3>3. CASE file.there
      <4>1. file'.history = file.history + 1
        BY <2>4, <3>2, <3>3 DEF LoadDefault, FileInv
      <4>2. NotBefore(file', answer.state.history, answer.state.cycle)
        BY <1>0, <4>1 DEF ShownInv, NotBefore
      <4> QED
        BY <2>1, <3>2, <4>2 DEF ShownInv
    <3>4. CASE ~file.there
      <4>1. file.history = 0 /\ file.cycle = 0 /\ resets' = resets
        BY <2>4, <3>4, StateFacts DEF LoadDefault, FileInv
      <4>2. NotBefore(file', answer.state.history, answer.state.cycle)
        BY <1>0, <3>2, <4>1 DEF ShownInv, NotBefore
      <4> QED
        BY <2>1, <3>2, <4>2 DEF ShownInv
    <3> QED
      BY <1>0, <3>3, <3>4
  <2> QED
    BY <1>1, <2>2, <2>3, <2>4, FileChanges
<1>2. CASE Respond /\ UNCHANGED writer
  <2>1. file' = file
    BY <1>2 DEF writer
  <2>2. /\ answer'.state \in {answer.state, file, Unavailable}
        /\ answer'.later \in {answer.later, file.there, FALSE}
    BY <1>2, AnswerSteps
  <2>3. NotBefore(file, file.history, file.cycle) /\ NotBefore(file, 0, 0)
    BY <1>0 DEF NotBefore
  <2>4. NotBefore(file, answer'.state.history, answer'.state.cycle)
    BY <2>2, <2>3, StateFacts DEF ShownInv
  <2>5. (answer'.state.there \/ answer'.later) => file.there
    BY <1>0, <2>2, StateFacts DEF ShownInv
  <2> QED
    BY <2>1, <2>4, <2>5 DEF ShownInv
<1> QED
  BY <1>1, <1>2, Sides

LEMMA AheadStep ==
    ASSUME Types, FileInv, SavedInv, ShownInv, AheadInv, Next PROVE AheadInv'
<1>0. /\ tears \in Nat /\ tears' \in Nat /\ tears <= tears'
      /\ answer.state.history \in Nat /\ answer.state.cycle \in Nat
  BY LogGrows, Kinds DEF Types
<1>1. CASE Defend /\ UNCHANGED reader
  <2>1. answer' = answer /\ step' = step /\ (tears' <= 1 => tears <= 1)
    BY <1>0, <1>1 DEF reader
  <2> QED
    BY <1>0, <2>1, LogGrows DEF ShownInv, AheadInv
<1>2. CASE Respond /\ UNCHANGED writer
  <2>1. events' = events /\ tears' = tears
    BY <1>2 DEF writer
  <2>2. step' # "events" \/ answer'.state \in {file, Unavailable}
    BY <1>2, AnswerSteps
  <2> QED
    BY <2>1, <2>2, StateFacts DEF SavedInv, AheadInv
<1> QED
  BY <1>1, <1>2, Sides

(* What an answer has read of the log is not older than what it read of the file, *)
(* and it is silent only for a reason.                                        *)
LEMMA ReadStep ==
    ASSUME Types, FileInv, AheadInv, ReasoningIsCurrent, NoFalseSilence, Next
    PROVE  ReasoningIsCurrent' /\ NoFalseSilence'
<1>0. /\ tears \in Nat /\ tears' \in Nat /\ tears <= tears' /\ Len(events') >= Len(events)
      /\ events \in Seq(Events) /\ events' \in Seq(Events)
      /\ Len(events) \in Nat /\ Len(events') \in Nat /\ ReasoningWindow \in Nat
      /\ answer.state.history \in Nat /\ answer.state.cycle \in Nat
  BY LogGrows, Kinds, Bounds DEF Types
<1>1. CASE Defend /\ UNCHANGED reader
  <2>1. answer' = answer /\ step' = step /\ misreads' = misreads /\ (tears' <= 1 => tears <= 1)
    BY <1>0, <1>1 DEF reader
  <2>2. ReasoningIsCurrent'
    BY <2>1 DEF ReasoningIsCurrent
  <2>3. Len(events) >= ReasoningWindow => Len(events') >= ReasoningWindow
    BY <1>0
  <2>4. NoFalseSilence'
    BY <2>1, <2>3 DEF NoFalseSilence
  <2> QED
    BY <2>2, <2>4
<1>2. CASE Respond /\ UNCHANGED writer
  <2>1. events' = events /\ tears' = tears
    BY <1>2 DEF writer
  <2>2. CASE step' # "later"
    BY <2>2 DEF ReasoningIsCurrent, NoFalseSilence
  <2>3. CASE step' = "later"
    <3>1. /\ step = "events" /\ answer'.state = answer.state
          /\ answer'.event = LastReasoning \/ (answer'.event = NoEvent /\ misreads' > 0)
      BY <1>2, <2>3, AnswerSteps
    <3> DEFINE h == answer.state.history
               c == answer.state.cycle
    <3>2. CASE c > 0 /\ tears <= 1
      <4>1. PICK k \in DOMAIN events :
                /\ Reasons(events[k])
                /\ \A j \in DOMAIN events : j >= k /\ Reasons(events[j]) => NotBefore(events[j], h, c)
        BY <3>1, <3>2 DEF AheadInv, Reached
      <4>2. CASE answer'.event = LastReasoning
        <5>1. CASE LastReasoning = NoEvent
          <6>1. ~(Len(events) < ReasoningWindow)
            BY <4>1, <5>1, LastReasoningFacts
          <6>2. Len(events') >= ReasoningWindow
            BY <1>0, <2>1, <6>1
          <6> QED
            BY <4>2, <5>1, <6>2 DEF ReasoningIsCurrent, NoFalseSilence
        <5>2. CASE LastReasoning # NoEvent
          <6>1. PICK i \in DOMAIN events :
                    /\ LastReasoning = events[i] /\ Reasons(events[i])
                    /\ \A j \in DOMAIN events : Reasons(events[j]) => j <= i
            BY <5>2, LastReasoningFacts
          <6>2. i >= k
            BY <1>0, <4>1, <6>1
          <6>3. NotBefore(answer'.event, h, c)
            BY <4>1, <4>2, <6>1, <6>2
          <6> QED
            BY <3>1, <4>2, <5>2, <6>3 DEF ReasoningIsCurrent, NoFalseSilence, NotBefore
        <5> QED
          BY <5>1, <5>2
      <4>3. CASE answer'.event = NoEvent /\ misreads' > 0
        BY <4>3 DEF ReasoningIsCurrent, NoFalseSilence
      <4> QED
        BY <3>1, <4>2, <4>3
    <3>3. CASE ~(c > 0 /\ tears <= 1)
      BY <2>1, <3>1, <3>3 DEF ReasoningIsCurrent, NoFalseSilence
    <3> QED
      BY <3>2, <3>3
  <2> QED
    BY <2>2, <2>3
<1> QED
  BY <1>1, <1>2, Sides

----------------------------------------------------------------------------
(* The theorems                                                            *)

LEMMA Start == ASSUME Init PROVE IInv
<1>1. Types
  <2>1. /\ events \in Seq(Events) /\ Unavailable \in States /\ NoEvent \in Events
        /\ 0 \in 0..MaxCycles /\ 0 \in 0..MaxResets /\ 0 \in 0..Recent
    BY Bounds, StateFacts, EventFacts DEF Init
  <2>2. answer \in Answers
    BY <2>1 DEF Init, Answers
  <2> QED
    BY <2>1, <2>2 DEF Init, Types
<1>2. FileInv /\ HalfInv /\ SavedInv /\ CycleInv
  BY StateFacts DEF Init, FileInv, HalfInv, SavedInv, CycleInv
<1>3. answer.state = Unavailable /\ answer.later = FALSE /\ step = "idle" /\ file = Unavailable
  BY DEF Init
<1>4. ShownInv /\ AheadInv
  BY <1>3, StateFacts DEF ShownInv, AheadInv, NotBefore
<1> QED
  BY <1>1, <1>2, <1>3, <1>4 DEF IInv, ReasoningIsCurrent, NoFalseSilence

LEMMA Step == ASSUME IInv, [Next]_vars PROVE IInv'
<1>1. CASE Next
  <2> USE <1>1 DEF IInv
  <2>1. Types' /\ FileInv' /\ HalfInv'
    BY TypesStep, FileStep, HalfStep
  <2>2. CycleInv' /\ SavedInv'
    BY CycleStep, SavedStep
  <2>3. ShownInv' /\ AheadInv'
    BY ShownStep, AheadStep
  <2>4. ReasoningIsCurrent' /\ NoFalseSilence'
    BY ReadStep
  <2> QED
    BY <2>1, <2>2, <2>3, <2>4
<1>2. CASE UNCHANGED vars
  <2>1. /\ pc' = pc /\ cycle' = cycle /\ file' = file /\ events' = events
        /\ step' = step /\ answer' = answer
        /\ tears' = tears /\ resets' = resets /\ misreads' = misreads
    BY <1>2 DEF vars, writer, reader
  <2> QED
    BY <2>1 DEF IInv, Types, FileInv, HalfInv, CycleInv, SavedInv, ShownInv, AheadInv,
                ReasoningIsCurrent, NoFalseSilence
<1> QED
  BY <1>1, <1>2

(* The invariant of the Defender's files and of an answer that reads them, for  *)
(* any number of cycles, events, torn lines and restarts.                      *)
THEOREM Invariance == Spec => []IInv
<1>1. Init => IInv
  BY Start
<1>2. IInv /\ [Next]_vars => IInv'
  BY Step
<1> QED
  BY <1>1, <1>2, PTL DEF Spec

(* Every variable of the dashboard and of its two files keeps its kind.        *)
THEOREM TypeCorrect == Spec => []TypeOK
<1>1. IInv => TypeOK
  <2>1. ASSUME Types PROVE TypeOK
    <3>1. \A i \in DOMAIN events : events[i] \in Events
      BY <2>1 DEF Types
    <3>2. {tears, resets, misreads} \subseteq Nat
      BY <2>1, Kinds
    <3> QED
      BY <2>1, <3>1, <3>2, Kinds DEF Types, TypeOK
  <2> QED
    BY <2>1 DEF IInv
<1> QED
  BY <1>1, Invariance, PTL

(* With at most one torn event the assessment that an answer of the dashboard   *)
(* shows is never of an older cycle than the counter beside it, whatever the    *)
(* Defender writes between the reads and however often it dies.                *)
THEOREM Current == Spec => []ReasoningIsCurrent
<1>1. IInv => ReasoningIsCurrent
  BY DEF IInv
<1> QED
  BY <1>1, Invariance, PTL

(* A cycle that the counter shows is hidden only by a full window of other lines *)
(* or by a read that failed.                                                  *)
THEOREM Silence == Spec => []NoFalseSilence
<1>1. IInv => NoFalseSilence
  BY DEF IInv
<1> QED
  BY <1>1, Invariance, PTL

(* A state file that was once shown is there at each later read that does not   *)
(* fail: saving replaces the file and never takes it away.                     *)
THEOREM Available == Spec => StaysAvailable
<1>1. ASSUME IInv, Next, misreads' = misreads
      PROVE  /\ answer.state.there => answer'.state.there
             /\ answer.later => answer'.later
  <2>1. CASE Defend /\ UNCHANGED reader
    BY <2>1 DEF reader
  <2>2. CASE Respond /\ UNCHANGED writer
    <3>1. Types /\ ((answer.state.there \/ answer.later) => file.there)
      BY <1>1 DEF IInv, ShownInv
    <3>2. /\ answer'.state \in {answer.state, file}
          /\ answer'.later \in {answer.later, file.there}
      BY <1>1, <2>2, <3>1, AnswerSteps, StateFacts
    <3> QED
      BY <3>1, <3>2
  <2> QED
    BY <1>1, <2>1, <2>2, Sides
<1>2. IInv /\ [Next]_vars =>
        [misreads' = misreads =>
            /\ answer.state.there => answer'.state.there
            /\ answer.later => answer'.later]_vars
  BY <1>1
<1> QED
  BY <1>2, Invariance, PTL DEF Spec, StaysAvailable
=============================================================================
