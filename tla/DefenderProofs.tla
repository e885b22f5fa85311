--------------------------- MODULE DefenderProofs ---------------------------
(* Machine-checked proofs about Defender, for every set of addresses and of  *)
(* scenarios, every clock and any number of cycles, failures and restarts.   *)
EXTENDS Defender, TLAPS

USE AddressAssumption, TimeAssumption, ClientAssumption

(* An expiry is a time, and not beyond the longest block the policy allows. *)
LEMMA ExpiryBounds ==
    ASSUME NEW time \in Nat, NEW duration \in 1..MaxDuration
    PROVE  /\ Expiry(time, duration) \in Nat
           /\ Expiry(time, duration) <= time + MaxDuration * SubSecond
  BY DEF Expiry

(* Pruning gives a block list, twice is as good as once, and nothing that an *)
(* earlier pruning removed comes back.                                       *)
LEMMA PruneFacts ==
    ASSUME NEW blocks \in BlockLists, NEW t \in Nat
    PROVE  /\ Prune(blocks, t) \in BlockLists
           /\ Prune(Prune(blocks, t), t) = Prune(blocks, t)
           /\ Prune(Prune(blocks, t), t + 1) = Prune(blocks, t + 1)
           /\ \A a \in Addresses : Prune(blocks, t)[a] \in {0, blocks[a]}
  BY DEF Prune, BlockLists

(* block_ip changes the record of its address and of no other. *)
LEMMA BlockFacts ==
    ASSUME NEW blocks \in BlockLists, NEW t \in Nat, NEW s \in Scenarios, Blocks(s)
    PROVE  /\ BlockIp(blocks, s.ip, s.duration, t) \in BlockLists
           /\ BlockIp(blocks, s.ip, s.duration, t)[s.ip] <= t + MaxDuration * SubSecond
           /\ s.ip \in Addresses /\ ~IsProtected(s.ip)
           /\ \A a \in Addresses \ {s.ip} :
                 BlockIp(blocks, s.ip, s.duration, t)[a] = blocks[a]
<1>1. s.ip \in Addresses /\ ~IsProtected(s.ip) /\ s.duration \in 1..MaxDuration
  BY DEF Blocks, Allows, ReadActions
<1>2. /\ Expiry(t, s.duration) \in Nat
      /\ Expiry(t, s.duration) <= t + MaxDuration * SubSecond
  BY <1>1, ExpiryBounds
<1> QED
  BY <1>1, <1>2 DEF BlockIp, BlockLists

(* Each assignment to a part of the state object gives a state object. *)
LEMMA StateFacts ==
    ASSUME NEW st \in States
    PROVE  /\ st.cycle \in Nat /\ st.reasonings \in Nat /\ st.blocks \in BlockLists
           /\ \A blocks \in BlockLists : [st EXCEPT !.blocks = blocks] \in States
           /\ [st EXCEPT !.cycle = @ + 1] \in States
           /\ [st EXCEPT !.reasonings = @ + 1] \in States
           /\ \A i \in Nat, o \in Nat, blocks \in BlockLists :
                 [st EXCEPT !.inode = i, !.offset = o, !.blocks = blocks] \in States
<1>1. /\ st.cycle \in Nat /\ st.reasonings \in Nat /\ st.blocks \in BlockLists
      /\ st.inode \in Nat /\ st.offset \in Nat
  BY DEF States
<1>2. \A blocks \in BlockLists : [st EXCEPT !.blocks = blocks] \in States
  BY DEF States
<1>3. [st EXCEPT !.cycle = @ + 1] \in States
  BY DEF States
<1>4. [st EXCEPT !.reasonings = @ + 1] \in States
  BY DEF States
<1>5. \A i \in Nat, o \in Nat, blocks \in BlockLists :
        [st EXCEPT !.inode = i, !.offset = o, !.blocks = blocks] \in States
  BY DEF States
<1> QED
  BY <1>1, <1>2, <1>3, <1>4, <1>5

LEMMA DefaultFacts == Default \in States
  BY DEF Default, States, NoBlocks, BlockLists

(* The events the code writes. *)
LEMMA EventFacts ==
    /\ \A type \in {"REASONING_START", "REASONING_END", "ERROR"}, c \in Nat :
          [type |-> type, about |-> c] \in Reasonings
    /\ \A verdict \in {"ALLOW", "BLOCK"}, s \in Scenarios :
          [type |-> "POLICY", about |-> <<verdict, s>>] \in Verdicts
    /\ \A type \in {"ACTION", "VERIFY"}, a \in Addresses :
          [type |-> type, about |-> a] \in Containments
  BY DEF Reasonings, Verdicts, Containments

(* The log after a line, and after a cut. *)
LogRecords(E) == [inode : Nat, lines : E, last : Nat, cuts : Nat]

LEMMA LogUpdates ==
    ASSUME NEW E, NEW l \in LogRecords(E)
    PROVE  /\ l.inode \in Nat /\ l.last \in Nat /\ l.cuts \in Nat /\ l.lines \in E
           /\ \A e \in E, n \in Nat : [l EXCEPT !.lines = e, !.last = n] \in LogRecords(E)
           /\ \A i \in Nat, e \in E, n \in Nat :
                 [l EXCEPT !.inode = i, !.lines = e, !.cuts = n] \in LogRecords(E)
<1>1. l.inode \in Nat /\ l.last \in Nat /\ l.cuts \in Nat /\ l.lines \in E
  BY DEF LogRecords
<1>2. \A e \in E, n \in Nat : [l EXCEPT !.lines = e, !.last = n] \in LogRecords(E)
  BY DEF LogRecords
<1>3. \A i \in Nat, e \in E, n \in Nat :
        [l EXCEPT !.inode = i, !.lines = e, !.cuts = n] \in LogRecords(E)
  BY DEF LogRecords
<1> QED
  BY <1>1, <1>2, <1>3

LogTypes == LogRecords(Seq([n : Nat, src : Addresses]))

LEMMA LogFacts ==
    ASSUME log \in LogTypes
    PROVE  /\ \A a \in Addresses : Logged(a) => log' \in LogTypes
           /\ \A i \in Nat : Cut(i) => log' \in LogTypes
           /\ log.inode \in Nat /\ Len(log.lines) \in Nat
<1> DEFINE E == Seq([n : Nat, src : Addresses])
<1>1. <<>> \in E /\ log \in LogRecords(E)
  BY DEF LogTypes
<1>2. log.inode \in Nat /\ log.last + 1 \in Nat /\ log.cuts + 1 \in Nat /\ log.lines \in E
  <2>1. log.inode \in Nat /\ log.last \in Nat /\ log.cuts \in Nat /\ log.lines \in E
    BY <1>1 DEF LogRecords
  <2> QED
    BY <2>1
<1>3. Len(log.lines) \in Nat
  BY <1>2
<1>4. ASSUME NEW a \in Addresses PROVE Append(log.lines, [n |-> log.last + 1, src |-> a]) \in E
  <2>1. [n |-> log.last + 1, src |-> a] \in [n : Nat, src : Addresses]
    BY <1>2, <1>4
  <2> QED
    BY <1>2, <2>1
<1> HIDE DEF E
<1>5. ASSUME NEW a \in Addresses, Logged(a) PROVE log' \in LogRecords(E)
  <2>1. Append(log.lines, [n |-> log.last + 1, src |-> a]) \in E
    BY <1>4, <1>5
  <2>2. [log EXCEPT !.lines = Append(log.lines, [n |-> log.last + 1, src |-> a]),
                    !.last = log.last + 1] \in LogRecords(E)
    BY <1>1, <1>2, <2>1, LogUpdates
  <2> QED
    BY <1>1, <1>5, <2>2 DEF Logged
<1>6. ASSUME NEW i \in Nat, Cut(i) PROVE log' \in LogRecords(E)
  BY <1>1, <1>2, <1>6, LogUpdates DEF Cut
<1> QED
  BY <1>2, <1>3, <1>5, <1>6 DEF LogTypes, E

(* The kinds of values are kept by every step. *)
LEMMA TypeStep == IInv /\ [Next]_vars => ControlTypes'
<1> SUFFICES ASSUME IInv, [Next]_vars PROVE ControlTypes'
  OBVIOUS
<1>0. ControlTypes /\ VettedInv /\ log \in LogTypes
  BY DEF IInv, ControlTypes, LogTypes, LogRecords
<1> USE <1>0
<1> USE DEF ControlTypes, world, history
<1>1. CASE Advance
  BY <1>1 DEF Advance
<1>2. CASE IntervalPasses
  BY <1>2 DEF IntervalPasses
<1>3. CASE Rotate
  <3>1. log' \in LogTypes
    BY <1>3, LogFacts DEF Rotate
  <3> QED
    BY <1>3, <3>1 DEF Rotate, Cut, LogTypes, LogRecords
<1>4. CASE Truncate
  <3>1. log' \in LogTypes
    BY <1>4, LogFacts DEF Truncate
  <3> QED
    BY <1>4, <3>1 DEF Truncate, Cut, LogTypes, LogRecords
<1>5. CASE Load
  BY <1>5 DEF Load, Serve
<1>6. CASE LoadDefault
  BY <1>6, DefaultFacts DEF LoadDefault, Serve
<1>7. CASE Killed
  <3>1. state' \in States /\ proposals' \in Seq(Scenarios)
    BY <1>7, DefaultFacts DEF Killed, End
  <3>2. rewinds' \in Nat /\ deaths' \in Nat
    BY <1>7 DEF Killed, End
  <3> QED
    BY <1>7, <3>1, <3>2 DEF Killed, End
<1>8. CASE Exits
  <3>1. state' \in States /\ proposals' \in Seq(Scenarios)
    BY <1>8, DefaultFacts DEF Exits, End
  <3>2. rewinds' \in Nat /\ deaths' \in Nat
    BY <1>8 DEF Exits, End
  <3> QED
    BY <1>8, <3>1, <3>2 DEF Exits, End
<1>9. CASE Tick
  <2>1. CASE Collect
    <3>1. Prune(state.blocks, now) \in BlockLists
      BY PruneFacts, StateFacts
    <3>2. state' \in States
      BY <2>1, <3>1, LogFacts, StateFacts DEF Collect, Observe
    <3> QED
      BY <2>1, <3>2 DEF Collect, Observe
  <2>2. CASE CollectRaises
    BY <2>2 DEF CollectRaises, Fatal, Fault
  <2>3. CASE Plan
    <3>1. state' \in States /\ state.cycle + 1 \in Nat
      <4>1. state' = [state EXCEPT !.cycle = state.cycle + 1]
        BY <2>3 DEF Plan
      <4>2. state \in States
        OBVIOUS
      <4>3. state.cycle + 1 \in Nat
        BY <4>2 DEF States
      <4> QED
        BY <4>1, <4>2, <4>3 DEF States
    <3>2. [type |-> "REASONING_START", about |-> state.cycle + 1] \in Reasonings
      BY <3>1, EventFacts
    <3> QED
      BY <2>3, <3>1, <3>2 DEF Plan
  <2>4. CASE PlanRaises
    BY <2>4 DEF PlanRaises, Fatal, Fault
  <2>5. CASE Analyze
    <3>1. PICK n \in 0..MaxProposals : proposals' \in [1..n -> Scenarios]
      BY <2>5 DEF Analyze, Answers
    <3>2. proposals' \in Seq(Scenarios)
      <4>1. MaxProposals \in Nat /\ n \in Nat
        BY LimitAssumption
      <4> QED
        BY <3>1, <4>1
    <3> QED
      BY <2>5, <3>2 DEF Analyze
  <2>6. CASE AnalyzeRaises
    BY <2>6 DEF AnalyzeRaises, Caught
  <2>7. CASE Judge
    <3>1. Head(proposals) \in Scenarios /\ Tail(proposals) \in Seq(Scenarios)
      BY <2>7 DEF Judge
    <3>2. \A v \in {"ALLOW", "BLOCK"} :
            [type |-> "POLICY", about |-> <<v, Head(proposals)>>] \in Verdicts
      BY <3>1, EventFacts
    <3>3. events' \subseteq events \cup Verdicts
      BY <2>7, <3>2 DEF Judge
    <3>4. proposals' \in Seq(Scenarios) /\ pc' \in {"contain", "execute"}
      BY <2>7, <3>1 DEF Judge
    <3> QED
      BY <2>7, <3>3, <3>4 DEF Judge
  <2>8. CASE Contain
    <3>1. Head(proposals) \in Scenarios /\ Blocks(Head(proposals))
      BY <2>8 DEF Contain, VettedInv
    <3>2. /\ BlockIp(state.blocks, Head(proposals).ip, Head(proposals).duration, now) \in BlockLists
          /\ Head(proposals).ip \in Addresses
      BY <3>1, BlockFacts, StateFacts
    <3>3. state' \in States
      BY <2>8, <3>2, StateFacts DEF Contain, Block
    <3>4. [type |-> "ACTION", about |-> Head(proposals).ip] \in Containments
      BY <3>2, EventFacts
    <3> QED
      BY <2>8, <3>3, <3>4 DEF Contain
  <2>9. CASE ContainRaises
    <3>1. Head(proposals) \in Scenarios /\ Blocks(Head(proposals))
      BY <2>9 DEF ContainRaises, VettedInv
    <3>2. BlockIp(state.blocks, Head(proposals).ip, Head(proposals).duration, now) \in BlockLists
      BY <3>1, BlockFacts, StateFacts
    <3>3. state' \in States
      BY <2>9, <3>2, StateFacts DEF ContainRaises, Block
    <3> QED
      BY <2>9, <3>3 DEF ContainRaises, Fault, Caught
  <2>10. CASE Verify
    <3>1. Head(proposals) \in Scenarios /\ Blocks(Head(proposals)) /\ proposals # <<>>
      BY <2>10 DEF Verify, VettedInv
    <3>2. Head(proposals).ip \in Addresses /\ Tail(proposals) \in Seq(Scenarios)
      <4>1. Head(proposals).ip \in Addresses
        BY <3>1 DEF Blocks, Allows, ReadActions
      <4>2. Tail(proposals) \in Seq(Scenarios)
        BY <3>1
      <4> QED
        BY <4>1, <4>2
    <3>3. state' \in States
      BY <2>10, PruneFacts, StateFacts DEF Verify
    <3>4. [type |-> "VERIFY", about |-> Head(proposals).ip] \in Containments
      BY <3>2, EventFacts
    <3> QED
      BY <2>10, <3>2, <3>3, <3>4 DEF Verify
  <2>11. CASE ExecuteRaises
    BY <2>11 DEF ExecuteRaises, Fault, Caught
  <2>12. CASE ReasoningEnd
    <3>1. state' \in States
      BY <2>12, StateFacts DEF ReasoningEnd, Conclude
    <3>2. [type |-> "REASONING_END", about |-> state.cycle] \in Reasonings
      BY StateFacts, EventFacts
    <3> QED
      BY <2>12, <3>1, <3>2 DEF ReasoningEnd, Conclude
  <2>13. CASE SafeFailure
    <3>1. state' \in States
      BY <2>13, StateFacts DEF SafeFailure, Conclude
    <3>2. [type |-> "ERROR", about |-> state.cycle] \in Reasonings
      BY StateFacts, EventFacts
    <3> QED
      BY <2>13, <3>1, <3>2 DEF SafeFailure, Conclude
  <2>14. CASE SafeFailureRaises
    BY <2>14 DEF SafeFailureRaises, Fatal, Fault
  <2>15. CASE Save
    BY <2>15 DEF Save
  <2>16. CASE SaveRaises
    BY <2>16 DEF SaveRaises, Fatal, Fault
  <2> HIDE DEF ControlTypes, world, history
  <2> QED
    BY <1>9, <2>1, <2>2, <2>3, <2>4, <2>5, <2>6, <2>7, <2>8, <2>9, <2>10, <2>11, <2>12, <2>13, <2>14, <2>15, <2>16 DEF Tick
<1>10. ASSUME NEW a \in Clients, Client(a) PROVE ControlTypes'
  <2>1. CASE Ask(a)
    BY <2>1 DEF Ask
  <2>2. CASE Auth(a)
    <3>1. state' \in States
      BY <2>2, PruneFacts, StateFacts DEF Auth
    <3>2. log' \in LogTypes
      BY <2>2, LogFacts DEF Auth
    <3> QED
      BY <2>2, <3>1, <3>2 DEF Auth, LogTypes, LogRecords
  <2>3. CASE AuthFails(a)
    <3>1. log' \in LogTypes
      BY <2>3, LogFacts DEF AuthFails
    <3> QED
      BY <2>3, <3>1 DEF AuthFails, LogTypes, LogRecords
  <2> HIDE DEF ControlTypes, world, history
  <2> QED
    BY <1>10, <2>1, <2>2, <2>3 DEF Client
<1>11. ASSUME NEW a \in Addresses, Bypass(a) PROVE ControlTypes'
  <2>1. log' \in LogTypes
    BY <1>11, LogFacts DEF Bypass
  <2> QED
    BY <1>11, <2>1 DEF Bypass, LogTypes, LogRecords
<1>12. CASE UNCHANGED vars
  BY <1>12 DEF vars
<1> HIDE DEF ControlTypes, world, history
<1> QED
  BY <1>1, <1>2, <1>3, <1>4, <1>5, <1>6, <1>7, <1>8, <1>9, <1>10, <1>11, <1>12 DEF Next, Process

(* An exception leaves the tick at once. *)
LEMMA TickStep == TickInv /\ [Next]_vars => TickInv'
<1> SUFFICES ASSUME TickInv, [Next]_vars PROVE TickInv'
  OBVIOUS
<1> USE DEF TickInv, world, history
<1>1. CASE Advance
  BY <1>1 DEF Advance
<1>2. CASE IntervalPasses
  BY <1>2 DEF IntervalPasses
<1>3. CASE Rotate
  BY <1>3 DEF Rotate, Cut
<1>4. CASE Truncate
  BY <1>4 DEF Truncate, Cut
<1>5. CASE Load
  BY <1>5 DEF Load, Serve
<1>6. CASE LoadDefault
  BY <1>6 DEF LoadDefault, Serve
<1>7. CASE Killed
  BY <1>7 DEF Killed, End
<1>8. CASE Exits
  BY <1>8 DEF Exits, End
<1>9. CASE Tick
  <2>1. CASE Collect
    BY <2>1 DEF Collect, Observe
  <2>2. CASE CollectRaises
    BY <2>2 DEF CollectRaises, Fatal, Fault
  <2>3. CASE Plan
    BY <2>3 DEF Plan
  <2>4. CASE PlanRaises
    BY <2>4 DEF PlanRaises, Fatal, Fault
  <2>5. CASE Analyze
    BY <2>5 DEF Analyze, Answers
  <2>6. CASE AnalyzeRaises
    BY <2>6 DEF AnalyzeRaises, Caught
  <2>7. CASE Judge
    BY <2>7 DEF Judge
  <2>8. CASE Contain
    BY <2>8 DEF Contain, Block
  <2>9. CASE ContainRaises
    BY <2>9 DEF ContainRaises, Fault, Block, Caught
  <2>10. CASE Verify
    BY <2>10 DEF Verify
  <2>11. CASE ExecuteRaises
    BY <2>11 DEF ExecuteRaises, Fault, Caught
  <2>12. CASE ReasoningEnd
    BY <2>12 DEF ReasoningEnd, Conclude
  <2>13. CASE SafeFailure
    BY <2>13 DEF SafeFailure, Conclude
  <2>14. CASE SafeFailureRaises
    BY <2>14 DEF SafeFailureRaises, Fatal, Fault
  <2>15. CASE Save
    BY <2>15 DEF Save
  <2>16. CASE SaveRaises
    BY <2>16 DEF SaveRaises, Fatal, Fault
  <2> HIDE DEF TickInv, world, history
  <2> QED
    BY <1>9, <2>1, <2>2, <2>3, <2>4, <2>5, <2>6, <2>7, <2>8, <2>9, <2>10, <2>11, <2>12, <2>13, <2>14, <2>15, <2>16 DEF Tick
<1>10. ASSUME NEW a \in Clients, Client(a) PROVE TickInv'
  <2>1. CASE Ask(a)
    BY <2>1 DEF Ask
  <2>2. CASE Auth(a)
    BY <2>2 DEF Auth, Logged
  <2>3. CASE AuthFails(a)
    BY <2>3 DEF AuthFails, Logged
  <2> HIDE DEF TickInv, world, history
  <2> QED
    BY <1>10, <2>1, <2>2, <2>3 DEF Client
<1>11. ASSUME NEW a \in Addresses, Bypass(a) PROVE TickInv'
  BY <1>11 DEF Bypass, Logged
<1>12. CASE UNCHANGED vars
  BY <1>12 DEF vars
<1> HIDE DEF TickInv, world, history
<1> QED
  BY <1>1, <1>2, <1>3, <1>4, <1>5, <1>6, <1>7, <1>8, <1>9, <1>10, <1>11, <1>12 DEF Next, Process

(* The policy is asked before, and about, each scenario that is carried out. *)
LEMMA VettedStep == IInv /\ [Next]_vars => VettedInv'
<1> SUFFICES ASSUME IInv, [Next]_vars PROVE VettedInv'
  OBVIOUS
<1>0. VettedInv /\ TickInv /\ proposals \in Seq(Scenarios)
  BY DEF IInv, ControlTypes
<1> USE <1>0
<1> USE DEF VettedInv, TickInv, world, history
<1>1. CASE Advance
  BY <1>1 DEF Advance
<1>2. CASE IntervalPasses
  BY <1>2 DEF IntervalPasses
<1>3. CASE Rotate
  BY <1>3 DEF Rotate, Cut
<1>4. CASE Truncate
  BY <1>4 DEF Truncate, Cut
<1>5. CASE Load
  BY <1>5 DEF Load, Serve
<1>6. CASE LoadDefault
  BY <1>6 DEF LoadDefault, Serve
<1>7. CASE Killed
  BY <1>7 DEF Killed, End
<1>8. CASE Exits
  BY <1>8 DEF Exits, End
<1>9. CASE Tick
  <2>1. CASE Collect
    BY <2>1 DEF Collect, Observe
  <2>2. CASE CollectRaises
    BY <2>2 DEF CollectRaises, Fatal, Fault
  <2>3. CASE Plan
    BY <2>3 DEF Plan
  <2>4. CASE PlanRaises
    BY <2>4 DEF PlanRaises, Fatal, Fault
  <2>5. CASE Analyze
    BY <2>5 DEF Analyze, Answers
  <2>6. CASE AnalyzeRaises
    BY <2>6 DEF AnalyzeRaises, Caught
  <2>7. CASE Judge
    <3>1. CASE Blocks(Head(proposals))
      <4>1. Allows(Head(proposals)) /\ proposals' = proposals /\ proposals # <<>>
        BY <2>7, <3>1 DEF Judge, Blocks
      <4>2. [type |-> "POLICY", about |-> <<"ALLOW", Head(proposals)>>] \in events'
        BY <2>7, <4>1 DEF Judge
      <4> QED
        BY <3>1, <4>1, <4>2
    <3>2. CASE ~Blocks(Head(proposals))
      BY <2>7, <3>2 DEF Judge
    <3> QED
      BY <3>1, <3>2
  <2>8. CASE Contain
    BY <2>8 DEF Contain, Block
  <2>9. CASE ContainRaises
    BY <2>9 DEF ContainRaises, Fault, Block, Caught
  <2>10. CASE Verify
    BY <2>10 DEF Verify
  <2>11. CASE ExecuteRaises
    BY <2>11 DEF ExecuteRaises, Fault, Caught
  <2>12. CASE ReasoningEnd
    BY <2>12 DEF ReasoningEnd, Conclude
  <2>13. CASE SafeFailure
    BY <2>13 DEF SafeFailure, Conclude
  <2>14. CASE SafeFailureRaises
    BY <2>14 DEF SafeFailureRaises, Fatal, Fault
  <2>15. CASE Save
    BY <2>15 DEF Save
  <2>16. CASE SaveRaises
    BY <2>16 DEF SaveRaises, Fatal, Fault
  <2> HIDE DEF VettedInv, TickInv, world, history
  <2> QED
    BY <1>9, <2>1, <2>2, <2>3, <2>4, <2>5, <2>6, <2>7, <2>8, <2>9, <2>10, <2>11, <2>12, <2>13, <2>14, <2>15, <2>16 DEF Tick
<1>10. ASSUME NEW a \in Clients, Client(a) PROVE VettedInv'
  <2>1. CASE Ask(a)
    BY <2>1 DEF Ask
  <2>2. CASE Auth(a)
    BY <2>2 DEF Auth, Logged
  <2>3. CASE AuthFails(a)
    BY <2>3 DEF AuthFails, Logged
  <2> HIDE DEF VettedInv, TickInv, world, history
  <2> QED
    BY <1>10, <2>1, <2>2, <2>3 DEF Client
<1>11. ASSUME NEW a \in Addresses, Bypass(a) PROVE VettedInv'
  BY <1>11 DEF Bypass, Logged
<1>12. CASE UNCHANGED vars
  BY <1>12 DEF vars
<1> HIDE DEF VettedInv, TickInv, world, history
<1> QED
  BY <1>1, <1>2, <1>3, <1>4, <1>5, <1>6, <1>7, <1>8, <1>9, <1>10, <1>11, <1>12 DEF Next, Process

(* What a step does to the block lists: the next list of the process is its *)
(* present one, pruned or with the scenario at hand blocked, or none, or the *)
(* file's; the file gets the process's list or none; events are added.       *)
BlockStep ==
    /\ events \subseteq events'
    /\ \/ state'.blocks \in {state.blocks, NoBlocks, Prune(state.blocks, now)}
       \/ disk # Missing /\ state'.blocks = disk.blocks
       \/ /\ pc = "contain"
          /\ state'.blocks = BlockIp(state.blocks, Head(proposals).ip,
                                     Head(proposals).duration, now)
    /\ disk' = disk \/ (pc = "save" /\ disk' = state) \/ disk' = Default
    /\ now' = now \/ (now' = now + 1 /\ state' = state /\ disk' = disk)

(* Each action is such a step. *)
LEMMA BlockSources == IInv /\ [Next]_vars => BlockStep
<1> SUFFICES ASSUME IInv, [Next]_vars PROVE BlockStep
  OBVIOUS
<1>0. ControlTypes
  BY DEF IInv
<1>00. state \in States
  BY <1>0 DEF ControlTypes
<1> USE <1>00
<1> USE DEF BlockStep, world, history
<1>1. CASE Advance
  BY <1>1 DEF Advance
<1>2. CASE IntervalPasses
  BY <1>2 DEF IntervalPasses
<1>3. CASE Rotate
  BY <1>3 DEF Rotate, Cut
<1>4. CASE Truncate
  BY <1>4 DEF Truncate, Cut
<1>5. CASE Load
  BY <1>5 DEF Load, Serve
<1>6. CASE LoadDefault
  <3>1. state'.blocks = NoBlocks
    BY <1>6 DEF LoadDefault, Serve, Default
  <3> QED
    BY <1>6, <3>1 DEF LoadDefault, Serve, Default
<1>7. CASE Killed
  <3>1. state'.blocks = NoBlocks
    BY <1>7 DEF Killed, End, Default
  <3> QED
    BY <1>7, <3>1 DEF Killed, End, Default
<1>8. CASE Exits
  <3>1. state'.blocks = NoBlocks
    BY <1>8 DEF Exits, End, Default
  <3> QED
    BY <1>8, <3>1 DEF Exits, End, Default
<1>9. CASE Tick
  <2>1. CASE Collect
    <3>1. state'.blocks = Prune(state.blocks, now)
      BY <2>1 DEF Collect, Observe, States
    <3> QED
      BY <2>1, <3>1 DEF Collect, Observe, States
  <2>2. CASE CollectRaises
    BY <2>2 DEF CollectRaises, Fatal, Fault
  <2>3. CASE Plan
    <3>1. state'.blocks = state.blocks
      BY <2>3 DEF Plan, States
    <3> QED
      BY <2>3, <3>1 DEF Plan, States
  <2>4. CASE PlanRaises
    BY <2>4 DEF PlanRaises, Fatal, Fault
  <2>5. CASE Analyze
    BY <2>5 DEF Analyze, Answers
  <2>6. CASE AnalyzeRaises
    BY <2>6 DEF AnalyzeRaises, Caught
  <2>7. CASE Judge
    BY <2>7 DEF Judge
  <2>8. CASE Contain
    <3>1. state'.blocks = BlockIp(state.blocks, Head(proposals).ip, Head(proposals).duration, now)
      BY <2>8 DEF Contain, Block, States
    <3> QED
      BY <2>8, <3>1 DEF Contain, Block, States
  <2>9. CASE ContainRaises
    <3>1. state'.blocks = BlockIp(state.blocks, Head(proposals).ip, Head(proposals).duration, now)
      BY <2>9 DEF ContainRaises, Block, Caught, Fault, States
    <3> QED
      BY <2>9, <3>1 DEF ContainRaises, Block, Caught, Fault, States
  <2>10. CASE Verify
    <3>1. state'.blocks = Prune(state.blocks, now)
      BY <2>10 DEF Verify, States
    <3> QED
      BY <2>10, <3>1 DEF Verify, States
  <2>11. CASE ExecuteRaises
    BY <2>11 DEF ExecuteRaises, Fault, Caught
  <2>12. CASE ReasoningEnd
    <3>1. state'.blocks = state.blocks
      BY <2>12 DEF ReasoningEnd, Conclude, States
    <3> QED
      BY <2>12, <3>1 DEF ReasoningEnd, Conclude, States
  <2>13. CASE SafeFailure
    <3>1. state'.blocks = state.blocks
      BY <2>13 DEF SafeFailure, Conclude, States
    <3> QED
      BY <2>13, <3>1 DEF SafeFailure, Conclude, States
  <2>14. CASE SafeFailureRaises
    BY <2>14 DEF SafeFailureRaises, Fatal, Fault
  <2>15. CASE Save
    BY <2>15 DEF Save
  <2>16. CASE SaveRaises
    BY <2>16 DEF SaveRaises, Fatal, Fault
  <2> HIDE DEF BlockStep, world, history
  <2> QED
    BY <1>9, <2>1, <2>2, <2>3, <2>4, <2>5, <2>6, <2>7, <2>8, <2>9, <2>10, <2>11, <2>12, <2>13, <2>14, <2>15, <2>16 DEF Tick
<1>10. ASSUME NEW a \in Clients, Client(a) PROVE BlockStep
  <2>1. CASE Ask(a)
    BY <2>1 DEF Ask
  <2>2. CASE Auth(a)
    <3>1. state'.blocks = Prune(state.blocks, now)
      BY <2>2 DEF Auth, States
    <3> QED
      BY <2>2, <3>1 DEF Auth, States
  <2>3. CASE AuthFails(a)
    BY <2>3 DEF AuthFails, Logged
  <2> HIDE DEF BlockStep, world, history
  <2> QED
    BY <1>10, <2>1, <2>2, <2>3 DEF Client
<1>11. ASSUME NEW a \in Addresses, Bypass(a) PROVE BlockStep
  BY <1>11 DEF Bypass, Logged
<1>12. CASE UNCHANGED vars
  BY <1>12 DEF vars
<1> HIDE DEF BlockStep, world, history
<1> QED
  BY <1>1, <1>2, <1>3, <1>4, <1>5, <1>6, <1>7, <1>8, <1>9, <1>10, <1>11, <1>12 DEF Next, Process

(* Pruning and more events leave a list authorised, and no list needs leave. *)
LEMMA AuthorisedLists ==
    ASSUME NEW blocks \in BlockLists, NEW before, NEW after, before \subseteq after,
           Authorised(blocks, before)
    PROVE  /\ Authorised(blocks, after)
           /\ \A t \in Nat : Authorised(Prune(blocks, t), after)
           /\ Authorised(NoBlocks, after)
<1>1. Authorised(blocks, after)
  BY DEF Authorised
<1>2. ASSUME NEW t \in Nat PROVE Authorised(Prune(blocks, t), after)
  BY <1>1 DEF Authorised, Prune
<1>3. Authorised(NoBlocks, after)
  BY DEF Authorised, NoBlocks
<1> QED
  BY <1>1, <1>2, <1>3

LEMMA AuthorisedBlock ==
    ASSUME NEW blocks \in BlockLists, NEW s \in Scenarios, NEW t \in Nat, NEW journal,
           Authorised(blocks, journal), Blocks(s),
           [type |-> "POLICY", about |-> <<"ALLOW", s>>] \in journal
    PROVE  Authorised(BlockIp(blocks, s.ip, s.duration, t), journal)
<1> DEFINE new == BlockIp(blocks, s.ip, s.duration, t)
<1>1. /\ s.ip \in Addresses /\ ~IsProtected(s.ip)
      /\ \A a \in Addresses \ {s.ip} : new[a] = blocks[a]
  BY BlockFacts
<1> HIDE DEF new
<1>2. ASSUME NEW a \in Addresses, new[a] # 0
      PROVE  /\ ~IsProtected(a)
             /\ \E x \in Scenarios :
                   x.ip = a /\ [type |-> "POLICY", about |-> <<"ALLOW", x>>] \in journal
  <2>1. CASE a = s.ip
    BY <1>1, <2>1
  <2>2. CASE a # s.ip
    BY <1>1, <1>2, <2>2 DEF Authorised
  <2> QED
    BY <2>1, <2>2
<1> QED
  BY <1>2 DEF Authorised, new

(* A block in force or on disk has passed the policy. *)
LEMMA AuthorisedStep == IInv /\ [Next]_vars => BlocksAreAuthorised'
<1> SUFFICES ASSUME IInv, [Next]_vars PROVE BlocksAreAuthorised'
  OBVIOUS
<1>1. BlockStep
  BY BlockSources
<1>2. /\ state \in States /\ state.blocks \in BlockLists /\ now \in Nat
      /\ proposals \in Seq(Scenarios)
  BY DEF IInv, ControlTypes, States
<1>3. disk # Missing => disk \in States /\ disk.blocks \in BlockLists
  BY DEF IInv, ControlTypes, States
<1>4. /\ Authorised(state.blocks, events)
      /\ disk # Missing => Authorised(disk.blocks, events)
  BY DEF IInv, BlocksAreAuthorised
<1>5. Authorised(state'.blocks, events')
  <2>1. CASE state'.blocks \in {state.blocks, NoBlocks, Prune(state.blocks, now)}
    BY <1>1, <1>2, <1>4, <2>1, AuthorisedLists DEF BlockStep
  <2>2. CASE disk # Missing /\ state'.blocks = disk.blocks
    BY <1>1, <1>3, <1>4, <2>2, AuthorisedLists DEF BlockStep
  <2>3. CASE /\ pc = "contain"
             /\ state'.blocks = BlockIp(state.blocks, Head(proposals).ip,
                                        Head(proposals).duration, now)
    <3> DEFINE s == Head(proposals)
    <3>1. /\ s \in Scenarios /\ Blocks(s)
          /\ [type |-> "POLICY", about |-> <<"ALLOW", s>>] \in events
      BY <1>2, <2>3 DEF IInv, VettedInv
    <3>2. Authorised(BlockIp(state.blocks, s.ip, s.duration, now), events)
      <4> HIDE DEF s
      <4> QED
        BY <1>2, <1>4, <3>1, AuthorisedBlock
    <3>3. BlockIp(state.blocks, s.ip, s.duration, now) \in BlockLists
      <4> HIDE DEF s
      <4> QED
        BY <1>2, <3>1, BlockFacts
    <3> QED
      BY <1>1, <2>3, <3>2, <3>3, AuthorisedLists DEF BlockStep
  <2> QED
    BY <1>1, <2>1, <2>2, <2>3 DEF BlockStep
<1>6. disk' # Missing => Authorised(disk'.blocks, events')
  <2>1. CASE disk' = disk
    BY <1>1, <1>3, <1>4, <2>1, AuthorisedLists DEF BlockStep
  <2>2. CASE disk' = state
    BY <1>1, <1>2, <1>4, <2>2, AuthorisedLists DEF BlockStep
  <2>3. CASE disk' = Default
    BY <1>1, <1>2, <1>4, <2>3, AuthorisedLists DEF BlockStep, Default
  <2> QED
    BY <1>1, <2>1, <2>2, <2>3 DEF BlockStep
<1> QED
  BY <1>5, <1>6 DEF BlocksAreAuthorised

(* The bound on a block's end moves with the clock. *)
LEMMA TemporaryLists ==
    ASSUME NEW blocks \in BlockLists, NEW t \in Nat, Temporary(blocks, t)
    PROVE  /\ Temporary(blocks, t + 1)
           /\ Temporary(Prune(blocks, t), t)
<1>1. MaxDuration * SubSecond \in Nat
  OBVIOUS
<1> DEFINE m == MaxDuration * SubSecond
<1> HIDE DEF m
<1>2. m \in Nat /\ \A a \in Addresses : blocks[a] \in Nat /\ blocks[a] <= t + m
  BY <1>1 DEF m, Temporary, BlockLists
<1>3. ASSUME NEW a \in Addresses PROVE blocks[a] <= t + 1 + m
  <2>1. m \in Nat /\ blocks[a] \in Nat /\ blocks[a] <= t + m
    BY <1>2
  <2> QED
    BY <2>1
<1>4. ASSUME NEW a \in Addresses PROVE Prune(blocks, t)[a] <= t + m
  <2>1. Prune(blocks, t)[a] \in {0, blocks[a]}
    BY DEF Prune
  <2>2. m \in Nat /\ blocks[a] \in Nat /\ blocks[a] <= t + m
    BY <1>2
  <2> QED
    BY <2>1, <2>2
<1> QED
  BY <1>3, <1>4 DEF m, Temporary

LEMMA TemporaryNone == ASSUME NEW t \in Nat PROVE Temporary(NoBlocks, t)
<1> DEFINE m == MaxDuration * SubSecond
<1>1. m \in Nat
  OBVIOUS
<1> HIDE DEF m
<1>2. 0 <= t + m
  BY <1>1
<1> QED
  BY <1>2 DEF Temporary, NoBlocks, m

LEMMA TemporaryBlock ==
    ASSUME NEW blocks \in BlockLists, NEW s \in Scenarios, NEW t \in Nat,
           Temporary(blocks, t), Blocks(s)
    PROVE  Temporary(BlockIp(blocks, s.ip, s.duration, t), t)
<1> DEFINE new == BlockIp(blocks, s.ip, s.duration, t)
           limit == t + MaxDuration * SubSecond
<1>1. /\ new[s.ip] <= limit
      /\ \A a \in Addresses \ {s.ip} : new[a] = blocks[a]
  BY BlockFacts
<1>2. \A a \in Addresses : blocks[a] <= limit
  BY DEF Temporary
<1> HIDE DEF new, limit
<1>3. \A a \in Addresses : new[a] <= limit
  BY <1>1, <1>2
<1> QED
  BY <1>3 DEF Temporary, new, limit

(* No block lasts longer from now on than the policy allows. *)
LEMMA TemporaryStep == IInv /\ [Next]_vars => BlocksAreTemporary'
<1> SUFFICES ASSUME IInv, [Next]_vars PROVE BlocksAreTemporary'
  OBVIOUS
<1>1. BlockStep
  BY BlockSources
<1>2. /\ state \in States /\ state.blocks \in BlockLists /\ now \in Nat
      /\ proposals \in Seq(Scenarios)
  BY DEF IInv, ControlTypes, States
<1>3. disk # Missing => disk \in States /\ disk.blocks \in BlockLists
  BY DEF IInv, ControlTypes, States
<1>4. /\ Temporary(state.blocks, now)
      /\ disk # Missing => Temporary(disk.blocks, now)
  BY DEF IInv, BlocksAreTemporary
<1>5. CASE now' = now + 1 /\ state' = state /\ disk' = disk
  BY <1>2, <1>3, <1>4, <1>5, TemporaryLists DEF BlocksAreTemporary
<1>6. CASE now' = now
  <2>1. Temporary(state'.blocks, now)
    <3>1. CASE state'.blocks \in {state.blocks, NoBlocks, Prune(state.blocks, now)}
      BY <1>2, <1>4, <3>1, TemporaryLists, TemporaryNone
    <3>2. CASE disk # Missing /\ state'.blocks = disk.blocks
      BY <1>4, <3>2
    <3>3. CASE /\ pc = "contain"
               /\ state'.blocks = BlockIp(state.blocks, Head(proposals).ip,
                                          Head(proposals).duration, now)
      <4> DEFINE s == Head(proposals)
      <4>1. s \in Scenarios /\ Blocks(s)
        BY <1>2, <3>3 DEF IInv, VettedInv
      <4>2. Temporary(BlockIp(state.blocks, s.ip, s.duration, now), now)
        <5> HIDE DEF s
        <5> QED
          BY <1>2, <1>4, <4>1, TemporaryBlock
      <4> QED
        BY <3>3, <4>2
    <3> QED
      BY <1>1, <3>1, <3>2, <3>3 DEF BlockStep
  <2>2. disk' # Missing => Temporary(disk'.blocks, now)
    BY <1>1, <1>2, <1>4, TemporaryNone DEF BlockStep, Default
  <2> QED
    BY <1>6, <2>1, <2>2 DEF BlocksAreTemporary
<1> QED
  BY <1>1, <1>5, <1>6 DEF BlockStep

(* Two lists that agree once expired records are dropped go on to agree. *)
LEMMA AgreementKept ==
    ASSUME NEW b \in BlockLists, NEW c \in BlockLists, NEW t \in Nat,
           Prune(b, t) = Prune(c, t)
    PROVE  /\ Prune(b, t + 1) = Prune(c, t + 1)
           /\ Prune(Prune(b, t), t) = Prune(c, t)
<1>1. /\ Prune(Prune(b, t), t + 1) = Prune(b, t + 1)
      /\ Prune(Prune(c, t), t + 1) = Prune(c, t + 1)
      /\ Prune(Prune(b, t), t) = Prune(b, t)
  BY PruneFacts
<1> QED
  BY <1>1

(* Between two ticks the process enforces what the file holds. *)
LEMMA EnforcedStep == IInv /\ [Next]_vars => EnforcedIsPersisted'
<1> SUFFICES ASSUME IInv, [Next]_vars PROVE EnforcedIsPersisted'
  OBVIOUS
<1>0. /\ EnforcedIsPersisted /\ TickInv /\ now \in Nat
      /\ state \in States /\ state.blocks \in BlockLists 
      /\ disk # Missing => disk.blocks \in BlockLists
  BY DEF IInv, ControlTypes, States
<1> USE <1>0
<1> USE DEF EnforcedIsPersisted, TickInv, world, history
<1>1. CASE Advance
  BY <1>1, AgreementKept DEF Advance
<1>2. CASE IntervalPasses
  BY <1>2 DEF IntervalPasses
<1>3. CASE Rotate
  BY <1>3 DEF Rotate, Cut
<1>4. CASE Truncate
  BY <1>4 DEF Truncate, Cut
<1>5. CASE Load
  BY <1>5 DEF Load, Serve
<1>6. CASE LoadDefault
  <3>1. disk' # Missing
    BY <1>6 DEF LoadDefault, Default, Missing
  <3> QED
    BY <1>6, <3>1 DEF LoadDefault, Serve
<1>7. CASE Killed
  BY <1>7 DEF Killed, End
<1>8. CASE Exits
  BY <1>8 DEF Exits, End
<1>9. CASE Tick
  <2>1. CASE Collect
    BY <2>1 DEF Collect, Observe
  <2>2. CASE CollectRaises
    BY <2>2 DEF CollectRaises, Fatal, Fault
  <2>3. CASE Plan
    BY <2>3 DEF Plan
  <2>4. CASE PlanRaises
    BY <2>4 DEF PlanRaises, Fatal, Fault
  <2>5. CASE Analyze
    BY <2>5 DEF Analyze, Answers
  <2>6. CASE AnalyzeRaises
    BY <2>6 DEF AnalyzeRaises, Caught
  <2>7. CASE Judge
    BY <2>7 DEF Judge
  <2>8. CASE Contain
    BY <2>8 DEF Contain, Block
  <2>9. CASE ContainRaises
    BY <2>9 DEF ContainRaises, Fault, Block, Caught
  <2>10. CASE Verify
    BY <2>10 DEF Verify
  <2>11. CASE ExecuteRaises
    BY <2>11 DEF ExecuteRaises, Fault, Caught
  <2>12. CASE ReasoningEnd
    BY <2>12 DEF ReasoningEnd, Conclude
  <2>13. CASE SafeFailure
    BY <2>13 DEF SafeFailure, Conclude
  <2>14. CASE SafeFailureRaises
    BY <2>14 DEF SafeFailureRaises, Fatal, Fault
  <2>15. CASE Save
    <3>1. disk' # Missing
      BY <2>15 DEF Save, States, Missing
    <3> QED
      BY <2>15, <3>1 DEF Save
  <2>16. CASE SaveRaises
    BY <2>16 DEF SaveRaises, Fatal, Fault
  <2> HIDE DEF EnforcedIsPersisted, TickInv, world, history
  <2> QED
    BY <1>9, <2>1, <2>2, <2>3, <2>4, <2>5, <2>6, <2>7, <2>8, <2>9, <2>10, <2>11, <2>12, <2>13, <2>14, <2>15, <2>16 DEF Tick
<1>10. ASSUME NEW a \in Clients, Client(a) PROVE EnforcedIsPersisted'
  <2>1. CASE Ask(a)
    BY <2>1 DEF Ask
  <2>2. CASE Auth(a)
    <3>1. state'.blocks = Prune(state.blocks, now)
      BY <2>2 DEF Auth, States
    <3> QED
      BY <2>2, <3>1, AgreementKept DEF Auth
  <2>3. CASE AuthFails(a)
    BY <2>3 DEF AuthFails, Logged
  <2> HIDE DEF EnforcedIsPersisted, TickInv, world, history
  <2> QED
    BY <1>10, <2>1, <2>2, <2>3 DEF Client
<1>11. ASSUME NEW a \in Addresses, Bypass(a) PROVE EnforcedIsPersisted'
  BY <1>11 DEF Bypass, Logged
<1>12. CASE UNCHANGED vars
  BY <1>12 DEF vars
<1> HIDE DEF EnforcedIsPersisted, TickInv, world, history
<1> QED
  BY <1>1, <1>2, <1>3, <1>4, <1>5, <1>6, <1>7, <1>8, <1>9, <1>10, <1>11, <1>12 DEF Next, Process

(* More events leave a cycle complete. *)
LEMMA CompleteKept ==
    ASSUME NEW before, NEW after, before \subseteq after, NEW n \in Nat,
           \A c \in 1..n : Complete(c, before)
    PROVE  \A c \in 1..n : Complete(c, after)
  BY DEF Complete

(* Most steps neither begin nor end a cycle. *)
LEMMA CycleKept ==
    ASSUME CycleInv, state.reasonings \in Nat, events \subseteq events',
           mode' = "up" => mode = "up" /\ (Reasoning' <=> Reasoning),
           state'.cycle = state.cycle, state'.reasonings = state.reasonings
    PROVE  CycleInv'
  BY CompleteKept DEF CycleInv

(* The cycles of a healthy process are complete, but for the present one. *)
LEMMA CycleStep == IInv /\ [Next]_vars => CycleInv'
<1> SUFFICES ASSUME IInv, [Next]_vars PROVE CycleInv'
  OBVIOUS
<1>0. /\ CycleInv /\ TickInv /\ JournalAhead /\ state \in States
      /\ state.cycle \in Nat /\ state.reasonings \in Nat
      /\ disk # Missing => disk.cycle \in Nat /\ disk.reasonings \in Nat
      /\ pc \in {"sleep", "plan", "analyze", "execute", "contain", "verify", "error", "save"}
  BY DEF IInv, ControlTypes, States
<1> USE <1>0
<1> USE DEF Reasoning, TickInv, world, history
<1>1. CASE Advance
  <2>1. state'.cycle = state.cycle /\ state'.reasonings = state.reasonings
    BY <1>1 DEF Advance, States
  <2>2. events \subseteq events' /\ (mode' = "up" => mode = "up" /\ (Reasoning' <=> Reasoning))
    BY <1>1 DEF Advance
  <2> QED
    BY <2>1, <2>2, CycleKept
<1>2. CASE IntervalPasses
  <2>1. state'.cycle = state.cycle /\ state'.reasonings = state.reasonings
    BY <1>2 DEF IntervalPasses, States
  <2>2. events \subseteq events' /\ (mode' = "up" => mode = "up" /\ (Reasoning' <=> Reasoning))
    BY <1>2 DEF IntervalPasses
  <2> QED
    BY <2>1, <2>2, CycleKept
<1>3. CASE Rotate
  <2>1. state'.cycle = state.cycle /\ state'.reasonings = state.reasonings
    BY <1>3 DEF Rotate, Cut, States
  <2>2. events \subseteq events' /\ (mode' = "up" => mode = "up" /\ (Reasoning' <=> Reasoning))
    BY <1>3 DEF Rotate, Cut
  <2> QED
    BY <2>1, <2>2, CycleKept
<1>4. CASE Truncate
  <2>1. state'.cycle = state.cycle /\ state'.reasonings = state.reasonings
    BY <1>4 DEF Truncate, Cut, States
  <2>2. events \subseteq events' /\ (mode' = "up" => mode = "up" /\ (Reasoning' <=> Reasoning))
    BY <1>4 DEF Truncate, Cut
  <2> QED
    BY <2>1, <2>2, CycleKept
<1>5. CASE Load
  <2>1. state' = disk /\ ~Reasoning' /\ events' = events
    BY <1>5 DEF Load, Serve
  <2>2. /\ disk.cycle = disk.reasonings /\ disk.cycle \in Nat
        /\ \A c \in 1..disk.cycle : Complete(c, events)
    BY <1>5 DEF Load, Serve, JournalAhead, Default
  <2>3. state'.cycle = state'.reasonings + 0
    BY <2>1, <2>2
  <2>4. \A c \in 1..state'.reasonings : Complete(c, events')
    BY <2>1, <2>2
  <2> QED
    BY <2>1, <2>3, <2>4 DEF CycleInv
<1>6. CASE LoadDefault
  <2>1. state' = Default /\ ~Reasoning' /\ events' = events
    BY <1>6 DEF LoadDefault, Serve
  <2>2. /\ Default.cycle = Default.reasonings /\ Default.cycle \in Nat
        /\ \A c \in 1..Default.cycle : Complete(c, events)
    BY <1>6 DEF LoadDefault, Serve, JournalAhead, Default
  <2>3. state'.cycle = state'.reasonings + 0
    BY <2>1, <2>2
  <2>4. \A c \in 1..state'.reasonings : Complete(c, events')
    BY <2>1, <2>2
  <2> QED
    BY <2>1, <2>3, <2>4 DEF CycleInv
<1>7. CASE Killed
  BY <1>7 DEF Killed, End, CycleInv
<1>8. CASE Exits
  BY <1>8 DEF Exits, End, CycleInv
<1>9. CASE Tick
  <2>1. CASE Collect
    <3>1. state'.cycle = state.cycle /\ state'.reasonings = state.reasonings
      BY <2>1 DEF Collect, Observe, States
    <3>2. events \subseteq events' /\ (mode' = "up" => mode = "up" /\ (Reasoning' <=> Reasoning))
      BY <2>1 DEF Collect, Observe
    <3> QED
      BY <3>1, <3>2, CycleKept
  <2>2. CASE CollectRaises
    BY <2>2 DEF CollectRaises, Fatal, CycleInv
  <2>3. CASE Plan
    <3>1. /\ mode' = mode /\ ~Reasoning /\ Reasoning'
          /\ state'.cycle = state.cycle + 1 /\ state'.reasonings = state.reasonings
          /\ events' = events \cup {[type |-> "REASONING_START", about |-> state.cycle + 1]}
      BY <2>3 DEF Plan, States
    <3>2. mode = "up" => state.cycle = state.reasonings /\ \A c \in 1..state.reasonings : Complete(c, events)
      BY <3>1 DEF CycleInv
    <3>3. mode = "up" => \A c \in 1..state.reasonings : Complete(c, events')
      BY <3>1, <3>2, CompleteKept
    <3> QED
      BY <3>1, <3>2, <3>3 DEF CycleInv
  <2>4. CASE PlanRaises
    BY <2>4 DEF PlanRaises, Fatal, CycleInv
  <2>5. CASE Analyze
    <3>1. state'.cycle = state.cycle /\ state'.reasonings = state.reasonings
      BY <2>5 DEF Analyze, States
    <3>2. events \subseteq events' /\ (mode' = "up" => mode = "up" /\ (Reasoning' <=> Reasoning))
      BY <2>5 DEF Analyze
    <3> QED
      BY <3>1, <3>2, CycleKept
  <2>6. CASE AnalyzeRaises
    <3>1. state'.cycle = state.cycle /\ state'.reasonings = state.reasonings
      BY <2>6 DEF AnalyzeRaises, Caught, States
    <3>2. events \subseteq events' /\ (mode' = "up" => mode = "up" /\ (Reasoning' <=> Reasoning))
      BY <2>6 DEF AnalyzeRaises, Caught
    <3> QED
      BY <3>1, <3>2, CycleKept
  <2>7. CASE Judge
    <3>1. state'.cycle = state.cycle /\ state'.reasonings = state.reasonings
      BY <2>7 DEF Judge, States
    <3>2. events \subseteq events' /\ (mode' = "up" => mode = "up" /\ (Reasoning' <=> Reasoning))
      BY <2>7 DEF Judge
    <3> QED
      BY <3>1, <3>2, CycleKept
  <2>8. CASE Contain
    <3>1. state'.cycle = state.cycle /\ state'.reasonings = state.reasonings
      BY <2>8 DEF Contain, Block, States
    <3>2. events \subseteq events' /\ (mode' = "up" => mode = "up" /\ (Reasoning' <=> Reasoning))
      BY <2>8 DEF Contain, Block
    <3> QED
      BY <3>1, <3>2, CycleKept
  <2>9. CASE ContainRaises
    <3>1. state'.cycle = state.cycle /\ state'.reasonings = state.reasonings
      BY <2>9 DEF ContainRaises, Block, Caught, Fault, States
    <3>2. events \subseteq events' /\ (mode' = "up" => mode = "up" /\ (Reasoning' <=> Reasoning))
      BY <2>9 DEF ContainRaises, Block, Caught, Fault
    <3> QED
      BY <3>1, <3>2, CycleKept
  <2>10. CASE Verify
    <3>1. state'.cycle = state.cycle /\ state'.reasonings = state.reasonings
      BY <2>10 DEF Verify, States
    <3>2. events \subseteq events' /\ (mode' = "up" => mode = "up" /\ (Reasoning' <=> Reasoning))
      BY <2>10 DEF Verify
    <3> QED
      BY <3>1, <3>2, CycleKept
  <2>11. CASE ExecuteRaises
    <3>1. state'.cycle = state.cycle /\ state'.reasonings = state.reasonings
      BY <2>11 DEF ExecuteRaises, Caught, Fault, States
    <3>2. events \subseteq events' /\ (mode' = "up" => mode = "up" /\ (Reasoning' <=> Reasoning))
      BY <2>11 DEF ExecuteRaises, Caught, Fault
    <3> QED
      BY <3>1, <3>2, CycleKept
  <2>12. CASE ReasoningEnd
    <3>1. /\ mode = "up" /\ mode' = "up" /\ Reasoning /\ ~Reasoning'
          /\ state' = [state EXCEPT !.reasonings = state.reasonings + 1]
          /\ events' = events \cup {[type |-> "REASONING_END", about |-> state.cycle]}
      BY <2>12 DEF ReasoningEnd, Conclude
    <3>2. state'.cycle = state.cycle /\ state'.reasonings = state.reasonings + 1
      BY <3>1 DEF States
    <3>3. /\ state.cycle = state.reasonings + 1
          /\ [type |-> "REASONING_START", about |-> state.cycle] \in events
          /\ \A c \in 1..state.reasonings : Complete(c, events)
      BY <3>1 DEF CycleInv
    <3>4. Complete(state.cycle, events')
      BY <3>1, <3>3 DEF Complete
    <3>5. \A c \in 1..state.reasonings : Complete(c, events')
      BY <3>1, <3>3, CompleteKept
    <3>6. \A c \in 1..(state.reasonings + 1) : Complete(c, events')
      BY <3>3, <3>4, <3>5
    <3>7. /\ state'.cycle = state'.reasonings + 0
          /\ \A c \in 1..state'.reasonings : Complete(c, events')
      BY <3>2, <3>3, <3>6
    <3> QED
      BY <3>1, <3>7 DEF CycleInv
  <2>13. CASE SafeFailure
    <3>1. /\ mode = "up" /\ mode' = "up" /\ Reasoning /\ ~Reasoning'
          /\ state' = [state EXCEPT !.reasonings = state.reasonings + 1]
          /\ events' = events \cup {[type |-> "ERROR", about |-> state.cycle]}
      BY <2>13 DEF SafeFailure, Conclude
    <3>2. state'.cycle = state.cycle /\ state'.reasonings = state.reasonings + 1
      BY <3>1 DEF States
    <3>3. /\ state.cycle = state.reasonings + 1
          /\ [type |-> "REASONING_START", about |-> state.cycle] \in events
          /\ \A c \in 1..state.reasonings : Complete(c, events)
      BY <3>1 DEF CycleInv
    <3>4. Complete(state.cycle, events')
      BY <3>1, <3>3 DEF Complete
    <3>5. \A c \in 1..state.reasonings : Complete(c, events')
      BY <3>1, <3>3, CompleteKept
    <3>6. \A c \in 1..(state.reasonings + 1) : Complete(c, events')
      BY <3>3, <3>4, <3>5
    <3>7. /\ state'.cycle = state'.reasonings + 0
          /\ \A c \in 1..state'.reasonings : Complete(c, events')
      BY <3>2, <3>3, <3>6
    <3> QED
      BY <3>1, <3>7 DEF CycleInv
  <2>14. CASE SafeFailureRaises
    BY <2>14 DEF SafeFailureRaises, Fatal, CycleInv
  <2>15. CASE Save
    <3>1. state'.cycle = state.cycle /\ state'.reasonings = state.reasonings
      BY <2>15 DEF Save, States
    <3>2. events \subseteq events' /\ (mode' = "up" => mode = "up" /\ (Reasoning' <=> Reasoning))
      BY <2>15 DEF Save
    <3> QED
      BY <3>1, <3>2, CycleKept
  <2>16. CASE SaveRaises
    BY <2>16 DEF SaveRaises, Fatal, CycleInv
  <2> HIDE DEF Reasoning, TickInv, world, history
  <2> QED
    BY <1>9, <2>1, <2>2, <2>3, <2>4, <2>5, <2>6, <2>7, <2>8, <2>9, <2>10, <2>11, <2>12, <2>13, <2>14, <2>15, <2>16 DEF Tick
<1>10. ASSUME NEW a \in Clients, Client(a) PROVE CycleInv'
  <2>1. CASE Ask(a)
    <3>1. state'.cycle = state.cycle /\ state'.reasonings = state.reasonings
      BY <2>1 DEF Ask, States
    <3>2. events \subseteq events' /\ (mode' = "up" => mode = "up" /\ (Reasoning' <=> Reasoning))
      BY <2>1 DEF Ask
    <3> QED
      BY <3>1, <3>2, CycleKept
  <2>2. CASE Auth(a)
    <3>1. state'.cycle = state.cycle /\ state'.reasonings = state.reasonings
      BY <2>2 DEF Auth, States
    <3>2. events \subseteq events' /\ (mode' = "up" => mode = "up" /\ (Reasoning' <=> Reasoning))
      BY <2>2 DEF Auth
    <3> QED
      BY <3>1, <3>2, CycleKept
  <2>3. CASE AuthFails(a)
    <3>1. state'.cycle = state.cycle /\ state'.reasonings = state.reasonings
      BY <2>3 DEF AuthFails, States
    <3>2. events \subseteq events' /\ (mode' = "up" => mode = "up" /\ (Reasoning' <=> Reasoning))
      BY <2>3 DEF AuthFails
    <3> QED
      BY <3>1, <3>2, CycleKept
  <2> HIDE DEF Reasoning, TickInv, world, history
  <2> QED
    BY <1>10, <2>1, <2>2, <2>3 DEF Client
<1>11. ASSUME NEW a \in Addresses, Bypass(a) PROVE CycleInv'
  <2>1. state'.cycle = state.cycle /\ state'.reasonings = state.reasonings
    BY <1>11 DEF Bypass, States
  <2>2. events \subseteq events' /\ (mode' = "up" => mode = "up" /\ (Reasoning' <=> Reasoning))
    BY <1>11 DEF Bypass
  <2> QED
    BY <2>1, <2>2, CycleKept
<1>12. CASE UNCHANGED vars
  <2>1. state'.cycle = state.cycle /\ state'.reasonings = state.reasonings
    BY <1>12 DEF vars, States
  <2>2. events \subseteq events' /\ (mode' = "up" => mode = "up" /\ (Reasoning' <=> Reasoning))
    BY <1>12 DEF vars
  <2> QED
    BY <2>1, <2>2, CycleKept
<1> HIDE DEF Reasoning, TickInv, world, history
<1> QED
  BY <1>1, <1>2, <1>3, <1>4, <1>5, <1>6, <1>7, <1>8, <1>9, <1>10, <1>11, <1>12 DEF Next, Process

(* The event log is ahead of the file: a save comes after the cycle's end. *)
LEMMA JournalStep == IInv /\ [Next]_vars => JournalAhead'
<1> SUFFICES ASSUME IInv, [Next]_vars PROVE JournalAhead'
  OBVIOUS
<1>1. BlockStep
  BY BlockSources
<1>2. CASE disk' = disk
  <2>1. disk # Missing => disk.cycle \in Nat
    BY DEF IInv, ControlTypes, States
  <2> QED
    BY <1>1, <1>2, <2>1, CompleteKept DEF BlockStep, IInv, JournalAhead
<1>3. CASE pc = "save" /\ disk' = state
  <2>1. mode = "up" /\ ~Reasoning
    BY <1>3 DEF IInv, TickInv, Reasoning
  <2>2. state.cycle = state.reasonings + 0 /\ \A c \in 1..state.reasonings : Complete(c, events)
    BY <2>1 DEF IInv, CycleInv
  <2>3. state.cycle \in Nat /\ state.reasonings \in Nat
    BY DEF IInv, ControlTypes, States
  <2>4. \A c \in 1..state.reasonings : Complete(c, events')
    BY <1>1, <2>2, <2>3, CompleteKept DEF BlockStep
  <2>5. state.reasonings = state.cycle
    BY <2>2, <2>3
  <2> QED
    BY <1>3, <2>4, <2>5 DEF JournalAhead
<1>4. CASE disk' = Default
  BY <1>4 DEF JournalAhead, Default
<1> QED
  BY <1>1, <1>2, <1>3, <1>4 DEF BlockStep

(* The first state. *)
LEMMA InitIInv == Init => IInv
<1> SUFFICES ASSUME Init PROVE IInv
  OBVIOUS
<1>1. ControlTypes
  <2>1. <<>> \in Seq([n : Nat, src : Addresses]) /\ <<>> \in Seq(Scenarios)
    OBVIOUS
  <2> QED
    BY <2>1, DefaultFacts DEF Init, ControlTypes
<1>2. TickInv /\ VettedInv /\ CycleInv
  BY DEF Init, TickInv, VettedInv, CycleInv
<1>3. Authorised(NoBlocks, events)
  BY DEF Authorised, NoBlocks
<1>4. Temporary(NoBlocks, now)
  BY TemporaryNone DEF Init
<1>5. EnforcedIsPersisted /\ JournalAhead
  BY DEF Init, EnforcedIsPersisted, JournalAhead
<1> QED
  BY <1>1, <1>2, <1>3, <1>4, <1>5 DEF IInv, Init, BlocksAreAuthorised, BlocksAreTemporary, Default

(* The parts of the invariant hold together in every state. *)
THEOREM Invariance == Spec => []IInv
<1>1. IInv /\ [Next]_vars => IInv'
  <2> SUFFICES ASSUME IInv, [Next]_vars PROVE IInv'
    OBVIOUS
  <2>1. ControlTypes' /\ VettedInv' /\ CycleInv'
    BY TypeStep, VettedStep, CycleStep
  <2>2. TickInv'
    BY TickStep DEF IInv
  <2>3. BlocksAreAuthorised' /\ BlocksAreTemporary' /\ EnforcedIsPersisted' /\ JournalAhead'
    BY AuthorisedStep, TemporaryStep, EnforcedStep, JournalStep
  <2> QED
    BY <2>1, <2>2, <2>3 DEF IInv
<1> QED
  BY <1>1, InitIInv, PTL DEF Spec

(* Whatever crashed, a block in force or in the state file is of an unprotected *)
(* address, and the event log holds the policy's leave for it.                  *)
THEOREM Authorisation == Spec => []BlocksAreAuthorised
<1>1. IInv => BlocksAreAuthorised
  BY DEF IInv
<1> QED
  BY <1>1, Invariance, PTL

(* No block lasts longer than MaxDuration seconds from now on. *)
THEOREM Temporariness == Spec => []BlocksAreTemporary
<1>1. IInv => BlocksAreTemporary
  BY DEF IInv
<1> QED
  BY <1>1, Invariance, PTL

(* Whenever a request can be judged by a healthy process, the block list it is *)
(* judged by is the one on disk.                                               *)
THEOREM Persistence == Spec => []EnforcedIsPersisted
<1>1. IInv => EnforcedIsPersisted
  BY DEF IInv
<1> QED
  BY <1>1, Invariance, PTL

(* Each cycle the state file counts has its start and its end in the event log. *)
THEOREM Journal == Spec => []JournalAhead
<1>1. IInv => JournalAhead
  BY DEF IInv
<1> QED
  BY <1>1, Invariance, PTL

(* No step of a healthy process admits a source with a live block on disk. *)
LEMMA AdmissionStep == IInv /\ [Next]_vars => NotAdmitted
<1> SUFFICES ASSUME IInv, [Next]_vars PROVE NotAdmitted
  OBVIOUS
<1>0. request \in [Clients -> {"idle", "waiting", "denied", "passed", "failed"}]
  BY DEF IInv, ControlTypes
<1> USE <1>0
<1> USE DEF NotAdmitted, TickInv, world, history
<1>1. CASE Advance
  BY <1>1 DEF Advance
<1>2. CASE IntervalPasses
  BY <1>2 DEF IntervalPasses
<1>3. CASE Rotate
  BY <1>3 DEF Rotate, Cut
<1>4. CASE Truncate
  BY <1>4 DEF Truncate, Cut
<1>5. CASE Load
  BY <1>5 DEF Load, Serve
<1>6. CASE LoadDefault
  BY <1>6 DEF LoadDefault, Serve
<1>7. CASE Killed
  BY <1>7 DEF Killed, End
<1>8. CASE Exits
  BY <1>8 DEF Exits, End
<1>9. CASE Tick
  <2>1. CASE Collect
    BY <2>1 DEF Collect, Observe
  <2>2. CASE CollectRaises
    BY <2>2 DEF CollectRaises, Fatal, Fault
  <2>3. CASE Plan
    BY <2>3 DEF Plan
  <2>4. CASE PlanRaises
    BY <2>4 DEF PlanRaises, Fatal, Fault
  <2>5. CASE Analyze
    BY <2>5 DEF Analyze, Answers
  <2>6. CASE AnalyzeRaises
    BY <2>6 DEF AnalyzeRaises, Caught
  <2>7. CASE Judge
    BY <2>7 DEF Judge
  <2>8. CASE Contain
    BY <2>8 DEF Contain, Block
  <2>9. CASE ContainRaises
    BY <2>9 DEF ContainRaises, Fault, Block, Caught
  <2>10. CASE Verify
    BY <2>10 DEF Verify
  <2>11. CASE ExecuteRaises
    BY <2>11 DEF ExecuteRaises, Fault, Caught
  <2>12. CASE ReasoningEnd
    BY <2>12 DEF ReasoningEnd, Conclude
  <2>13. CASE SafeFailure
    BY <2>13 DEF SafeFailure, Conclude
  <2>14. CASE SafeFailureRaises
    BY <2>14 DEF SafeFailureRaises, Fatal, Fault
  <2>15. CASE Save
    BY <2>15 DEF Save
  <2>16. CASE SaveRaises
    BY <2>16 DEF SaveRaises, Fatal, Fault
  <2> HIDE DEF NotAdmitted, TickInv, world, history
  <2> QED
    BY <1>9, <2>1, <2>2, <2>3, <2>4, <2>5, <2>6, <2>7, <2>8, <2>9, <2>10, <2>11, <2>12, <2>13, <2>14, <2>15, <2>16 DEF Tick
<1>10. ASSUME NEW a \in Clients, Client(a) PROVE NotAdmitted
  <2>1. CASE Ask(a)
    BY <2>1 DEF Ask
  <2>2. CASE Auth(a)
    <3>1. mode = "up" => Prune(state.blocks, now) = Prune(disk.blocks, now)
      BY <2>2 DEF Auth, IInv, EnforcedIsPersisted
    <3>2. mode = "up" => (ActiveBlock(disk.blocks, a, now) <=> ActiveBlock(state.blocks, a, now))
      BY <3>1 DEF ActiveBlock
    <3>3. request' = [request EXCEPT ![a] =
                        IF ActiveBlock(state.blocks, a, now) THEN "denied" ELSE "passed"]
      BY <2>2 DEF Auth
    <3> QED
      BY <3>2, <3>3
  <2>3. CASE AuthFails(a)
    BY <2>3 DEF AuthFails, Logged
  <2> HIDE DEF NotAdmitted, TickInv, world, history
  <2> QED
    BY <1>10, <2>1, <2>2, <2>3 DEF Client
<1>11. ASSUME NEW a \in Addresses, Bypass(a) PROVE NotAdmitted
  BY <1>11 DEF Bypass, Logged
<1>12. CASE UNCHANGED vars
  BY <1>12 DEF vars
<1> HIDE DEF NotAdmitted, TickInv, world, history
<1> QED
  BY <1>1, <1>2, <1>3, <1>4, <1>5, <1>6, <1>7, <1>8, <1>9, <1>10, <1>11, <1>12 DEF Next, Process

(* Over all crashes, failed saves and restarts, a request of a source the state *)
(* file has under a live block is not let through.                              *)
THEOREM Admission == Spec => BlockedNeverAdmitted
<1>1. IInv /\ [Next]_vars => [NotAdmitted]_vars
  BY AdmissionStep
<1> QED
  BY <1>1, Invariance, PTL DEF Spec, BlockedNeverAdmitted

----------------------------------------------------------------------------
(* The refinement: the Defender as Containment sees it.                      *)

(* The list of Containment is a list of live blocks. *)
Listed == IF disk = Missing THEN NoBlocks ELSE Prune(disk.blocks, now)
seen == <<now, mode, Listed, request>>

(* The operators of the abstract specification are those of the policy. *)
LEMMA SamePolicy ==
    /\ Contained!NoBlocks = NoBlocks
    /\ \A blocks, t : Contained!Prune(blocks, t) = Prune(blocks, t)
    /\ \A a : Contained!IsProtected(a) <=> IsProtected(a)
  BY DEF Contained!NoBlocks, NoBlocks, Contained!Prune, Prune, Contained!IsProtected, IsProtected

(* The live blocks of the state file, from the values it may have. *)
LEMMA ListedFacts ==
    ASSUME ControlTypes
    PROVE  /\ disk # Missing => disk.blocks \in BlockLists
           /\ Listed \in BlockLists
           /\ Prune(NoBlocks, now) = NoBlocks
           /\ Prune(Listed, now + 1) =
                 IF disk = Missing THEN NoBlocks ELSE Prune(disk.blocks, now + 1)
<1>1. now \in Nat /\ (disk # Missing => disk \in States)
  BY DEF ControlTypes
<1>2. disk # Missing => disk.blocks \in BlockLists
  BY <1>1, StateFacts
<1>3. NoBlocks \in BlockLists /\ \A t \in Nat : Prune(NoBlocks, t) = NoBlocks
  BY DEF NoBlocks, BlockLists, Prune
<1>4. Listed \in BlockLists
  BY <1>1, <1>2, <1>3, PruneFacts DEF Listed
<1>5. now + 1 \in Nat
  BY <1>1
<1>6. disk # Missing => Prune(Prune(disk.blocks, now), now + 1) = Prune(disk.blocks, now + 1)
  BY <1>1, <1>2, PruneFacts
<1> QED
  BY <1>1, <1>2, <1>3, <1>4, <1>5, <1>6 DEF Listed

(* A tick that does not save, and no failure, changes nothing the clients see. *)
LEMMA HiddenSteps ==
    ASSUME \/ Collect \/ Plan \/ Analyze \/ AnalyzeRaises
           \/ Judge \/ Contain \/ ContainRaises \/ Verify \/ ExecuteRaises
           \/ ReasoningEnd \/ SafeFailure
           \/ IntervalPasses \/ Rotate \/ Truncate
           \/ (\E a \in Addresses : Bypass(a))
           \/ UNCHANGED vars
    PROVE  UNCHANGED seen
<1> USE DEF world, history, seen, Listed
<1>0. ASSUME UNCHANGED <<now, mode, disk, request>> PROVE UNCHANGED seen
  BY <1>0
<1>1. CASE Collect
  BY <1>0, <1>1 DEF Collect, Observe
<1>2. CASE Plan \/ Analyze \/ AnalyzeRaises \/ Judge
  BY <1>0, <1>2 DEF Plan, Analyze, AnalyzeRaises, Judge
<1>3. CASE Contain \/ ContainRaises \/ Verify \/ ExecuteRaises
  BY <1>0, <1>3 DEF Contain, ContainRaises, Verify, ExecuteRaises
<1>4. CASE ReasoningEnd \/ SafeFailure
  BY <1>0, <1>4 DEF ReasoningEnd, SafeFailure, Conclude
<1>5. CASE IntervalPasses \/ Rotate \/ Truncate \/ \E a \in Addresses : Bypass(a)
  BY <1>0, <1>5 DEF IntervalPasses, Rotate, Truncate, Cut, Bypass
<1>6. CASE UNCHANGED vars
  BY <1>0, <1>6 DEF vars
<1> QED
  BY <1>1, <1>2, <1>3, <1>4, <1>5, <1>6

(* A failure that ends the main thread takes a healthy process down. *)
LEMMA FatalSteps ==
    ASSUME TickInv, CollectRaises \/ PlanRaises \/ SafeFailureRaises \/ SaveRaises
    PROVE  Contained!Fails
<1>1. mode = "up" /\ Fatal
  BY DEF TickInv, CollectRaises, PlanRaises, SafeFailureRaises, SaveRaises
<1> QED
  BY <1>1 DEF Fatal, Contained!Fails, world

(* A save is where the abstract list changes: only unprotected addresses, and *)
(* no block beyond the longest one.                                            *)
LEMMA SaveContains ==
    ASSUME IInv, Save
    PROVE  Contained!Contain
<1> DEFINE new == Prune(state.blocks, now)
<1>1. /\ mode = "up" /\ state \in States /\ now \in Nat
      /\ Authorised(state.blocks, events) /\ Temporary(state.blocks, now)
      /\ disk # Missing => Authorised(disk.blocks, events)
  BY DEF IInv, ControlTypes, TickInv, Save, BlocksAreAuthorised, BlocksAreTemporary
<1>2. state.blocks \in BlockLists /\ new \in BlockLists
  BY <1>1, StateFacts, PruneFacts
<1>3. disk' = state /\ UNCHANGED <<now, mode, request>>
  BY DEF Save, world
<1>4. state # Missing
  BY <1>1 DEF States, Missing
<1>5. Listed' = new
  BY <1>3, <1>4 DEF Listed
<1>6. ASSUME NEW a \in Addresses, new[a] # Listed[a]
      PROVE  ~IsProtected(a) /\ new[a] <= now + MaxDuration * SubSecond
  <2>1. state.blocks[a] # 0 \/ (disk # Missing /\ disk.blocks[a] # 0)
    BY <1>6 DEF Prune, Listed, NoBlocks
  <2>2. ~IsProtected(a)
    BY <1>1, <2>1 DEF Authorised
  <2>3. new[a] \in {0, state.blocks[a]}
    BY <1>1, <1>2, PruneFacts
  <2>4. state.blocks[a] <= now + MaxDuration * SubSecond
    BY <1>1 DEF Temporary
  <2> QED
    BY <1>1, <2>2, <2>3, <2>4
<1> HIDE DEF new
<1>7. Listed' \in [Addresses -> Nat]
  BY <1>2, <1>5 DEF BlockLists
<1> QED
  BY <1>1, <1>3, <1>5, <1>6, <1>7, SamePolicy DEF Contained!Contain, Listed

(* A start finds the list it left, or none. *)
LEMMA StartSteps ==
    ASSUME IInv, Load \/ LoadDefault
    PROVE  Contained!Start
<1>1. mode = "down" /\ mode' = "up" /\ UNCHANGED <<now, request>>
  BY DEF Load, LoadDefault, Serve, world
<1>2. Listed' \in {Listed, NoBlocks}
  <2>1. CASE Load
    BY <1>1, <2>1 DEF Load, Listed
  <2>2. CASE LoadDefault
    <3>1. disk' = Default /\ Default.blocks = NoBlocks
      BY <2>2 DEF LoadDefault, Default
    <3>2. Prune(NoBlocks, now) = NoBlocks
      BY ListedFacts DEF IInv
    <3> QED
      BY <1>1, <3>1, <3>2 DEF Listed
  <2> QED
    BY <2>1, <2>2
<1> QED
  BY <1>1, <1>2, SamePolicy DEF Contained!Start, Listed

(* The clock, which ends blocks by itself. *)
LEMMA AdvanceSteps ==
    ASSUME IInv, Advance
    PROVE  Contained!Advance
<1>1. now' = now + 1 /\ UNCHANGED <<mode, disk, request>>
  BY DEF Advance
<1>2. Listed' = Prune(Listed, now + 1)
  BY <1>1, ListedFacts DEF IInv, Listed
<1> QED
  BY <1>1, <1>2, SamePolicy DEF Contained!Advance, Listed

(* What a client sees of its request: a healthy process between two ticks *)
(* answers from the list in the state file.                               *)
LEMMA ClientSteps ==
    ASSUME IInv, NEW a \in Clients, Client(a)
    PROVE  \E c \in Clients : Contained!Ask(c) \/ Contained!Answer(c) \/ Contained!NoAnswer(c)
<1>1. UNCHANGED <<now, mode, disk>> /\ Listed' = Listed
  BY DEF Client, Ask, Auth, AuthFails, Listed
<1>2. CASE Ask(a)
  BY <1>1, <1>2 DEF Ask, Contained!Ask, Listed
<1>3. CASE AuthFails(a)
  BY <1>1, <1>3 DEF AuthFails, Contained!NoAnswer, Listed
<1>4. CASE Auth(a)
  <2> DEFINE verdict == IF ActiveBlock(state.blocks, a, now) THEN "denied" ELSE "passed"
  <2>1. request[a] = "waiting" /\ mode # "down" /\ pc = "sleep"
        /\ request' = [request EXCEPT ![a] = verdict]
    BY <1>4 DEF Auth
  <2>2. ASSUME mode = "up" PROVE (verdict = "denied") = (Listed[a] > now)
    <3>1. disk # Missing /\ Prune(state.blocks, now) = Listed
      BY <2>1, <2>2 DEF IInv, EnforcedIsPersisted, Listed
    <3>2. now \in Nat /\ Listed \in BlockLists /\ a \in Addresses
      BY ListedFacts, ClientAssumption DEF IInv, ControlTypes
    <3>3. disk.blocks[a] \in Nat
      BY <3>1, <3>2, ListedFacts DEF IInv, BlockLists
    <3>4. Listed[a] # 0 <=> Listed[a] > now
      BY <3>1, <3>2, <3>3 DEF Listed, Prune
    <3>5. verdict = "denied" <=> Listed[a] # 0
      BY <3>1 DEF ActiveBlock
    <3> QED
      BY <3>4, <3>5
  <2>3. verdict \in {"denied", "passed"}
    OBVIOUS
  <2> HIDE DEF verdict
  <2>4. Contained!Answer(a)
    BY <1>1, <2>1, <2>2, <2>3 DEF Contained!Answer, Listed
  <2> QED
    BY <2>4
<1> QED
  BY <1>2, <1>3, <1>4 DEF Client

(* The process ends. *)
LEMMA StopSteps ==
    ASSUME Killed \/ Exits
    PROVE  Contained!Stop
  BY DEF Killed, Exits, End, Contained!Stop, world

(* Every step of the Defender is a step of the containment or none. *)
LEMMA StepContains == IInv /\ [Next]_vars => [Contained!Next]_Contained!vars
<1> SUFFICES ASSUME IInv, [Next]_vars PROVE Contained!Next \/ UNCHANGED seen
  BY DEF Contained!vars, seen, Listed
<1>1. CASE Tick
  BY <1>1, HiddenSteps, FatalSteps, SaveContains DEF Tick, IInv, Contained!Next
<1>2. CASE Process
  BY <1>2, StartSteps, StopSteps DEF Process, Contained!Next
<1>3. CASE Advance
  BY <1>3, AdvanceSteps DEF Contained!Next
<1>4. CASE IntervalPasses \/ Rotate \/ Truncate \/ (\E a \in Addresses : Bypass(a)) \/ UNCHANGED vars
  BY <1>4, HiddenSteps
<1>5. CASE \E a \in Clients : Client(a)
  BY <1>5, ClientSteps DEF Contained!Next
<1> QED
  BY <1>1, <1>2, <1>3, <1>4, <1>5 DEF Next

(* The Defender implements the containment. *)
THEOREM Implements == Spec => ContainmentSpec
<1>1. Init => Contained!Init
  BY SamePolicy DEF Init, Contained!Init
<1>2. IInv /\ [Next]_vars => [Contained!Next]_Contained!vars
  BY StepContains
<1> QED
  BY <1>1, <1>2, Invariance, PTL DEF Spec, ContainmentSpec, Contained!Spec
=============================================================================
