--------------------------- MODULE RefereeProofs ---------------------------
(* Machine-checked proofs about Referee, for every set of threads, every set *)
(* of budgets and any number of power failures.                              *)
EXTENDS Referee, FiniteSetTheorems, TLAPS

USE NamesAssumption, BudgetsAssumption, PowerAssumption, CorruptAssumption

(* Sets of flags are small finite sets, and three flags are all of them.     *)
LEMMA FlagSets ==
    ASSUME NEW S \in SUBSET Flags
    PROVE  /\ IsFiniteSet(S)
           /\ Cardinality(S) \in Nat /\ Cardinality(S) <= 3
           /\ Cardinality(S) = 3 => S = Flags
  BY FlagsAssumption, FS_Subset, FS_CardinalityType

(* The kinds of values are kept by every step.                              *)
LEMMA TypeStep == TypeOK /\ ToldInv /\ [Next]_vars => TypeOK'
<1> SUFFICES ASSUME TypeOK, ToldInv, [Next]_vars PROVE TypeOK'
  OBVIOUS
<1> USE DEF TypeOK, Scores, Candidates, Outcomes, Empty, NoStatus, server, files, threads, history
<1>1. CASE Start
  BY <1>1 DEF Start, Load
<1>2. CASE Crash
  BY <1>2 DEF Crash, Forget
<1>3. CASE PowerLoss
  <2>1. disk' \in Scores \cup {Corrupt} /\ synced' \in Scores \cup {Corrupt}
    BY <1>3 DEF PowerLoss
  <2>2. powerLosses' \in 0..MaxPowerLosses
    BY <1>3 DEF PowerLoss
  <2> QED
    BY <1>3, <2>1, <2>2 DEF PowerLoss, Forget
<1>4. CASE Writeback
  BY <1>4 DEF Writeback
<1>5. ASSUME NEW t \in Threads, Submit(t) PROVE TypeOK'
  <2>1. CASE Exhausted(t)
    BY <2>1 DEF Exhausted
  <2>2. CASE Admit(t)
    BY <2>2 DEF Admit
  <2>3. CASE CompareRaises(t)
    BY <2>3 DEF CompareRaises, Raise, AtRest
  <2>4. CASE Compare(t)
    BY <2>4 DEF Compare, Judge
  <2>5. CASE Write(t)
    BY <2>5 DEF Write
  <2>6. CASE Replace(t)
    BY <2>6 DEF Replace
  <2>7. CASE SaveRaises(t)
    BY <2>7 DEF SaveRaises, Raise, AtRest
  <2>8. CASE Send(t)
    BY <2>8 DEF Send, AtRest, ToldInv
  <2>9. CASE SendRaises(t)
    BY <2>9 DEF SendRaises, AtRest
  <2> QED
    BY <1>5, <2>1, <2>2, <2>3, <2>4, <2>5, <2>6, <2>7, <2>8, <2>9 DEF Submit, Locked
<1>6. ASSUME NEW t \in Threads, Status(t) PROVE TypeOK'
  <2>1. CASE StatusCount(t)
    BY <2>1, FlagSets DEF StatusCount
  <2>2. CASE StatusWon(t)
    BY <2>2 DEF StatusWon, AtRest
  <2> QED
    BY <1>6, <2>1, <2>2 DEF Status
<1>7. ASSUME NEW t \in Threads, NEW c \in Candidates, Post(t, c) PROVE TypeOK'
  BY <1>7 DEF Post
<1>8. CASE UNCHANGED vars
  BY <1>8 DEF vars
<1> HIDE DEF TypeOK, Scores, Candidates, Outcomes, Empty, NoStatus, server, files, threads, history
<1> QED
  BY <1>1, <1>2, <1>3, <1>4, <1>5, <1>6, <1>7, <1>8 DEF Next, Environment

(* Mutual exclusion, and a process that is down holds nothing. *)
LEMMA LockStep == IInv /\ [Next]_vars => LockInv'
<1> SUFFICES ASSUME IInv, [Next]_vars PROVE LockInv'
  OBVIOUS
<1>0. TypeOK'
  BY TypeStep DEF IInv
<1> USE <1>0 DEF IInv, TypeOK, server, files, threads, history, LockInv, FileInv, SeenInv, Empty, NoStatus
<1>1. CASE Start
  BY <1>1 DEF Start, Load
<1>2. CASE Crash
  BY <1>2 DEF Crash, Forget
<1>3. CASE PowerLoss
  BY <1>3 DEF PowerLoss, Forget
<1>4. CASE Writeback
  BY <1>4 DEF Writeback
<1>5. ASSUME NEW t \in Threads, Submit(t) PROVE LockInv'
  <2>1. CASE Exhausted(t)
    BY <2>1 DEF Exhausted
  <2>2. CASE Admit(t)
    BY <2>2 DEF Admit
  <2>3. CASE CompareRaises(t)
    BY <2>3 DEF CompareRaises, Raise, AtRest
  <2>4. CASE Compare(t)
    BY <2>4 DEF Compare, Judge
  <2>5. CASE Write(t)
    BY <2>5 DEF Write
  <2>6. CASE Replace(t)
    BY <2>6 DEF Replace
  <2>7. CASE SaveRaises(t)
    BY <2>7 DEF SaveRaises, Raise, AtRest
  <2>8. CASE Send(t)
    BY <2>8 DEF Send, AtRest
  <2>9. CASE SendRaises(t)
    BY <2>9 DEF SendRaises, AtRest
  <2> HIDE DEF LockInv
  <2> QED
    BY <1>5, <2>1, <2>2, <2>3, <2>4, <2>5, <2>6, <2>7, <2>8, <2>9 DEF Submit, Locked
<1>6. ASSUME NEW t \in Threads, Status(t) PROVE LockInv'
  <2>1. CASE StatusCount(t)
    BY <2>1 DEF StatusCount
  <2>2. CASE StatusWon(t)
    BY <2>2 DEF StatusWon, AtRest
  <2> QED
    BY <1>6, <2>1, <2>2 DEF Status
<1>7. ASSUME NEW t \in Threads, NEW c \in Candidates, Post(t, c) PROVE LockInv'
  BY <1>7 DEF Post
<1>8. CASE UNCHANGED vars
  BY <1>8 DEF vars
<1> HIDE DEF IInv, TypeOK, server, files, threads, history, LockInv, FileInv, SeenInv, Empty, NoStatus
<1> QED
  BY <1>1, <1>2, <1>3, <1>4, <1>5, <1>6, <1>7, <1>8 DEF Next, Environment

(* The file stays behind memory: only the holder of the lock writes it. *)
LEMMA FileStep == IInv /\ [Next]_vars => FileInv'
<1> SUFFICES ASSUME IInv, [Next]_vars PROVE FileInv'
  OBVIOUS
<1>0. TypeOK'
  BY TypeStep DEF IInv
<1> USE <1>0 DEF IInv, TypeOK, server, files, threads, history, FileInv, LockInv, Recorded, Scores, Empty
<1>1. CASE Start
  BY <1>1 DEF Start, Load
<1>2. CASE Crash
  BY <1>2 DEF Crash, Forget
<1>3. CASE PowerLoss
  BY <1>3 DEF PowerLoss, Forget
<1>4. CASE Writeback
  BY <1>4 DEF Writeback
<1>5. ASSUME NEW t \in Threads, Submit(t) PROVE FileInv'
  <2>1. CASE Exhausted(t)
    BY <2>1 DEF Exhausted
  <2>2. CASE Admit(t)
    BY <2>2 DEF Admit
  <2>3. CASE CompareRaises(t)
    BY <2>3 DEF CompareRaises, Raise, AtRest
  <2>4. CASE Compare(t)
    BY <2>4 DEF Compare, Judge
  <2>5. CASE Write(t)
    BY <2>5 DEF Write
  <2>6. CASE Replace(t)
    BY <2>6 DEF Replace
  <2>7. CASE SaveRaises(t)
    BY <2>7 DEF SaveRaises, Raise, AtRest
  <2>8. CASE Send(t)
    BY <2>8 DEF Send, AtRest
  <2>9. CASE SendRaises(t)
    BY <2>9 DEF SendRaises, AtRest
  <2> HIDE DEF FileInv
  <2> QED
    BY <1>5, <2>1, <2>2, <2>3, <2>4, <2>5, <2>6, <2>7, <2>8, <2>9 DEF Submit, Locked
<1>6. ASSUME NEW t \in Threads, Status(t) PROVE FileInv'
  <2>1. CASE StatusCount(t)
    BY <2>1 DEF StatusCount
  <2>2. CASE StatusWon(t)
    BY <2>2 DEF StatusWon, AtRest
  <2> QED
    BY <1>6, <2>1, <2>2 DEF Status
<1>7. ASSUME NEW t \in Threads, NEW c \in Candidates, Post(t, c) PROVE FileInv'
  BY <1>7 DEF Post
<1>8. CASE UNCHANGED vars
  BY <1>8 DEF vars
<1> HIDE DEF IInv, TypeOK, server, files, threads, history, FileInv, LockInv, Recorded, Scores, Empty
<1> QED
  BY <1>1, <1>2, <1>3, <1>4, <1>5, <1>6, <1>7, <1>8 DEF Next, Environment

(* Nothing counts attempts beyond a budget. *)
LEMMA BudgetStep == IInv /\ [Next]_vars => BudgetInv'
<1> SUFFICES ASSUME IInv, [Next]_vars PROVE BudgetInv'
  OBVIOUS
<1>0. TypeOK'
  BY TypeStep DEF IInv
<1> USE <1>0 DEF IInv, TypeOK, server, files, threads, history, BudgetInv, FileInv, Scores, Empty
<1>1. CASE Start
  BY <1>1 DEF Start, Load
<1>2. CASE Crash
  BY <1>2 DEF Crash, Forget
<1>3. CASE PowerLoss
  BY <1>3 DEF PowerLoss, Forget
<1>4. CASE Writeback
  BY <1>4 DEF Writeback
<1>5. ASSUME NEW t \in Threads, Submit(t) PROVE BudgetInv'
  <2>1. CASE Exhausted(t)
    BY <2>1 DEF Exhausted
  <2>2. CASE Admit(t)
    BY <2>2 DEF Admit
  <2>3. CASE CompareRaises(t)
    BY <2>3 DEF CompareRaises, Raise, AtRest
  <2>4. CASE Compare(t)
    BY <2>4 DEF Compare, Judge
  <2>5. CASE Write(t)
    BY <2>5 DEF Write
  <2>6. CASE Replace(t)
    BY <2>6 DEF Replace
  <2>7. CASE SaveRaises(t)
    BY <2>7 DEF SaveRaises, Raise, AtRest
  <2>8. CASE Send(t)
    BY <2>8 DEF Send, AtRest
  <2>9. CASE SendRaises(t)
    BY <2>9 DEF SendRaises, AtRest
  <2> HIDE DEF BudgetInv
  <2> QED
    BY <1>5, <2>1, <2>2, <2>3, <2>4, <2>5, <2>6, <2>7, <2>8, <2>9 DEF Submit, Locked
<1>6. ASSUME NEW t \in Threads, Status(t) PROVE BudgetInv'
  <2>1. CASE StatusCount(t)
    BY <2>1 DEF StatusCount
  <2>2. CASE StatusWon(t)
    BY <2>2 DEF StatusWon, AtRest
  <2> QED
    BY <1>6, <2>1, <2>2 DEF Status
<1>7. ASSUME NEW t \in Threads, NEW c \in Candidates, Post(t, c) PROVE BudgetInv'
  BY <1>7 DEF Post
<1>8. CASE UNCHANGED vars
  BY <1>8 DEF vars
<1> HIDE DEF IInv, TypeOK, server, files, threads, history, BudgetInv, FileInv, Scores, Empty
<1> QED
  BY <1>1, <1>2, <1>3, <1>4, <1>5, <1>6, <1>7, <1>8 DEF Next, Environment

(* The answers under way are finitely many. *)
LEMMA PendingFinite == IsFiniteSet(Pending) /\ Cardinality(Pending) \in Nat
<1>1. Pending \subseteq Threads
  BY DEF Pending
<1> QED
  BY <1>1, FS_Subset, FS_CardinalityType

(* Every answer has its attempt in the file: a judgement that reaches the file
   adds one attempt and at most one answer to be sent. *)
LEMMA PaidStep == IInv /\ [Next]_vars => PaidInv'
<1> SUFFICES ASSUME IInv, [Next]_vars PROVE PaidInv'
  OBVIOUS
<1>0. TypeOK'
  BY TypeStep DEF IInv
<1> USE <1>0 DEF IInv, TypeOK, server, files, threads, history, PaidInv, Recorded
<1>1. CASE Start
  <2>1. Pending' = {}
    BY <1>1 DEF Start, Load, LockInv, Pending
  <2>2. IsFiniteSet(Pending) /\ Cardinality(Pending) \in Nat /\ Cardinality({}) = 0
    BY PendingFinite, FS_EmptySet
  <2> QED
    BY <1>1, <2>1, <2>2 DEF Start, Load, LockInv, Scores
<1>2. CASE Crash
  <2>1. Pending' = {}
    BY <1>2 DEF Crash, Forget, Pending
  <2>2. IsFiniteSet(Pending) /\ Cardinality(Pending) \in Nat /\ Cardinality({}) = 0
    BY PendingFinite, FS_EmptySet
  <2> QED
    BY <1>2, <2>1, <2>2 DEF Crash, Forget, Scores
<1>3. CASE PowerLoss
  <2>1. Pending' = {}
    BY <1>3 DEF PowerLoss, Forget, Pending
  <2>2. IsFiniteSet(Pending) /\ Cardinality(Pending) \in Nat /\ Cardinality({}) = 0
    BY PendingFinite, FS_EmptySet
  <2> QED
    BY <1>3, <2>1, <2>2 DEF PowerLoss, Forget, Scores
<1>4. CASE Writeback
  <2>1. Pending' = Pending
    BY <1>4 DEF Writeback, Pending
  <2> QED
    BY <1>4, <2>1 DEF Writeback
<1>5. ASSUME NEW t \in Threads, Submit(t) PROVE PaidInv'
  <2>1. CASE Exhausted(t)
    <3>1. Pending' = Pending
      BY <2>1 DEF Exhausted, Pending
    <3> QED
      BY <2>1, <3>1 DEF Exhausted
  <2>2. CASE Admit(t)
    <3>1. Pending' = Pending
      BY <2>2 DEF Admit, Pending
    <3> QED
      BY <2>2, <3>1 DEF Admit
  <2>3. CASE CompareRaises(t)
    <3>1. Pending' = Pending
      BY <2>3 DEF CompareRaises, Raise, AtRest, Pending
    <3> QED
      BY <2>3, <3>1 DEF CompareRaises, Raise, AtRest
  <2>4. CASE Compare(t)
    <3>1. Pending' = Pending
      BY <2>4 DEF Compare, Judge, Pending
    <3> QED
      BY <2>4, <3>1 DEF Compare, Judge
  <2>5. CASE Write(t)
    <3>1. Pending' = Pending
      BY <2>5 DEF Write, Pending
    <3> QED
      BY <2>5, <3>1 DEF Write
  <2>6. CASE Replace(t)
    <3>1. Pending' \subseteq Pending \cup {t} /\ t \notin Pending
      BY <2>6 DEF Replace, Pending
    <3>2. /\ IsFiniteSet(Pending \cup {t})
          /\ Cardinality(Pending \cup {t}) = Cardinality(Pending) + 1
      BY <3>1, PendingFinite, FS_AddElement
    <3>3. Cardinality(Pending') \in Nat /\ Cardinality(Pending') <= Cardinality(Pending) + 1
      BY <3>1, <3>2, FS_Subset, FS_CardinalityType
    <3>4. Recorded'.attempts = memory.attempts /\ Recorded.attempts < memory.attempts
      BY <2>6 DEF Replace, Recorded, FileInv, LockInv
    <3>5. answered' = answered
      BY <2>6 DEF Replace
    <3> QED
      BY <3>3, <3>4, <3>5, PendingFinite DEF Recorded, Scores, Empty
  <2>7. CASE SaveRaises(t)
    <3>1. \A u \in Threads : /\ pc'[u] = "send" <=> pc[u] = "send"
                             /\ pc[u] = "send" => outcome'[u] = outcome[u]
      BY <2>7 DEF SaveRaises, Raise, AtRest
    <3>2. Pending' = Pending
      BY <3>1 DEF Pending
    <3> QED
      BY <2>7, <3>2 DEF SaveRaises, Raise
  <2>8. CASE Send(t)
    <3>1. Pending' = Pending \ {t}
      BY <2>8 DEF Send, AtRest, Pending
    <3>2. /\ Cardinality(Pending') \in Nat
          /\ Cardinality(Pending') <= Cardinality(Pending)
          /\ t \in Pending => Cardinality(Pending') = Cardinality(Pending) - 1
      <4>1. /\ IsFiniteSet(Pending \ {t})
            /\ Cardinality(Pending \ {t}) =
                 IF t \in Pending THEN Cardinality(Pending) - 1 ELSE Cardinality(Pending)
        BY PendingFinite, FS_RemoveElement
      <4>2. Cardinality(Pending') \in Nat
        BY <3>1, <4>1, FS_CardinalityType
      <4> QED
        BY <3>1, <4>1, <4>2, PendingFinite
    <3>3. Recorded' = Recorded /\ Recorded.attempts \in Nat
      BY <2>8 DEF Send, AtRest, Recorded, Scores, Empty
    <3>4. answered' = answered \/ (t \in Pending /\ answered' = answered + 1)
      BY <2>8 DEF Send, Pending
    <3> QED
      BY <3>2, <3>3, <3>4, PendingFinite
  <2>9. CASE SendRaises(t)
    <3>1. Pending' = Pending \ {t}
      BY <2>9 DEF SendRaises, AtRest, Pending
    <3>2. /\ Cardinality(Pending') \in Nat
          /\ Cardinality(Pending') <= Cardinality(Pending)
          /\ t \in Pending => Cardinality(Pending') = Cardinality(Pending) - 1
      <4>1. /\ IsFiniteSet(Pending \ {t})
            /\ Cardinality(Pending \ {t}) =
                 IF t \in Pending THEN Cardinality(Pending) - 1 ELSE Cardinality(Pending)
        BY PendingFinite, FS_RemoveElement
      <4>2. Cardinality(Pending') \in Nat
        BY <3>1, <4>1, FS_CardinalityType
      <4> QED
        BY <3>1, <4>1, <4>2, PendingFinite
    <3>3. Recorded' = Recorded /\ Recorded.attempts \in Nat
      BY <2>9 DEF SendRaises, AtRest, Recorded, Scores, Empty
    <3> QED
      BY <2>9, <3>2, <3>3, PendingFinite DEF SendRaises, AtRest, Pending
  <2> HIDE DEF PaidInv
  <2> QED
    BY <1>5, <2>1, <2>2, <2>3, <2>4, <2>5, <2>6, <2>7, <2>8, <2>9 DEF Submit, Locked
<1>6. ASSUME NEW t \in Threads, Status(t) PROVE PaidInv'
  <2>1. CASE StatusCount(t)
    <3>1. Pending' = Pending
      BY <2>1 DEF StatusCount, Pending
    <3> QED
      BY <2>1, <3>1 DEF StatusCount
  <2>2. CASE StatusWon(t)
    <3>1. Pending' = Pending
      BY <2>2 DEF StatusWon, AtRest, Pending
    <3> QED
      BY <2>2, <3>1 DEF StatusWon, AtRest
  <2> QED
    BY <1>6, <2>1, <2>2 DEF Status
<1>7. ASSUME NEW t \in Threads, NEW c \in Candidates, Post(t, c) PROVE PaidInv'
  <2>1. Pending' = Pending
    BY <1>7 DEF Post, Pending
  <2> QED
    BY <1>7, <2>1 DEF Post
<1>8. CASE UNCHANGED vars
  <2>1. Pending' = Pending
    BY <1>8 DEF vars, Pending
  <2> QED
    BY <1>8, <2>1 DEF vars
<1> HIDE DEF IInv, TypeOK, server, files, threads, history, PaidInv, Recorded
<1> QED
  BY <1>1, <1>2, <1>3, <1>4, <1>5, <1>6, <1>7, <1>8 DEF Next, Environment

(* What a client is told is in the file when the lock is released. *)
LEMMA ToldStep == IInv /\ [Next]_vars => ToldInv'
<1> SUFFICES ASSUME IInv, [Next]_vars PROVE ToldInv'
  OBVIOUS
<1>0. TypeOK'
  BY TypeStep DEF IInv
<1> USE <1>0 DEF IInv, TypeOK, server, files, threads, history, ToldInv, Recorded, LockInv, FileInv, Scores, Candidates, Empty
<1>1. CASE Start
  BY <1>1 DEF Start, Load
<1>2. CASE Crash
  BY <1>2 DEF Crash, Forget
<1>3. CASE PowerLoss
  BY <1>3 DEF PowerLoss, Forget
<1>4. CASE Writeback
  BY <1>4 DEF Writeback
<1>5. ASSUME NEW t \in Threads, Submit(t) PROVE ToldInv'
  <2>1. CASE Exhausted(t)
    BY <2>1 DEF Exhausted
  <2>2. CASE Admit(t)
    BY <2>2 DEF Admit
  <2>3. CASE CompareRaises(t)
    BY <2>3 DEF CompareRaises, Raise, AtRest
  <2>4. CASE Compare(t)
    BY <2>4 DEF Compare, Judge
  <2>5. CASE Write(t)
    BY <2>5 DEF Write
  <2>6. CASE Replace(t)
    BY <2>6 DEF Replace
  <2>7. CASE SaveRaises(t)
    BY <2>7 DEF SaveRaises, Raise, AtRest
  <2>8. CASE Send(t)
    BY <2>8 DEF Send, AtRest
  <2>9. CASE SendRaises(t)
    BY <2>9 DEF SendRaises, AtRest
  <2> HIDE DEF ToldInv
  <2> QED
    BY <1>5, <2>1, <2>2, <2>3, <2>4, <2>5, <2>6, <2>7, <2>8, <2>9 DEF Submit, Locked
<1>6. ASSUME NEW t \in Threads, Status(t) PROVE ToldInv'
  <2>1. CASE StatusCount(t)
    BY <2>1 DEF StatusCount
  <2>2. CASE StatusWon(t)
    BY <2>2 DEF StatusWon, AtRest
  <2> QED
    BY <1>6, <2>1, <2>2 DEF Status
<1>7. ASSUME NEW t \in Threads, NEW c \in Candidates, Post(t, c) PROVE ToldInv'
  BY <1>7 DEF Post
<1>8. CASE UNCHANGED vars
  BY <1>8 DEF vars
<1> HIDE DEF IInv, TypeOK, server, files, threads, history, ToldInv, Recorded, LockInv, FileInv, Scores, Candidates, Empty
<1> QED
  BY <1>1, <1>2, <1>3, <1>4, <1>5, <1>6, <1>7, <1>8 DEF Next, Environment

(* A flag is first accepted by one thread only. *)
LEMMA FirstStep == IInv /\ [Next]_vars => FirstInv'
<1> SUFFICES ASSUME IInv, [Next]_vars PROVE FirstInv'
  OBVIOUS
<1>0. TypeOK'
  BY TypeStep DEF IInv
<1> USE <1>0 DEF IInv, TypeOK, server, files, threads, history, FirstInv, ToldInv, LockInv, FileInv, Recorded, Scores, Candidates, Empty
<1>1. CASE Start
  BY <1>1 DEF Start, Load
<1>2. CASE Crash
  BY <1>2 DEF Crash, Forget
<1>3. CASE PowerLoss
  BY <1>3 DEF PowerLoss, Forget
<1>4. CASE Writeback
  BY <1>4 DEF Writeback
<1>5. ASSUME NEW t \in Threads, Submit(t) PROVE FirstInv'
  <2>1. CASE Exhausted(t)
    BY <2>1 DEF Exhausted
  <2>2. CASE Admit(t)
    BY <2>2 DEF Admit
  <2>3. CASE CompareRaises(t)
    BY <2>3 DEF CompareRaises, Raise, AtRest
  <2>4. CASE Compare(t)
    BY <2>4 DEF Compare, Judge
  <2>5. CASE Write(t)
    BY <2>5 DEF Write
  <2>6. CASE Replace(t)
    BY <2>6 DEF Replace
  <2>7. CASE SaveRaises(t)
    BY <2>7 DEF SaveRaises, Raise, AtRest
  <2>8. CASE Send(t)
    BY <2>8 DEF Send, AtRest
  <2>9. CASE SendRaises(t)
    BY <2>9 DEF SendRaises, AtRest
  <2> HIDE DEF FirstInv
  <2> QED
    BY <1>5, <2>1, <2>2, <2>3, <2>4, <2>5, <2>6, <2>7, <2>8, <2>9 DEF Submit, Locked
<1>6. ASSUME NEW t \in Threads, Status(t) PROVE FirstInv'
  <2>1. CASE StatusCount(t)
    BY <2>1 DEF StatusCount
  <2>2. CASE StatusWon(t)
    BY <2>2 DEF StatusWon, AtRest
  <2> QED
    BY <1>6, <2>1, <2>2 DEF Status
<1>7. ASSUME NEW t \in Threads, NEW c \in Candidates, Post(t, c) PROVE FirstInv'
  BY <1>7 DEF Post
<1>8. CASE UNCHANGED vars
  BY <1>8 DEF vars
<1> HIDE DEF IInv, TypeOK, server, files, threads, history, FirstInv, ToldInv, LockInv, FileInv, Recorded, Scores, Candidates, Empty
<1> QED
  BY <1>1, <1>2, <1>3, <1>4, <1>5, <1>6, <1>7, <1>8 DEF Next, Environment

(* One more flag counts for at most one. *)
LEMMA AddOne ==
    ASSUME NEW S, IsFiniteSet(S), NEW x
    PROVE  /\ Cardinality(S) \in Nat /\ Cardinality(S \cup {x}) \in Nat
           /\ Cardinality(S \cup {x}) <= Cardinality(S) + 1
<1>1. /\ IsFiniteSet(S \cup {x})
      /\ Cardinality(S \cup {x}) = IF x \in S THEN Cardinality(S) ELSE Cardinality(S) + 1
  BY FS_AddElement
<1>2. Cardinality(S) \in Nat /\ Cardinality(S \cup {x}) \in Nat
  BY <1>1, FS_CardinalityType
<1> QED
  BY <1>1, <1>2

(* More flags count for more. *)
LEMMA CardinalityGrows ==
    ASSUME NEW S \in SUBSET Flags, NEW T \in SUBSET Flags, S \subseteq T
    PROVE  Cardinality(S) <= Cardinality(T)
  BY FlagSets, FS_Subset

(* Memory only grows while a status answer is put together. *)
LEMMA SeenStep == IInv /\ [Next]_vars => SeenInv'
<1> SUFFICES ASSUME IInv, [Next]_vars PROVE SeenInv'
  OBVIOUS
<1>0. TypeOK'
  BY TypeStep DEF IInv
<1> USE <1>0 DEF IInv, TypeOK, server, files, threads, history, SeenInv, LockInv, FileInv, SeenInv
<1>1. CASE Start
  BY <1>1 DEF Start, Load
<1>2. CASE Crash
  BY <1>2 DEF Crash, Forget
<1>3. CASE PowerLoss
  BY <1>3 DEF PowerLoss, Forget
<1>4. CASE Writeback
  BY <1>4 DEF Writeback
<1>5. ASSUME NEW t \in Threads, Submit(t) PROVE SeenInv'
  <2>1. CASE Exhausted(t)
    BY <2>1 DEF Exhausted
  <2>2. CASE Admit(t)
    <3>1. memory.accepted \subseteq memory'.accepted
      BY <2>2 DEF Admit, Scores
    <3>2. Cardinality(memory.accepted) <= Cardinality(memory'.accepted)
      BY <3>1, CardinalityGrows DEF Scores
    <3> QED
      BY <2>2, <3>2, FlagSets DEF Admit, Scores
  <2>3. CASE CompareRaises(t)
    BY <2>3 DEF CompareRaises, Raise, AtRest
  <2>4. CASE Compare(t)
    <3>1. memory.accepted \subseteq memory'.accepted
      BY <2>4 DEF Compare, Scores
    <3>2. Cardinality(memory.accepted) <= Cardinality(memory'.accepted)
      BY <3>1, CardinalityGrows DEF Scores
    <3> QED
      BY <2>4, <3>2, FlagSets DEF Compare, Scores
  <2>5. CASE Write(t)
    BY <2>5 DEF Write
  <2>6. CASE Replace(t)
    BY <2>6 DEF Replace
  <2>7. CASE SaveRaises(t)
    BY <2>7 DEF SaveRaises, Raise, AtRest
  <2>8. CASE Send(t)
    BY <2>8 DEF Send, AtRest
  <2>9. CASE SendRaises(t)
    BY <2>9 DEF SendRaises, AtRest
  <2> HIDE DEF SeenInv
  <2> QED
    BY <1>5, <2>1, <2>2, <2>3, <2>4, <2>5, <2>6, <2>7, <2>8, <2>9 DEF Submit, Locked
<1>6. ASSUME NEW t \in Threads, Status(t) PROVE SeenInv'
  <2>1. CASE StatusCount(t)
    <3>1. Cardinality(memory.accepted) \in Nat
      BY FlagSets DEF Scores
    <3> QED
      BY <2>1, <3>1 DEF StatusCount
  <2>2. CASE StatusWon(t)
    BY <2>2 DEF StatusWon, AtRest
  <2> QED
    BY <1>6, <2>1, <2>2 DEF Status
<1>7. ASSUME NEW t \in Threads, NEW c \in Candidates, Post(t, c) PROVE SeenInv'
  BY <1>7 DEF Post
<1>8. CASE UNCHANGED vars
  BY <1>8 DEF vars
<1> HIDE DEF IInv, TypeOK, server, files, threads, history, SeenInv, LockInv, FileInv, SeenInv
<1> QED
  BY <1>1, <1>2, <1>3, <1>4, <1>5, <1>6, <1>7, <1>8 DEF Next, Environment

(* A status answer stays consistent with memory. *)
LEMMA StatusStep == IInv /\ [Next]_vars => StatusConsistent'
<1> SUFFICES ASSUME IInv, [Next]_vars PROVE StatusConsistent'
  OBVIOUS
<1>0. TypeOK'
  BY TypeStep DEF IInv
<1> USE <1>0 DEF IInv, TypeOK, server, files, threads, history, StatusConsistent
<1>1. CASE Start
  <2>1. status' = NoStatus /\ Cardinality(memory'.accepted) \in Nat
    BY <1>1, FlagSets DEF Start, Load, LockInv, Scores
  <2> QED
    BY <2>1 DEF NoStatus
<1>2. CASE Crash
  <2>1. status' = NoStatus /\ Cardinality(memory'.accepted) \in Nat
    BY <1>2, FlagSets DEF Crash, Forget, Empty, Scores
  <2> QED
    BY <2>1 DEF NoStatus
<1>3. CASE PowerLoss
  <2>1. status' = NoStatus /\ Cardinality(memory'.accepted) \in Nat
    BY <1>3, FlagSets DEF PowerLoss, Forget, Empty, Scores
  <2> QED
    BY <2>1 DEF NoStatus
<1>4. CASE Writeback
  BY <1>4 DEF Writeback
<1>5. ASSUME NEW t \in Threads, Submit(t) PROVE StatusConsistent'
  <2>1. CASE Exhausted(t)
    BY <2>1 DEF Exhausted
  <2>2. CASE Admit(t)
    BY <2>2 DEF Admit
  <2>3. CASE CompareRaises(t)
    BY <2>3 DEF CompareRaises, Raise, AtRest
  <2>4. CASE Compare(t)
    <3>1. memory.accepted \subseteq memory'.accepted /\ memory'.accepted \subseteq Flags
      BY <2>4 DEF Compare, Scores
    <3>2. Cardinality(memory.accepted) <= Cardinality(memory'.accepted)
      BY <3>1, CardinalityGrows DEF Scores
    <3>3. /\ status' = status /\ status.count \in Nat
          /\ Cardinality(memory.accepted) \in Nat /\ Cardinality(memory'.accepted) \in Nat
      BY <2>4, FlagSets DEF Compare, Scores
    <3>4. status.count <= Cardinality(memory.accepted)
      BY DEF IInv
    <3>5. status.won => memory'.accepted = Flags
      BY <3>1 DEF IInv
    <3>6. status'.count <= Cardinality(memory'.accepted)
      BY <3>2, <3>3, <3>4
    <3> QED
      BY <3>3, <3>5, <3>6
  <2>5. CASE Write(t)
    BY <2>5 DEF Write
  <2>6. CASE Replace(t)
    BY <2>6 DEF Replace
  <2>7. CASE SaveRaises(t)
    BY <2>7 DEF SaveRaises, Raise, AtRest
  <2>8. CASE Send(t)
    BY <2>8 DEF Send, AtRest
  <2>9. CASE SendRaises(t)
    BY <2>9 DEF SendRaises, AtRest
  <2> HIDE DEF StatusConsistent
  <2> QED
    BY <1>5, <2>1, <2>2, <2>3, <2>4, <2>5, <2>6, <2>7, <2>8, <2>9 DEF Submit, Locked
<1>6. ASSUME NEW t \in Threads, Status(t) PROVE StatusConsistent'
  <2>1. CASE StatusCount(t)
    BY <2>1 DEF StatusCount
  <2>2. CASE StatusWon(t)
    <3>1. Cardinality(memory.accepted) \in Nat /\ Cardinality(memory.accepted) <= 3
      BY FlagSets DEF Scores
    <3>2. Cardinality(memory.accepted) = 3 => memory.accepted = Flags
      BY FlagSets DEF Scores
    <3>3. seen[t] <= Cardinality(memory.accepted) /\ seen[t] \in Nat
      BY <2>2 DEF StatusWon, SeenInv
    <3>4. status' = [count |-> seen[t], won |-> Cardinality(memory.accepted) = 3] /\ memory' = memory
      BY <2>2 DEF StatusWon
    <3>5. status'.count = seen[t] /\ (status'.won <=> Cardinality(memory.accepted) = 3)
      BY <3>4
    <3>6. status'.count = 3 => status'.won
      BY <3>1, <3>3, <3>5
    <3> QED
      BY <3>2, <3>3, <3>4, <3>5, <3>6
  <2> QED
    BY <1>6, <2>1, <2>2 DEF Status
<1>7. ASSUME NEW t \in Threads, NEW c \in Candidates, Post(t, c) PROVE StatusConsistent'
  BY <1>7 DEF Post
<1>8. CASE UNCHANGED vars
  BY <1>8 DEF vars
<1> HIDE DEF IInv, TypeOK, server, files, threads, history, StatusConsistent
<1> QED
  BY <1>1, <1>2, <1>3, <1>4, <1>5, <1>6, <1>7, <1>8 DEF Next, Environment

(* Every recorded flag has an attempt of its own. *)
LEMMA CountStep == IInv /\ [Next]_vars => CountInv'
<1> SUFFICES ASSUME IInv, [Next]_vars PROVE CountInv'
  OBVIOUS
<1>0. TypeOK'
  BY TypeStep DEF IInv
<1> USE <1>0 DEF IInv, TypeOK, server, files, threads, history, CountInv, AcceptancesArePaid, PaidFor, LockInv, FileInv, Candidates
<1>1. CASE Start
  <2>1. Cardinality({}) = 0
    BY FS_EmptySet
  <2> QED
    BY <1>1, <2>1 DEF Start, Load, LockInv, FileInv, Empty
<1>2. CASE Crash
  <2>1. memory' = Empty /\ Cardinality(Empty.accepted) = 0
    BY <1>2, FS_EmptySet DEF Crash, Forget, Empty
  <2>2. PaidFor(memory')
    BY <2>1 DEF Empty
  <2>3. \A u \in Threads : candidate'[u] = Wrong /\ pc'[u] = "idle"
    BY <1>2 DEF Crash, Forget
  <2>4. /\ submitted' = submitted
        /\ disk' \in {disk, synced, Corrupt} /\ synced' \in {disk, synced, Corrupt}
    BY <1>2 DEF Crash, Forget
  <2> QED
    BY <2>2, <2>3, <2>4
<1>3. CASE PowerLoss
  <2>1. memory' = Empty /\ Cardinality(Empty.accepted) = 0
    BY <1>3, FS_EmptySet DEF PowerLoss, Forget, Empty
  <2>2. PaidFor(memory')
    BY <2>1 DEF Empty
  <2>3. \A u \in Threads : candidate'[u] = Wrong /\ pc'[u] = "idle"
    BY <1>3 DEF PowerLoss, Forget
  <2>4. /\ submitted' = submitted
        /\ disk' \in {disk, synced, Corrupt} /\ synced' \in {disk, synced, Corrupt}
    BY <1>3 DEF PowerLoss, Forget
  <2> QED
    BY <2>2, <2>3, <2>4
<1>4. CASE Writeback
  BY <1>4 DEF Writeback
<1>5. ASSUME NEW t \in Threads, Submit(t) PROVE CountInv'
  <2>1. CASE Exhausted(t)
    BY <2>1 DEF Exhausted
  <2>2. CASE Admit(t)
    <3>1. Cardinality(memory.accepted) \in Nat /\ memory.attempts \in Nat
      BY FlagSets DEF Scores
    <3>2. /\ memory'.accepted = memory.accepted
          /\ memory'.attempts = memory.attempts + 1
      BY <2>2 DEF Admit, Scores
    <3>3. Cardinality(memory'.accepted) < memory'.attempts
      BY <3>1, <3>2
    <3>4. /\ submitted' = submitted /\ candidate' = candidate
          /\ disk' = disk /\ synced' = synced
      BY <2>2 DEF Admit
    <3> QED
      BY <3>1, <3>2, <3>3, <3>4
  <2>3. CASE CompareRaises(t)
    BY <2>3 DEF CompareRaises, Raise, AtRest
  <2>4. CASE Compare(t)
    <3>1. /\ Cardinality(memory.accepted) \in Nat /\ memory.attempts \in Nat
          /\ Cardinality(memory.accepted) < memory.attempts
          /\ IsFiniteSet(memory.accepted)
      BY <2>4, FlagSets DEF Compare, Scores
    <3>2. /\ memory'.accepted = memory.accepted \cup ({candidate[t]} \cap Flags)
          /\ memory'.attempts = memory.attempts
      BY <2>4 DEF Compare, Scores
    <3>3. \/ memory'.accepted = memory.accepted
          \/ memory'.accepted = memory.accepted \cup {candidate[t]}
      BY <3>2
    <3>4. Cardinality(memory'.accepted) <= memory'.attempts
      <4>1. /\ Cardinality(memory.accepted \cup {candidate[t]}) \in Nat
            /\ Cardinality(memory.accepted \cup {candidate[t]}) <= Cardinality(memory.accepted) + 1
        BY <3>1, AddOne
      <4>2. Cardinality(memory'.accepted) \in {Cardinality(memory.accepted),
                                               Cardinality(memory.accepted \cup {candidate[t]})}
        BY <3>3
      <4>3. \A c \in Nat, d \in Nat, a \in Nat, n \in Nat :
              c < n /\ d <= c + 1 /\ a \in {c, d} => a <= n
        OBVIOUS
      <4> HIDE DEF IInv, CountInv, AcceptancesArePaid, PaidFor, TypeOK
      <4> QED
        BY <3>1, <3>2, <4>1, <4>2, <4>3
    <3>5. memory'.accepted \subseteq submitted
      BY <3>2
    <3>6. \A u \in Threads : pc'[u] # "compare"
      BY <2>4 DEF Compare, LockInv
    <3> QED
      BY <2>4, <3>4, <3>5, <3>6 DEF Compare
  <2>5. CASE Write(t)
    BY <2>5 DEF Write
  <2>6. CASE Replace(t)
    BY <2>6 DEF Replace
  <2>7. CASE SaveRaises(t)
    BY <2>7 DEF SaveRaises, Raise, AtRest
  <2>8. CASE Send(t)
    BY <2>8 DEF Send, AtRest
  <2>9. CASE SendRaises(t)
    BY <2>9 DEF SendRaises, AtRest
  <2> HIDE DEF CountInv
  <2> QED
    BY <1>5, <2>1, <2>2, <2>3, <2>4, <2>5, <2>6, <2>7, <2>8, <2>9 DEF Submit, Locked
<1>6. ASSUME NEW t \in Threads, Status(t) PROVE CountInv'
  <2>1. CASE StatusCount(t)
    BY <2>1 DEF StatusCount
  <2>2. CASE StatusWon(t)
    BY <2>2 DEF StatusWon, AtRest
  <2> QED
    BY <1>6, <2>1, <2>2 DEF Status
<1>7. ASSUME NEW t \in Threads, NEW c \in Candidates, Post(t, c) PROVE CountInv'
  BY <1>7 DEF Post
<1>8. CASE UNCHANGED vars
  BY <1>8 DEF vars
<1> HIDE DEF IInv, TypeOK, server, files, threads, history, CountInv, AcceptancesArePaid, PaidFor, LockInv, FileInv, Candidates
<1> QED
  BY <1>1, <1>2, <1>3, <1>4, <1>5, <1>6, <1>7, <1>8 DEF Next, Environment

(* The empty referee satisfies the invariant. *)
LEMMA InitIInv == Init => IInv
<1> SUFFICES ASSUME Init PROVE IInv
  OBVIOUS
<1> USE DEF Init, Empty, NoStatus
<1>0. Empty \in Scores
  BY DEF Scores
<1>1. TypeOK
  <2>1. candidate \in [Threads -> Candidates]
    BY DEF Candidates
  <2>2. temp \in [Threads -> Scores]
    BY <1>0
  <2>3. powerLosses \in 0..MaxPowerLosses
    OBVIOUS
  <2>4. outcome \in [Threads -> Outcomes]
    BY DEF Outcomes
  <2>5. memory \in Scores /\ disk \in Scores /\ synced \in Scores
    BY <1>0
  <2> QED
    BY <2>1, <2>2, <2>3, <2>4, <2>5 DEF TypeOK
<1>2. Cardinality({}) = 0
  BY FS_EmptySet
<1>3. Pending = {}
  BY DEF Pending
<1>4. Recorded = Empty
  BY DEF Recorded, Scores
<1>5. LockInv /\ FileInv /\ BudgetInv /\ ToldInv /\ FirstInv /\ SeenInv
  BY <1>4 DEF LockInv, FileInv, BudgetInv, ToldInv, FirstInv, SeenInv
<1>6. PaidInv
  BY <1>2, <1>3, <1>4 DEF PaidInv
<1>8. CountInv
  BY <1>2 DEF CountInv, AcceptancesArePaid, PaidFor
<1>7. StatusConsistent
  BY <1>2 DEF StatusConsistent
<1> QED
  BY <1>1, <1>5, <1>6, <1>7, <1>8 DEF IInv

(* IInv is an inductive invariant of the referee. *)
THEOREM Invariance == Spec => []IInv
<1>1. IInv /\ [Next]_vars => IInv'
  BY TypeStep, LockStep, FileStep, BudgetStep, PaidStep, ToldStep, FirstStep, SeenStep, StatusStep, CountStep
     DEF IInv
<1> QED
  BY InitIInv, <1>1, PTL DEF Spec

(* Every variable always holds a value of its kind. *)
THEOREM TypeCorrect == Spec => []TypeOK
  BY Invariance, PTL DEF IInv

(* A flag a client was told is accepted is in the state file, through every   *)
(* interleaving of submissions, failed saves and crashes of the process.      *)
THEOREM Durability == Spec => []AnnouncedIsDurable
<1>1. IInv => AnnouncedIsDurable
  BY DEF IInv, ToldInv, AnnouncedIsDurable
<1> QED
  BY Invariance, <1>1, PTL

(* No client gets a judgement that the state file has not counted, nor is any *)
(* configured budget overspent by restarting.                                 *)
THEOREM BudgetKept == Spec => []AnswersArePaid
<1>1. ASSUME IInv PROVE AnswersArePaid
  <2>1. answered \in Nat /\ Recorded.attempts \in Nat
    BY <1>1 DEF IInv, TypeOK, Recorded, Scores, Empty
  <2>2. answered <= Recorded.attempts
    BY <1>1, <2>1, PendingFinite DEF IInv, PaidInv
  <2>3. Recorded.attempts > 0 => \E b \in Budgets : Recorded.attempts <= b
    BY <1>1 DEF IInv, BudgetInv, Recorded, Empty
  <2> QED
    BY <2>2, <2>3 DEF AnswersArePaid
<1> QED
  BY Invariance, <1>1, PTL

(* No flag is announced as newly accepted twice. *)
THEOREM FirstOnce == Spec => []AcceptedOnce
<1>1. IInv => AcceptedOnce
  BY DEF IInv, FirstInv, AcceptedOnce
<1> QED
  BY Invariance, <1>1, PTL

(* The two unlocked reads of the status handler never contradict each other   *)
(* nor run ahead of memory.                                                   *)
THEOREM StatusSound == Spec => []StatusConsistent
  BY Invariance, PTL DEF IInv

(* Memory, the state file and what a power failure leaves of it hold only      *)
(* flags somebody submitted, each paid for by an attempt of its own.          *)
THEOREM Paid == Spec => []AcceptancesArePaid
<1>1. IInv => AcceptancesArePaid
  BY DEF IInv, CountInv
<1> QED
  BY Invariance, <1>1, PTL

(* A judgement that reaches the file is a Record step of the scoreboard, an     *)
(* answer that leaves is an Answer step, and everything else, a crash or a    *)
(* restart included, is invisible.                                            *)
LEMMA StepRefines ==
    ASSUME MaxPowerLosses = 0, IInv, IInv', [Next]_vars
    PROVE  [Board!Next]_<<Recorded.accepted, Recorded.attempts, announced, answered>>
<1> DEFINE seenBoard == <<Recorded.accepted, Recorded.attempts, announced, answered>>
<1> USE DEF server, files, threads, history
<1>1. ASSUME UNCHANGED <<disk, announced, answered>> PROVE UNCHANGED seenBoard
  BY <1>1 DEF Recorded
<1>2. CASE Start \/ Crash \/ Writeback \/ UNCHANGED vars
  BY <1>1, <1>2 DEF Start, Crash, Writeback, vars
<1>3. CASE PowerLoss
  BY <1>3 DEF PowerLoss, IInv, TypeOK
<1>4. ASSUME NEW t \in Threads, Status(t) \/ (\E c \in Candidates : Post(t, c))
      PROVE UNCHANGED seenBoard
  BY <1>1, <1>4 DEF Status, StatusCount, StatusWon, Post
<1>5. ASSUME NEW t \in Threads, Replace(t) PROVE Board!Record
  <2>1. /\ disk' = memory /\ memory \in Scores /\ Recorded' = memory
        /\ UNCHANGED <<announced, answered>>
    BY <1>5 DEF Replace, IInv, FileInv, TypeOK, Recorded
  <2>2. /\ Recorded.accepted \subseteq memory.accepted
        /\ Recorded.attempts < memory.attempts /\ Recorded.attempts \in Nat
    BY <1>5 DEF Replace, IInv, FileInv, LockInv, TypeOK, Recorded, Scores, Empty
  <2>3. \E b \in Budgets : memory.attempts <= b
    BY <2>1, <2>2 DEF IInv, BudgetInv, Scores
  <2>4. Cardinality(memory.accepted) <= memory.attempts
    BY DEF IInv, CountInv, AcceptancesArePaid, PaidFor
  <2>5. Board!Cardinality(memory.accepted) = Cardinality(memory.accepted)
    BY DEF Board!Cardinality, Cardinality
  <2> QED
    BY <2>1, <2>2, <2>3, <2>4, <2>5 DEF Board!Record, Scores
<1>6. ASSUME NEW t \in Threads, Send(t) PROVE [Board!Next]_seenBoard
  <2>1. disk' = disk /\ Recorded' = Recorded
    BY <1>6 DEF Send, Recorded
  <2>2. CASE outcome[t] = "budget_exhausted"
    BY <1>6, <2>2, <1>1 DEF Send
  <2>3. CASE outcome[t] # "budget_exhausted"
    <3>1. answered' = answered + 1
      BY <1>6, <2>3 DEF Send
    <3>2. answered' <= Recorded.attempts
      <4>1. answered' \in Nat /\ Cardinality(Pending') \in Nat /\ Recorded'.attempts \in Nat
        <5>1. Pending' \subseteq Threads
          BY DEF Pending
        <5> QED
          BY <5>1, FS_Subset, FS_CardinalityType DEF IInv, TypeOK, Recorded, Scores, Empty
      <4>2. answered' + Cardinality(Pending') <= Recorded'.attempts
        BY DEF IInv, PaidInv
      <4> QED
        BY <2>1, <4>1, <4>2
    <3>3. answered < Recorded.attempts
      BY <3>1, <3>2 DEF IInv, TypeOK, Recorded, Scores, Empty
    <3>4. \/ announced' = announced
          \/ \E f \in Recorded.accepted : announced' = announced \cup {f}
      BY <1>6 DEF Send, IInv, ToldInv
    <3> QED
      BY <2>1, <3>1, <3>3, <3>4 DEF Board!Next, Board!Answer
  <2> QED
    BY <2>2, <2>3
<1>7. ASSUME NEW t \in Threads,
             \/ Exhausted(t) \/ Admit(t) \/ CompareRaises(t) \/ Compare(t)
             \/ Write(t) \/ SaveRaises(t) \/ SendRaises(t)
      PROVE UNCHANGED seenBoard
  BY <1>1, <1>7
     DEF Exhausted, Admit, CompareRaises, Compare, Write, SaveRaises, SendRaises, Raise
<1>8. ASSUME NEW t \in Threads, Submit(t) PROVE [Board!Next]_seenBoard
  BY <1>5, <1>6, <1>7, <1>8 DEF Submit, Locked, Board!Next
<1>9. ASSUME NEW t \in Threads,
             Submit(t) \/ Status(t) \/ (\E c \in Candidates : Post(t, c))
      PROVE [Board!Next]_seenBoard
  BY <1>4, <1>8, <1>9
<1>10. [Board!Next]_seenBoard
  <2>1. CASE Next
    BY <1>2, <1>3, <1>9, <2>1 DEF Next, Environment
  <2>2. CASE UNCHANGED vars
    BY <1>2, <2>2
  <2> QED
    BY <2>1, <2>2
<1> QED
  BY <1>10 DEF seenBoard

(* While the host keeps its power, the referee implements the scoreboard.      *)
THEOREM Implements == MaxPowerLosses = 0 => (Spec => ScoreboardSpec)
<1> SUFFICES ASSUME MaxPowerLosses = 0 PROVE Spec => ScoreboardSpec
  OBVIOUS
<1>1. Init => Board!Init
  BY DEF Init, Board!Init, Recorded, Empty, Scores
<1>2. IInv /\ IInv' /\ [Next]_vars => [Board!Next]_Board!vars
  BY StepRefines DEF Board!vars
<1> QED
  BY <1>1, <1>2, Invariance, PTL DEF Spec, ScoreboardSpec, Board!Spec
=============================================================================
