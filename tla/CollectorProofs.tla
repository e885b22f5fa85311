-------------------------- MODULE CollectorProofs --------------------------
(* Machine-checked proofs about Collector, for any number of lines, cuts,     *)
(* scans and restarts.                                                        *)
EXTENDS Collector, SelectionsProofs

----------------------------------------------------------------------------
(* The invariant                                                           *)

Pieces == [n : Lines, part : Parts]
Finds == [kind : {"line"}, n : Lines] \cup [kind : {"scan"}, n : Scans]

ALine(n) == [kind |-> "line", n |-> n]
AScan(s) == [kind |-> "scan", n |-> s]

FileTypes ==
    /\ log \in [inode : 1..(MaxCuts + 1), pieces : Seq(Pieces), cuts : 0..MaxCuts]
    /\ written \in 0..MaxLines
    /\ odd \subseteq Lines
    /\ aside \subseteq Scans /\ stamps \in [Scans -> 0..MaxClock]
    /\ result \in [scan : 0..MaxScans, mtime : 0..MaxClock]

CollectorTypes ==
    /\ pc \in {"down", "idle", "open", "result", "load", "emit"}
    /\ runtime \in Runtimes /\ saved \in Runtimes
    /\ looked \in Nat /\ found \in Seq(Finds)
    /\ taken \in [line : [Lines -> Nat], scan : [Scans -> Nat]]
    /\ torn \subseteq Lines
    /\ rewinds \in Nat /\ swaps \in Nat

Types == FileTypes /\ CollectorTypes

(* A log holds its lines in order, each as one piece or two, and the last one *)
(* may wait for its rest; inodes and cuts are counted together.               *)
LogInv ==
    /\ log.inode <= log.cuts + 1
    /\ Len(log.pieces) <= 2 * written
    /\ Halfway => Len(log.pieces) < 2 * written /\ log.pieces[Len(log.pieces)].n = written
    /\ \A i \in DOMAIN log.pieces : log.pieces[i].n <= written
    /\ \A i, j \in DOMAIN log.pieces :
          i < j /\ log.pieces[j].part # "rest" => log.pieces[i].n < log.pieces[j].n
    /\ \A i \in DOMAIN log.pieces : log.pieces[i].part = "rest" =>
          /\ i - 1 \in DOMAIN log.pieces /\ log.pieces[i - 1].part \in {"stub", "head"}
          /\ log.pieces[i - 1].n = log.pieces[i].n

(* Where the collector is, and what it has in hand there.                     *)
PlaceInv ==
    /\ pc = "idle" => runtime = saved
    /\ pc \in {"down", "idle", "open"} => found = <<>>
    /\ pc \in {"result", "load"} => \A i \in DOMAIN found : found[i].kind = "line"
    /\ \A i \in DOMAIN found : found[i].kind = "scan" => i = Len(found)
    /\ \A i, j \in DOMAIN found : i < j => found[i] # found[j]
    /\ pc = "open" =>
          /\ looked <= log.cuts
          /\ looked = log.cuts => runtime.inode = log.inode /\ runtime.offset <= Len(log.pieces)
    /\ pc = "load" =>
          /\ runtime.mtime < looked /\ result.scan # 0
          /\ \E s \in Placed : stamps[s] = looked

(* The log the places speak of is not newer than the one that is there, a     *)
(* result in place is that of its scan, and one aside has its time.           *)
FilesInv ==
    /\ runtime.inode <= log.inode /\ saved.inode <= log.inode
    /\ result.scan # 0 => result.scan \in Placed /\ stamps[result.scan] = result.mtime
    /\ result.scan = 0 => result.mtime = 0
    /\ \A s \in aside : stamps[s] # 0

Held == {found[i] : i \in DOMAIN found}

(* Where a look at the log l, from the places r, will have it read from. *)
From(l, r) == IF r.inode # l.inode \/ Len(l.pieces) < r.offset THEN 0 ELSE r.offset

(* A line that is still to be read from there, w being begun; and a scan, with  *)
(* the result res in place and in those that were.                           *)
Ahead(l, w, r, n) ==
    \/ n > w
    \/ \E i \in DOMAIN l.pieces :
          i > From(l, r) /\ l.pieces[i].n = n /\ l.pieces[i].part # "rest"

Coming(in, res, r, s) == s \notin in \/ (s = res.scan /\ r.mtime < res.mtime)

Place == IF pc = "down" THEN saved ELSE runtime

One(b) == IF b THEN 1 ELSE 0

(* What is in hand, and what is still to be read from the places r, counts as  *)
(* evidence already.                                                         *)
Due(r, f) ==
    /\ \A n \in Lines :
          taken.line[n] + One(ALine(n) \in f) + One(Ahead(log, written, r, n)) <= 1 + rewinds + swaps
    /\ \A s \in Scans :
          taken.scan[s] + One(AScan(s) \in f) + One(Coming(Placed, result, r, s)) <= 1 + rewinds + swaps

(* Before the events of a tick the places that were saved are as good.       *)
OnceInv ==
    /\ Due(Place, Held)
    /\ pc # "emit" => Due(saved, {})

(* Accounted for: lines found torn, and what is evidence or among the finds f *)
(* in hand.                                                                  *)
LinesSure(f) == {n \in Lines : n \in torn \/ taken.line[n] > 0 \/ ALine(n) \in f}

ScansSure(f) == {s \in Scans : taken.scan[s] > 0 \/ AScan(s) \in f}

(* In a log l that was never truncated, every line behind the places r is      *)
(* among the sure ones, and so is a last one of which a part was read.       *)
Passed(l, r, broken, sure) ==
    l.inode = l.cuts + 1 /\ r.inode = l.inode =>
        /\ r.offset <= Len(l.pieces)
        /\ r.offset > 0 /\ l.pieces[r.offset].part = "stub" => l.pieces[r.offset].n \in broken
        /\ \A i \in 1..r.offset : l.pieces[i].part = "stub" \/ l.pieces[i].n \in sure

(* The times of scans whose result was in place and was read, or exchanged     *)
(* before it was opened: what the places may have as the last time.          *)
TimesSure(f) ==
    {stamps[s] : s \in {t \in Placed : t \in ScansSure(f) \/ (t # result.scan /\ swaps > 0)}}

BehindInv ==
    /\ Passed(log, runtime, torn, LinesSure(Held)) /\ Passed(log, saved, torn, LinesSure({}))
    /\ runtime.mtime # 0 => runtime.mtime \in TimesSure(Held)
    /\ saved.mtime # 0 => saved.mtime \in TimesSure({})

(* The process ends, for whatever reason. *)
Stop == ReadRaises \/ LoadRaises \/ Die

IInv == Types /\ LogInv /\ PlaceInv /\ FilesInv /\ OnceInv /\ BehindInv

----------------------------------------------------------------------------
(* What a read finds, and what an event takes                               *)

LEMMA Bounds == {MaxLines, MaxCuts, MaxScans, MaxClock, MaxRewinds} \subseteq Nat
  BY BoundAssumption

(* A read finds each line that matches once, and nothing else.               *)
LEMMA LinesFacts ==
    ASSUME Types, LogInv, NEW U \in SUBSET DOMAIN log.pieces
    PROVE  LET f == LinesOf(U) IN
           /\ f \in Seq(Finds)
           /\ \A i \in DOMAIN f : f[i].kind = "line"
           /\ \A i, j \in DOMAIN f : i < j => f[i] # f[j]
           /\ \A i \in DOMAIN f : \E k \in U : Matches(k) /\ f[i] = ALine(log.pieces[k].n)
           /\ \A k \in U : Matches(k) => \E i \in DOMAIN f : f[i] = ALine(log.pieces[k].n)
<1> DEFINE K == {i \in U : Matches(i)}
           c == Cardinality(K)
<1>1. log.pieces \in Seq(Pieces) /\ K \in SUBSET DOMAIN log.pieces
  BY DEF Types, FileTypes
<1>2. LinesOf(U) = [k \in DOMAIN Selected(log.pieces, K) |->
                      [kind |-> "line", n |-> Selected(log.pieces, K)[k].n]]
  BY DEF LinesOf
<1> HIDE DEF K
<1>3. /\ Selected(log.pieces, K) \in Seq(Pieces) /\ Len(Selected(log.pieces, K)) = Cardinality(K)
      /\ Cardinality(K) \in Nat
      /\ Ascending(K) \in [1..Cardinality(K) -> K]
      /\ \A k \in 1..Cardinality(K) : Selected(log.pieces, K)[k] = log.pieces[Ascending(K)[k]]
      /\ \A i, j \in 1..Cardinality(K) : i < j => Ascending(K)[i] < Ascending(K)[j]
      /\ \A k \in K : \E i \in 1..Cardinality(K) : Ascending(K)[i] = k
  BY <1>1, SelectedFacts
<1> HIDE DEF c
<1>4. \E lines, p :
        /\ lines = Selected(log.pieces, K) /\ lines \in Seq(Pieces) /\ Len(lines) = c /\ c \in Nat
        /\ p \in [1..c -> K]
        /\ \A k \in 1..c : lines[k] = log.pieces[p[k]]
        /\ \A i, j \in 1..c : i < j => p[i] < p[j]
        /\ \A k \in K : \E i \in 1..c : p[i] = k
  <2> WITNESS Selected(log.pieces, K), Ascending(K)
  <2> QED
    BY <1>3 DEF c
<1>5. PICK lines, p :
        /\ lines = Selected(log.pieces, K) /\ lines \in Seq(Pieces) /\ Len(lines) = c /\ c \in Nat
        /\ p \in [1..c -> K]
        /\ \A k \in 1..c : lines[k] = log.pieces[p[k]]
        /\ \A i, j \in 1..c : i < j => p[i] < p[j]
        /\ \A k \in K : \E i \in 1..c : p[i] = k
  BY <1>4
<1> DEFINE f == [k \in DOMAIN lines |-> [kind |-> "line", n |-> lines[k].n]]
<1>6. \A k \in K : k \in U /\ Matches(k) /\ log.pieces[k] \in Pieces /\ log.pieces[k].part # "rest"
  BY <1>1 DEF Matches, K
<1>7. DOMAIN lines = 1..c /\ c \in Nat
  BY <1>5
<1>8. DOMAIN f = 1..c /\ \A k \in 1..c : p[k] \in K /\ f[k] = ALine(log.pieces[p[k]].n)
  BY <1>5, <1>7 DEF ALine
<1> HIDE DEF f
<1>9. \A k \in 1..c : f[k] \in Finds /\ f[k].kind = "line"
  BY <1>6, <1>8 DEF ALine, Finds, Pieces
<1>10. f \in Seq(Finds)
  <2>1. f = [k \in 1..c |-> f[k]]
    BY <1>7 DEF f
  <2> QED
    BY <1>7, <1>9, <2>1
<1>11. ASSUME NEW i \in 1..c, NEW j \in 1..c, i < j PROVE f[i] # f[j]
  <2>1. p[i] < p[j] /\ p[i] \in K /\ p[j] \in K
    BY <1>5, <1>11
  <2>2. log.pieces[p[i]].n < log.pieces[p[j]].n
    BY <1>1, <1>6, <2>1 DEF LogInv
  <2>3. log.pieces[p[i]].n \in Nat /\ log.pieces[p[j]].n \in Nat
    BY <1>6, <2>1 DEF Pieces, Lines
  <2> QED
    BY <1>8, <2>2, <2>3 DEF ALine
<1>12. \A k \in U : Matches(k) => \E i \in 1..c : f[i] = ALine(log.pieces[k].n)
  <2>1. \A k \in K : \E i \in 1..c : p[i] = k
    BY <1>5
  <2> QED
    BY <1>8, <2>1 DEF K
<1>13. LinesOf(U) = f
  BY <1>2, <1>5 DEF f
<1> QED
  BY <1>6, <1>8, <1>9, <1>10, <1>11, <1>12, <1>13

(* An event takes the first of the finds, which does not come twice.         *)
LEMMA EmitFacts ==
    ASSUME Types, PlaceInv, Emit, NEW x, x = Head(found)
    PROVE  /\ x \in Finds /\ found' = Tail(found) /\ found' \in Seq(Finds)
           /\ Held = {x} \cup Held' /\ x \notin Held'
           /\ taken' \in [line : [Lines -> Nat], scan : [Scans -> Nat]]
           /\ \A n \in Lines : taken'.line[n] = taken.line[n] + One(x = ALine(n))
           /\ \A s \in Scans : taken'.scan[s] = taken.scan[s] + One(x = AScan(s))
<1>1. found \in Seq(Finds) /\ found # <<>> /\ found' = Tail(found)
  BY DEF Emit, Types, CollectorTypes
<1>2. /\ x = found[1] /\ x \in Finds /\ Len(found) \in Nat /\ Len(found) > 0
      /\ found' \in Seq(Finds) /\ Len(found') = Len(found) - 1
      /\ \A i \in 1..Len(found') : found'[i] = found[i + 1]
  BY <1>1
<1>3. Held = {x} \cup Held'
  <2>1. DOMAIN found = 1..Len(found) /\ DOMAIN found' = 1..Len(found')
    BY <1>1, <1>2
  <2>2. \A y \in Held : y = x \/ y \in Held'
    <3> SUFFICES ASSUME NEW i \in 1..Len(found) PROVE found[i] = x \/ found[i] \in Held'
      BY <2>1 DEF Held
    <3>1. CASE i = 1
      BY <1>2, <3>1
    <3>2. CASE i # 1
      <4>1. i - 1 \in 1..Len(found') /\ found'[i - 1] = found[i]
        BY <1>2, <3>2
      <4> QED
        BY <2>1, <4>1 DEF Held
    <3> QED
      BY <3>1, <3>2
  <2>3. \A y \in Held' : y \in Held
    BY <1>2, <2>1 DEF Held
  <2>4. x \in Held
    BY <1>2, <2>1 DEF Held
  <2> QED
    BY <2>2, <2>3, <2>4
<1>4. x \notin Held'
  <2>1. DOMAIN found = 1..Len(found) /\ DOMAIN found' = 1..Len(found')
    BY <1>1, <1>2
  <2> SUFFICES ASSUME NEW i \in 1..Len(found'), found'[i] = x PROVE FALSE
    BY <2>1 DEF Held
  <2>2. 1 \in DOMAIN found /\ i + 1 \in DOMAIN found /\ 1 < i + 1 /\ found[i + 1] = found[1]
    BY <1>2, <2>1
  <2> QED
    BY <2>2 DEF PlaceInv
<1>5. taken' = [taken EXCEPT ![x.kind][x.n] = @ + 1] /\ taken \in [line : [Lines -> Nat], scan : [Scans -> Nat]]
  BY DEF Emit, Types, CollectorTypes
<1>6. CASE x.kind = "line"
  <2>1. x.n \in Lines /\ x = ALine(x.n) /\ \A m : x # AScan(m)
    BY <1>2, <1>6 DEF Finds, ALine, AScan
  <2>2. taken' = [taken EXCEPT ![x.kind] = [taken[x.kind] EXCEPT ![x.n] = taken[x.kind][x.n] + 1]]
    BY <1>5
  <2>3. /\ taken'["line"] = [taken["line"] EXCEPT ![x.n] = taken["line"][x.n] + 1]
        /\ taken'["scan"] = taken["scan"] /\ DOMAIN taken' = {"line", "scan"}
    BY <1>5, <1>6, <2>2
  <2>4. /\ taken'.line = [taken.line EXCEPT ![x.n] = taken.line[x.n] + 1]
        /\ taken'.scan = taken.scan
        /\ taken' \in [line : [Lines -> Nat], scan : [Scans -> Nat]]
    BY <1>5, <2>1, <2>2, <2>3
  <2>5. \A m \in Lines : x = ALine(m) <=> x.n = m
    BY <2>1 DEF ALine
  <2>6. \A m \in Lines : taken'.line[m] = taken.line[m] + One(x = ALine(m))
    BY <1>5, <2>1, <2>4, <2>5 DEF One
  <2>7. \A m \in Scans : taken'.scan[m] = taken.scan[m] + One(x = AScan(m))
    BY <1>5, <2>1, <2>4 DEF One
  <2> QED
    BY <1>1, <1>2, <1>3, <1>4, <2>4, <2>6, <2>7
<1>7. CASE x.kind = "scan"
  <2>1. x.n \in Scans /\ x = AScan(x.n) /\ \A m : x # ALine(m)
    BY <1>2, <1>7 DEF Finds, ALine, AScan
  <2>2. taken' = [taken EXCEPT ![x.kind] = [taken[x.kind] EXCEPT ![x.n] = taken[x.kind][x.n] + 1]]
    BY <1>5
  <2>3. /\ taken'["scan"] = [taken["scan"] EXCEPT ![x.n] = taken["scan"][x.n] + 1]
        /\ taken'["line"] = taken["line"] /\ DOMAIN taken' = {"line", "scan"}
    BY <1>5, <1>7, <2>2
  <2>4. /\ taken'.scan = [taken.scan EXCEPT ![x.n] = taken.scan[x.n] + 1]
        /\ taken'.line = taken.line
        /\ taken' \in [line : [Lines -> Nat], scan : [Scans -> Nat]]
    BY <1>5, <2>1, <2>2, <2>3
  <2>5. \A m \in Scans : x = AScan(m) <=> x.n = m
    BY <2>1 DEF AScan
  <2>6. \A m \in Scans : taken'.scan[m] = taken.scan[m] + One(x = AScan(m))
    BY <1>5, <2>1, <2>4, <2>5 DEF One
  <2>7. \A m \in Lines : taken'.line[m] = taken.line[m] + One(x = ALine(m))
    BY <1>5, <2>1, <2>4 DEF One
  <2> QED
    BY <1>1, <1>2, <1>3, <1>4, <2>4, <2>6, <2>7
<1> QED
  BY <1>2, <1>6, <1>7 DEF Finds

----------------------------------------------------------------------------
(* Every step keeps the kinds of values and the shape of the log            *)

LEMMA Initially == Init => IInv
<1> SUFFICES ASSUME Init PROVE IInv
  OBVIOUS
<1> USE DEF Init
<1>1. Types
  <2>1. FreshRuntime \in Runtimes
    BY Bounds DEF FreshRuntime, Runtimes
  <2>2. log \in [inode : 1..(MaxCuts + 1), pieces : Seq(Pieces), cuts : 0..MaxCuts]
    BY Bounds
  <2>3. /\ written \in 0..MaxLines /\ result \in [scan : 0..MaxScans, mtime : 0..MaxClock]
        /\ odd \subseteq Lines /\ aside \subseteq Scans /\ stamps \in [Scans -> 0..MaxClock]
        /\ taken \in [line : [Lines -> Nat], scan : [Scans -> Nat]]
    BY Bounds
  <2> QED
    BY <2>1, <2>2, <2>3 DEF Types, FileTypes, CollectorTypes
<1>2. LogInv
  BY DEF LogInv, Halfway, LastPart
<1>3. PlaceInv
  BY DEF PlaceInv, FreshRuntime
<1>4. FilesInv
  BY DEF FilesInv, FreshRuntime
<1>5. OnceInv
  <2>1. Held = {}
    BY DEF Held
  <2>2. ASSUME NEW r PROVE Due(r, {})
    BY DEF Due, One
  <2> QED
    BY <2>1, <2>2 DEF OnceInv
<1>6. BehindInv
  <2>1. Passed(log, FreshRuntime, torn, LinesSure(Held)) /\ Passed(log, FreshRuntime, torn, LinesSure({}))
    BY DEF Passed, FreshRuntime
  <2>2. FreshRuntime.mtime = 0
    BY DEF FreshRuntime
  <2> QED
    BY <2>1, <2>2 DEF BehindInv
<1> QED
  BY <1>1, <1>2, <1>3, <1>4, <1>5, <1>6 DEF IInv

(* An end of the process, for whatever reason.                               *)
LEMMA StopFacts == ASSUME Stop PROVE Ends /\ pc # "down"
  BY DEF Stop, ReadRaises, LoadRaises, Die

(* The collector, its ends and restarts leave the files alone.               *)
LEMMA FilesKept ==
    ASSUME Collect \/ Stop \/ Load \/ LoadDefault \/ UNCHANGED vars
    PROVE  UNCHANGED files
<1>1. CASE Stop
  BY <1>1, StopFacts DEF Ends
<1> QED
  BY <1>1 DEF Collect, Look, Read, NoLog, LookAtResult, LoadResult, NoResult, Emit, Save, Load,
              LoadDefault, vars

(* What the scanner does leaves all else, and what was in place counts as such. *)
Scanner == \E s \in Scans : WriteResult(s) \/ ReplaceResult(s) \/ ScanFails(s)

LEMMA ScannerFacts ==
    ASSUME Types, FilesInv, Scanner
    PROVE  /\ UNCHANGED <<log, written, odd, collector>>
           /\ aside' \subseteq Scans /\ stamps' \in [Scans -> 0..MaxClock]
           /\ \A s \in aside' : stamps'[s] # 0
           /\ \A s \in Placed : s \in Placed' /\ stamps'[s] = stamps[s]
           /\ \/ result' = result /\ Placed' = Placed
              \/ \E s \in Placed' \ Placed :
                    /\ Placed' = Placed \cup {s}
                    /\ result' = [scan |-> s, mtime |-> stamps'[s]]
<1>1. /\ stamps \in [Scans -> 0..MaxClock] /\ aside \subseteq Scans /\ MaxClock \in Nat
      /\ \A s \in aside : stamps[s] # 0
  BY Bounds DEF Types, FileTypes, FilesInv
<1>2. PICK s \in Scans : WriteResult(s) \/ ReplaceResult(s) \/ ScanFails(s)
  BY DEF Scanner
<1>3. CASE WriteResult(s)
  <2>1. PICK mtime \in 1..MaxClock : stamps' = [stamps EXCEPT ![s] = mtime]
    BY <1>3 DEF WriteResult
  <2>2. /\ stamps[s] = 0 /\ aside' = aside \cup {s} /\ UNCHANGED <<log, written, odd, result, collector>>
    BY <1>3 DEF WriteResult
  <2>3. mtime \in 0..MaxClock /\ mtime # 0
    BY <1>1
  <2>4. \A t \in Scans \ {s} : stamps'[t] = stamps[t]
    BY <1>1, <2>1
  <2>5. s \notin Placed /\ Placed' = Placed
    BY <1>1, <2>2, <2>4 DEF Placed
  <2> QED
    BY <1>1, <2>1, <2>2, <2>3, <2>4, <2>5 DEF Placed
<1>4. CASE ReplaceResult(s)
  <2>1. /\ s \in aside /\ aside' = aside \ {s} /\ UNCHANGED <<log, written, odd, stamps, collector>>
        /\ result' = [scan |-> s, mtime |-> stamps'[s]]
    BY <1>4 DEF ReplaceResult
  <2>2. s \in Placed' \ Placed /\ Placed' = Placed \cup {s}
    BY <1>1, <2>1 DEF Placed
  <2> QED
    BY <1>1, <2>1, <2>2 DEF Placed
<1>5. CASE ScanFails(s)
  <2>1. /\ s \in aside /\ aside' = aside \ {s} /\ UNCHANGED <<log, written, odd, result, collector>>
        /\ stamps' = [stamps EXCEPT ![s] = 0]
    BY <1>5 DEF ScanFails
  <2>2. stamps'[s] = 0 /\ \A t \in Scans \ {s} : stamps'[t] = stamps[t]
    BY <1>1, <2>1
  <2>3. s \notin Placed /\ Placed' = Placed
    BY <1>1, <2>1, <2>2 DEF Placed
  <2> QED
    BY <1>1, <2>1, <2>2, <2>3 DEF Placed
<1> QED
  BY <1>2, <1>3, <1>4, <1>5

(* Nginx, its log's rotation and the scanner keep the files' kinds of values. *)
LEMMA FileTypesKept == ASSUME IInv, World PROVE FileTypes'
<1>0. /\ MaxLines \in Nat /\ MaxCuts \in Nat /\ MaxScans \in Nat /\ MaxClock \in Nat
      /\ log.inode \in 1..(MaxCuts + 1) /\ log.pieces \in Seq(Pieces) /\ log.cuts \in 0..MaxCuts
      /\ log = [inode |-> log.inode, pieces |-> log.pieces, cuts |-> log.cuts]
      /\ FileTypes /\ LogInv
  BY Bounds DEF IInv, Types, FileTypes
<1>1. ASSUME NEW piece \in Pieces, log' = [log EXCEPT !.pieces = Append(@, piece)]
      PROVE  log' \in [inode : 1..(MaxCuts + 1), pieces : Seq(Pieces), cuts : 0..MaxCuts]
  <2>1. Append(log.pieces, piece) \in Seq(Pieces)
    BY <1>0
  <2>2. log' = [inode |-> log.inode, pieces |-> Append(log.pieces, piece), cuts |-> log.cuts]
    BY <1>0, <1>1
  <2> QED
    BY <1>0, <2>1, <2>2
<1>2. ASSUME NEW part \in Parts \ {"rest"}, WriteLine(part) PROVE FileTypes'
  <2>0. written + 1 \in Lines /\ written' = written + 1 /\ part \in Parts
    BY <1>0, <1>2 DEF WriteLine, Lines, FileTypes
  <2>1. [n |-> written + 1, part |-> part] \in Pieces /\ written' \in 0..MaxLines
    BY <1>0, <2>0 DEF Pieces, Lines
  <2>2. log' = [log EXCEPT !.pieces = Append(@, [n |-> written + 1, part |-> part])]
    BY <1>2 DEF WriteLine, Put
  <2>3. log' \in [inode : 1..(MaxCuts + 1), pieces : Seq(Pieces), cuts : 0..MaxCuts]
    BY <1>1, <2>1, <2>2
  <2> QED
    BY <1>0, <1>2, <2>0, <2>1, <2>3 DEF WriteLine, Put, scanner, FileTypes
<1>3. CASE WriteRest
  <2>1. Halfway /\ log' = [log EXCEPT !.pieces = Append(@, [n |-> written, part |-> "rest"])]
    BY <1>3 DEF WriteRest, Put
  <2>2. Len(log.pieces) \in DOMAIN log.pieces /\ log.pieces[Len(log.pieces)].n = written
    BY <1>0, <2>1 DEF Halfway, LastPart, LogInv
  <2>3. written \in Lines
    <3>1. log.pieces[Len(log.pieces)] \in Pieces
      BY <1>0, <2>2
    <3> QED
      BY <2>2, <3>1 DEF Pieces
  <2>4. [n |-> written, part |-> "rest"] \in Pieces
    BY <2>3 DEF Pieces, Parts
  <2>5. log' \in [inode : 1..(MaxCuts + 1), pieces : Seq(Pieces), cuts : 0..MaxCuts]
    BY <1>1, <2>1, <2>4
  <2> QED
    BY <1>0, <1>3, <2>5 DEF WriteRest, Put, scanner, FileTypes
<1>4. ASSUME NEW i, i \in {log.inode, log.inode + 1}, Cut(i) PROVE FileTypes'
  <2>1. log.inode <= log.cuts + 1
    BY <1>0 DEF LogInv
  <2>2. i \in 1..(MaxCuts + 1) /\ log.cuts + 1 \in 0..MaxCuts
    BY <1>0, <1>4, <2>1 DEF Cut
  <2>3. <<>> \in Seq(Pieces)
    OBVIOUS
  <2>4. log' \in [inode : 1..(MaxCuts + 1), pieces : Seq(Pieces), cuts : 0..MaxCuts]
    BY <1>4, <2>2, <2>3 DEF Cut
  <2> QED
    BY <1>0, <1>4, <2>4 DEF Cut, scanner, FileTypes
<1>5. CASE Scanner
  <2>1. /\ UNCHANGED <<log, written, odd>> /\ aside' \subseteq Scans /\ stamps' \in [Scans -> 0..MaxClock]
        /\ \/ result' = result
           \/ \E s \in Placed' : result' = [scan |-> s, mtime |-> stamps'[s]]
    BY <1>5, ScannerFacts DEF IInv
  <2>2. Placed' \subseteq 0..MaxScans /\ Placed' \subseteq Scans
    BY <1>0 DEF Placed, Scans
  <2>3. result' \in [scan : 0..MaxScans, mtime : 0..MaxClock]
    BY <1>0, <2>1, <2>2 DEF FileTypes
  <2> QED
    BY <1>0, <2>1, <2>3 DEF FileTypes
<1> QED
  BY <1>2, <1>3, <1>4, <1>5 DEF World, Rotate, Truncate, Scanner

(* The collector, and a restart, keep the kinds of its values.                *)
LEMMA CollectorTypesKept ==
    ASSUME IInv, Collect \/ Stop \/ Load \/ LoadDefault PROVE CollectorTypes'
<1>0. /\ MaxLines \in Nat /\ MaxCuts \in Nat /\ MaxScans \in Nat /\ MaxClock \in Nat
      /\ log.inode \in 1..(MaxCuts + 1) /\ log.pieces \in Seq(Pieces) /\ log.cuts \in 0..MaxCuts
      /\ Len(log.pieces) \in 0..(2 * MaxLines)
      /\ Types /\ FileTypes /\ CollectorTypes /\ LogInv /\ PlaceInv
  <2>1. Len(log.pieces) <= 2 * written /\ written \in 0..MaxLines /\ log.pieces \in Seq(Pieces)
    BY DEF IInv, LogInv, Types, FileTypes
  <2>2. Len(log.pieces) \in 0..(2 * MaxLines)
    BY <2>1, Bounds
  <2> QED
    BY <2>2, Bounds DEF IInv, Types, FileTypes
<1>1. CASE Look
  <2>1. log.inode \in 0..(MaxCuts + 1) /\ 0 \in 0..(2 * MaxLines) /\ runtime \in Runtimes
        /\ looked' \in Nat
    BY <1>0, <1>1 DEF Look, CollectorTypes
  <2>2. [runtime EXCEPT !.inode = log.inode, !.offset = 0] \in Runtimes
    BY <2>1 DEF Runtimes
  <2>3. runtime' \in Runtimes
    BY <1>1, <2>1, <2>2 DEF Look
  <2> QED
    BY <1>0, <1>1, <2>1, <2>3 DEF Look, CollectorTypes
<1>2. CASE Read
  <2>1. runtime' \in Runtimes
    BY <1>0, <1>2 DEF Read, Runtimes, CollectorTypes
  <2>2. found' \in Seq(Finds)
    <3>1. Unread \in SUBSET DOMAIN log.pieces
      BY DEF Unread
    <3>2. LinesOf(Unread) \in Seq(Finds)
      BY <1>0, <3>1, LinesFacts
    <3> QED
      BY <1>2, <3>2 DEF Read
  <2>3. torn' \subseteq Lines
    <3>1. Unread # {} => log.pieces[Len(log.pieces)].n \in Lines
      <4>1. Unread # {} => Len(log.pieces) \in DOMAIN log.pieces
        BY <1>0 DEF Unread
      <4>2. Unread # {} => log.pieces[Len(log.pieces)] \in Pieces
        BY <1>0, <4>1
      <4> QED
        BY <4>2 DEF Pieces
    <3> QED
      BY <1>0, <1>2, <3>1 DEF Read, CollectorTypes
  <2>4. swaps' \in Nat /\ looked' \in Nat /\ pc' = "result" /\ UNCHANGED <<saved, taken, rewinds>>
    BY <1>0, <1>2 DEF Read, CollectorTypes
  <2> QED
    BY <1>0, <2>1, <2>2, <2>3, <2>4 DEF CollectorTypes
<1>3. CASE NoLog \/ NoResult \/ Save \/ Load
  BY <1>0, <1>3 DEF NoLog, NoResult, Save, Load, CollectorTypes
<1>4. CASE LookAtResult
  BY <1>0, <1>4 DEF LookAtResult, CollectorTypes, FileTypes
<1>5. CASE LoadResult
  <2>1. looked \in 0..MaxClock /\ result.scan \in Scans
    <3>1. pc = "load" /\ result.scan # 0
      BY <1>0, <1>5 DEF LoadResult, PlaceInv
    <3>2. PICK s \in Placed : stamps[s] = looked
      BY <1>0, <3>1 DEF PlaceInv
    <3>3. s \in Scans /\ stamps \in [Scans -> 0..MaxClock] /\ result.scan \in 0..MaxScans
      BY <1>0 DEF Placed, FileTypes
    <3> QED
      BY <1>0, <3>1, <3>2, <3>3 DEF Scans
  <2>2. AScan(result.scan) \in Finds
    BY <2>1 DEF AScan, Finds
  <2>3. found' = Append(found, AScan(result.scan))
    BY <1>5 DEF LoadResult, AScan
  <2>4. found' \in Seq(Finds)
    BY <1>0, <2>2, <2>3 DEF CollectorTypes
  <2>5. runtime' \in Runtimes
    BY <1>0, <1>5, <2>1 DEF LoadResult, Runtimes, CollectorTypes
  <2>6. looked' \in Nat /\ swaps' \in Nat /\ pc' = "emit" /\ UNCHANGED <<saved, taken, torn, rewinds>>
    BY <1>0, <1>5 DEF LoadResult, CollectorTypes
  <2> QED
    BY <1>0, <2>4, <2>5, <2>6 DEF CollectorTypes
<1>6. CASE Emit
  <2>1. found' \in Seq(Finds) /\ taken' \in [line : [Lines -> Nat], scan : [Scans -> Nat]]
    BY <1>0, <1>6, EmitFacts
  <2> QED
    BY <1>0, <1>6, <2>1 DEF Emit, CollectorTypes
<1>7. CASE Stop \/ LoadDefault
  <2>1. FreshRuntime \in Runtimes
    BY <1>0 DEF FreshRuntime, Runtimes
  <2>2. <<>> \in Seq(Finds)
    OBVIOUS
  <2>3. /\ runtime' \in Runtimes /\ saved' \in Runtimes /\ found' \in Seq(Finds)
        /\ pc' \in {"down", "idle"} /\ UNCHANGED <<taken, torn, swaps>>
    BY <1>0, <1>7, <2>1, <2>2, StopFacts DEF Ends, LoadDefault, CollectorTypes
  <2>4. looked' \in Nat /\ rewinds' \in Nat
    BY <1>0, <1>7, StopFacts DEF Ends, LoadDefault, CollectorTypes
  <2> QED
    BY <1>0, <2>3, <2>4 DEF CollectorTypes
<1> QED
  BY <1>1, <1>2, <1>3, <1>4, <1>5, <1>6, <1>7 DEF Collect

(* A step of the world, or of the collector, its end or its start.            *)
LEMMA Steps ==
    ASSUME Next
    PROVE  \/ \E part \in Parts \ {"rest"} : WriteLine(part)
           \/ WriteRest \/ Rotate \/ Truncate \/ Scanner
           \/ Collect \/ Stop \/ Load \/ LoadDefault
  BY DEF Next, World, Scanner, Stop

LEMMA TypeStep == ASSUME IInv, Next \/ UNCHANGED vars PROVE Types'
<1>1. FileTypes /\ CollectorTypes
  BY DEF IInv, Types
<1>2. CASE World
  <2>1. UNCHANGED collector
    BY <1>2 DEF World, WriteLine, WriteRest, Put, Rotate, Truncate, Cut, WriteResult, ReplaceResult,
                ScanFails
  <2> QED
    BY <1>1, <1>2, <2>1, FileTypesKept DEF collector, CollectorTypes, Types
<1>3. CASE Collect \/ Stop \/ Load \/ LoadDefault
  BY <1>1, <1>3, FilesKept, CollectorTypesKept DEF files, FileTypes, Types
<1>4. CASE UNCHANGED vars
  BY <1>1, <1>4 DEF vars, files, FileTypes, CollectorTypes, Types
<1> QED
  BY <1>2, <1>3, <1>4 DEF Next, Stop

(* What a write leaves of the log and adds to it.                            *)
LEMMA PutFacts ==
    ASSUME IInv, NEW part, NEW n, Put(part, n)
    PROVE  /\ Len(log.pieces) \in Nat /\ Len(log'.pieces) = Len(log.pieces) + 1
           /\ log'.inode = log.inode /\ log'.cuts = log.cuts
           /\ DOMAIN log.pieces = 1..Len(log.pieces)
           /\ DOMAIN log'.pieces = 1..(Len(log.pieces) + 1)
           /\ \A i \in 1..Len(log.pieces) : log'.pieces[i] = log.pieces[i]
           /\ log'.pieces[Len(log.pieces) + 1] = [n |-> n, part |-> part]
           /\ Halfway' <=> part \in {"stub", "head"}
           /\ UNCHANGED <<scanner, collector>>
<1>1. /\ log.pieces \in Seq(Pieces)
      /\ log = [inode |-> log.inode, pieces |-> log.pieces, cuts |-> log.cuts]
      /\ log' = [log EXCEPT !.pieces = Append(@, [n |-> n, part |-> part])]
  BY DEF IInv, Types, FileTypes, Put
<1>2. /\ log'.pieces = Append(log.pieces, [n |-> n, part |-> part])
      /\ log'.inode = log.inode /\ log'.cuts = log.cuts
  BY <1>1
<1>3. /\ Len(log.pieces) \in Nat /\ Len(log'.pieces) = Len(log.pieces) + 1
      /\ DOMAIN log.pieces = 1..Len(log.pieces)
      /\ DOMAIN log'.pieces = 1..(Len(log.pieces) + 1)
      /\ \A i \in 1..Len(log.pieces) : log'.pieces[i] = log.pieces[i]
      /\ log'.pieces[Len(log.pieces) + 1] = [n |-> n, part |-> part]
  BY <1>1, <1>2
<1>4. LastPart' = part
  <2>1. log'.pieces # <<>>
    BY <1>1, <1>2, <1>3
  <2> QED
    BY <1>3, <2>1 DEF LastPart
<1> QED
  BY <1>2, <1>3, <1>4 DEF Halfway, Put

(* The numbers and the parts of the pieces in a log.                         *)
LEMMA PieceFacts ==
    ASSUME Types
    PROVE  /\ Len(log.pieces) \in Nat /\ DOMAIN log.pieces = 1..Len(log.pieces)
           /\ written \in Nat
           /\ \A i \in DOMAIN log.pieces :
                 /\ log.pieces[i].n \in Lines /\ log.pieces[i].n \in Nat
                 /\ log.pieces[i].part \in Parts
<1>1. log.pieces \in Seq(Pieces) /\ written \in Nat
  BY DEF Types, FileTypes
<1>2. \A i \in DOMAIN log.pieces : log.pieces[i] \in Pieces
  BY <1>1
<1> QED
  BY <1>1, <1>2 DEF Pieces, Lines

LEMMA LogStep == ASSUME IInv, Next \/ UNCHANGED vars PROVE LogInv'
<1>0. Types /\ LogInv
  BY DEF IInv
<1> DEFINE len == Len(log.pieces)
<1>1. /\ len \in Nat /\ DOMAIN log.pieces = 1..len /\ written \in Nat
      /\ \A i \in 1..len : log.pieces[i].n \in Nat
      /\ log.inode \in Nat /\ log.cuts \in Nat
  BY <1>0, PieceFacts DEF Types, FileTypes
<1>2. ASSUME NEW part \in Parts \ {"rest"}, WriteLine(part) PROVE LogInv'
  <2>1. Put(part, written + 1) /\ written' = written + 1 /\ ~Halfway
    BY <1>2 DEF WriteLine
  <2>2. /\ Len(log'.pieces) = len + 1
        /\ log'.inode = log.inode /\ log'.cuts = log.cuts
        /\ DOMAIN log'.pieces = 1..(len + 1)
        /\ \A i \in 1..len : log'.pieces[i] = log.pieces[i]
        /\ log'.pieces[len + 1] = [n |-> written + 1, part |-> part]
    BY <2>1, PutFacts
  <2> HIDE DEF len
  <2>3. \A i \in 1..(len + 1) : log'.pieces[i].n <= written'
    <3> SUFFICES ASSUME NEW i \in 1..(len + 1) PROVE log'.pieces[i].n <= written'
      OBVIOUS
    <3>1. CASE i = len + 1
      BY <1>1, <2>1, <2>2, <3>1
    <3>2. CASE i # len + 1
      <4>1. i \in 1..len
        BY <1>1, <3>2
      <4>2. log.pieces[i].n <= written /\ log.pieces[i].n \in Nat
        BY <1>0, <1>1, <4>1 DEF LogInv
      <4> QED
        BY <1>1, <2>1, <2>2, <4>1, <4>2
    <3> QED
      BY <3>1, <3>2
  <2>4. ASSUME NEW i \in 1..(len + 1), NEW j \in 1..(len + 1), i < j, log'.pieces[j].part # "rest"
        PROVE  log'.pieces[i].n < log'.pieces[j].n
    <3>1. i \in 1..len
      BY <1>1, <2>4
    <3>2. CASE j = len + 1
      <4>1. log.pieces[i].n <= written /\ log.pieces[i].n \in Nat
        BY <1>0, <1>1, <3>1 DEF LogInv
      <4>2. log'.pieces[i].n = log.pieces[i].n /\ log'.pieces[j].n = written + 1
        BY <2>2, <3>1, <3>2
      <4> QED
        BY <1>1, <4>1, <4>2
    <3>3. CASE j # len + 1
      <4>1. j \in 1..len
        BY <1>1, <3>3
      <4> QED
        BY <1>0, <1>1, <2>2, <2>4, <3>1, <4>1 DEF LogInv
    <3> QED
      BY <3>2, <3>3
  <2>5. ASSUME NEW i \in 1..(len + 1), log'.pieces[i].part = "rest"
        PROVE  /\ i - 1 \in 1..(len + 1) /\ log'.pieces[i - 1].part \in {"stub", "head"}
               /\ log'.pieces[i - 1].n = log'.pieces[i].n
    <3>1. i # len + 1
      BY <2>2, <2>5
    <3>2. i \in 1..len
      BY <1>1, <3>1
    <3>3. i - 1 \in 1..len /\ log.pieces[i - 1].part \in {"stub", "head"}
          /\ log.pieces[i - 1].n = log.pieces[i].n
      BY <1>0, <1>1, <2>2, <2>5, <3>2 DEF LogInv
    <3>4. log'.pieces[i - 1] = log.pieces[i - 1] /\ log'.pieces[i] = log.pieces[i]
      BY <2>2, <3>2, <3>3
    <3>5. i - 1 \in 1..(len + 1)
      BY <1>1, <3>3
    <3> QED
      BY <3>3, <3>4, <3>5
  <2>6. /\ Len(log'.pieces) <= 2 * written' /\ Len(log'.pieces) < 2 * written'
        /\ log'.pieces[Len(log'.pieces)].n = written'
    <3>1. len <= 2 * written
      BY <1>0 DEF LogInv, len
    <3> QED
      BY <1>1, <2>1, <2>2, <3>1
  <2> QED
    BY <1>0, <2>2, <2>3, <2>4, <2>5, <2>6 DEF LogInv
<1>3. CASE WriteRest
  <2>1. Put("rest", written) /\ written' = written /\ Halfway
    BY <1>3 DEF WriteRest
  <2>2. /\ Len(log'.pieces) = len + 1
        /\ log'.inode = log.inode /\ log'.cuts = log.cuts
        /\ DOMAIN log'.pieces = 1..(len + 1)
        /\ \A i \in 1..len : log'.pieces[i] = log.pieces[i]
        /\ log'.pieces[len + 1] = [n |-> written, part |-> "rest"]
        /\ ~Halfway'
    BY <2>1, PutFacts
  <2>3. /\ len \in 1..len /\ log.pieces[len].part \in {"stub", "head"} /\ log.pieces[len].n = written
        /\ len < 2 * written
    BY <1>0, <1>1, <2>1 DEF LogInv, Halfway, LastPart
  <2> HIDE DEF len
  <2>4. \A i \in 1..(len + 1) : log'.pieces[i].n <= written'
    <3> SUFFICES ASSUME NEW i \in 1..(len + 1) PROVE log'.pieces[i].n <= written'
      OBVIOUS
    <3>1. CASE i = len + 1
      BY <1>1, <2>1, <2>2, <3>1
    <3>2. CASE i # len + 1
      <4>1. i \in 1..len
        BY <1>1, <3>2
      <4> QED
        BY <1>0, <1>1, <2>1, <2>2, <4>1 DEF LogInv
    <3> QED
      BY <3>1, <3>2
  <2>5. ASSUME NEW i \in 1..(len + 1), NEW j \in 1..(len + 1), i < j, log'.pieces[j].part # "rest"
        PROVE  log'.pieces[i].n < log'.pieces[j].n
    <3>1. i \in 1..len /\ j # len + 1
      BY <1>1, <2>2, <2>5
    <3>2. j \in 1..len
      BY <1>1, <3>1
    <3> QED
      BY <1>0, <1>1, <2>2, <2>5, <3>1, <3>2 DEF LogInv
  <2>6. ASSUME NEW i \in 1..(len + 1), log'.pieces[i].part = "rest"
        PROVE  /\ i - 1 \in 1..(len + 1) /\ log'.pieces[i - 1].part \in {"stub", "head"}
               /\ log'.pieces[i - 1].n = log'.pieces[i].n
    <3>1. CASE i = len + 1
      <4>1. i - 1 = len /\ i - 1 \in 1..(len + 1)
        BY <1>1, <2>3, <3>1
      <4>2. log'.pieces[i - 1] = log.pieces[len] /\ log'.pieces[i].n = written
        BY <2>2, <2>3, <3>1, <4>1
      <4> QED
        BY <2>3, <4>1, <4>2
    <3>2. CASE i # len + 1
      <4>1. i \in 1..len
        BY <1>1, <3>2
      <4>2. i - 1 \in 1..len /\ log.pieces[i - 1].part \in {"stub", "head"}
            /\ log.pieces[i - 1].n = log.pieces[i].n
        BY <1>0, <1>1, <2>2, <2>6, <4>1 DEF LogInv
      <4>3. log'.pieces[i - 1] = log.pieces[i - 1] /\ log'.pieces[i] = log.pieces[i]
        BY <2>2, <4>1, <4>2
      <4>4. i - 1 \in 1..(len + 1)
        BY <1>1, <4>2
      <4> QED
        BY <4>2, <4>3, <4>4
    <3> QED
      BY <3>1, <3>2
  <2>7. Len(log'.pieces) <= 2 * written'
    BY <1>1, <2>1, <2>2, <2>3
  <2> QED
    BY <1>0, <1>1, <2>1, <2>2, <2>4, <2>5, <2>6, <2>7 DEF LogInv
<1>4. CASE Rotate \/ Truncate
  <2>1. log'.pieces = <<>> /\ log'.cuts = log.cuts + 1 /\ log'.inode <= log.inode + 1
        /\ log'.inode \in Nat /\ written' = written
    BY <1>1, <1>4 DEF Rotate, Truncate, Cut
  <2>2. ~Halfway' /\ DOMAIN log'.pieces = {} /\ Len(log'.pieces) = 0
    BY <2>1 DEF Halfway, LastPart
  <2> QED
    BY <1>0, <1>1, <2>1, <2>2 DEF LogInv
<1>5. CASE Scanner \/ Collect \/ Stop \/ Load \/ LoadDefault \/ UNCHANGED vars
  <2>1. UNCHANGED <<log, written>>
    <3>1. CASE Scanner
      BY <3>1, ScannerFacts DEF IInv
    <3> QED
      BY <1>5, <3>1, FilesKept DEF files
  <2> QED
    BY <1>0, <2>1 DEF LogInv, Halfway, LastPart
<1> QED
  BY <1>2, <1>3, <1>4, <1>5, Steps

(* Nothing but Nginx and the rotation touches the log; what they leave of the *)
(* look that the collector took.                                             *)
LEMMA PlaceStep == ASSUME IInv, Next \/ UNCHANGED vars PROVE PlaceInv'
<1>0. /\ Types /\ PlaceInv
      /\ Len(log.pieces) \in Nat /\ log.cuts \in Nat
      /\ result.scan \in 0..MaxScans /\ result.mtime \in Nat /\ looked \in Nat /\ FilesInv
      /\ runtime \in Runtimes /\ saved \in Runtimes
      /\ runtime.mtime \in Nat /\ saved.mtime \in Nat /\ runtime.offset \in Nat
      /\ found \in Seq(Finds)
  <2>1. Types /\ PlaceInv /\ FilesInv
    BY DEF IInv
  <2>2. Len(log.pieces) \in Nat
    BY <2>1, PieceFacts
  <2> QED
    BY <2>1, <2>2 DEF Types, FileTypes, CollectorTypes, Runtimes
<1> DEFINE Found(f, at) ==
             /\ at \in {"down", "idle", "open"} => f = <<>>
             /\ at \in {"result", "load"} => \A i \in DOMAIN f : f[i].kind = "line"
             /\ \A i \in DOMAIN f : f[i].kind = "scan" => i = Len(f)
             /\ \A i, j \in DOMAIN f : i < j => f[i] # f[j]
           Stood == /\ pc = "open" =>
                         /\ looked <= log.cuts
                         /\ looked = log.cuts => runtime.inode = log.inode /\ runtime.offset <= Len(log.pieces)
                    /\ pc = "load" =>
                         /\ runtime.mtime < looked /\ result.scan # 0
                         /\ \E s \in Placed : stamps[s] = looked
<1>1. PlaceInv <=> (pc = "idle" => runtime = saved) /\ Found(found, pc) /\ Stood
  BY DEF PlaceInv
<1>2. PlaceInv' <=> (pc' = "idle" => runtime' = saved') /\ Found(found', pc') /\ Stood'
  BY DEF PlaceInv
<1>3. Found(<<>>, "down") /\ Found(<<>>, "idle") /\ Found(<<>>, "open") /\ Found(<<>>, "result")
  OBVIOUS
<1> HIDE DEF Found
<1>4. ASSUME NEW part, NEW n, Put(part, n) PROVE PlaceInv'
  <2>1. UNCHANGED <<scanner, collector>> /\ Len(log'.pieces) = Len(log.pieces) + 1
        /\ log'.inode = log.inode /\ log'.cuts = log.cuts
    BY <1>4, PutFacts
  <2>2. Stood'
    BY <1>0, <1>1, <2>1 DEF collector, scanner, Placed
  <2> QED
    BY <1>0, <1>1, <1>2, <2>1, <2>2 DEF collector
<1>5. CASE Rotate \/ Truncate
  <2>1. UNCHANGED <<scanner, collector>> /\ log'.cuts = log.cuts + 1
    BY <1>0, <1>5 DEF Rotate, Truncate, Cut
  <2>2. Stood'
    BY <1>0, <1>1, <2>1 DEF collector, scanner, Placed
  <2> QED
    BY <1>0, <1>1, <1>2, <2>1, <2>2 DEF collector
<1>6. CASE Scanner
  <2>1. /\ UNCHANGED <<log, collector>> /\ \A s \in Placed : s \in Placed' /\ stamps'[s] = stamps[s]
        /\ result' = result \/ result'.scan \in Placed'
    BY <1>0, <1>6, ScannerFacts
  <2>2. \A s \in Placed' : s # 0
    BY DEF Placed, Scans
  <2>3. Stood'
    BY <1>0, <1>1, <2>1, <2>2 DEF collector
  <2> QED
    BY <1>0, <1>1, <1>2, <2>1, <2>3 DEF collector
<1>7. CASE Look
  <2>1. /\ pc = "idle" /\ pc' = "open" /\ looked' = log.cuts /\ UNCHANGED <<files, saved, found>>
        /\ runtime'.mtime = runtime.mtime
    BY <1>0, <1>7 DEF Look, Runtimes
  <2>2. runtime'.inode = log.inode /\ runtime'.offset <= Len(log.pieces)
    BY <1>0, <1>7 DEF Look, Runtimes
  <2>3. Found(found', "open")
    BY <1>0, <1>3, <2>1 DEF PlaceInv
  <2>4. Stood'
    BY <1>0, <1>1, <2>1, <2>2 DEF files, Placed
  <2> QED
    BY <1>2, <2>1, <2>3, <2>4
<1>8. CASE Read
  <2>1. /\ pc' = "result" /\ UNCHANGED <<files, saved>> /\ runtime'.mtime = runtime.mtime
        /\ found' = LinesOf(Unread)
    BY <1>0, <1>8 DEF Read, Runtimes
  <2>2. Unread \in SUBSET DOMAIN log.pieces /\ LogInv
    BY DEF Unread, IInv
  <2>3. /\ \A i \in DOMAIN LinesOf(Unread) : LinesOf(Unread)[i].kind = "line"
        /\ \A i, j \in DOMAIN LinesOf(Unread) : i < j => LinesOf(Unread)[i] # LinesOf(Unread)[j]
    BY <1>0, <2>2, LinesFacts
  <2>4. Found(found', "result")
    BY <2>1, <2>3 DEF Found
  <2>5. Stood'
    BY <1>0, <1>1, <2>1 DEF files, Placed
  <2> QED
    BY <1>2, <2>1, <2>4, <2>5
<1>9. CASE NoLog
  <2>1. /\ pc \in {"idle", "open"} /\ pc' = "result" /\ UNCHANGED <<files, runtime, saved, found>>
    BY <1>9 DEF NoLog
  <2>2. found' = <<>>
    BY <1>0, <2>1 DEF PlaceInv
  <2>3. Stood'
    BY <1>0, <1>1, <2>1 DEF files, Placed
  <2> QED
    BY <1>2, <1>3, <2>1, <2>2, <2>3
<1>10. CASE LookAtResult
  <2>1. pc = "result" /\ UNCHANGED <<files, runtime, saved, found>>
    BY <1>10 DEF LookAtResult
  <2>2. \/ /\ pc' = "load" /\ looked' = result.mtime /\ result.mtime > runtime.mtime
           /\ result.scan # 0 /\ result.scan \in Placed /\ stamps[result.scan] = result.mtime
        \/ pc' = "emit"
    BY <1>0, <1>10 DEF LookAtResult, FilesInv
  <2>3. Found(found', pc')
    BY <1>1, <1>0, <2>1, <2>2 DEF Found
  <2>4. Stood'
    BY <1>0, <1>1, <2>1, <2>2 DEF files, Placed
  <2> QED
    BY <1>2, <2>2, <2>3, <2>4
<1>11. CASE LoadResult
  <2>1. /\ pc = "load" /\ pc' = "emit" /\ UNCHANGED <<files, saved>>
        /\ runtime'.mtime = looked /\ found' = Append(found, AScan(result.scan))
    BY <1>0, <1>11 DEF LoadResult, Runtimes, AScan
  <2>2. /\ Len(found) \in Nat /\ Len(found') = Len(found) + 1 /\ DOMAIN found' = 1..(Len(found) + 1)
        /\ \A i \in 1..Len(found) : found'[i] = found[i]
        /\ found'[Len(found) + 1] = AScan(result.scan) /\ DOMAIN found = 1..Len(found)
    BY <1>0, <2>1
  <2>3. \A i \in 1..Len(found) : found'[i].kind = "line"
    BY <1>0, <2>1, <2>2 DEF PlaceInv
  <2>4. \A i \in DOMAIN found' : found'[i].kind = "scan" => i = Len(found')
    BY <2>2, <2>3
  <2>5. ASSUME NEW i \in DOMAIN found', NEW j \in DOMAIN found', i < j PROVE found'[i] # found'[j]
    <3>1. i \in 1..Len(found)
      BY <2>2, <2>5
    <3>2. CASE j = Len(found) + 1
      BY <2>2, <2>3, <3>1, <3>2 DEF AScan
    <3>3. CASE j # Len(found) + 1
      <4>1. j \in 1..Len(found)
        BY <2>2, <3>3
      <4> QED
        BY <1>0, <2>2, <2>5, <3>1, <4>1 DEF PlaceInv
    <3> QED
      BY <3>2, <3>3
  <2>6. Found(found', "emit")
    BY <2>4, <2>5 DEF Found
  <2>7. Stood'
    BY <1>0, <1>1, <2>1 DEF files, Placed
  <2> QED
    BY <1>2, <2>1, <2>6, <2>7
<1>12. CASE NoResult
  <2>1. pc \in {"result", "load"} /\ pc' = "emit" /\ UNCHANGED <<files, runtime, saved, found>>
    BY <1>12 DEF NoResult
  <2>2. Found(found', pc')
    BY <1>0, <1>1, <2>1 DEF Found
  <2>3. Stood'
    BY <1>0, <1>1, <2>1 DEF files, Placed
  <2> QED
    BY <1>2, <2>1, <2>2, <2>3
<1>13. CASE Emit
  <2>1. /\ pc = "emit" /\ pc' = "emit" /\ found # <<>> /\ found' = Tail(found)
        /\ UNCHANGED <<files, runtime, saved, looked>>
    BY <1>13 DEF Emit
  <2>2. /\ Len(found) \in Nat /\ Len(found') = Len(found) - 1 /\ DOMAIN found' = 1..(Len(found) - 1)
        /\ DOMAIN found = 1..Len(found) /\ \A i \in 1..(Len(found) - 1) : found'[i] = found[i + 1]
    BY <1>0, <2>1
  <2>3. \A i \in DOMAIN found' : found'[i].kind = "scan" => i = Len(found')
    <3> SUFFICES ASSUME NEW i \in 1..(Len(found) - 1), found[i + 1].kind = "scan"
                 PROVE  i = Len(found) - 1
      BY <2>2
    <3>1. i + 1 \in DOMAIN found
      BY <2>2
    <3>2. i + 1 = Len(found)
      BY <1>0, <3>1 DEF PlaceInv
    <3> QED
      BY <2>2, <3>2
  <2>4. ASSUME NEW i \in DOMAIN found', NEW j \in DOMAIN found', i < j PROVE found'[i] # found'[j]
    <3>1. i + 1 \in DOMAIN found /\ j + 1 \in DOMAIN found /\ i + 1 < j + 1
      BY <2>2, <2>4
    <3>2. found[i + 1] # found[j + 1]
      BY <1>0, <3>1 DEF PlaceInv
    <3> QED
      BY <2>2, <3>2
  <2>5. Found(found', "emit")
    BY <2>3, <2>4 DEF Found
  <2>6. Stood'
    BY <1>0, <1>1, <2>1 DEF files, Placed
  <2> QED
    BY <1>2, <2>1, <2>5, <2>6
<1>14. CASE Save
  <2>1. /\ pc' = "idle" /\ found' = <<>> /\ saved' = runtime /\ runtime' = runtime /\ UNCHANGED files
    BY <1>14 DEF Save
  <2>2. Stood'
    BY <1>0, <1>1, <2>1 DEF files, Placed
  <2> QED
    BY <1>2, <1>3, <2>1, <2>2
<1>15. CASE Stop
  <2>1. pc' = "down" /\ found' = <<>>
    BY <1>15, StopFacts DEF Ends
  <2>2. Stood'
    BY <2>1
  <2> QED
    BY <1>2, <1>3, <2>1, <2>2
<1>16. CASE Load \/ LoadDefault
  <2>1. /\ pc = "down" /\ pc' = "idle" /\ found' = found /\ runtime' = saved' /\ UNCHANGED files
    BY <1>16 DEF Load, LoadDefault
  <2>2. found' = <<>>
    BY <1>0, <2>1 DEF PlaceInv
  <2>3. Stood'
    BY <1>0, <1>1, <2>1 DEF files, Placed
  <2> QED
    BY <1>2, <1>3, <2>1, <2>2, <2>3
<1>17. CASE UNCHANGED vars
  BY <1>0, <1>17 DEF vars, files, PlaceInv, Placed
<1> QED
  BY <1>4, <1>5, <1>6, <1>7, <1>8, <1>9, <1>10, <1>11, <1>12, <1>13, <1>14, <1>15, <1>16, <1>17,
     Steps DEF Collect, WriteLine, WriteRest

LEMMA FilesStep == ASSUME IInv, Next \/ UNCHANGED vars PROVE FilesInv'
<1>0. /\ FilesInv /\ Types /\ PlaceInv
      /\ log.inode \in Nat /\ log.inode >= 1 /\ runtime \in Runtimes /\ saved \in Runtimes
      /\ runtime.inode \in Nat /\ saved.inode \in Nat
  BY DEF IInv, Types, FileTypes, CollectorTypes, Runtimes
<1>1. ASSUME NEW part, NEW n, Put(part, n) PROVE FilesInv'
  <2>1. log'.inode = log.inode /\ UNCHANGED <<scanner, collector>>
    BY <1>1, PutFacts
  <2> QED
    BY <1>0, <2>1 DEF FilesInv, collector, scanner, Placed
<1>2. CASE Rotate \/ Truncate
  <2>1. log'.inode \in {log.inode, log.inode + 1} /\ UNCHANGED <<scanner, collector>>
    BY <1>2 DEF Rotate, Truncate, Cut
  <2> QED
    BY <1>0, <2>1 DEF FilesInv, collector, scanner, Placed
<1>3. CASE Scanner
  <2>1. /\ UNCHANGED <<log, collector>> /\ \A s \in aside' : stamps'[s] # 0
        /\ \A s \in Placed : s \in Placed' /\ stamps'[s] = stamps[s]
        /\ \/ result' = result
           \/ \E s \in Placed' : result' = [scan |-> s, mtime |-> stamps'[s]]
    BY <1>0, <1>3, ScannerFacts
  <2>2. \A s \in Placed' : s # 0
    BY DEF Placed, Scans
  <2>3. /\ result'.scan # 0 => result'.scan \in Placed' /\ stamps'[result'.scan] = result'.mtime
        /\ result'.scan = 0 => result'.mtime = 0
    BY <1>0, <2>1, <2>2 DEF FilesInv
  <2> QED
    BY <1>0, <2>1, <2>3 DEF FilesInv, collector
<1>4. CASE Collect \/ Stop \/ Load \/ LoadDefault \/ UNCHANGED vars
  <2>1. UNCHANGED files
    BY <1>4, FilesKept
  <2>2. runtime'.inode \in {runtime.inode, saved.inode, log.inode, 0}
    <3>1. CASE Look \/ Read \/ LoadResult
      BY <1>0, <3>1 DEF Look, Read, LoadResult, Runtimes
    <3>2. CASE NoLog \/ LookAtResult \/ NoResult \/ Emit \/ Save \/ UNCHANGED vars
      BY <3>2 DEF NoLog, LookAtResult, NoResult, Emit, Save, vars
    <3>3. CASE Stop \/ Load \/ LoadDefault
      BY <3>3, StopFacts DEF Ends, Load, LoadDefault, FreshRuntime
    <3> QED
      BY <1>4, <3>1, <3>2, <3>3 DEF Collect
  <2>3. saved'.inode \in {runtime.inode, saved.inode, 0}
    <3>1. CASE Collect
      BY <3>1 DEF Collect, Look, Read, NoLog, LookAtResult, LoadResult, NoResult, Emit, Save
    <3>2. CASE Stop \/ Load \/ LoadDefault \/ UNCHANGED vars
      BY <3>2, StopFacts DEF Ends, Load, LoadDefault, FreshRuntime, vars
    <3> QED
      BY <1>4, <3>1, <3>2
  <2> QED
    BY <1>0, <2>1, <2>2, <2>3 DEF FilesInv, files, Placed
<1> QED
  BY <1>1, <1>2, <1>3, <1>4, Steps DEF WriteLine, WriteRest

----------------------------------------------------------------------------
(* EvidenceOnce: what may still become evidence is counted in advance       *)

LEMMA OnceTypes ==
    ASSUME IInv
    PROVE  /\ OnceInv /\ rewinds \in Nat /\ swaps \in Nat /\ Types /\ PlaceInv
           /\ \A n \in Lines : taken.line[n] \in Nat
           /\ \A s \in Scans : taken.scan[s] \in Nat
  BY DEF IInv, Types, CollectorTypes

(* A step that brings nothing nearer costs nothing.                          *)
LEMMA OnceKept ==
    ASSUME IInv, UNCHANGED <<taken, rewinds, swaps>>, Held' \subseteq Held,
           \A n \in Lines : Ahead(log, written, Place, n)' => Ahead(log, written, Place, n),
           \A s \in Scans : Coming(Placed, result, Place, s)' => Coming(Placed, result, Place, s),
           \/ pc' = "emit"
           \/ saved' = Place'
           \/ /\ pc # "emit"
              /\ \A n \in Lines : Ahead(log, written, saved, n)' => Ahead(log, written, saved, n)
              /\ \A s \in Scans : Coming(Placed, result, saved, s)' => Coming(Placed, result, saved, s)
    PROVE  OnceInv'
<1>1. /\ OnceInv /\ rewinds \in Nat /\ swaps \in Nat
      /\ \A n \in Lines : taken.line[n] \in Nat
      /\ \A s \in Scans : taken.scan[s] \in Nat
  BY OnceTypes
<1>2. Due(Place, Held)'
  <2>1. ASSUME NEW n \in Lines
        PROVE  taken'.line[n] + One(ALine(n) \in Held') + One(Ahead(log, written, Place, n)') <= 1 + rewinds' + swaps'
    BY <1>1 DEF OnceInv, Due, One
  <2>2. ASSUME NEW s \in Scans
        PROVE  taken'.scan[s] + One(AScan(s) \in Held') + One(Coming(Placed, result, Place, s)') <= 1 + rewinds' + swaps'
    BY <1>1 DEF OnceInv, Due, One
  <2> QED
    BY <2>1, <2>2 DEF Due, One
<1>3. pc' # "emit" => Due(saved, {})'
  <2>1. CASE saved' = Place'
    <3>1. ASSUME NEW n \in Lines
          PROVE  taken'.line[n] + One(ALine(n) \in {}) + One(Ahead(log, written, saved, n)') <= 1 + rewinds' + swaps'
      BY <1>1, <1>2, <2>1 DEF Due, One
    <3>2. ASSUME NEW s \in Scans
          PROVE  taken'.scan[s] + One(AScan(s) \in {}) + One(Coming(Placed, result, saved, s)') <= 1 + rewinds' + swaps'
      BY <1>1, <1>2, <2>1 DEF Due, One
    <3> QED
      BY <3>1, <3>2 DEF Due, One
  <2>2. CASE /\ pc # "emit"
             /\ \A n \in Lines : Ahead(log, written, saved, n)' => Ahead(log, written, saved, n)
             /\ \A s \in Scans : Coming(Placed, result, saved, s)' => Coming(Placed, result, saved, s)
    <3>1. ASSUME NEW n \in Lines
          PROVE  taken'.line[n] + One(ALine(n) \in {}) + One(Ahead(log, written, saved, n)') <= 1 + rewinds' + swaps'
      BY <1>1, <2>2 DEF OnceInv, Due, One
    <3>2. ASSUME NEW s \in Scans
          PROVE  taken'.scan[s] + One(AScan(s) \in {}) + One(Coming(Placed, result, saved, s)') <= 1 + rewinds' + swaps'
      BY <1>1, <2>2 DEF OnceInv, Due, One
    <3> QED
      BY <3>1, <3>2 DEF Due, One
  <2> QED
    BY <2>1, <2>2
<1> QED
  BY <1>2, <1>3 DEF OnceInv

(* A step back to other places may bring everything near again, and is counted. *)
LEMMA OnceAgain ==
    ASSUME IInv, UNCHANGED <<taken, swaps>>, Held' = {}, rewinds' = rewinds + 1, saved' = Place'
    PROVE  OnceInv'
<1>1. /\ OnceInv /\ rewinds \in Nat /\ swaps \in Nat
      /\ \A n \in Lines : taken.line[n] \in Nat
      /\ \A s \in Scans : taken.scan[s] \in Nat
  BY OnceTypes
<1>2. ASSUME NEW n \in Lines
      PROVE  taken'.line[n] + One(ALine(n) \in {}) + One(Ahead(log, written, Place, n)') <= 1 + rewinds' + swaps'
  BY <1>1 DEF OnceInv, Due, One
<1>3. ASSUME NEW s \in Scans
      PROVE  taken'.scan[s] + One(AScan(s) \in {}) + One(Coming(Placed, result, Place, s)') <= 1 + rewinds' + swaps'
  BY <1>1 DEF OnceInv, Due, One
<1>4. Due(Place, {})'
  BY <1>2, <1>3 DEF Due, One
<1> QED
  BY <1>4 DEF OnceInv, Due

(* A log that grows brings none of its lines nearer but those not begun.     *)
LEMMA AheadLonger ==
    ASSUME NEW l, NEW l2, NEW w \in Nat, NEW w2 \in Nat, NEW r \in Runtimes, NEW n \in Nat, NEW m \in Nat,
           NEW part, Len(l.pieces) \in Nat, Len(l2.pieces) = Len(l.pieces) + 1, l2.inode = l.inode,
           DOMAIN l.pieces = 1..Len(l.pieces), DOMAIN l2.pieces = 1..(Len(l.pieces) + 1),
           \A i \in 1..Len(l.pieces) : l2.pieces[i] = l.pieces[i],
           l2.pieces[Len(l.pieces) + 1] = [n |-> m, part |-> part],
           part # "rest" => m > w, w2 >= w, Ahead(l2, w2, r, n)
    PROVE  Ahead(l, w, r, n)
<1> DEFINE len == Len(l.pieces)
<1>1. r.offset \in Nat
  BY DEF Runtimes
<1>2. From(l2, r) \in Nat /\ From(l, r) \in Nat /\ From(l2, r) >= From(l, r)
  BY <1>1 DEF From
<1>3. CASE n > w2
  BY <1>3 DEF Ahead
<1>4. ASSUME NEW i \in 1..(len + 1), i > From(l2, r), l2.pieces[i].n = n, l2.pieces[i].part # "rest"
      PROVE  Ahead(l, w, r, n)
  <2>1. CASE i = len + 1
    BY <1>4, <2>1 DEF Ahead
  <2>2. CASE i # len + 1
    <3>1. i \in 1..len
      BY <2>2
    <3>2. i > From(l, r)
      BY <1>2, <1>4, <3>1
    <3> QED
      BY <1>4, <3>1, <3>2 DEF Ahead
  <2> QED
    BY <2>1, <2>2
<1> QED
  BY <1>3, <1>4 DEF Ahead

LEMMA PutOnce ==
    ASSUME IInv, NEW part, NEW m \in Nat, Put(part, m), part # "rest" => m > written,
           written' >= written, written' \in Nat
    PROVE  OnceInv'
<1> DEFINE len == Len(log.pieces)
<1>1. /\ len \in Nat /\ Len(log'.pieces) = len + 1 /\ log'.inode = log.inode
      /\ DOMAIN log.pieces = 1..len /\ DOMAIN log'.pieces = 1..(len + 1)
      /\ \A i \in 1..len : log'.pieces[i] = log.pieces[i]
      /\ log'.pieces[len + 1] = [n |-> m, part |-> part]
      /\ UNCHANGED <<scanner, collector>>
  BY PutFacts
<1>2. Place' = Place /\ Held' = Held /\ Placed' = Placed /\ UNCHANGED <<pc, saved, result, taken, rewinds, swaps>>
  BY <1>1 DEF collector, scanner, Place, Held, Placed
<1>3. Place \in Runtimes /\ saved \in Runtimes /\ written \in Nat /\ (\A n \in Lines : n \in Nat)
  BY DEF Place, IInv, Types, FileTypes, CollectorTypes, Lines
<1>4. \A n \in Lines : Ahead(log', written', Place, n) => Ahead(log, written, Place, n)
  BY <1>1, <1>3, AheadLonger
<1>5. \A n \in Lines : Ahead(log', written', saved, n) => Ahead(log, written, saved, n)
  BY <1>1, <1>3, AheadLonger
<1>6. /\ \A n \in Lines : Ahead(log, written, Place, n)' => Ahead(log, written, Place, n)
      /\ \A n \in Lines : Ahead(log, written, saved, n)' => Ahead(log, written, saved, n)
      /\ \A s \in Scans : Coming(Placed, result, Place, s)' => Coming(Placed, result, Place, s)
      /\ \A s \in Scans : Coming(Placed, result, saved, s)' => Coming(Placed, result, saved, s)
  BY <1>2, <1>4, <1>5
<1> QED
  BY <1>2, <1>6, OnceKept

(* A read has in hand what was ahead of it, and leaves it behind unless the    *)
(* log was exchanged after the look.                                         *)
LEMMA ReadOnce == ASSUME IInv, Read PROVE OnceInv'
<1> DEFINE len == Len(log.pieces)
<1>1. /\ len \in Nat /\ DOMAIN log.pieces = 1..len /\ written \in Nat
      /\ \A i \in 1..len : log.pieces[i].n \in Nat /\ log.pieces[i].n <= written
      /\ runtime.offset \in Nat /\ runtime \in Runtimes
  BY PieceFacts DEF IInv, Types, CollectorTypes, Runtimes, LogInv
<1>2. /\ OnceInv /\ rewinds \in Nat /\ swaps \in Nat
      /\ \A n \in Lines : taken.line[n] \in Nat
      /\ \A s \in Scans : taken.scan[s] \in Nat
  BY DEF IInv, Types, CollectorTypes
<1>3. /\ pc = "open" /\ pc' = "result" /\ found' = LinesOf(Unread) /\ UNCHANGED <<files, taken, rewinds>>
      /\ runtime' = IF Unread # {} THEN [runtime EXCEPT !.offset = len] ELSE runtime
      /\ swaps' = IF looked # log.cuts THEN swaps + 1 ELSE swaps
  BY DEF Read
<1>4. found = <<>> /\ Held = {} /\ Place = runtime /\ Place' = runtime'
  BY <1>3 DEF IInv, PlaceInv, Held, Place
<1>5. runtime'.inode = runtime.inode /\ runtime'.mtime = runtime.mtime
      /\ runtime'.offset = IF Unread # {} THEN len ELSE runtime.offset
  BY <1>1, <1>3 DEF Runtimes
<1>6. ASSUME NEW x, x \in Held'
      PROVE  \E k \in Unread : Matches(k) /\ x = ALine(log.pieces[k].n)
  <2>1. Unread \in SUBSET DOMAIN log.pieces /\ Types /\ LogInv
    BY DEF Unread, IInv
  <2>2. \A i \in DOMAIN LinesOf(Unread) :
           \E k \in Unread : Matches(k) /\ LinesOf(Unread)[i] = ALine(log.pieces[k].n)
    BY <2>1, LinesFacts
  <2> QED
    BY <1>3, <1>6, <2>2 DEF Held
<1>7. ASSUME NEW n \in Lines, ALine(n) \in Held'
      PROVE  Ahead(log, written, runtime, n) /\ n <= written /\ Unread # {}
  <2>1. PICK k \in Unread : Matches(k) /\ ALine(n) = ALine(log.pieces[k].n)
    BY <1>6, <1>7
  <2>2. /\ k \in 1..len /\ k > runtime.offset /\ log.pieces[k].part # "rest"
        /\ n = log.pieces[k].n
    BY <1>1, <2>1 DEF Unread, Matches, ALine
  <2>3. k > From(log, runtime)
    BY <1>1, <2>2 DEF From
  <2> QED
    BY <1>1, <2>1, <2>2, <2>3 DEF Ahead
<1>8. ASSUME looked = log.cuts, NEW n \in Lines, Ahead(log, written, Place, n)'
      PROVE  Ahead(log, written, runtime, n) /\ ALine(n) \notin Held'
  <2>1. runtime.inode = log.inode /\ runtime.offset <= len /\ From(log, runtime) = runtime.offset
    BY <1>1, <1>3, <1>8 DEF IInv, PlaceInv, From
  <2>2. CASE n > written
    BY <1>1, <1>7, <2>2 DEF Ahead, Lines
  <2>3. CASE ~(n > written)
    <3>1. PICK i \in 1..len : i > From(log, Place)' /\ log.pieces[i].n = n /\ log.pieces[i].part # "rest"
      BY <1>1, <1>3, <1>8, <2>3 DEF Ahead, files
    <3>2. From(log, Place)' = runtime'.offset
      BY <1>1, <1>3, <1>4, <1>5, <2>1 DEF From, files
    <3>3. Unread = {} /\ i > runtime.offset
      BY <1>1, <1>5, <3>1, <3>2
    <3> QED
      BY <1>1, <1>7, <2>1, <3>1, <3>3 DEF Ahead
  <2> QED
    BY <2>2, <2>3
<1>9. ASSUME NEW n \in Lines
      PROVE  taken'.line[n] + One(ALine(n) \in Held') + One(Ahead(log, written, Place, n)') <= 1 + rewinds' + swaps'
  <2>1. taken.line[n] + One(Ahead(log, written, runtime, n)) <= 1 + rewinds + swaps /\ taken.line[n] \in Nat
    BY <1>2, <1>4 DEF OnceInv, Due, One
  <2>2. CASE looked # log.cuts
    BY <1>2, <1>3, <1>7, <2>1, <2>2 DEF One
  <2>3. CASE looked = log.cuts
    <3>1. One(ALine(n) \in Held') + One(Ahead(log, written, Place, n)') <= One(Ahead(log, written, runtime, n))
      BY <1>7, <1>8, <2>3 DEF One
    <3> QED
      BY <1>2, <1>3, <2>1, <2>3, <3>1 DEF One
  <2> QED
    BY <2>2, <2>3
<1>10. ASSUME NEW s \in Scans
       PROVE  taken'.scan[s] + One(AScan(s) \in Held') + One(Coming(Placed, result, Place, s)') <= 1 + rewinds' + swaps'
  <2>1. AScan(s) \notin Held'
    BY <1>6 DEF AScan, ALine
  <2>2. Coming(Placed, result, Place, s)' <=> Coming(Placed, result, Place, s)
    BY <1>3, <1>4, <1>5 DEF Coming, files, Placed
  <2>3. taken.scan[s] + One(Coming(Placed, result, Place, s)) <= 1 + rewinds + swaps /\ taken.scan[s] \in Nat
    BY <1>2, <1>4 DEF OnceInv, Due, One
  <2> QED
    BY <1>2, <1>3, <2>1, <2>2, <2>3 DEF One
<1>11. Due(Place, Held)'
  BY <1>9, <1>10 DEF Due, One
<1>12. Due(saved, {})'
  <2>1. Due(saved, {}) /\ UNCHANGED <<files, saved, taken, rewinds>> /\ swaps' >= swaps /\ swaps' \in Nat
    BY <1>2, <1>3 DEF OnceInv, Read
  <2>2. ASSUME NEW n \in Lines
        PROVE  taken'.line[n] + One(ALine(n) \in {}) + One(Ahead(log, written, saved, n)') <= 1 + rewinds' + swaps'
    BY <1>2, <2>1 DEF Due, One, files
  <2>3. ASSUME NEW s \in Scans
        PROVE  taken'.scan[s] + One(AScan(s) \in {}) + One(Coming(Placed, result, saved, s)') <= 1 + rewinds' + swaps'
    BY <1>2, <2>1 DEF Due, One, files, Placed
  <2> QED
    BY <2>2, <2>3 DEF Due, One
<1> QED
  BY <1>3, <1>11, <1>12 DEF OnceInv

(* A result that is read was newer than the last one, and is not again unless  *)
(* another took its place after the look.                                    *)
LEMMA LoadResultOnce == ASSUME IInv, LoadResult PROVE OnceInv'
<1>0. /\ OnceInv /\ rewinds \in Nat /\ swaps \in Nat
      /\ taken \in [line : [Lines -> Nat], scan : [Scans -> Nat]]
      /\ runtime \in Runtimes /\ looked \in Nat /\ found \in Seq(Finds)
      /\ result \in [scan : 0..MaxScans, mtime : 0..MaxClock]
  BY DEF IInv, Types, FileTypes, CollectorTypes
<1>1. /\ OnceInv /\ rewinds \in Nat /\ swaps \in Nat
      /\ \A n \in Lines : taken.line[n] \in Nat
      /\ \A s \in Scans : taken.scan[s] \in Nat /\ s \in Nat
      /\ runtime \in Runtimes /\ runtime.mtime \in Nat /\ looked \in Nat
      /\ result.scan \in Nat /\ result.mtime \in Nat /\ found \in Seq(Finds)
  <2>1. runtime.mtime \in Nat
    BY <1>0 DEF Runtimes
  <2>2. result.scan \in Nat /\ result.mtime \in Nat
    BY <1>0
  <2>3. \A s \in Scans : s \in Nat
    BY DEF Scans
  <2>4. (\A n \in Lines : taken.line[n] \in Nat) /\ (\A s \in Scans : taken.scan[s] \in Nat)
    BY <1>0
  <2> QED
    BY <1>0, <2>1, <2>2, <2>3, <2>4
<1>2. /\ pc = "load" /\ pc' = "emit" /\ found' = Append(found, AScan(result.scan))
      /\ UNCHANGED <<files, taken, rewinds>> /\ runtime' = [runtime EXCEPT !.mtime = looked]
      /\ swaps' = IF looked # result.mtime THEN swaps + 1 ELSE swaps
  BY DEF LoadResult, AScan
<1>3. /\ runtime'.inode = runtime.inode /\ runtime'.offset = runtime.offset /\ runtime'.mtime = looked
      /\ Place = runtime /\ Place' = runtime'
  BY <1>1, <1>2 DEF Runtimes, Place
<1>4. /\ runtime.mtime < looked /\ result.scan \in Placed
      /\ \A i \in DOMAIN found : found[i].kind = "line"
  BY <1>2 DEF IInv, PlaceInv, FilesInv
<1>5. Held' = Held \cup {AScan(result.scan)} /\ \A s : AScan(s) \notin Held
  <2>1. /\ Len(found) \in Nat /\ DOMAIN found = 1..Len(found) /\ DOMAIN found' = 1..(Len(found) + 1)
        /\ \A i \in 1..Len(found) : found'[i] = found[i]
        /\ found'[Len(found) + 1] = AScan(result.scan)
    BY <1>1, <1>2
  <2>2. \A i \in 1..(Len(found) + 1) : i \in 1..Len(found) \/ i = Len(found) + 1
    BY <2>1
  <2>3. Held' = Held \cup {AScan(result.scan)}
    BY <2>1, <2>2 DEF Held
  <2> QED
    BY <1>4, <2>3 DEF Held, AScan
<1>6. ASSUME NEW n \in Lines
      PROVE  taken'.line[n] + One(ALine(n) \in Held') + One(Ahead(log, written, Place, n)') <= 1 + rewinds' + swaps'
  <2>1. ALine(n) \in Held' <=> ALine(n) \in Held
    BY <1>5 DEF ALine, AScan
  <2>2. Ahead(log, written, Place, n)' <=> Ahead(log, written, Place, n)
    BY <1>2, <1>3 DEF Ahead, From, files
  <2>3. taken.line[n] + One(ALine(n) \in Held) + One(Ahead(log, written, Place, n)) <= 1 + rewinds + swaps
    BY <1>1 DEF OnceInv, Due
  <2> QED
    BY <1>1, <1>2, <2>1, <2>2, <2>3 DEF One
<1>7. ASSUME NEW s \in Scans
      PROVE  taken'.scan[s] + One(AScan(s) \in Held') + One(Coming(Placed, result, Place, s)') <= 1 + rewinds' + swaps'
  <2>1. taken.scan[s] + One(Coming(Placed, result, runtime, s)) <= 1 + rewinds + swaps /\ taken.scan[s] \in Nat
    BY <1>1, <1>3, <1>5 DEF OnceInv, Due, One
  <2>2. Coming(Placed, result, Place, s)' <=> s \notin Placed \/ (s = result.scan /\ looked < result.mtime)
    BY <1>2, <1>3 DEF Coming, files, Placed
  <2>3. AScan(s) \in Held' <=> s = result.scan
    BY <1>5 DEF AScan
  <2>4. s = result.scan /\ looked <= result.mtime => Coming(Placed, result, runtime, s)
    BY <1>1, <1>4 DEF Coming
  <2>5. s # result.scan => (Coming(Placed, result, Place, s)' <=> Coming(Placed, result, runtime, s))
    BY <2>2 DEF Coming
  <2>6. CASE s = result.scan
    <3>1. looked <= result.mtime => taken.scan[s] <= rewinds + swaps
      BY <1>1, <2>1, <2>4, <2>6 DEF One
    <3>2. CASE looked = result.mtime
      <4>1. ~Coming(Placed, result, Place, s)' /\ swaps' = swaps
        BY <1>1, <1>2, <1>4, <2>2, <2>6, <3>2
      <4>2. taken.scan[s] <= rewinds + swaps
        BY <1>1, <3>1, <3>2
      <4> QED
        BY <1>1, <1>2, <2>1, <4>1, <4>2 DEF One
    <3>3. CASE looked < result.mtime
      <4>1. swaps' = swaps + 1 /\ rewinds' = rewinds /\ taken' = taken
        BY <1>1, <1>2, <3>3
      <4>2. One(AScan(s) \in Held') \in {0, 1} /\ One(Coming(Placed, result, Place, s)') \in {0, 1}
        BY DEF One
      <4>3. taken.scan[s] <= rewinds + swaps
        BY <1>1, <3>1, <3>3
      <4> QED
        BY <1>1, <2>1, <4>1, <4>2, <4>3
    <3>4. CASE looked > result.mtime
      <4>1. swaps' = swaps + 1 /\ rewinds' = rewinds /\ taken' = taken
        BY <1>1, <1>2, <3>4
      <4>2. One(AScan(s) \in Held') \in {0, 1} /\ ~Coming(Placed, result, Place, s)'
        BY <1>1, <1>4, <2>2, <2>6, <3>4 DEF One
      <4>3. taken.scan[s] <= 1 + rewinds + swaps
        BY <1>1, <2>1 DEF One
      <4> QED
        BY <1>1, <2>1, <4>1, <4>2, <4>3 DEF One
    <3> QED
      BY <1>1, <3>2, <3>3, <3>4
  <2>7. CASE s # result.scan
    BY <1>1, <1>2, <2>1, <2>3, <2>5, <2>7 DEF One
  <2> QED
    BY <2>6, <2>7
<1>8. Due(Place, Held)'
  BY <1>6, <1>7 DEF Due, One
<1> QED
  BY <1>2, <1>8 DEF OnceInv

(* An event moves one of the finds in hand to what was taken.                *)
LEMMA EmitOnce == ASSUME IInv, Emit PROVE OnceInv'
<1>1. /\ OnceInv /\ rewinds \in Nat /\ swaps \in Nat /\ Types /\ PlaceInv
      /\ \A n \in Lines : taken.line[n] \in Nat
      /\ \A s \in Scans : taken.scan[s] \in Nat
  BY DEF IInv, Types, CollectorTypes
<1> DEFINE x == Head(found)
<1>2. /\ Held = {x} \cup Held' /\ x \notin Held'
      /\ \A n \in Lines : taken'.line[n] = taken.line[n] + One(x = ALine(n))
      /\ \A s \in Scans : taken'.scan[s] = taken.scan[s] + One(x = AScan(s))
  BY <1>1, EmitFacts
<1>3. UNCHANGED <<files, pc, runtime, saved, rewinds, swaps>>
  BY DEF Emit
<1> HIDE DEF x
<1>4. ASSUME NEW n \in Lines
      PROVE  taken'.line[n] + One(ALine(n) \in Held') + One(Ahead(log, written, Place, n)') <= 1 + rewinds' + swaps'
  <2>1. Ahead(log, written, Place, n)' <=> Ahead(log, written, Place, n)
    BY <1>3 DEF Ahead, From, files, Place
  <2>2. One(x = ALine(n)) + One(ALine(n) \in Held') = One(ALine(n) \in Held)
    BY <1>2 DEF One
  <2>3. taken.line[n] + One(ALine(n) \in Held) + One(Ahead(log, written, Place, n)) <= 1 + rewinds + swaps
    BY <1>1 DEF OnceInv, Due
  <2> QED
    BY <1>1, <1>2, <1>3, <2>1, <2>2, <2>3 DEF One
<1>5. ASSUME NEW s \in Scans
      PROVE  taken'.scan[s] + One(AScan(s) \in Held') + One(Coming(Placed, result, Place, s)') <= 1 + rewinds' + swaps'
  <2>1. Coming(Placed, result, Place, s)' <=> Coming(Placed, result, Place, s)
    BY <1>3 DEF Coming, files, Placed, Place
  <2>2. One(x = AScan(s)) + One(AScan(s) \in Held') = One(AScan(s) \in Held)
    BY <1>2 DEF One
  <2>3. taken.scan[s] + One(AScan(s) \in Held) + One(Coming(Placed, result, Place, s)) <= 1 + rewinds + swaps
    BY <1>1 DEF OnceInv, Due
  <2> QED
    BY <1>1, <1>2, <1>3, <2>1, <2>2, <2>3 DEF One
<1>6. Due(Place, Held)'
  BY <1>4, <1>5 DEF Due, One
<1>7. pc' = "emit"
  BY DEF Emit
<1> QED
  BY <1>6, <1>7 DEF OnceInv

LEMMA OnceStep == ASSUME IInv, Next \/ UNCHANGED vars PROVE OnceInv'
<1>0. /\ Types /\ PlaceInv /\ written \in Nat /\ runtime \in Runtimes /\ Len(log.pieces) \in Nat
  BY PieceFacts DEF IInv, Types, FileTypes, CollectorTypes
<1>1. ASSUME NEW part \in Parts \ {"rest"}, WriteLine(part) PROVE OnceInv'
  <2>1. Put(part, written + 1) /\ written' = written + 1 /\ written + 1 \in Nat
        /\ written + 1 > written /\ written' >= written /\ written' \in Nat
    BY <1>0, <1>1 DEF WriteLine
  <2> QED
    BY <2>1, PutOnce
<1>2. CASE WriteRest
  <2>1. Put("rest", written) /\ written' = written /\ written' >= written
    BY <1>0, <1>2 DEF WriteRest
  <2> QED
    BY <1>0, <2>1, PutOnce
<1>3. CASE Rotate \/ Truncate
  <2>1. log'.pieces = <<>> /\ UNCHANGED <<written, scanner, collector>>
    BY <1>3 DEF Rotate, Truncate, Cut
  <2>2. Place' = Place /\ Held' = Held /\ Placed' = Placed
        /\ UNCHANGED <<pc, saved, result, taken, rewinds, swaps>>
    BY <2>1 DEF collector, scanner, Place, Held, Placed
  <2>3. /\ \A n \in Lines : Ahead(log, written, Place, n)' => Ahead(log, written, Place, n)
        /\ \A n \in Lines : Ahead(log, written, saved, n)' => Ahead(log, written, saved, n)
    BY <2>1, <2>2 DEF Ahead
  <2>4. /\ \A s \in Scans : Coming(Placed, result, Place, s)' => Coming(Placed, result, Place, s)
        /\ \A s \in Scans : Coming(Placed, result, saved, s)' => Coming(Placed, result, saved, s)
    BY <2>1, <2>2
  <2>5. saved' = Place' \/ pc # "emit" \/ pc' = "emit"
    BY <2>2
  <2> QED
    BY <2>2, <2>3, <2>4, <2>5, OnceKept
<1>4. CASE Scanner
  <2>1. /\ UNCHANGED <<log, written, collector>> /\ \A s \in Placed : s \in Placed'
        /\ \/ result' = result
           \/ \E s \in Placed' \ Placed : result' = [scan |-> s, mtime |-> stamps'[s]]
    BY <1>0, <1>4, ScannerFacts DEF IInv
  <2>2. Place' = Place /\ Held' = Held /\ UNCHANGED <<pc, saved, taken, rewinds, swaps>>
    BY <2>1 DEF collector, Place, Held
  <2>3. /\ \A n \in Lines : Ahead(log, written, Place, n)' => Ahead(log, written, Place, n)
        /\ \A n \in Lines : Ahead(log, written, saved, n)' => Ahead(log, written, saved, n)
    BY <2>1, <2>2
  <2>4. /\ \A s \in Scans : Coming(Placed, result, Place, s)' => Coming(Placed, result, Place, s)
        /\ \A s \in Scans : Coming(Placed, result, saved, s)' => Coming(Placed, result, saved, s)
    BY <2>1, <2>2 DEF Coming
  <2> QED
    BY <2>2, <2>3, <2>4, OnceKept
<1>5. CASE Look
  <2>1. /\ pc = "idle" /\ pc' = "open" /\ UNCHANGED <<files, saved, found, taken, rewinds, swaps>>
        /\ runtime'.mtime = runtime.mtime
    BY <1>0, <1>5 DEF Look, Runtimes
  <2>2. \/ runtime' = runtime
        \/ runtime'.inode = log.inode /\ runtime'.offset = 0 /\ From(log, runtime) = 0
    BY <1>0, <1>5 DEF Look, Runtimes, From
  <2>3. Place = runtime /\ Place' = runtime' /\ Held' = Held /\ Placed' = Placed
    BY <2>1 DEF Place, Held, files, Placed
  <2>4. From(log, Place)' = From(log, Place)
    BY <1>0, <2>1, <2>2, <2>3 DEF From, files
  <2>5. /\ \A n \in Lines : Ahead(log, written, Place, n)' => Ahead(log, written, Place, n)
        /\ \A n \in Lines : Ahead(log, written, saved, n)' => Ahead(log, written, saved, n)
    BY <2>1, <2>4 DEF Ahead, From, files
  <2>6. /\ \A s \in Scans : Coming(Placed, result, Place, s)' => Coming(Placed, result, Place, s)
        /\ \A s \in Scans : Coming(Placed, result, saved, s)' => Coming(Placed, result, saved, s)
    BY <2>1, <2>3 DEF Coming, files
  <2> QED
    BY <2>1, <2>3, <2>5, <2>6, OnceKept
<1>6. CASE NoLog \/ LookAtResult \/ NoResult \/ Save \/ Load \/ UNCHANGED vars
  <2>1. UNCHANGED <<files, taken, rewinds, swaps>>
    BY <1>6 DEF NoLog, LookAtResult, NoResult, Save, Load, vars
  <2>2. Place' = Place /\ Held' = Held
    <3>1. CASE NoLog \/ LookAtResult \/ NoResult \/ UNCHANGED vars
      BY <3>1 DEF NoLog, LookAtResult, NoResult, Place, Held, vars
    <3>2. CASE Save \/ Load
      BY <3>2 DEF Save, Load, Place, Held
    <3> QED
      BY <1>6, <3>1, <3>2
  <2>3. saved' = Place' \/ pc' = "emit" \/ (pc # "emit" /\ saved' = saved)
    <3>1. CASE NoLog \/ LookAtResult \/ NoResult \/ UNCHANGED vars
      BY <3>1 DEF NoLog, LookAtResult, NoResult, vars
    <3>2. CASE Save \/ Load
      BY <3>2 DEF Save, Load, Place
    <3> QED
      BY <1>6, <3>1, <3>2
  <2>4. /\ \A n \in Lines : Ahead(log, written, Place, n)' => Ahead(log, written, Place, n)
        /\ saved' = saved =>
              \A n \in Lines : Ahead(log, written, saved, n)' => Ahead(log, written, saved, n)
    BY <2>1, <2>2 DEF files
  <2>5. /\ \A s \in Scans : Coming(Placed, result, Place, s)' => Coming(Placed, result, Place, s)
        /\ saved' = saved =>
              \A s \in Scans : Coming(Placed, result, saved, s)' => Coming(Placed, result, saved, s)
    BY <2>1, <2>2 DEF files, Placed, Coming
  <2> QED
    BY <2>1, <2>2, <2>3, <2>4, <2>5, OnceKept
<1>7. CASE LoadDefault \/ (Stop /\ pc = "emit")
  <2>1. UNCHANGED <<taken, swaps>> /\ rewinds' = rewinds + 1 /\ found' = <<>> /\ saved' = Place'
    <3>1. CASE LoadDefault
      BY <1>0, <3>1 DEF LoadDefault, PlaceInv, Place
    <3>2. CASE Stop /\ pc = "emit"
      BY <3>2, StopFacts DEF Ends, Place
    <3> QED
      BY <1>7, <3>1, <3>2
  <2>2. Held' = {}
    BY <2>1 DEF Held
  <2> QED
    BY <2>1, <2>2, OnceAgain
<1>8. CASE Stop /\ pc # "emit"
  <2>1. UNCHANGED <<files, saved, taken, rewinds, swaps>> /\ found' = <<>> /\ pc' = "down"
    BY <1>8, StopFacts DEF Ends
  <2>2. Held' = {} /\ Place' = saved /\ saved' = saved /\ Due(saved, {})
    BY <1>8, <2>1, OnceTypes DEF Held, Place, OnceInv
  <2>3. ASSUME NEW n \in Lines
        PROVE  taken'.line[n] + One(ALine(n) \in {}) + One(Ahead(log, written, saved, n)') <= 1 + rewinds' + swaps'
    BY <2>1, <2>2 DEF Due, files
  <2>4. ASSUME NEW s \in Scans
        PROVE  taken'.scan[s] + One(AScan(s) \in {}) + One(Coming(Placed, result, saved, s)') <= 1 + rewinds' + swaps'
    BY <2>1, <2>2 DEF Due, files, Placed
  <2>5. Due(saved, {})'
    BY <2>3, <2>4 DEF Due, One
  <2> QED
    BY <2>2, <2>5 DEF OnceInv, Due
<1> QED
  BY <1>1, <1>2, <1>3, <1>4, <1>5, <1>6, <1>7, <1>8, ReadOnce, LoadResultOnce, EmitOnce, Steps
     DEF Collect

----------------------------------------------------------------------------
(* NothingSkipped and ResultNotMissed: what lies behind the places          *)

(* Places stay good when more is sure.                                       *)
LEMMA PassedMore ==
    ASSUME NEW l, NEW r, NEW broken, NEW sure, NEW broken2, NEW sure2,
           broken \subseteq broken2, sure \subseteq sure2, Passed(l, r, broken, sure)
    PROVE  Passed(l, r, broken2, sure2)
  BY DEF Passed

(* Times stay good when more is sure and more was exchanged.                 *)
LEMMA TimesMore ==
    ASSUME UNCHANGED files, swaps \in Nat, swaps' \in Nat, swaps' >= swaps,
           ScansSure(Held) \subseteq ScansSure(Held)', ScansSure({}) \subseteq ScansSure({})'
    PROVE  TimesSure(Held) \subseteq TimesSure(Held)' /\ TimesSure({}) \subseteq TimesSure({})'
<1>1. Placed' = Placed /\ stamps' = stamps /\ result' = result
  BY DEF files, Placed
<1> QED
  BY <1>1 DEF TimesSure

(* They stay good when a piece is added to the log.                          *)
LEMMA PassedLonger ==
    ASSUME NEW l, NEW l2, NEW r \in Runtimes, NEW broken, NEW sure,
           Len(l.pieces) \in Nat, Len(l2.pieces) = Len(l.pieces) + 1,
           l2.inode = l.inode, l2.cuts = l.cuts,
           \A i \in 1..Len(l.pieces) : l2.pieces[i] = l.pieces[i],
           Passed(l, r, broken, sure)
    PROVE  Passed(l2, r, broken, sure)
<1> SUFFICES ASSUME l.inode = l.cuts + 1, r.inode = l.inode
             PROVE  /\ r.offset <= Len(l2.pieces)
                    /\ r.offset > 0 /\ l2.pieces[r.offset].part = "stub" => l2.pieces[r.offset].n \in broken
                    /\ \A i \in 1..r.offset : l2.pieces[i].part = "stub" \/ l2.pieces[i].n \in sure
  BY DEF Passed
<1>1. /\ r.offset <= Len(l.pieces) /\ r.offset \in Nat
      /\ r.offset > 0 /\ l.pieces[r.offset].part = "stub" => l.pieces[r.offset].n \in broken
      /\ \A i \in 1..r.offset : l.pieces[i].part = "stub" \/ l.pieces[i].n \in sure
  BY DEF Passed, Runtimes
<1>2. \A i \in 1..r.offset : i \in 1..Len(l.pieces) /\ l2.pieces[i] = l.pieces[i]
  BY <1>1
<1>3. r.offset > 0 => l2.pieces[r.offset] = l.pieces[r.offset]
  BY <1>1, <1>2
<1> QED
  BY <1>1, <1>2, <1>3

(* Places with no file of a log and no time have nothing behind them.        *)
LEMMA NothingBehind ==
    ASSUME Types, NEW broken, NEW sure
    PROVE  Passed(log, FreshRuntime, broken, sure) /\ FreshRuntime.mtime = 0
<1>1. log.inode # 0
  BY DEF Types, FileTypes
<1> QED
  BY <1>1 DEF Passed, FreshRuntime

(* The world's steps leave what lies behind the places.                      *)
LEMMA WorldBehind == ASSUME IInv, World PROVE BehindInv'
<1>0. /\ Passed(log, runtime, torn, LinesSure(Held)) /\ Passed(log, saved, torn, LinesSure({}))
      /\ runtime.mtime # 0 => runtime.mtime \in TimesSure(Held)
      /\ saved.mtime # 0 => saved.mtime \in TimesSure({})
      /\ runtime \in Runtimes /\ saved \in Runtimes /\ Types /\ PlaceInv /\ FilesInv
      /\ log.inode \in Nat /\ runtime.inode \in Nat /\ saved.inode \in Nat
  BY DEF IInv, BehindInv, Types, FileTypes, CollectorTypes, Runtimes
<1>1. /\ LinesSure(Held)' = LinesSure(Held) /\ LinesSure({})' = LinesSure({})
      /\ ScansSure(Held)' = ScansSure(Held) /\ ScansSure({})' = ScansSure({})
      /\ UNCHANGED <<runtime, saved, torn, swaps>>
  <2>1. UNCHANGED collector
    BY DEF World, WriteLine, WriteRest, Put, Rotate, Truncate, Cut, WriteResult, ReplaceResult, ScanFails
  <2> QED
    BY <2>1 DEF collector, LinesSure, ScansSure, Held
<1>6. UNCHANGED scanner => TimesSure(Held)' = TimesSure(Held) /\ TimesSure({})' = TimesSure({})
  BY <1>1 DEF TimesSure, scanner, Placed
<1>2. ASSUME NEW part, NEW m, Put(part, m) PROVE BehindInv'
  <2>1. /\ Len(log.pieces) \in Nat /\ Len(log'.pieces) = Len(log.pieces) + 1
        /\ log'.inode = log.inode /\ log'.cuts = log.cuts
        /\ \A i \in 1..Len(log.pieces) : log'.pieces[i] = log.pieces[i]
        /\ UNCHANGED scanner
    BY <1>2, PutFacts
  <2>2. Passed(log', runtime, torn, LinesSure(Held))
    BY <1>0, <2>1, PassedLonger
  <2>3. Passed(log', saved, torn, LinesSure({}))
    BY <1>0, <2>1, PassedLonger
  <2> QED
    BY <1>0, <1>1, <1>6, <2>1, <2>2, <2>3 DEF BehindInv
<1>3. CASE Rotate
  <2>1. log'.inode = log.inode + 1 /\ UNCHANGED scanner
    BY <1>3 DEF Rotate, Cut
  <2>2. runtime.inode # log'.inode /\ saved.inode # log'.inode
    BY <1>0, <2>1 DEF FilesInv
  <2>3. \A sure : Passed(log', runtime, torn, sure) /\ Passed(log', saved, torn, sure)
    BY <2>2 DEF Passed
  <2> QED
    BY <1>0, <1>1, <1>6, <2>1, <2>3 DEF BehindInv
<1>4. CASE Truncate
  <2>1. log'.inode = log.inode /\ log'.cuts = log.cuts + 1 /\ UNCHANGED scanner
    BY <1>4 DEF Truncate, Cut
  <2>2. log.inode <= log.cuts + 1 /\ log.cuts \in Nat
    BY DEF IInv, LogInv, Types, FileTypes
  <2>3. log'.inode # log'.cuts + 1
    BY <1>0, <2>1, <2>2
  <2>4. \A sure : Passed(log', runtime, torn, sure) /\ Passed(log', saved, torn, sure)
    BY <2>3 DEF Passed
  <2> QED
    BY <1>0, <1>1, <1>6, <2>1, <2>4 DEF BehindInv
<1>5. CASE Scanner
  <2>1. /\ log' = log /\ \A s \in Placed : s \in Placed' /\ stamps'[s] = stamps[s]
        /\ \/ result' = result
           \/ \E s \in Placed' \ Placed : result' = [scan |-> s, mtime |-> stamps'[s]]
    BY <1>0, <1>5, ScannerFacts
  <2>2. \A s \in Placed : s # result.scan => s # result'.scan
    BY <2>1
  <2>3. TimesSure(Held) \subseteq TimesSure(Held)' /\ TimesSure({}) \subseteq TimesSure({})'
    BY <1>1, <2>1, <2>2 DEF TimesSure
  <2> QED
    BY <1>0, <1>1, <2>1, <2>3 DEF BehindInv
<1> QED
  BY <1>2, <1>3, <1>4, <1>5 DEF World, WriteLine, WriteRest, Scanner

(* A read moves the places past lines that match, which it has in hand, past    *)
(* those it finds torn, and past the rest of lines of which it had the first.   *)
LEMMA ReadBehind == ASSUME IInv, Read PROVE BehindInv'
<1> DEFINE len == Len(log.pieces)
           sure == LinesSure(Held)
           sure2 == LinesSure(Held)'
<1>1. /\ len \in Nat /\ DOMAIN log.pieces = 1..len
      /\ \A i \in 1..len : log.pieces[i].n \in Lines /\ log.pieces[i].part \in Parts
      /\ runtime \in Runtimes /\ runtime.offset \in Nat
      /\ LogInv /\ Types
  BY PieceFacts DEF IInv, Types, CollectorTypes, Runtimes
<1>2. /\ Passed(log, runtime, torn, sure) /\ Passed(log, saved, torn, LinesSure({}))
      /\ runtime.mtime # 0 => runtime.mtime \in TimesSure(Held)
      /\ saved.mtime # 0 => saved.mtime \in TimesSure({})
      /\ swaps \in Nat
  BY DEF IInv, BehindInv, Types, CollectorTypes
<1>3. /\ pc = "open" /\ swaps' \in {swaps, swaps + 1} /\ found' = LinesOf(Unread) /\ UNCHANGED <<files, saved, taken>>
      /\ runtime' = IF Unread # {} THEN [runtime EXCEPT !.offset = len] ELSE runtime
      /\ torn' = IF Unread # {} /\ LastPart = "stub" THEN torn \cup {log.pieces[len].n} ELSE torn
  BY DEF Read
<1>4. /\ runtime'.inode = runtime.inode /\ runtime'.mtime = runtime.mtime
      /\ runtime'.offset = IF Unread # {} THEN len ELSE runtime.offset
  BY <1>1, <1>3 DEF Runtimes
<1>5. Held = {} /\ torn \subseteq torn'
  BY <1>3 DEF IInv, PlaceInv, Held
<1>6. /\ sure \subseteq sure2 /\ LinesSure({}) \subseteq LinesSure({})'
      /\ ScansSure(Held) \subseteq ScansSure(Held)' /\ ScansSure({})' = ScansSure({})
  BY <1>3, <1>5 DEF LinesSure, ScansSure
<1>7. ASSUME NEW k \in Unread, Matches(k) PROVE log.pieces[k].n \in sure2
  <2>1. Unread \in SUBSET DOMAIN log.pieces
    BY DEF Unread
  <2>2. \A j \in Unread : Matches(j) =>
           \E i \in DOMAIN LinesOf(Unread) : LinesOf(Unread)[i] = ALine(log.pieces[j].n)
    BY <1>1, <2>1, LinesFacts
  <2>3. ALine(log.pieces[k].n) \in Held'
    BY <1>3, <1>7, <2>2 DEF Held
  <2> QED
    BY <1>1, <2>1, <2>3 DEF LinesSure
<1>8. Passed(log, runtime', torn', sure2)
  <2>1. CASE Unread = {}
    BY <1>2, <1>3, <1>5, <1>6, <2>1, PassedMore
  <2>2. CASE Unread # {}
    <3> SUFFICES ASSUME log.inode = log.cuts + 1, runtime.inode = log.inode
                 PROVE  /\ len > 0 /\ log.pieces[len].part = "stub" => log.pieces[len].n \in torn'
                        /\ \A i \in 1..len : log.pieces[i].part = "stub" \/ log.pieces[i].n \in sure2
      BY <1>1, <1>4, <2>2 DEF Passed
    <3>1. /\ runtime.offset <= len
          /\ runtime.offset > 0 /\ log.pieces[runtime.offset].part = "stub" => log.pieces[runtime.offset].n \in torn
          /\ \A i \in 1..runtime.offset : log.pieces[i].part = "stub" \/ log.pieces[i].n \in sure
      BY <1>2 DEF Passed
    <3>2. len > 0 /\ log.pieces[len].part = "stub" => log.pieces[len].n \in torn'
      <4>1. len > 0 => LastPart = log.pieces[len].part
        BY DEF LastPart
      <4> QED
        BY <1>3, <2>2, <4>1
    <3>3. ASSUME NEW i \in 1..len, log.pieces[i].part # "stub" PROVE log.pieces[i].n \in sure2
      <4>1. CASE i <= runtime.offset
        BY <1>1, <1>6, <3>1, <3>3, <4>1
      <4>2. CASE i > runtime.offset /\ log.pieces[i].part # "rest"
        <5>1. i \in Unread /\ Matches(i)
          BY <1>1, <3>3, <4>2 DEF Unread, Matches, Parts
        <5> QED
          BY <1>7, <5>1
      <4>3. CASE i > runtime.offset /\ log.pieces[i].part = "rest"
        <5>1. /\ i - 1 \in 1..len /\ log.pieces[i - 1].part \in {"stub", "head"}
              /\ log.pieces[i - 1].n = log.pieces[i].n
          BY <1>1, <4>3 DEF LogInv
        <5>2. CASE i - 1 > runtime.offset
          <6>1. i - 1 \in Unread /\ Matches(i - 1)
            BY <1>1, <5>1, <5>2 DEF Unread, Matches
          <6> QED
            BY <1>7, <5>1, <6>1
        <5>3. CASE ~(i - 1 > runtime.offset)
          <6>1. i - 1 = runtime.offset /\ runtime.offset > 0 /\ runtime.offset \in 1..runtime.offset
            BY <1>1, <4>3, <5>1, <5>3
          <6>2. log.pieces[runtime.offset].n \in torn \/ log.pieces[runtime.offset].n \in sure
            BY <3>1, <5>1, <6>1
          <6>3. torn \cap Lines \subseteq sure2
            BY <1>5 DEF LinesSure
          <6> QED
            BY <1>1, <1>6, <5>1, <6>1, <6>2, <6>3
        <5> QED
          BY <5>2, <5>3
      <4> QED
        BY <1>1, <4>1, <4>2, <4>3
    <3> QED
      BY <3>2, <3>3
  <2> QED
    BY <2>1, <2>2
<1>9. Passed(log, saved, torn', LinesSure({})')
  BY <1>2, <1>5, <1>6, PassedMore
<1>10. TimesSure(Held) \subseteq TimesSure(Held)' /\ TimesSure({}) \subseteq TimesSure({})'
  <2>1. swaps' \in Nat /\ swaps' >= swaps
    BY <1>2, <1>3
  <2> QED
    BY <1>2, <1>3, <1>6, <2>1, TimesMore
<1> QED
  BY <1>2, <1>3, <1>4, <1>8, <1>9, <1>10 DEF BehindInv, files

LEMMA BehindStep == ASSUME IInv, Next \/ UNCHANGED vars PROVE BehindInv'
<1>0. /\ Passed(log, runtime, torn, LinesSure(Held)) /\ Passed(log, saved, torn, LinesSure({}))
      /\ runtime.mtime # 0 => runtime.mtime \in TimesSure(Held)
      /\ saved.mtime # 0 => saved.mtime \in TimesSure({})
      /\ runtime \in Runtimes /\ Types /\ PlaceInv /\ FilesInv /\ swaps \in Nat
  BY DEF IInv, BehindInv, Types, CollectorTypes
<1>1. CASE Look
  <2>1. /\ pc = "idle" /\ UNCHANGED <<files, saved, found, taken, torn, swaps>> /\ runtime'.mtime = runtime.mtime
        /\ runtime' = runtime \/ runtime'.offset = 0
    BY <1>0, <1>1 DEF Look, Runtimes
  <2>2. /\ LinesSure(Held)' = LinesSure(Held) /\ LinesSure({})' = LinesSure({})
        /\ ScansSure(Held)' = ScansSure(Held) /\ ScansSure({})' = ScansSure({})
    BY <2>1 DEF LinesSure, ScansSure, Held
  <2>3. Passed(log, runtime', torn, LinesSure(Held))
    <3>1. CASE runtime' = runtime
      BY <1>0, <3>1
    <3>2. CASE runtime'.offset = 0
      <4>1. Len(log.pieces) \in Nat
        BY <1>0, PieceFacts
      <4> QED
        BY <3>2, <4>1 DEF Passed
    <3> QED
      BY <2>1, <3>1, <3>2
  <2>4. TimesSure(Held) \subseteq TimesSure(Held)' /\ TimesSure({}) \subseteq TimesSure({})'
    BY <1>0, <2>1, <2>2, TimesMore
  <2> QED
    BY <1>0, <2>1, <2>2, <2>3, <2>4 DEF BehindInv, files
<1>2. CASE NoLog \/ LookAtResult \/ NoResult \/ UNCHANGED vars
  <2>1. UNCHANGED <<files, runtime, saved, found, taken, torn, swaps>>
    BY <1>2 DEF NoLog, LookAtResult, NoResult, vars
  <2>2. /\ LinesSure(Held)' = LinesSure(Held) /\ LinesSure({})' = LinesSure({})
        /\ ScansSure(Held)' = ScansSure(Held) /\ ScansSure({})' = ScansSure({})
    BY <2>1 DEF LinesSure, ScansSure, Held
  <2>3. TimesSure(Held) \subseteq TimesSure(Held)' /\ TimesSure({}) \subseteq TimesSure({})'
    BY <1>0, <2>1, <2>2, TimesMore
  <2> QED
    BY <1>0, <2>1, <2>2, <2>3 DEF BehindInv, files
<1>3. CASE LoadResult
  <2>1. /\ pc = "load" /\ found' = Append(found, AScan(result.scan)) /\ UNCHANGED <<files, saved, taken, torn>>
        /\ runtime'.mtime = looked /\ runtime'.inode = runtime.inode /\ runtime'.offset = runtime.offset
        /\ found \in Seq(Finds) /\ swaps' = IF looked # result.mtime THEN swaps + 1 ELSE swaps
    BY <1>0, <1>3 DEF LoadResult, AScan, Runtimes, Types, CollectorTypes
  <2>2. Held \subseteq Held' /\ AScan(result.scan) \in Held'
    <3>1. /\ Len(found) \in Nat /\ DOMAIN found = 1..Len(found) /\ DOMAIN found' = 1..(Len(found) + 1)
          /\ \A i \in 1..Len(found) : found'[i] = found[i]
          /\ found'[Len(found) + 1] = AScan(result.scan)
      BY <2>1
    <3>2. Len(found) + 1 \in DOMAIN found' /\ \A i \in 1..Len(found) : i \in DOMAIN found'
      BY <3>1
    <3> QED
      BY <3>1, <3>2 DEF Held
  <2>3. /\ LinesSure(Held) \subseteq LinesSure(Held)' /\ LinesSure({})' = LinesSure({})
        /\ ScansSure(Held) \subseteq ScansSure(Held)' /\ ScansSure({})' = ScansSure({})
    BY <2>1, <2>2 DEF LinesSure, ScansSure
  <2>4. Passed(log, runtime', torn, LinesSure(Held)')
    <3>1. Passed(log, runtime, torn, LinesSure(Held)')
      BY <1>0, <2>3, PassedMore
    <3> QED
      BY <2>1, <3>1 DEF Passed
  <2>5. TimesSure({}) \subseteq TimesSure({})'
    BY <1>0, <2>1, <2>3, TimesMore
  <2>6. looked \in TimesSure(Held)'
    <3>1. /\ result.scan # 0 /\ result.scan \in Placed /\ stamps[result.scan] = result.mtime
          /\ Placed' = Placed /\ stamps' = stamps /\ result' = result
      BY <1>0, <2>1 DEF PlaceInv, FilesInv, files, Placed
    <3>2. CASE looked = result.mtime
      <4>1. result.scan \in ScansSure(Held)'
        BY <2>2, <3>1 DEF ScansSure, Placed
      <4> QED
        BY <3>1, <3>2, <4>1 DEF TimesSure
    <3>3. CASE looked # result.mtime
      <4>1. PICK s \in Placed : stamps[s] = looked
        BY <1>0, <2>1 DEF PlaceInv
      <4>2. s # result.scan /\ swaps' > 0
        BY <1>0, <2>1, <3>1, <3>3, <4>1
      <4> QED
        BY <3>1, <4>1, <4>2 DEF TimesSure
    <3> QED
      BY <3>2, <3>3
  <2> QED
    BY <1>0, <2>1, <2>3, <2>4, <2>5, <2>6 DEF BehindInv, files
<1>4. CASE Emit
  <2>1. UNCHANGED <<files, runtime, saved, torn, swaps>>
    BY <1>4 DEF Emit
  <2> DEFINE x == Head(found)
  <2>2. /\ Held = {x} \cup Held'
        /\ \A n \in Lines : taken'.line[n] = taken.line[n] + One(x = ALine(n))
        /\ \A s \in Scans : taken'.scan[s] = taken.scan[s] + One(x = AScan(s))
    BY <1>0, <1>4, EmitFacts
  <2> HIDE DEF x
  <2>3. (\A n \in Lines : taken.line[n] \in Nat) /\ (\A s \in Scans : taken.scan[s] \in Nat)
    BY <1>0 DEF Types, CollectorTypes
  <2>4. LinesSure(Held) \subseteq LinesSure(Held)' /\ LinesSure({}) \subseteq LinesSure({})'
    BY <2>1, <2>2, <2>3 DEF LinesSure, One
  <2>5. ScansSure(Held) \subseteq ScansSure(Held)' /\ ScansSure({}) \subseteq ScansSure({})'
    BY <2>1, <2>2, <2>3 DEF ScansSure, One
  <2>6. Passed(log, runtime, torn, LinesSure(Held)') /\ Passed(log, saved, torn, LinesSure({})')
    BY <1>0, <2>4, PassedMore
  <2>7. TimesSure(Held) \subseteq TimesSure(Held)' /\ TimesSure({}) \subseteq TimesSure({})'
    BY <1>0, <2>1, <2>5, TimesMore
  <2> QED
    BY <1>0, <2>1, <2>6, <2>7 DEF BehindInv, files
<1>5. CASE Save
  <2>1. UNCHANGED <<files, runtime, found, taken, torn, swaps>> /\ saved' = runtime /\ Held = {} /\ Held' = {}
    BY <1>5 DEF Save, Held
  <2>2. /\ LinesSure(Held)' = LinesSure(Held) /\ LinesSure({})' = LinesSure(Held)
        /\ ScansSure(Held)' = ScansSure(Held) /\ ScansSure({})' = ScansSure(Held)
    BY <2>1 DEF LinesSure, ScansSure
  <2>3. TimesSure(Held)' = TimesSure(Held) /\ TimesSure({})' = TimesSure(Held)
    BY <2>1, <2>2 DEF TimesSure, files, Placed
  <2> QED
    BY <1>0, <2>1, <2>2, <2>3 DEF BehindInv, files
<1>6. CASE Stop \/ Load \/ LoadDefault
  <2>1. UNCHANGED <<files, taken, torn, swaps>> /\ found' = <<>>
    BY <1>0, <1>6, StopFacts DEF Ends, Load, LoadDefault, PlaceInv
  <2>2. /\ LinesSure(Held)' = LinesSure({}) /\ LinesSure({})' = LinesSure({})
        /\ ScansSure(Held)' = ScansSure({}) /\ ScansSure({})' = ScansSure({})
    BY <2>1 DEF LinesSure, ScansSure, Held
  <2>3. TimesSure(Held)' = TimesSure({}) /\ TimesSure({})' = TimesSure({})
    BY <2>1, <2>2 DEF TimesSure, files, Placed
  <2>4. runtime' \in {saved, FreshRuntime} /\ saved' \in {saved, FreshRuntime}
    BY <1>6, StopFacts DEF Ends, Load, LoadDefault
  <2>5. Passed(log, FreshRuntime, torn, LinesSure({})) /\ FreshRuntime.mtime = 0
    BY <1>0, NothingBehind
  <2> QED
    BY <1>0, <2>1, <2>2, <2>3, <2>4, <2>5 DEF BehindInv, files
<1> QED
  BY <1>1, <1>2, <1>3, <1>4, <1>5, <1>6, WorldBehind, ReadBehind DEF Next, Collect, Stop

----------------------------------------------------------------------------
(* The theorems                                                            *)

(* However the log is written, cut and read, and the Defender restarted, what  *)
(* the collector knows of the files stays true.                              *)
THEOREM Invariance == Spec => []IInv
<1>1. Init => IInv
  BY Initially
<1>2. IInv /\ [Next]_vars => IInv'
  <2> SUFFICES ASSUME IInv, Next \/ UNCHANGED vars PROVE IInv'
    OBVIOUS
  <2> QED
    BY TypeStep, LogStep, PlaceStep, FilesStep, OnceStep, BehindStep DEF IInv
<1> QED
  BY <1>1, <1>2, PTL DEF Spec

(* A collection has no more in hand than the lines there are and one scan.   *)
LEMMA FoundBound == ASSUME Types, PlaceInv PROVE Len(found) <= MaxLines + 1
<1> DEFINE k == Len(found) - 1
<1>1. found \in Seq(Finds) /\ Len(found) \in Nat /\ DOMAIN found = 1..Len(found) /\ MaxLines \in Nat
  BY Bounds DEF Types, CollectorTypes
<1>2. CASE Len(found) = 0
  BY <1>1, <1>2
<1>3. CASE Len(found) # 0
  <2>1. k \in Nat /\ Len(found) = k + 1 /\ \A i \in 1..k : i \in 1..Len(found) /\ i # Len(found)
    <3> DEFINE m == Len(found)
    <3>1. m \in Nat /\ m # 0
      BY <1>1, <1>3
    <3> HIDE DEF m
    <3>2. m - 1 \in Nat /\ m = (m - 1) + 1 /\ \A i \in 1..(m - 1) : i \in 1..m /\ i # m
      BY <3>1
    <3> QED
      BY <3>2 DEF m
  <2> HIDE DEF k
  <2>2. ASSUME NEW i \in 1..k PROVE found[i].n \in Lines /\ found[i] = ALine(found[i].n)
    <3>0. i \in DOMAIN found /\ i # Len(found)
      BY <1>1, <2>1
    <3>3. \A m \in DOMAIN found : found[m].kind = "scan" => m = Len(found)
      BY DEF PlaceInv
    <3>1. found[i] \in Finds /\ found[i].kind # "scan"
      BY <1>1, <3>0, <3>3
    <3> QED
      BY <3>1 DEF Finds, ALine
  <2> DEFINE f == [i \in 1..k |-> found[i].n]
  <2>3. f \in [1..k -> 1..MaxLines]
    BY <2>2 DEF Lines
  <2>4. ASSUME NEW i \in 1..k, NEW j \in 1..k, f[i] = f[j] PROVE i = j
    <3>1. found[i] = found[j] /\ i \in DOMAIN found /\ j \in DOMAIN found
      BY <1>1, <2>1, <2>2, <2>4
    <3>2. ~(i < j) /\ ~(j < i)
      BY <3>1 DEF PlaceInv
    <3> QED
      BY <2>1, <3>2
  <2>5. f \in Injection(1..k, 1..MaxLines)
    BY <2>3, <2>4 DEF Injection, IsInjective
  <2>6. IsFiniteSet(1..MaxLines) /\ Cardinality(1..MaxLines) = MaxLines
    BY <1>1, FS_Interval
  <2>7. Cardinality(1..k) = k
    BY <2>1, FS_Interval
  <2> HIDE DEF f
  <2>8. Cardinality(1..k) <= Cardinality(1..MaxLines)
    BY <2>5, <2>6, FS_Injection
  <2>9. k <= MaxLines
    BY <2>6, <2>7, <2>8
  <2> QED
    BY <1>1, <2>1, <2>9
<1> QED
  BY <1>2, <1>3

(* Every variable of the collector holds a value of its kind.                *)
THEOREM TypeCorrect == Spec => []TypeOK
<1>1. IInv => TypeOK
  <2> SUFFICES ASSUME IInv PROVE TypeOK
    OBVIOUS
  <2>1. Types /\ FileTypes /\ CollectorTypes /\ LogInv /\ PlaceInv
    BY DEF IInv, Types
  <2>2. Len(found) <= MaxLines + 1
    BY <2>1, FoundBound
  <2>3. Len(log.pieces) <= 2 * MaxLines
    <3>1. Len(log.pieces) \in Nat /\ Len(log.pieces) <= 2 * written /\ written \in 0..MaxLines /\ MaxLines \in Nat
      BY <2>1, PieceFacts, Bounds DEF LogInv, FileTypes
    <3> QED
      BY <3>1
  <2>4. /\ \A i \in DOMAIN log.pieces : log.pieces[i] \in [n : Lines, part : Parts]
        /\ log.inode \in 1..(MaxCuts + 1)
    <3>1. log.pieces \in Seq(Pieces) /\ log.inode \in 1..(MaxCuts + 1)
      BY <2>1 DEF FileTypes
    <3>2. \A i \in DOMAIN log.pieces : log.pieces[i] \in Pieces
      BY <3>1
    <3> QED
      BY <3>1, <3>2 DEF Pieces
  <2>5. \A i \in DOMAIN found : found[i] \in [kind : {"line"}, n : Lines] \cup [kind : {"scan"}, n : Scans]
    <3>1. found \in Seq(Finds)
      BY <2>1 DEF CollectorTypes
    <3>2. \A i \in DOMAIN found : found[i] \in Finds
      BY <3>1
    <3> QED
      BY <3>2 DEF Finds
  <2> QED
    BY <2>1, <2>2, <2>3, <2>4, <2>5 DEF TypeOK, FileTypes, CollectorTypes
<1> QED
  BY <1>1, Invariance, PTL

(* A line and a scan become evidence once, but for places set back and files   *)
(* exchanged between the look and the open (_access_log, _scanner_result).   *)
THEOREM Once == Spec => []EvidenceOnce
<1>1. IInv => EvidenceOnce
  <2> SUFFICES ASSUME IInv PROVE EvidenceOnce
    OBVIOUS
  <2>1. /\ OnceInv /\ rewinds \in Nat /\ swaps \in Nat
        /\ \A n \in Lines : taken.line[n] \in Nat
        /\ \A s \in Scans : taken.scan[s] \in Nat
    BY DEF IInv, Types, CollectorTypes
  <2>2. ASSUME NEW n \in Lines PROVE taken.line[n] <= 1 + rewinds + swaps
    BY <2>1 DEF OnceInv, Due, One
  <2>3. ASSUME NEW s \in Scans PROVE taken.scan[s] <= 1 + rewinds + swaps
    BY <2>1 DEF OnceInv, Due, One
  <2> QED
    BY <2>2, <2>3 DEF EvidenceOnce
<1> QED
  BY <1>1, Invariance, PTL

(* In a log that is rotated and never truncated, every line behind the offset  *)
(* between two ticks has become evidence or was torn (readlines, tell).      *)
THEOREM Skipped == Spec => []NothingSkipped
<1>1. IInv => NothingSkipped
  <2> SUFFICES ASSUME IInv, pc = "idle", log.inode = log.cuts + 1, runtime.inode = log.inode,
                      NEW n \in Lines \ torn, Complete(n)
               PROVE  taken.line[n] > 0
    BY DEF NothingSkipped
  <2>1. PICK i \in 1..runtime.offset :
           i \in DOMAIN log.pieces /\ log.pieces[i].n = n /\ log.pieces[i].part # "stub"
    BY DEF Complete
  <2>2. Held = {} /\ Passed(log, runtime, torn, LinesSure(Held))
    BY DEF IInv, PlaceInv, BehindInv, Held
  <2>3. n \in LinesSure({})
    BY <2>1, <2>2 DEF Passed
  <2> QED
    BY <2>3 DEF LinesSure
<1> QED
  BY <1>1, Invariance, PTL

(* Between two ticks a result that the mtime test passes over has been read, or *)
(* it is no newer than another that was in place and was read, or exchanged    *)
(* between the look and the open (_scanner_result, scanner.py's main).       *)
THEOREM ResultKnown == Spec => []ResultNotMissed
<1>1. IInv => ResultNotMissed
  <2> SUFFICES ASSUME IInv, pc = "idle", result.scan # 0, result.mtime <= runtime.mtime
               PROVE  \E s \in Placed :
                         /\ stamps[s] >= result.mtime
                         /\ taken.scan[s] > 0 \/ (s # result.scan /\ swaps > 0)
    BY DEF ResultNotMissed
  <2>1. /\ result.mtime \in Nat /\ runtime.mtime \in Nat /\ Held = {}
        /\ runtime.mtime # 0 => runtime.mtime \in TimesSure(Held)
    BY DEF IInv, PlaceInv, BehindInv, Held, Types, FileTypes, CollectorTypes, Runtimes
  <2>2. result.mtime # 0
    <3>1. result.scan \in Placed /\ stamps[result.scan] = result.mtime
      BY DEF IInv, FilesInv
    <3> QED
      BY <3>1 DEF Placed
  <2>3. runtime.mtime \in TimesSure({})
    BY <2>1, <2>2
  <2>4. PICK s \in Placed : stamps[s] = runtime.mtime /\ (s \in ScansSure({}) \/ (s # result.scan /\ swaps > 0))
    BY <2>3 DEF TimesSure
  <2> QED
    BY <2>1, <2>4 DEF ScansSure
<1> QED
  BY <1>1, Invariance, PTL
=============================================================================
