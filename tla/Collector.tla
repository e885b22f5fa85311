----------------------------- MODULE Collector -----------------------------
(***************************************************************************)
(* How evidence comes in (defender/collectors.py, scanner/scanner.py): one *)
(* collector, called once a tick, reads what is new in Nginx's access log  *)
(* and in the scanner's result file.  Both files change under it: Nginx    *)
(* appends, and a reader may find half a line; the log is rotated or       *)
(* truncated; scans, several at a time, replace the result.  Each file is  *)
(* looked at (stat) and then opened, and anything may happen in between.   *)
(* A line may have a target urlsplit raises for.  The places are           *)
(* kept in state["runtime"], saved when the tick ends and loaded at start. *)
(* Defender.tla takes lines whole and a collection as one step; here the   *)
(* ignored networks and the block list are left out.                       *)
(***************************************************************************)
EXTENDS Selections

CONSTANTS
    MaxLines,   \* bound: lines written to the access log
    MaxCuts,    \* bound: rotations and truncations
    MaxScans,   \* bound: scans that write a result
    MaxClock,   \* bound: times the file system stamps on a result
    MaxRewinds  \* bound: times the places are set back

ASSUME BoundAssumption == {MaxLines, MaxCuts, MaxScans, MaxClock, MaxRewinds} \subseteq Nat

VARIABLES
    log,       \* the access log: its inode, its pieces of lines, how often it was cut
    written,   \* lines begun so far
    odd,       \* lines whose target urlsplit raises ValueError for, like //[x
    aside,     \* scans whose result is written to a temporary file
    stamps,    \* the mtimes of what the scans wrote, 0 for none
    result,    \* the scanner's result file: the scan it is of and its mtime
    pc,        \* "down", "idle", then through a tick: "open", "result", "load", "emit"
    runtime,   \* state["runtime"]: access_log_inode, access_log_offset, scanner_mtime
    saved,     \* the runtime in defender_state.json
    looked,    \* what the look saw that the open comes after: how often the log
               \* was cut, then the mtime of the result
    found,     \* evidence of this collection that has no event yet
    taken,     \* history: how often each line and each scan became evidence
    torn,      \* history: lines of which a collection read the first part alone
    rewinds,   \* history: how often the places were set back
    swaps      \* history: files that changed between the look and the open

files == <<log, written, odd, aside, stamps, result>>
vars == <<files, pc, runtime, saved, looked, found, taken, torn, rewinds, swaps>>

Lines == 1..MaxLines
Scans == 1..MaxScans

\* Pieces a line can be written in: all of it, the part that ends before the
\* status code or beyond it, and what is left then.
Parts == {"whole", "stub", "head", "rest"}

\* default_state
FreshRuntime == [inode |-> 0, offset |-> 0, mtime |-> 0]

Init ==
    /\ log = [inode |-> 1, pieces |-> <<>>, cuts |-> 0]
    /\ written = 0 /\ odd = {}
    /\ aside = {} /\ stamps = [s \in Scans |-> 0]
    /\ result = [scan |-> 0, mtime |-> 0]
    /\ pc = "down"
    /\ runtime = FreshRuntime /\ saved = FreshRuntime
    /\ looked = 0
    /\ found = <<>>
    /\ taken = [line |-> [n \in Lines |-> 0], scan |-> [s \in Scans |-> 0]]
    /\ torn = {}
    /\ rewinds = 0 /\ swaps = 0

scanner == <<aside, stamps, result>>
collector == <<pc, runtime, saved, looked, found, taken, torn, rewinds, swaps>>

----------------------------------------------------------------------------
(* Nginx and whoever rotates its log                                       *)

LastPart == IF log.pieces = <<>> THEN "whole" ELSE log.pieces[Len(log.pieces)].part
Halfway == LastPart \in {"stub", "head"}

Put(part, n) ==
    /\ log' = [log EXCEPT !.pieces = Append(@, [n |-> n, part |-> part])]
    /\ UNCHANGED <<scanner, collector>>

\* A line, or the first part of one, with any target
WriteLine(part) ==
    /\ written < MaxLines /\ ~Halfway
    /\ written' = written + 1
    /\ odd' \in {odd, odd \cup {written + 1}}
    /\ Put(part, written + 1)

\* What is left of the line
WriteRest ==
    /\ Halfway
    /\ Put("rest", written)
    /\ UNCHANGED <<written, odd>>

\* A new file takes the log's place, or the same one starts anew.  The number
\* of an inode that is gone can be given again, which looks like a truncation.
Cut(inode) ==
    /\ log.cuts < MaxCuts
    /\ log' = [inode |-> inode, pieces |-> <<>>, cuts |-> log.cuts + 1]
    /\ UNCHANGED <<written, odd, scanner, collector>>

Rotate == Cut(log.inode + 1)
Truncate == Cut(log.inode)

----------------------------------------------------------------------------
(* The scanner (scanner.py main)                                           *)

\* mkstemp, dump, fsync: each scan writes a file of its own, whose mtime is the
\* time of the writing.  Nothing keeps scans from overlapping, and the clock may
\* be set back.
WriteResult(s) ==
    /\ stamps[s] = 0
    /\ \E mtime \in 1..MaxClock : stamps' = [stamps EXCEPT ![s] = mtime]
    /\ aside' = aside \cup {s}
    /\ UNCHANGED <<log, written, odd, result, collector>>

\* os.replace leaves the file its mtime.
ReplaceResult(s) ==
    /\ s \in aside
    /\ aside' = aside \ {s}
    /\ result' = [scan |-> s, mtime |-> stamps[s]]
    /\ UNCHANGED <<log, written, odd, stamps, collector>>

\* A scan that fails removes what it wrote aside, as if it had not run.  (One
\* that is killed leaves it there, where nobody reads it.)
ScanFails(s) ==
    /\ s \in aside
    /\ aside' = aside \ {s}
    /\ stamps' = [stamps EXCEPT ![s] = 0]
    /\ UNCHANGED <<log, written, odd, result, collector>>

----------------------------------------------------------------------------
(* _access_log                                                             *)

\* os.stat: another inode, or a size below the offset, starts over.
Look ==
    /\ pc = "idle"
    /\ pc' = "open"
    /\ looked' = log.cuts
    /\ runtime' = IF runtime.inode # log.inode \/ Len(log.pieces) < runtime.offset
                  THEN [runtime EXCEPT !.inode = log.inode, !.offset = 0]
                  ELSE runtime
    /\ UNCHANGED <<files, saved, found, taken, torn, rewinds, swaps>>

\* The pieces readlines returns as one line that ACCESS_PATTERN matches: it
\* wants the text up to the status code, from the start of the line.
Matches(i) ==
    \/ log.pieces[i].part \in {"whole", "head"}
    \/ /\ log.pieces[i].part = "stub"
       /\ i < Len(log.pieces)

\* The pieces a read from the offset finds.
Unread == {i \in DOMAIN log.pieces : i > runtime.offset}

\* The lines among them that urlsplit raises for.
OddLines == {i \in Unread : Matches(i) /\ log.pieces[i].n \in odd}

LinesOf(positions) ==
    LET lines == Selected(log.pieces, {i \in positions : Matches(i)})
    IN [k \in DOMAIN lines |-> [kind |-> "line", n |-> lines[k].n]]

\* Mutant: the size of the file is added to the offset, whatever was read before.
ReadAddsUp ==
    /\ pc = "open" /\ OddLines = {}
    /\ pc' = "result" /\ looked' = 0
    /\ found' = LinesOf(Unread)
    /\ torn' = IF Unread # {} /\ LastPart = "stub"
               THEN torn \cup {log.pieces[Len(log.pieces)].n} ELSE torn
    /\ runtime' = [runtime EXCEPT !.offset = @ + Len(log.pieces)]
    /\ swaps' = IF looked # log.cuts THEN swaps + 1 ELSE swaps
    /\ UNCHANGED <<files, saved, taken, rewinds>>

\* Mutant: the lines behind one urlsplit raises for are given up.
ReadPastOdd ==
    /\ pc = "open"
    /\ pc' = "result" /\ looked' = 0
    /\ found' = IF OddLines = {} THEN LinesOf(Unread) ELSE <<>>
    /\ torn' = IF Unread # {} /\ LastPart = "stub"
               THEN torn \cup {log.pieces[Len(log.pieces)].n} ELSE torn
    /\ runtime' = IF Unread # {} THEN [runtime EXCEPT !.offset = Len(log.pieces)] ELSE runtime
    /\ swaps' = IF looked # log.cuts THEN swaps + 1 ELSE swaps
    /\ UNCHANGED <<files, saved, taken, rewinds>>

\* open, seek, readlines, tell: beyond the end of the file nothing is read, and
\* tell answers the offset.
Read ==
    /\ pc = "open" /\ OddLines = {}
    /\ pc' = "result" /\ looked' = 0
    /\ found' = LinesOf(Unread)
    /\ torn' = IF Unread # {} /\ LastPart = "stub"
               THEN torn \cup {log.pieces[Len(log.pieces)].n} ELSE torn
    /\ runtime' = IF Unread # {} THEN [runtime EXCEPT !.offset = Len(log.pieces)] ELSE runtime
    /\ swaps' = IF looked # log.cuts THEN swaps + 1 ELSE swaps
    /\ UNCHANGED <<files, saved, taken, rewinds>>

\* Mutant: a log that cannot be read is read anew when it is there again.
NoLogStartsOver ==
    /\ pc \in {"idle", "open"}
    /\ pc' = "result" /\ looked' = 0
    /\ runtime' = [runtime EXCEPT !.offset = 0]
    /\ UNCHANGED <<files, saved, found, taken, torn, rewinds, swaps>>

\* OSError, from either call, when there is no log at the moment
NoLog ==
    /\ pc \in {"idle", "open"}
    /\ pc' = "result" /\ looked' = 0
    /\ UNCHANGED <<files, runtime, saved, found, taken, torn, rewinds, swaps>>

----------------------------------------------------------------------------
(* _scanner_result                                                         *)

\* os.path.getmtime: a result that is not newer is left alone.
LookAtResult ==
    /\ pc = "result"
    /\ IF result.scan # 0 /\ result.mtime > runtime.mtime
       THEN pc' = "load" /\ looked' = result.mtime
       ELSE pc' = "emit" /\ looked' = 0
    /\ UNCHANGED <<files, runtime, saved, found, taken, torn, rewinds, swaps>>

\* Mutant: the time of reading is kept.
LoadResultStampsNow ==
    /\ pc = "load"
    /\ pc' = "emit" /\ looked' = 0
    /\ found' = Append(found, [kind |-> "scan", n |-> result.scan])
    /\ runtime' = [runtime EXCEPT !.mtime = MaxClock]
    /\ swaps' = IF looked # result.mtime THEN swaps + 1 ELSE swaps
    /\ UNCHANGED <<files, saved, taken, torn, rewinds>>

\* The file is opened and read; the mtime kept is the one that was looked at.
LoadResult ==
    /\ pc = "load"
    /\ pc' = "emit" /\ looked' = 0
    /\ found' = Append(found, [kind |-> "scan", n |-> result.scan])
    /\ runtime' = [runtime EXCEPT !.mtime = looked]
    /\ swaps' = IF looked # result.mtime THEN swaps + 1 ELSE swaps
    /\ UNCHANGED <<files, saved, taken, torn, rewinds>>

\* OSError, or no JSON: the mtime is not kept, and the next tick tries again.
NoResult ==
    /\ pc \in {"result", "load"}
    /\ pc' = "emit" /\ looked' = 0
    /\ UNCHANGED <<files, runtime, saved, found, taken, torn, rewinds, swaps>>

----------------------------------------------------------------------------
(* The tick around them                                                    *)

\* collect: one EVIDENCE event for each, before any of it is used
Emit ==
    /\ pc = "emit" /\ found # <<>>
    /\ taken' = [taken EXCEPT ![Head(found).kind][Head(found).n] = @ + 1]
    /\ found' = Tail(found)
    /\ UNCHANGED <<files, pc, runtime, saved, looked, torn, rewinds, swaps>>

Save ==
    /\ pc = "emit" /\ found = <<>>
    /\ pc' = "idle"
    /\ saved' = runtime
    /\ UNCHANGED <<files, runtime, looked, found, taken, torn, rewinds, swaps>>

\* The process ends, and what it has not saved is lost.  Evidence can come again
\* when the events of a tick had begun; an end before costs nothing.
Ends ==
    /\ pc' = "down" /\ looked' = 0
    /\ runtime' = FreshRuntime /\ found' = <<>>
    /\ rewinds' = IF pc = "emit" THEN rewinds + 1 ELSE rewinds
    /\ UNCHANGED <<files, saved, taken, torn, swaps>>

\* urlsplit raises; nothing catches it, the lines read with it are dropped, and
\* the next process meets the same line.
ReadRaises ==
    /\ pc = "open" /\ OddLines # {}
    /\ Ends

\* A result that is JSON of another shape than the scanner's raises in the same
\* way, at each tick; the scanner writes none, whoever else writes there may.
LoadRaises ==
    /\ pc = "load"
    /\ Ends

\* The container is killed, an event or the save raises.
Die ==
    /\ pc # "down" /\ (pc = "emit" => rewinds < MaxRewinds)
    /\ Ends

\* StateStore.load
Load ==
    /\ pc = "down"
    /\ pc' = "idle"
    /\ runtime' = saved
    /\ UNCHANGED <<files, saved, looked, found, taken, torn, rewinds, swaps>>

\* StateStore.load when the file that was saved cannot be read
LoadDefault ==
    /\ pc = "down" /\ rewinds < MaxRewinds
    /\ pc' = "idle"
    /\ runtime' = FreshRuntime /\ saved' = FreshRuntime
    /\ rewinds' = rewinds + 1
    /\ UNCHANGED <<files, looked, found, taken, torn, swaps>>

World ==
    \/ \E part \in Parts \ {"rest"} : WriteLine(part)
    \/ WriteRest
    \/ Rotate
    \/ Truncate
    \/ \E s \in Scans : WriteResult(s) \/ ReplaceResult(s) \/ ScanFails(s)

Collect ==
    \/ Look
    \/ Read
    \/ NoLog
    \/ LookAtResult
    \/ LoadResult
    \/ NoResult
    \/ Emit
    \/ Save

Next == World \/ Collect \/ ReadRaises \/ LoadRaises \/ Die \/ Load \/ LoadDefault

Spec == Init /\ [][Next]_vars

----------------------------------------------------------------------------
(* Properties                                                              *)

Runtimes == [inode : 0..(MaxCuts + 1), offset : 0..(2 * MaxLines), mtime : 0..MaxClock]

\* Every variable holds a value of its kind.
TypeOK ==
    /\ pc \in {"down", "idle", "open", "result", "load", "emit"}
    /\ runtime \in Runtimes /\ saved \in Runtimes
    /\ log.inode \in 1..(MaxCuts + 1) /\ Len(log.pieces) <= 2 * MaxLines
    /\ \A i \in DOMAIN log.pieces : log.pieces[i] \in [n : Lines, part : Parts]
    /\ odd \subseteq Lines /\ aside \subseteq Scans
    /\ result \in [scan : 0..MaxScans, mtime : 0..MaxClock]
    /\ Len(found) <= MaxLines + 1
    /\ \A i \in DOMAIN found : found[i] \in [kind : {"line"}, n : Lines] \cup [kind : {"scan"}, n : Scans]
    /\ torn \subseteq Lines
    /\ {rewinds, swaps} \subseteq Nat

\* A line and a scan become evidence once, however the files are cut, replaced
\* and half written, and however often the process ends before its events: again
\* only when it ended among the events of a tick, when its saved file was lost,
\* or when a file was exchanged between the look at it and its opening.
EvidenceOnce ==
    /\ \A n \in Lines : taken.line[n] <= 1 + rewinds + swaps
    /\ \A s \in Scans : taken.scan[s] <= 1 + rewinds + swaps

\* Behind the offset there is a line, or its part up to the status code.
Complete(n) == \E i \in 1..runtime.offset :
    /\ i \in DOMAIN log.pieces
    /\ log.pieces[i].n = n
    /\ log.pieces[i].part # "stub"

\* Of a log that is only ever rotated to files with inodes of their own, each
\* line behind the offset between two ticks has become evidence, unless a tick
\* found its first part alone: then both parts are read and neither matches.
\* So the offset stays before a line that urlsplit raises for, with all that is
\* behind it, until the log is rotated.  (A log that is truncated and has outgrown
\* the offset before the next look is taken for the old one.)
NothingSkipped ==
    pc = "idle" /\ log.inode = log.cuts + 1 /\ runtime.inode = log.inode =>
        \A n \in Lines \ torn : Complete(n) => taken.line[n] > 0

\* The scans whose result is in place, or was.
Placed == {s \in Scans \ aside : stamps[s] # 0}

\* Between two ticks a result that the mtime test passes over has been read, or
\* it is no newer than another that was in place and read, or seen by a look and
\* exchanged before the open.  So a result newer than all before it is not missed;
\* one that was written earlier than another and put in place after it is, and
\* so is one of the same mtime.
ResultNotMissed ==
    (pc = "idle" /\ result.scan # 0 /\ result.mtime <= runtime.mtime) =>
        \E s \in Placed :
            /\ stamps[s] >= result.mtime
            /\ taken.scan[s] > 0 \/ (s # result.scan /\ swaps > 0)
=============================================================================
