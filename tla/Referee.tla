------------------------------ MODULE Referee ------------------------------
(***************************************************************************)
(* The CTF referee (referee/service.py): a ThreadingHTTPServer whose       *)
(* handler threads judge submissions under one lock, keep the scoreboard   *)
(* in memory and save it to a state file with a temporary file and         *)
(* os.replace.  The status endpoint reads the scoreboard without the lock. *)
(* The process may be killed between any two steps, a save may fail, and   *)
(* the host may lose power before the kernel has written the state file    *)
(* out (_save never calls fsync).                                          *)
(*                                                                         *)
(* A request's header and body checks decide only whether the request is   *)
(* refused, so a request is a candidate drawn from Candidates.             *)
(***************************************************************************)
EXTENDS Naturals, FiniteSets

CONSTANTS
    Flags,           \* the three flag identifiers, flag-1 to flag-3
    Threads,         \* handler threads of the HTTP server
    Budgets,         \* values K3DF_REFEREE_MAX_SUBMISSIONS may have at a start
    MaxPowerLosses,  \* bound: power failures of the host explored
    Corrupt          \* the state file as a power failure may leave it: unreadable

ASSUME FlagsAssumption == IsFiniteSet(Flags) /\ Cardinality(Flags) = 3
ASSUME BudgetsAssumption == Budgets \subseteq Nat \ {0}
ASSUME PowerAssumption == MaxPowerLosses \in Nat

Wrong == "wrong"            \* a well-formed candidate that is no flag
NonAscii == "non-ascii"     \* well-formed for the handler, not for compare_digest
Nobody == "nobody"          \* the lock is free
NoStatus == [count |-> 0, won |-> FALSE]

ASSUME NamesAssumption ==
    /\ {Wrong, NonAscii} \cap Flags = {}
    /\ Nobody \notin Threads
    /\ IsFiniteSet(Threads)

Candidates == Flags \cup {Wrong, NonAscii}
Outcomes == {"none", "accepted", "duplicate", "rejected", "budget_exhausted"}
Scores == [accepted : SUBSET Flags, attempts : Nat]
Empty == [accepted |-> {}, attempts |-> 0]    \* what _load makes of no file

ASSUME CorruptAssumption == Corrupt \notin Scores

VARIABLES
    up,          \* the process has passed Referee.__init__ and serves
    maxSubs,     \* max_submissions
    lock,        \* Referee.lock: the thread that holds it, or Nobody
    memory,      \* accepted and submission_attempts of the Referee object
    disk,        \* state_path: what a read of the file would give now
    synced,      \* what the disk itself is sure to hold of that file
    pc,          \* where each handler thread is
    candidate,   \* the candidate a thread judges
    outcome,     \* the outcome of that candidate, once known
    temp,        \* the snapshot a thread wrote to its temporary file
    seen,        \* the first len(accepted) a status handler took
    status,      \* the last status answer sent since the start
    announced,   \* history: flags told to be accepted or duplicate since power came up
    firsts,      \* history: flags told to be accepted
    twice,       \* history: flags told to be accepted more than once
    answered,    \* history: judged submissions that got their answer
    submitted,   \* history: flags some client has submitted
    powerLosses  \* power failures so far

server == <<up, maxSubs, lock, memory>>
files == <<disk, synced, powerLosses>>
threads == <<pc, candidate, outcome, temp, seen, status>>
history == <<announced, firsts, twice, answered, submitted>>
vars == <<server, files, threads, history>>

\* A handler thread between two requests: its locals are gone.
AtRest(t) ==
    /\ pc' = [pc EXCEPT ![t] = "idle"]
    /\ candidate' = [candidate EXCEPT ![t] = Wrong]
    /\ outcome' = [outcome EXCEPT ![t] = "none"]
    /\ temp' = [temp EXCEPT ![t] = Empty]
    /\ seen' = [seen EXCEPT ![t] = 0]

Init ==
    /\ up = FALSE /\ maxSubs \in Budgets
    /\ lock = Nobody /\ memory = Empty
    /\ disk = Empty /\ synced = Empty /\ powerLosses = 0
    /\ pc = [t \in Threads |-> "idle"]
    /\ candidate = [t \in Threads |-> Wrong]
    /\ outcome = [t \in Threads |-> "none"]
    /\ temp = [t \in Threads |-> Empty]
    /\ seen = [t \in Threads |-> 0]
    /\ status = NoStatus
    /\ announced = {} /\ firsts = {} /\ twice = {}
    /\ answered = 0 /\ submitted = {}

----------------------------------------------------------------------------
(* Start: Referee.__init__ ends with _load, which refuses an unreadable    *)
(* file; the budget comes from the environment of this start.              *)

\* Mutant: every start begins with an empty scoreboard.
LoadNothing == Empty

Load == disk

\* what the state file says, an unreadable one says nothing
Recorded == IF disk = Corrupt THEN Empty ELSE disk

\* Mutant: an unreadable file is taken as it is.
StartRegardless ==
    /\ ~up
    /\ up' = TRUE
    /\ maxSubs' \in Budgets
    /\ memory' = Load
    /\ UNCHANGED <<lock, files, threads, history>>

Start ==
    /\ ~up
    /\ disk # Corrupt
    /\ up' = TRUE
    /\ maxSubs' \in Budgets
    /\ memory' = Load
    /\ UNCHANGED <<lock, files, threads, history>>

\* main() returns 1 and nothing on disk changes; the loss of power that
\* damaged the file is not undone by starting again.
Forget ==
    /\ up' = FALSE
    /\ lock' = Nobody
    /\ memory' = Empty
    /\ pc' = [t \in Threads |-> "idle"]
    /\ candidate' = [t \in Threads |-> Wrong]
    /\ outcome' = [t \in Threads |-> "none"]
    /\ temp' = [t \in Threads |-> Empty]
    /\ seen' = [t \in Threads |-> 0]
    /\ status' = NoStatus

Crash ==
    /\ up
    /\ Forget
    /\ UNCHANGED <<maxSubs, files, history>>

\* Without fsync the file may come back as it was at the last writeback,
\* as it was last replaced, or empty.  What clients were told before may be
\* gone: the histories of answers start again.
PowerLoss ==
    /\ powerLosses < MaxPowerLosses
    /\ powerLosses' = powerLosses + 1
    /\ disk' \in {disk, synced} \cup (IF disk = synced THEN {} ELSE {Corrupt})
    /\ synced' = disk'
    /\ Forget
    /\ announced' = {} /\ firsts' = {} /\ twice' = {} /\ answered' = 0
    /\ UNCHANGED <<maxSubs, submitted>>

\* The kernel writes the state file out in its own time.
Writeback ==
    /\ MaxPowerLosses > 0
    /\ synced # disk
    /\ synced' = disk
    /\ UNCHANGED <<disk, powerLosses, server, threads, history>>

----------------------------------------------------------------------------
(* POST /ctf/referee/v1/submissions                                        *)

Post(t, c) ==
    /\ up /\ pc[t] = "idle"
    /\ pc' = [pc EXCEPT ![t] = "wait"]
    /\ candidate' = [candidate EXCEPT ![t] = c]
    /\ submitted' = submitted \cup ({c} \cap Flags)
    /\ UNCHANGED <<server, files, outcome, temp, seen, status,
                   announced, firsts, twice, answered>>

\* with self.lock: ... the budget is full and nothing is saved
Exhausted(t) ==
    /\ pc[t] = "wait" /\ lock = Nobody
    /\ memory.attempts >= maxSubs
    /\ outcome' = [outcome EXCEPT ![t] = "budget_exhausted"]
    /\ pc' = [pc EXCEPT ![t] = "send"]
    /\ UNCHANGED <<server, files, candidate, temp, seen, status, history>>

\* Mutant: the lock is not taken.
AdmitUnlocked(t) ==
    /\ pc[t] = "wait"
    /\ memory.attempts < maxSubs
    /\ memory' = [memory EXCEPT !.attempts = @ + 1]
    /\ pc' = [pc EXCEPT ![t] = "compare"]
    /\ UNCHANGED <<lock, up, maxSubs, files, candidate, outcome, temp, seen, status, history>>

\* Mutant: the attempt is not counted.
AdmitUncounted(t) ==
    /\ pc[t] = "wait" /\ lock = Nobody
    /\ memory.attempts < maxSubs
    /\ lock' = t
    /\ pc' = [pc EXCEPT ![t] = "compare"]
    /\ UNCHANGED <<up, maxSubs, memory, files, candidate, outcome, temp, seen, status, history>>

\* with self.lock: ... submission_attempts += 1
Admit(t) ==
    /\ pc[t] = "wait" /\ lock = Nobody
    /\ memory.attempts < maxSubs
    /\ lock' = t
    /\ memory' = [memory EXCEPT !.attempts = @ + 1]
    /\ pc' = [pc EXCEPT ![t] = "compare"]
    /\ UNCHANGED <<up, maxSubs, files, candidate, outcome, temp, seen, status, history>>

\* Mutant: the lock is not a context manager.
RaiseKeepsLock(t) ==
    /\ AtRest(t)
    /\ UNCHANGED <<up, maxSubs, lock, memory, files, status, history>>

\* An exception inside the with block: the lock is released, the connection
\* is closed without an answer, and memory keeps what was already changed.
Raise(t) ==
    /\ lock' = Nobody
    /\ AtRest(t)
    /\ UNCHANGED <<up, maxSubs, memory, files, status, history>>

\* hmac.compare_digest raises TypeError for a string that is not ASCII
CompareRaises(t) ==
    /\ pc[t] = "compare"
    /\ candidate[t] = NonAscii
    /\ Raise(t)

Judge(c) ==
    IF c \notin Flags THEN "rejected"
    ELSE IF c \in memory.accepted THEN "duplicate" ELSE "accepted"

Compare(t) ==
    /\ pc[t] = "compare"
    /\ candidate[t] # NonAscii
    /\ outcome' = [outcome EXCEPT ![t] = Judge(candidate[t])]
    /\ memory' = [memory EXCEPT !.accepted = @ \cup ({candidate[t]} \cap Flags)]
    /\ pc' = [pc EXCEPT ![t] = "write"]
    /\ UNCHANGED <<up, maxSubs, lock, files, candidate, temp, seen, status, history>>

\* _save: the temporary file is written and closed
Write(t) ==
    /\ pc[t] = "write"
    /\ temp' = [temp EXCEPT ![t] = memory]
    /\ pc' = [pc EXCEPT ![t] = "replace"]
    /\ UNCHANGED <<server, files, candidate, outcome, seen, status, history>>

\* _save: os.replace, and submit returns, which releases the lock
Replace(t) ==
    /\ pc[t] = "replace"
    /\ disk' = temp[t]
    /\ lock' = Nobody
    /\ pc' = [pc EXCEPT ![t] = "send"]
    /\ UNCHANGED <<up, maxSubs, memory, synced, powerLosses,
                   candidate, outcome, temp, seen, status, history>>

\* Mutant: a failed save is not an error.
SaveSwallowed(t) ==
    /\ pc[t] \in {"write", "replace"}
    /\ lock' = Nobody
    /\ pc' = [pc EXCEPT ![t] = "send"]
    /\ UNCHANGED <<up, maxSubs, memory, files, candidate, outcome, temp, seen, status, history>>

\* _save raises (no space, read-only volume) before the file is replaced
SaveRaises(t) ==
    /\ pc[t] \in {"write", "replace"}
    /\ Raise(t)

\* _send: the answer leaves, or the client has gone and the write raises
Send(t) ==
    /\ pc[t] = "send"
    /\ AtRest(t)
    /\ answered' = IF outcome[t] = "budget_exhausted" THEN answered ELSE answered + 1
    /\ announced' = IF outcome[t] \in {"accepted", "duplicate"}
                    THEN announced \cup {candidate[t]} ELSE announced
    /\ firsts' = IF outcome[t] = "accepted" THEN firsts \cup {candidate[t]} ELSE firsts
    /\ twice' = IF outcome[t] = "accepted" THEN twice \cup ({candidate[t]} \cap firsts) ELSE twice
    /\ UNCHANGED <<server, files, status, submitted>>

SendRaises(t) ==
    /\ pc[t] = "send"
    /\ AtRest(t)
    /\ UNCHANGED <<server, files, status, history>>

----------------------------------------------------------------------------
(* GET /ctf/referee/v1/status: two reads of len(accepted), no lock         *)

StatusCount(t) ==
    /\ up /\ pc[t] = "idle"
    /\ seen' = [seen EXCEPT ![t] = Cardinality(memory.accepted)]
    /\ pc' = [pc EXCEPT ![t] = "status"]
    /\ UNCHANGED <<server, files, candidate, outcome, temp, status, history>>

\* Mutant: the win is read before the count.
StatusCountLast(t) ==
    /\ pc[t] = "status"
    /\ status' = [count |-> Cardinality(memory.accepted), won |-> seen[t] = 3]
    /\ AtRest(t)
    /\ UNCHANGED <<server, files, history>>

StatusWon(t) ==
    /\ pc[t] = "status"
    /\ status' = [count |-> seen[t], won |-> Cardinality(memory.accepted) = 3]
    /\ AtRest(t)
    /\ UNCHANGED <<server, files, history>>

----------------------------------------------------------------------------

\* what a thread does while it holds the lock
Locked(t) == CompareRaises(t) \/ Compare(t) \/ Write(t) \/ Replace(t) \/ SaveRaises(t)

Submit(t) == Exhausted(t) \/ Admit(t) \/ Locked(t) \/ Send(t) \/ SendRaises(t)

Status(t) == StatusCount(t) \/ StatusWon(t)

Environment == Start \/ Crash \/ PowerLoss \/ Writeback

Next ==
    \/ Environment
    \/ \E t \in Threads : Submit(t) \/ Status(t) \/ \E c \in Candidates : Post(t, c)

Spec == Init /\ [][Next]_vars

\* A running thread is scheduled, an admitted one to the end of its critical
\* section; nothing is assumed of clients, of restarts or of the lock's order.
Fairness == \A t \in Threads : WF_vars(Locked(t))

FairSpec == Spec /\ Fairness

----------------------------------------------------------------------------
(* Properties                                                              *)

\* Every variable holds a value of its kind.
TypeOK ==
    /\ up \in BOOLEAN /\ maxSubs \in Budgets
    /\ lock \in Threads \cup {Nobody}
    /\ memory \in Scores
    /\ disk \in Scores \cup {Corrupt} /\ synced \in Scores \cup {Corrupt}
    /\ powerLosses \in 0..MaxPowerLosses
    /\ pc \in [Threads -> {"idle", "wait", "compare", "write", "replace", "send", "status"}]
    /\ candidate \in [Threads -> Candidates]
    /\ outcome \in [Threads -> Outcomes]
    /\ temp \in [Threads -> Scores]
    /\ seen \in [Threads -> Nat]
    /\ status \in [count : Nat, won : BOOLEAN]
    /\ announced \subseteq Flags /\ firsts \subseteq Flags /\ twice \subseteq Flags
    /\ submitted \subseteq Flags
    /\ answered \in Nat

\* What a client was told is accepted is in the state file, whatever crashes,
\* failed saves and restarts came in between (submit saves before it returns).
AnnouncedIsDurable == announced \subseteq Recorded.accepted

\* The budget holds over all restarts together: every judged submission that
\* got an answer is counted in the state file, and that count never exceeds a
\* configured budget, although crashes and failed saves lose counted attempts.
AnswersArePaid ==
    /\ answered <= Recorded.attempts
    /\ Recorded.attempts > 0 => \E b \in Budgets : Recorded.attempts <= b

\* No flag is announced as newly accepted twice, to two racing clients or
\* before and after a restart (submit computes duplicate under the lock).
AcceptedOnce == twice = {}

\* Memory and any readable state file hold only flags that somebody submitted,
\* each paid for by an attempt of its own, even after the host lost power.
PaidFor(score) ==
    /\ score.accepted \subseteq submitted
    /\ Cardinality(score.accepted) <= score.attempts

AcceptancesArePaid ==
    /\ PaidFor(memory)
    /\ disk # Corrupt => PaidFor(disk)
    /\ synced # Corrupt => PaidFor(synced)

\* A status answer is put together from two reads without the lock, and yet it
\* never claims three flags without the win, nor more than memory holds.
StatusConsistent ==
    /\ status.count = 3 => status.won
    /\ status.count <= Cardinality(memory.accepted)
    /\ status.won => memory.accepted = Flags

\* A judgement always lets go of the lock, on every path out of submit, so no
\* failed save or TypeError can shut the referee for the other clients.
LockIsReleased == \A t \in Threads : lock = t ~> lock # t

\* As long as the host keeps its power, the state file and the answers
\* implement the abstract scoreboard: no step of the threads, no failed save and
\* no restart takes the record back or writes an older snapshot over a newer one.
Board == INSTANCE Scoreboard
            WITH accepted <- Recorded.accepted, attempts <- Recorded.attempts

ScoreboardSpec == Board!Spec
----------------------------------------------------------------------------
(* The inductive invariant the safety properties rest on                   *)

\* Only the holder of the lock is inside the critical section, and a process
\* that is down has neither threads at work nor a scoreboard.
LockInv ==
    /\ \A t \in Threads : lock = t <=> pc[t] \in {"compare", "write", "replace"}
    /\ ~up => /\ \A t \in Threads : pc[t] = "idle"
              /\ lock = Nobody
              /\ memory = Empty
              /\ status = NoStatus

\* The file is never ahead of memory, it is strictly behind while a judgement
\* is under way, and the snapshot about to replace it is what memory holds.
FileInv ==
    /\ up => /\ disk # Corrupt
             /\ Recorded.accepted \subseteq memory.accepted
             /\ Recorded.attempts <= memory.attempts
    /\ lock # Nobody => up /\ Recorded.attempts < memory.attempts
    /\ \A t \in Threads : pc[t] = "replace" => temp[t] = memory

\* Attempts are within a configured budget wherever they are kept.
BudgetInv ==
    \A score \in {memory, disk, synced} \ {Corrupt} :
        score.attempts > 0 => \E b \in Budgets : score.attempts <= b

\* judged submissions whose answer is not sent yet
Pending == {t \in Threads : pc[t] = "send" /\ outcome[t] # "budget_exhausted"}

\* Each answer, sent or about to be sent, has its attempt in the file.
PaidInv == answered + Cardinality(Pending) <= Recorded.attempts

\* A thread that has judged its candidate has it in memory, and once it is
\* about to answer, in the file.
ToldInv ==
    /\ announced \subseteq Recorded.accepted
    /\ firsts \subseteq announced
    /\ \A t \in Threads : outcome[t] \in {"accepted", "duplicate"} =>
          /\ pc[t] \in {"write", "replace", "send"}
          /\ candidate[t] \in memory.accepted
          /\ pc[t] = "send" => candidate[t] \in Recorded.accepted

\* At most one thread holds, or anyone was given, the first acceptance of a flag.
FirstInv ==
    /\ twice = {}
    /\ \A t \in Threads : outcome[t] = "accepted" =>
          /\ candidate[t] \notin firsts
          /\ \A u \in Threads \ {t} :
                outcome[u] = "accepted" => candidate[u] # candidate[t]

\* A half-finished status answer is not ahead of memory either.
SeenInv ==
    \A t \in Threads :
        pc[t] = "status" => up /\ seen[t] <= Cardinality(memory.accepted)

\* A flag under judgement was submitted, and its attempt is counted before it is
\* compared.
CountInv ==
    /\ \A t \in Threads : candidate[t] \in Flags => candidate[t] \in submitted
    /\ \A t \in Threads :
          pc[t] = "compare" => Cardinality(memory.accepted) < memory.attempts
    /\ AcceptancesArePaid

IInv ==
    /\ CountInv
    /\ TypeOK /\ LockInv /\ FileInv /\ BudgetInv /\ PaidInv /\ ToldInv /\ FirstInv
    /\ SeenInv /\ StatusConsistent
=============================================================================
