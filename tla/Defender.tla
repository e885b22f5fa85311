------------------------------ MODULE Defender ------------------------------
(***************************************************************************)
(* The Defender process (defender/service.py with state_store.py and       *)
(* collectors.py): a main thread that ticks once a second and an HTTP      *)
(* server that answers Nginx's auth_request.  Both use the state under one *)
(* lock, which a tick holds from its first to its last line, the call to   *)
(* the Kimi API included.  A tick reads what is new in the access log,     *)
(* hands the buffered evidence to Kimi when the interval has passed,       *)
(* executes the proposed scenarios, and saves the state; events are        *)
(* appended to their file on the way.  The container is killed or the      *)
(* process dies of an exception at any point, and Docker starts it again.  *)
(*                                                                         *)
(* Left out of the state: what apply_analysis records for the dashboard,   *)
(* and scanner findings, which enter the buffer as access evidence does.   *)
(***************************************************************************)
EXTENDS Policy, Selections

CONSTANTS
    Clients,      \* addresses that visit locations Nginx asks about
    Scenarios,    \* defense scenarios Kimi may propose
    BatchLimit,   \* groups of evidence a batch holds, 50 in aggregate
    MaxProposals, \* scenarios in one answer, 10 in validate_result
    MaxLines,     \* bound: access log lines written
    MaxRotations, \* bound: rotations and truncations of the access log
    MaxCycles,    \* bound: reasoning cycles
    MaxFaults,    \* bound: failing writes and reads of the state directory
    MaxDeaths,    \* bound: ends of the process
    MaxTime       \* bound: the clock

ASSUME ClientAssumption == Clients \subseteq Addresses
ASSUME LimitAssumption ==
    /\ {BatchLimit, MaxProposals} \subseteq Nat \ {0}
    /\ {MaxLines, MaxRotations, MaxCycles, MaxFaults, MaxDeaths, MaxTime} \subseteq Nat

VARIABLES
    mode,      \* "down", "up", or "dying" of an exception in the main thread
    pc,        \* where the tick is; "sleep" between two ticks
    state,     \* the state object, as far as it is modelled
    disk,      \* defender_state.json
    buffer,    \* Defender.buffer: evidence not yet reasoned about
    due,       \* the reasoning interval has passed since last_reasoning
    proposals, \* scenarios of the present answer still to be executed
    events,    \* events.ndjson, as the set of its entries
    log,       \* the access log: its inode, its lines, the lines ever written, rotations
    now,       \* the clock
    request,   \* the last request of each client and what Nginx made of it
    faults,    \* failures so far
    given,     \* history: how often each line was in a batch handed to Kimi
    dropped,   \* history: lines aggregate cut off at its limit
    read,      \* history: lines the collector has read and not ignored
    deaths,    \* history: ends of the process
    rewinds    \* history: how often a process did not go on from where the last
               \* tick of its predecessor ended

world == <<log, now, request>>
history == <<given, dropped, read, deaths, rewinds>>
vars == <<mode, pc, state, disk, buffer, due, proposals, events, faults, world, history>>

Lines == 1..MaxLines
Missing == [cycle |-> 0]   \* no state file yet

\* default_state
Default == [cycle |-> 0, reasonings |-> 0, inode |-> 0, offset |-> 0, blocks |-> NoBlocks]

Init ==
    /\ mode = "down" /\ pc = "sleep"
    /\ state = Default /\ disk = Missing
    /\ buffer = <<>> /\ due = FALSE /\ proposals = <<>>
    /\ events = {}
    /\ log = [inode |-> 1, lines |-> <<>>, last |-> 0, cuts |-> 0]
    /\ now = 0
    /\ request = [a \in Clients |-> "idle"]
    /\ faults = 0 /\ deaths = 0 /\ rewinds = 0
    /\ given = [n \in Lines |-> 0] /\ dropped = {} /\ read = {}

----------------------------------------------------------------------------
(* The world: the clock, the clients, Nginx                                *)

Advance ==
    /\ now < MaxTime
    /\ now' = now + 1
    /\ UNCHANGED <<mode, pc, state, disk, buffer, due, proposals, events, faults, log, request, history>>

IntervalPasses ==
    /\ mode = "up" /\ ~due
    /\ state.cycle < MaxCycles
    /\ due' = TRUE
    /\ UNCHANGED <<mode, pc, state, disk, buffer, proposals, events, faults, world, history>>

\* Nginx logs a request when it has answered it.
Logged(a) ==
    log' = IF log.last < MaxLines
           THEN [log EXCEPT !.lines = Append(log.lines, [n |-> log.last + 1, src |-> a]),
                            !.last = log.last + 1]
           ELSE log

\* A new file takes the log's place, or the file is cut to nothing.
Cut(inode) ==
    /\ log.cuts < MaxRotations
    /\ log' = [log EXCEPT !.inode = inode, !.lines = <<>>, !.cuts = log.cuts + 1]
    /\ UNCHANGED <<mode, pc, state, disk, buffer, due, proposals, events, faults, now, request, history>>

Rotate == Cut(log.inode + 1)

Truncate == Cut(log.inode)

\* location / : auth_request, an internal request to /nginx/auth
Ask(a) ==
    /\ request[a] # "waiting"
    /\ request' = [request EXCEPT ![a] = "waiting"]
    /\ UNCHANGED <<mode, pc, state, disk, buffer, due, proposals, events, faults, log, now, history>>

\* location /ap1/ and the referee's locations have no auth_request.
Bypass(a) ==
    /\ log.last < MaxLines
    /\ Logged(a)
    /\ UNCHANGED <<mode, pc, state, disk, buffer, due, proposals, events, faults, now, request, history>>

\* The auth endpoint is down, or a tick holds the lock beyond Nginx's timeout.
AuthFails(a) ==
    /\ request[a] = "waiting"
    /\ mode # "up" \/ pc # "sleep"
    /\ request' = [request EXCEPT ![a] = "failed"]
    /\ Logged(a)
    /\ UNCHANGED <<mode, pc, state, disk, buffer, due, proposals, events, faults, now, history>>

\* Mutant: a record refuses its address until it is dropped.
AuthExpired(a) ==
    /\ request[a] = "waiting"
    /\ mode # "down" /\ pc = "sleep"
    /\ request' = [request EXCEPT ![a] = IF state.blocks[a] # 0 THEN "denied" ELSE "passed"]
    /\ Logged(a)
    /\ UNCHANGED <<mode, pc, state, disk, buffer, due, proposals, events, faults, now, history>>

\* Defender.auth: under the lock, which prunes the block list in memory.  A
\* process that dies still answers until the interpreter is gone.
Auth(a) ==
    /\ request[a] = "waiting"
    /\ mode # "down" /\ pc = "sleep"
    /\ request' = [request EXCEPT ![a] =
                     IF ActiveBlock(state.blocks, a, now) THEN "denied" ELSE "passed"]
    /\ state' = [state EXCEPT !.blocks = Prune(@, now)]
    /\ Logged(a)
    /\ UNCHANGED <<mode, pc, disk, buffer, due, proposals, events, faults, now, history>>

----------------------------------------------------------------------------
(* Start and end of the process                                            *)

Serve(loaded) ==
    /\ mode = "down"
    /\ mode' = "up"
    /\ state' = loaded
    /\ UNCHANGED <<pc, buffer, due, proposals, events, world, given, dropped, read, deaths>>

\* Mutant: only the counters and the place in the log are restored.
LoadCounters ==
    /\ disk # Missing
    /\ Serve([disk EXCEPT !.blocks = NoBlocks])
    /\ UNCHANGED <<disk, faults, rewinds>>

\* StateStore.load
Load ==
    /\ disk # Missing
    /\ Serve(disk)
    /\ UNCHANGED <<disk, faults, rewinds>>

\* StateStore.load with no state file, or one that cannot be read this time:
\* the default state is used, and saved over whatever there is.
LoadDefault ==
    /\ \/ disk = Missing /\ UNCHANGED <<faults, rewinds>>
       \/ /\ disk # Missing /\ faults < MaxFaults
          /\ faults' = faults + 1
          /\ rewinds' = rewinds + 1
    /\ Serve(Default)
    /\ disk' = Default

End ==
    /\ mode' = "down" /\ pc' = "sleep"
    /\ state' = Default
    /\ buffer' = <<>> /\ due' = FALSE /\ proposals' = <<>>
    /\ deaths' = deaths + 1
    /\ rewinds' = IF mode = "up" /\ pc = "sleep" THEN rewinds ELSE rewinds + 1
    /\ UNCHANGED <<disk, events, faults, world, given, dropped, read>>

\* The container is stopped or killed.
Killed ==
    /\ mode = "up"
    /\ deaths < MaxDeaths
    /\ End

\* The interpreter is gone after an exception in the main thread.
Exits ==
    /\ mode = "dying"
    /\ End

----------------------------------------------------------------------------
(* tick, part one: observe                                                 *)

\* Mutant: the log is read from its start each time.
ReadFromStart(st) == 0

\* _access_log: a new inode or a file shorter than the offset is read from its
\* start.
ReadFrom(st) ==
    IF st.inode # log.inode \/ Len(log.lines) < st.offset THEN 0 ELSE st.offset

Unread(st) == SubSeq(log.lines, ReadFrom(st) + 1, Len(log.lines))

\* collect: evidence of ignored networks is only counted.
Trusted(line) == line.src.net = "ignored"

Numbers(items) == {items[i].n : i \in DOMAIN items}

\* collect, and the pruning of the block list
Observe(fresh) ==
    /\ mode = "up" /\ pc = "sleep"
    /\ read' = read \cup Numbers(fresh)
    /\ state' = [state EXCEPT !.inode = log.inode, !.offset = Len(log.lines),
                              !.blocks = Prune(state.blocks, now)]
    /\ UNCHANGED <<mode, disk, due, proposals, events, faults, world,
                   given, dropped, deaths, rewinds>>

Fresh ==
    LET lines == Unread(state)
    IN Selected(lines, {i \in DOMAIN lines : ~Trusted(lines[i])})

\* Mutant: new evidence takes the place of what the buffer holds.
CollectReplaces ==
    /\ Observe(Fresh)
    /\ buffer' = IF Fresh = <<>> THEN buffer ELSE Fresh
    /\ pc' = IF buffer' # <<>> /\ due THEN "plan" ELSE "save"

\* Mutant: only new evidence makes a batch.
CollectNewOnly ==
    /\ Observe(Fresh)
    /\ buffer' = buffer \o Fresh
    /\ pc' = IF Fresh # <<>> /\ due THEN "plan" ELSE "save"

\* tick: buffer.extend, and the test for the next batch
Collect ==
    /\ Observe(Fresh)
    /\ buffer' = buffer \o Fresh
    /\ pc' = IF buffer' # <<>> /\ due THEN "plan" ELSE "save"

\* An exception outside the try block ends the main thread: the lock is
\* released and the interpreter goes down.
Fault == faults < MaxFaults /\ faults' = faults + 1

Fatal ==
    /\ Fault
    /\ mode' = "dying" /\ pc' = "sleep"
    /\ UNCHANGED <<state, disk, buffer, due, proposals, events, world, history>>

\* The EVIDENCE event of some new line cannot be written, or reading raises.  A
\* line urlsplit raises for does so again for each process that follows, as long
\* as there are failures to come; Collector.tla takes it without a bound.
CollectRaises ==
    /\ mode = "up" /\ pc = "sleep"
    /\ Unread(state) # <<>>
    /\ Fatal

----------------------------------------------------------------------------
(* tick, part two: reason                                                  *)

\* aggregate: one group for each fingerprint, in order of first appearance,
\* and the groups beyond the limit are cut off.
Fingerprint(item) == <<item.n = 0, item.src>>

GroupsBefore(i) ==
    {Fingerprint(buffer[j]) :
        j \in {k \in 1..i : \A l \in 1..k : Fingerprint(buffer[l]) # Fingerprint(buffer[i])}}

Batch == {i \in DOMAIN buffer : Cardinality(GroupsBefore(i)) < BatchLimit}

BatchLines == {buffer[i].n : i \in Batch} \ {0}

Plan ==
    /\ pc = "plan"
    /\ given' = [n \in Lines |-> IF n \in BatchLines THEN given[n] + 1 ELSE given[n]]
    /\ dropped' = dropped \cup (Numbers(buffer) \ ({0} \cup BatchLines))
    /\ buffer' = <<>>
    /\ state' = [state EXCEPT !.cycle = @ + 1]
    /\ events' = events \cup {[type |-> "REASONING_START", about |-> state.cycle + 1]}
    /\ pc' = "analyze"
    /\ UNCHANGED <<mode, disk, due, proposals, faults, world, read, deaths, rewinds>>

PlanRaises ==
    /\ pc = "plan"
    /\ Fatal

Answers == UNION {[1..n -> Scenarios] : n \in 0..MaxProposals}

\* Kimi answers, validate_result and apply_analysis succeed.
Analyze ==
    /\ pc = "analyze"
    /\ \E answer \in Answers : proposals' = answer
    /\ pc' = "execute"
    /\ UNCHANGED <<mode, state, disk, buffer, due, events, faults, world, history>>

\* No key, no connection, no JSON, a field of the wrong kind, an event that
\* cannot be written: the handler of the try block takes over.
Caught ==
    /\ pc' = "error"
    /\ proposals' = <<>>

AnalyzeRaises ==
    /\ pc = "analyze"
    /\ Caught
    /\ UNCHANGED <<mode, state, disk, buffer, due, events, faults, world, history>>

----------------------------------------------------------------------------
(* tick, part three: execute_scenarios, one scenario at a time             *)

\* The POLICY event is written before anything is done about the scenario.
Judge ==
    LET scenario == Head(proposals)
        verdict == IF Allows(scenario) THEN "ALLOW" ELSE "BLOCK"
    IN  /\ pc = "execute" /\ proposals # <<>>
        /\ events' = events \cup {[type |-> "POLICY", about |-> <<verdict, scenario>>]}
        /\ IF Blocks(scenario)
           THEN pc' = "contain" /\ UNCHANGED proposals
           ELSE pc' = "execute" /\ proposals' = Tail(proposals)
        /\ UNCHANGED <<mode, state, disk, buffer, due, faults, world, history>>

\* block_ip, the active action and the phase
Block ==
    LET scenario == Head(proposals)
    IN  state' = [state EXCEPT !.blocks = BlockIp(@, scenario.ip, scenario.duration, now)]

Contain ==
    /\ pc = "contain"
    /\ Block
    /\ events' = events \cup {[type |-> "ACTION", about |-> Head(proposals).ip]}
    /\ pc' = "verify"
    /\ UNCHANGED <<mode, disk, buffer, due, proposals, faults, world, history>>

\* The ACTION event cannot be written; the block is not undone.
ContainRaises ==
    /\ pc = "contain"
    /\ Fault
    /\ Block
    /\ Caught
    /\ UNCHANGED <<mode, disk, buffer, due, events, world, history>>

\* active_block, the VERIFY event, and the action as evidence of the next batch
Verify ==
    LET ip == Head(proposals).ip
    IN  /\ pc = "verify"
        /\ state' = [state EXCEPT !.blocks = Prune(@, now)]
        /\ events' = events \cup {[type |-> "VERIFY", about |-> ip]}
        /\ buffer' = Append(buffer, [n |-> 0, src |-> ip])
        /\ proposals' = Tail(proposals)
        /\ pc' = "execute"
        /\ UNCHANGED <<mode, disk, due, faults, world, history>>

\* The POLICY, VERIFY or REASONING_END event cannot be written.
ExecuteRaises ==
    /\ pc \in {"execute", "verify"}
    /\ Fault
    /\ Caught
    /\ UNCHANGED <<mode, state, disk, buffer, due, events, world, history>>

----------------------------------------------------------------------------
(* tick, part four: conclude and save                                      *)

\* reasoning_cycle_count and last_reasoning, after success and failure alike
Conclude(type) ==
    /\ events' = events \cup {[type |-> type, about |-> state.cycle]}
    /\ state' = [state EXCEPT !.reasonings = @ + 1]
    /\ due' = FALSE
    /\ pc' = "save"
    /\ UNCHANGED <<mode, disk, buffer, proposals, faults, world, history>>

ReasoningEnd == pc = "execute" /\ proposals = <<>> /\ Conclude("REASONING_END")

\* Mutant: a failure leaves no event of its own.
SafeFailureUnlogged ==
    /\ pc = "error"
    /\ state' = [state EXCEPT !.reasonings = @ + 1]
    /\ due' = FALSE
    /\ pc' = "save"
    /\ UNCHANGED <<mode, disk, buffer, proposals, events, faults, world, history>>

SafeFailure == pc = "error" /\ Conclude("ERROR")

\* The ERROR event cannot be written either: this one is not caught.
SafeFailureRaises ==
    /\ pc = "error"
    /\ Fatal

\* Mutant: the main thread never lets go of the lock.
SaveKeepsLock ==
    /\ pc = "save"
    /\ disk' = state
    /\ UNCHANGED <<mode, pc, state, buffer, due, proposals, events, faults, world, history>>

\* StateStore.save: a synced temporary file and os.replace, then the lock goes
Save ==
    /\ pc = "save"
    /\ disk' = state
    /\ pc' = "sleep"
    /\ UNCHANGED <<mode, state, buffer, due, proposals, events, faults, world, history>>

\* Mutant: the exception of a failed save is swallowed.
SaveSwallowed ==
    /\ pc = "save"
    /\ Fault
    /\ pc' = "sleep"
    /\ UNCHANGED <<mode, state, disk, buffer, due, proposals, events, world, history>>

\* No space, or text that cannot be written as UTF-8.
SaveRaises ==
    /\ pc = "save"
    /\ Fatal

----------------------------------------------------------------------------

Tick ==
    \/ Collect \/ CollectRaises
    \/ Plan \/ PlanRaises \/ Analyze \/ AnalyzeRaises
    \/ Judge \/ Contain \/ ContainRaises \/ Verify \/ ExecuteRaises
    \/ ReasoningEnd \/ SafeFailure \/ SafeFailureRaises
    \/ Save \/ SaveRaises

Process == Load \/ LoadDefault \/ Killed \/ Exits

Client(a) == Ask(a) \/ Auth(a) \/ AuthFails(a)

Next ==
    \/ Advance \/ IntervalPasses \/ Rotate \/ Truncate
    \/ Process \/ Tick
    \/ \E a \in Clients : Client(a)
    \/ \E a \in Addresses : Bypass(a)

Spec == Init /\ [][Next]_vars

\* Docker restarts a process that ended (restart: unless-stopped); the main
\* thread is scheduled, and the call to Kimi ends by its own timeout; the
\* interval passes.  Between two ticks the main thread sleeps a second without
\* the lock, which is when a thread that waits for it gets it.  Nothing is
\* assumed of clients, of the clock or of failures, and nothing of Nginx's timeout.
Fairness ==
    /\ WF_vars(Tick)
    /\ WF_vars(Exits)
    /\ WF_vars(Load \/ LoadDefault)
    /\ WF_vars(IntervalPasses)
    /\ \A a \in Clients : SF_vars(Auth(a))

FairSpec == Spec /\ Fairness

----------------------------------------------------------------------------
(* Properties                                                              *)

BlockLists == [Addresses -> Nat]
States == [cycle : Nat, reasonings : Nat, inode : Nat, offset : Nat, blocks : BlockLists]
Reasonings == [type : {"REASONING_START", "REASONING_END", "ERROR"}, about : Nat]
Verdicts == [type : {"POLICY"}, about : {"ALLOW", "BLOCK"} \X Scenarios]
Containments == [type : {"ACTION", "VERIFY"}, about : Addresses]

\* The values a block depends on, and those the evidence is made of.
ControlTypes ==
    /\ mode \in {"down", "up", "dying"}
    /\ pc \in {"sleep", "plan", "analyze", "execute", "contain", "verify", "error", "save"}
    /\ state \in States /\ disk \in States \cup {Missing}
    /\ due \in BOOLEAN /\ proposals \in Seq(Scenarios)
    /\ events \subseteq Reasonings \cup Verdicts \cup Containments
    /\ log \in [inode : Nat, lines : Seq([n : Nat, src : Addresses]), last : Nat, cuts : Nat]
    /\ now \in Nat
    /\ request \in [Clients -> {"idle", "waiting", "denied", "passed", "failed"}]
    /\ faults \in Nat /\ deaths \in Nat /\ rewinds \in Nat

EvidenceTypes ==
    /\ buffer \in Seq([n : Nat, src : Addresses])
    /\ given \in [Lines -> Nat] /\ dropped \subseteq Nat /\ read \subseteq Nat

\* Every variable holds a value of its kind.
TypeOK == ControlTypes /\ EvidenceTypes

\* A block, enforced or only persisted, is of an unprotected address for which
\* the event log has a POLICY ALLOW, whatever crashed in between
\* (validate_scenario comes before block_ip, and its event before the block).
Authorised(blocks, journal) ==
    \A a \in Addresses : blocks[a] # 0 =>
        /\ ~IsProtected(a)
        /\ \E s \in Scenarios :
              s.ip = a /\ [type |-> "POLICY", about |-> <<"ALLOW", s>>] \in journal

BlocksAreAuthorised ==
    /\ Authorised(state.blocks, events)
    /\ disk # Missing => Authorised(disk.blocks, events)

\* No block outlives the longest one the policy allows, however often it is
\* renewed and whichever state file it comes back from.
Temporary(blocks, time) ==
    \A a \in Addresses : blocks[a] <= time + MaxDuration * SubSecond

BlocksAreTemporary ==
    /\ Temporary(state.blocks, now)
    /\ disk # Missing => Temporary(disk.blocks, now)

\* Whenever the auth endpoint can get the lock of a healthy process, the block
\* list it answers from is the persisted one: a half-done tick is never visible
\* and a crash takes no visible block back.
EnforcedIsPersisted ==
    (mode = "up" /\ pc = "sleep") =>
        /\ disk # Missing
        /\ Prune(state.blocks, now) = Prune(disk.blocks, now)

\* Nginx lets no request to a protected location pass while the state file holds
\* a live block of its source, over restarts too, unless the process that
\* answers is already going down.
NotAdmitted ==
    \A a \in Clients :
        (mode = "up" /\ request[a] = "waiting" /\ request'[a] = "passed") =>
            ~ActiveBlock(disk.blocks, a, now)

BlockedNeverAdmitted == [][NotAdmitted]_vars

\* The Defender, its ticks, its files, its failures and restarts, implements the
\* abstract containment, with the live blocks of the state file as the list: a
\* request is refused just when the file holds a live block of its source, and
\* no step but a save, an expiry or a lost file changes who is listed.
Contained == INSTANCE Containment WITH
    server <- mode,
    listed <- IF disk = Missing THEN NoBlocks ELSE Prune(disk.blocks, now)

ContainmentSpec == Contained!Spec

\* While the first process lives, each line read and not ignored is still in the
\* buffer, or was handed to Kimi, or fell to the limit of a batch.
EvidenceAccounted ==
    deaths = 0 =>
        /\ read = (Numbers(buffer) \ {0}) \cup {n \in Lines : given[n] > 0} \cup dropped
        /\ Numbers(buffer) \cap ({n \in Lines : given[n] > 0} \cup dropped) \subseteq {0}

\* Kimi sees a line again only after the process lost its place: it ended in the
\* middle of a tick, or the state file was given up.
NotRepeated == \A n \in Lines : given[n] <= 1 + rewinds

\* Every cycle the state file counts has its start and its end, or its error, in
\* the event log: the log is ahead of the state wherever the process died.
Complete(c, journal) ==
    /\ [type |-> "REASONING_START", about |-> c] \in journal
    /\ \E type \in {"REASONING_END", "ERROR"} : [type |-> type, about |-> c] \in journal

JournalAhead ==
    disk # Missing =>
        /\ disk.reasonings = disk.cycle
        /\ \A c \in 1..disk.cycle : Complete(c, events)

\* A request that asks gets its answer, however long ticks hold the lock.
AskedIsAnswered == \A a \in Clients : request[a] = "waiting" ~> request[a] # "waiting"

\* Evidence does not stay in the buffer: a batch takes it, with no need of newer
\* evidence, or the process ends.
EvidenceIsConsidered ==
    \A n \in Lines : n \in Numbers(buffer) ~> n \notin Numbers(buffer) \/ state.cycle = MaxCycles

----------------------------------------------------------------------------
(* The inductive invariant the safety properties rest on                   *)

\* Only a healthy process is inside a tick.
TickInv == mode # "up" => pc = "sleep"

\* A scenario about to be carried out was allowed, and its POLICY event is there.
VettedInv ==
    pc \in {"contain", "verify"} =>
        /\ proposals # <<>>
        /\ Blocks(Head(proposals))
        /\ [type |-> "POLICY", about |-> <<"ALLOW", Head(proposals)>>] \in events

\* The cycles of a healthy process are complete, but for the one it is in.
Reasoning == pc \in {"analyze", "execute", "contain", "verify", "error"}

CycleInv ==
    mode = "up" =>
        /\ state.cycle = state.reasonings + IF Reasoning THEN 1 ELSE 0
        /\ \A c \in 1..state.reasonings : Complete(c, events)
        /\ Reasoning => [type |-> "REASONING_START", about |-> state.cycle] \in events

IInv ==
    /\ ControlTypes /\ TickInv /\ VettedInv /\ CycleInv
    /\ BlocksAreAuthorised /\ BlocksAreTemporary /\ EnforcedIsPersisted /\ JournalAhead

----------------------------------------------------------------------------
(* What the documentation says of the same program                         *)

\* README: Nginx asks on each request, and answers 403 to a listed address.
BlockedAlwaysRefused ==
    [][\A a \in Clients :
          (mode = "up" /\ pc = "sleep" /\ ActiveBlock(state.blocks, a, now)) =>
              ~ \/ request[a] = "waiting" /\ request'[a] = "passed"
                \/ /\ log'.last # log.last /\ request' = request
                   /\ log'.lines[Len(log'.lines)].src = a]_vars

\* README: localhost and private networks can never be banned.
LocalNeverBlocked ==
    \A a \in Addresses : a.net \in {"loopback", "private"} => state.blocks[a] = 0

\* README: a block leaves an ACTION and a VERIFY event.
BlocksAreRecorded ==
    disk # Missing =>
        \A a \in Addresses : disk.blocks[a] # 0 =>
            \A type \in {"ACTION", "VERIFY"} : [type |-> type, about |-> a] \in events
=============================================================================
