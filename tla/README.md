# K3DF in TLA+

K3DF is a small training ground: an Nginx gateway in front of vulnerable
targets, a *Defender* that watches the access log, asks an LLM (Kimi) for an
analysis and temporarily blocks sources, and a *referee* that judges submitted
flags. Around them a *dashboard* shows what the Defender does, a *scanner*
reports on a target, `ctf/provision.py` makes the flags, and two targets share
a password. The Defender and the referee keep state, run threads, fail halfway
and are restarted, so most of this development is about them; the rest is
modelled where it reads, writes or starts from files that another part changes.
Everything below is translated from the code under `src/`.

## 1. Inventory

| Part | State it keeps | Operations | Hard behaviour | What makes it correct |
|---|---|---|---|---|
| Referee (`referee/service.py`) | accepted flags and the number of submissions, in memory and in `state.json`; a lock | `submit`, `/status`, `_save` (temporary file, then replace), `_load`, `main` | a thread per connection; a save that fails after memory changed; `compare_digest` raising under the lock; status read without the lock; crash between save and answer; a limit that changes between starts | what was announced is on disk; one first acceptance per flag; the budget holds over all restarts; status never contradicts the scoreboard; the lock is always released |
| Defender loop and auth endpoint (`defender/service.py`) | the state object, the evidence buffer, `last_reasoning`; one `RLock` | `tick` every second, `auth` for each request of Nginx, `apply_analysis`, `execute_scenarios` | a tick holds the lock over an HTTP call whose time `kimi.py` does not limit (the client's default does); blocks are made in the middle of a tick that may fail; kill and restart at each point | blocks are authorised, temporary, persisted before anyone can see them; evidence is neither lost nor repeated while the process lives; requests are answered |
| State store (`state_store.py`) | `defender_state.json`, `events.ndjson` | `load`, `_migrate`, `save` (fsync and replace), `event` (append) | the two files are not written together; an unreadable state becomes the default one | the event log is ahead of the state, never behind |
| Local policy (`policy.py`) | the block list inside the state | `validate_scenario`, `block_ip`, `active_block` | expiry by the clock, renewal, rounding to a second, IPv4 and IPv6 | only unprotected addresses, at most an hour |
| Collector (`collectors.py`) | inode, offset and scanner mtime inside the state | `collect`, `_access_log`, `_scanner_result`, `aggregate` | rotation, truncation, half-written lines, lines and results that raise where nothing catches it, a batch limit, mtimes that are equal or go back | each line and each result is used once, or lost in a way that is known |
| Capability graph (`capability_graph.py`) | nodes and flag objectives inside the state | `normalize_*`, `apply_observation`, `apply_system_evidence`, `apply_flag_evidence` | suspicions of the LLM and confirmations of the system in any order; a list of ids cut at 100; restarts | nothing is confirmed by suspicion; confirmations stay; evidence counts once |
| Kimi client (`kimi.py`) | none | `analyze`, `validate_result` | errors of the client, malformed answers | malformed answers change nothing |
| Nginx (`nginx/nginx.conf`) | access log | `auth_request` on `/` only | the endpoint is down or slow | a blocked source is refused |
| Dashboard (`dashboard/app.py`) | none of its own | `/api/status`: the state file and the event log, each opened twice | the Defender replaces one and appends to the other between the reads; an event half written by a process that died | the assessment shown is not older than the counter beside it; a cycle that was made is not shown as silence; the page catches up |
| Scanner (`scanner/scanner.py`) | the result file | `main`: a scan, then a file written aside and put in place | scans that overlap; the mtime, of the writing and not of the replacing, is all that tells a new result from the last one | a result that is newer than all before it is read |
| Provisioning (`ctf/provision.py`) | `runtime/ctf`, six files | `provision`, `_write_new` with `O_EXCL` | two calls at once, a crash between two files | the files of a runtime are of one call; a complete one is of a call that ended |
| Referee start-up (`read_flag`, `Referee.__init__`) | the values it keeps | look at each volume, read it, compare | wrong installations, a volume exchanged between the look and the read | it serves with three different, complete flags or not at all |
| Web application (`web/app.py`) | `crm.db` | `init_db` | a start that is killed or refused in the middle; a database that outlives the container, and one in the repository that has rows and no password | rows and password are written together or not at all; the password in the database is the one the SSH endpoint takes |
| SSH target (`challenge-ap2-ssh`) | its environment | start, comparison of the password | two containers that are created at different times; a comparison that raises for what is not ASCII | as above |
| Next.js target, compose file, configuration | none | | | see section 7 |

Interactions: Nginx asks the Defender's `/auth` for each request to location
`/` and appends to the access log; the Defender reads the log and the scanner's
result file, calls Kimi, and writes the state file and the event log, which the
dashboard reads. The referee is reached through Nginx, reads flags from three
volumes that an operator fills from what `ctf/provision.py` made, and shares no
state with the Defender. The web application and the SSH target take one
password from `.env`, each when its container is created. Docker
restarts the Defender (`unless-stopped`); the referee is started by hand
(`restart: "no"`).

## 2. Modules

| Module | Models | State and actions against the code |
|---|---|---|
| `Scoreboard` | the promise of the referee | accepted flags and attempts; `Record` a judged submission, `Answer` one with no effect |
| `Referee` | `referee/service.py` | `memory` = `Referee.accepted/attempts`; `disk` = `state.json`; `pc[t]`, `candidate[t]`, `outcome[t]`, `temp[t]` = a handler thread inside `do_POST`/`submit`/`_save`. `Post`, `Admit`, `Exhausted`, `Compare`, `Raise`, `Write`, `Replace`, `SaveRaises`, `Send`, `SendRaises` follow the lines of `submit`; `StatusCount`, `StatusWon` the two reads of `/status`; `Start`, `Forget`, `Crash` the process; `PowerLoss`, `Writeback` a host that loses what was not synced |
| `Policy` | `policy.py` | operators over addresses (version, kind of network, host) and a block list (address to expiry) |
| `Defender` | `service.py`, `state_store.py`, `collectors.py`, the parts of `kimi.py` and `nginx.conf` they meet | `mode` the process, `pc` the place in `tick`, `state` and `disk` the state object and its file, `events`, `log`, `request`. `Collect`, `Plan`, `Analyze`, `Judge`, `Contain`, `Verify`, `ReasoningEnd`, `SafeFailure`, `Save` follow the tick, each with the exception it can end in (`CollectRaises`, `PlanRaises`, ...); `Auth` takes the lock, so it happens only at `pc = "sleep"`; `Load`, `LoadDefault`, `Killed`, `Exits` the process; `Ask`, `AuthFails`, `Bypass`, `Rotate`, `Truncate`, `Advance` the world |
| `Containment` | the promise of the Defender | a list of blocks, answers that follow it, a server that is up, dying or down; no ticks, files or events |
| `Collector` | `collectors.py` and the writing of the two files it reads | `log` in pieces of lines, `result`, the places `runtime` and `saved`; `Look`/`Read` and `LookAtResult`/`LoadResult` are the stat and the open of each file, `NoLog`, `NoResult` their errors, `Emit` and `Save` the rest of the tick; `WriteLine`, `WriteRest`, `Rotate`, `Truncate` Nginx's log; `WriteResult`, `ReplaceResult`, `ScanFails` the scans; `ReadRaises`, `LoadRaises`, `Die`, `Load`, `LoadDefault` the process |
| `Dashboard` | `status` in `dashboard/app.py` against the writers in `service.py` and `state_store.py` | `ReadState`, `ReadEvents`, `ReadLater`, `ReadRecent` are the four reads of an answer; `Collect`, `Plan`, `Conclude`, `Save`, `Tear`, `Die`, `Load`, `LoadDefault` the Defender as far as its two files show it |
| `Flags` | `ctf/provision.py`, `read_flag` and `Referee.__init__` | `Begin` to `Dies`, a step per file operation of each call; `Install` the operator; `LookAtFlag`, `ReadFlag`, `Serve`, `RefereeExits` the start-up |
| `Ap2Credential` | `init_db`, `challenge-ap2-ssh` | a step per statement of `init_db` with what its connection sees (`draft`) and what is committed (`db`); `SshStarts`, `VerifyPassword`; the environment of each container |
| `Deployment` | `docker-compose.yml` | the two above composed: `Edit` of `.env`, and `UpWeb`, `UpSsh`, `UpReferee`, which compose refuses without the password |
| `CapabilityGraph` | `capability_graph.py` and its callers in `service.py` | `graph`, `flags` in memory and in `saved`; `Collect`, `Reason`, `Suspect`, `Apply`, `ApplyRaises`, `Contain`, `Save`, `Load`, `LoadDefault`, `Crash` |
| `Selections` | `for line in lines` with `continue` | what a loop keeps of a list, as a function, so that it can be proved about |
| `RefereeProofs`, `DefenderProofs`, `EvidenceProofs`, `CollectorProofs`, `CapabilityGraphProofs`, `DashboardProofs`, `DeploymentProofs`, `SelectionsProofs` | | theorems and their proofs (section 5) |
| `MCReferee`, `MCDefender`, `MCCapabilityGraph`, `MCCollector`, `MCDashboard`, `MCDeployment` | | values of the constants for TLC |

`Defender` EXTENDS `Policy` and `Selections`, `Collector` EXTENDS `Selections`;
`EvidenceProofs` continues `DefenderProofs`. `Referee` instantiates `Scoreboard`
with the refinement mapping `accepted <- Recorded.accepted, attempts <-
Recorded.attempts`, where `Recorded` is what a start would find in the file.
`Defender` instantiates `Containment` with `server <- mode` and `listed <-
Prune(disk.blocks, now)`: the promise is about the live blocks of the state
*file*, so a block that exists only in the memory of a tick does not count yet.
`CapabilityGraph` stands by itself: nothing in the graph is read by the loop,
the policy or the auth endpoint. `Deployment` EXTENDS `Flags` and
`Ap2Credential`, whose containers meet in one call of compose and one `.env`.

Two modules look at a part of the Defender at another scale. `Collector` takes
the read of the log apart, which is one step on whole lines in `Defender`; it
leaves out which networks are ignored and the batch. `Dashboard` has a coarser
Defender (a cycle is a start, an end and a save) and a finer event log (lines
in order, the last one maybe torn). No refinement between them is claimed; what
ties them is that each maps to the same lines of the source.

Choices that need a word:

* **Atomic steps.** In the Defender the lock makes a tick atomic for the auth
  endpoint, but not for a kill, so the tick is cut where something durable
  happens or something can raise: between an event, a change of memory and the
  save. In the referee steps are cut at the lock, at each file operation and at
  each unlocked read.
* **Power failures** are modelled in the referee only, whose file is replaced
  without a sync. The Defender syncs its state file, but flushes its event log
  without one (`state_store.py:83-85`): what is said of that log
  (`JournalAhead`, `BlocksAreAuthorised`, the dashboard's properties) holds when
  a process dies, not when the host loses power.
* **Failures.** A write that raises is a separate action next to the write; in
  the Defender their number is a bound (`MaxFaults`), in the referee each write
  may fail each time. In `Dashboard` a read that fails (`MaxMisreads`), a torn
  event (`MaxTears`) and a state file given up (`MaxResets`) are bounded and
  counted, because the properties say what each of them may change.
* **Torn files.** A line of the access log is written whole or as a first part
  and a rest. `ACCESS_PATTERN` needs no end of line, so a first part that
  reaches beyond the status code (`head`) is evidence, and one that ends before
  it (`stub`) is not, nor is its rest. A half-written event of the Defender is
  joined with the next one into a line that does not parse (`junk`), and may be
  torn within a character, which keeps the dashboard from decoding the file for
  its recent events for as long as the line is in it (`Torn`).
* **Scans** share no lock: each writes a temporary file of its own and replaces
  the result, so several may lie between the two. The mtime is any number at
  any scan: equal to another's (the resolution of a file system), or less than
  an earlier one (a clock set back).
* **Exceptions nothing catches.** A request such as `GET //[x` makes `urlsplit`
  raise (`collectors.py:71`). The process ends before it saves the offset and
  meets the line again at each start, until the log is rotated. Any line of
  `Collector` may be such a line (`odd`), and `ReadRaises` has no bound; in
  `Defender`, where lines have no content, `CollectRaises` is one of the
  bounded failures. A result file with JSON of another shape than the scanner
  writes does the same (`LoadRaises`). Both come before the first event of the
  tick, so `EvidenceOnce` and `NothingSkipped` hold across any number of them.
* **Values of flags** are known by the call and the file that made them:
  random secrets do not repeat. How values get into the volumes is not
  in the repository, so `Install` may put any value into any volume with any
  mode, and the number of wrong installations is a bound (`MaxMistakes`).
* **`crm.db`** is empty or absent at first, or the file of the repository
  (`data/crm.db`, mounted by `docker-compose.yml:14-15`): the tables `users`
  and `customers` with their rows, and no table for the password.
* **`MCCollector`** takes two lines with one scan, or one line with two scans:
  no property is about two lines and two scans. Scans are names, so the first
  to write is called scan 1.
* **`moving`** in `MCDeployment`: no property is about flags and passwords at
  once, so a behaviour of the instance moves one of the two. That keeps the sum
  of the two state spaces instead of their product and hides no violation.
* **Events** are a set of entries (`type`, `about`): what matters is whether an
  entry is there, not where.
* **Addresses** are records. `IsProtected` speaks of the kind of network and
  the version, the way `_is_protected` compares networks of one version.
* **History variables** (`answered`, `announced`, `firsts`, `twice`,
  `submitted`; `given`, `dropped`, `read`, `deaths`, `rewinds`; `seen`,
  `vouched`, `applied`; `taken`, `torn`, `swaps`) appear in no guard
  except the bounds on `deaths`, `rewinds` and `applied`.
* **Capability metadata.** The collector copies a scanner finding verbatim into
  `metadata`, so a finding may name a node or a flag; today's scanner names
  none, and the model lets the file say anything.

## 3. What each run shows

| Run | Question | Bounds and why they suffice |
|---|---|---|
| `referee` | Under two threads, exceptions, failed saves, crashes and restarts: budget, single first acceptance, consistent status, the refinement `ScoreboardSpec`, and the lock that is let go | 3 flags (the win condition is written as the number 3), 2 threads (the lock admits one, so a second covers every overlap), budgets 2 and 3 so that a restart can lower or raise it, three flags can win and either can be exhausted |
| `referee_power` | What a power failure leaves: no settled acceptance without its attempt, and the invariant of the proofs | one power loss, budget 3. Deadlock is not checked: a corrupt file makes every start fail, which is what `_load` intends |
| `defender` | Containment is authorised, temporary, persisted; a blocked source is not let in; the whole implements `Containment` | one visitor, one protected service, blocks of one and two seconds and one that is too long; 2 ticks per second so that rounding shows; 2 cycles so that a block is renewed; one failing write and one death, so that each tick is broken at each place once |
| `defender_evidence` | Evidence is accounted for, not repeated, and the event log is ahead | 3 lines, one rotation or truncation, one fault, one death, a clock that stands still and no clients (neither touches evidence). Blocks are carried out, since a block is evidence of a group of its own: with a batch limit of one it or the visitor's lines are cut off |
| `defender_live` | Requests are answered; evidence is taken up | one client, one cycle, one fault, one death |
| `capability` | Confirmation, evidence and idempotence of the graph | two nodes, one flag, four ids, a list of two ids so that it overflows with the third and the fourth application comes after the cut; the numbers 100 and 50 of the code play no other role |
| `collector` | What the collector reads twice, skips or misses | 2 lines of up to two pieces (a line behind the offset and one that is being written), one cut of the log so that a look and a read, or two ticks, lie on both sides of it, 2 scans under 2 times, so that the second may bear a later time, the same or an earlier one, and be replaced by the first; one end of a process among the events of a tick or lost state file, and any number of other ends |
| `dashboard` | What one answer puts side by side, and that it catches up | 2 cycles, 4 events, windows of 3 and 2 lines and 1 shown event, so that each window is smaller than what it is cut from and both overflow; 2 torn events, as the properties speak of the first, one reset, one failing read |
| `deployment` | Flags of one hand, a referee with distinct flags, a database that is never changed by a part, a password that fits | 2 calls of `provision` (one overlaps or follows another), 2 of the 3 flags and 2 of the 3 other files (the code treats all alike), one wrong installation; 3 valid passwords, so that a start can find another one than its own and one is not ASCII, and one that is too short; an empty database and the one of the repository |
| `doc_every_request`, `doc_localhost`, `doc_action_events` | Three sentences of `src/README.md` that the code does not keep, see section 6 | the instance in which the sentence fails |

The properties are stated above their definitions. The ones to look at first:
`AnnouncedIsDurable`, `AnswersArePaid` and `ScoreboardSpec` (referee),
`EnforcedIsPersisted`, `BlockedNeverAdmitted`, `ContainmentSpec`,
`JournalAhead` and `EvidenceAccounted` (Defender), `ConfirmedIsVouched` and
`AppliedOnce` (graph), `NothingSkipped` and `ResultNotMissed` (collector),
`ReasoningIsCurrent` (dashboard), `ServesDistinctFlags` and
`LoginFindsPassword` (deployment).
`NotRepeated` states exactly when a line can be reasoned about twice: once more
for each time a process died inside a tick or its state was given up.
`AppliedOnce` states exactly as much as the code keeps: evidence beyond the
hundredth falls out of the list and can be applied again. In the same way
`EvidenceOnce`, `NothingSkipped` and `ResultNotMissed` name the ways in which
the collector does repeat or lose something. It repeats after an end among the
events of a tick, after a lost state file, and when a file was exchanged between
the look and the open. It loses a line found in two halves, lines of a log that
was truncated and grew beyond the offset before the next look, and a result
that is not newer than one read before or than one seen by a look and exchanged
before the open: of the same mtime, written earlier and put in place later, or
written after the clock was set back. Three losses are outside these properties,
which speak of the log in place and of what was read from it: the unread tail of
a log that is rotated, what the buffer holds when a process ends, and what the
batch limit cuts (`EvidenceAccounted` counts the last and stops at the first end
of a process). `ServesDistinctFlags` is about the values a referee has read, not
about the owner and mode of a file exchanged after its `lstat`. `ReasoningIsCurrent` and `NoFalseSilence` hold for one torn event and
not for two: the first torn line swallows one event more, and a second can
swallow the end of a later cycle that is then saved. Each property of a
passing run has a mutant, a plausible bug of the code, that breaks it.

## 4. Fairness

* Referee: weak fairness of `Locked(t)`, the steps of a thread inside the
  critical section. They neither wait for anything nor loop; the scheduler runs
  a runnable thread. Nothing is assumed of clients, starts or crashes.
* Defender: weak fairness of `Tick` (the main thread loops once a second, and
  each call in it ends; of the HTTP call that is an assumption about the client, whose default time-out and retries are all that limits it, since `kimi.py` sets none), of `Exits`
  and of `Load \/ LoadDefault` (`restart: unless-stopped`), of
  `IntervalPasses` (time), and strong fairness of `Auth(a)`: the lock is free
  during each sleep of one second, again and again, so a handler that waits for
  it gets it although ticks take it in between. Without strong fairness the
  model would allow a handler that is never scheduled within any sleep.
* Dashboard: weak fairness of `Respond`. The page asks again every five seconds
  and Flask serves each request; the reads wait for nothing. Nothing is assumed
  of the Defender, which may stand still or die for ever.
* Collector, capability graph, deployment: none, all their properties are about
  safety.
* `EvidenceIsConsidered` excuses the state at the bound on cycles, and no other.

## 5. What is proved

Every safety invariant, every action property and both refinements that a
passing run checks are also theorems, proved by TLAPS for all values of the
constants: any number of flags, threads, addresses, scenarios, lines, cycles,
faults, deaths, passwords and so on. Only liveness is left to the runs. A
theorem named for its property has the form `Spec => []P`, `Spec => P` for
action properties and refinements. Each rests on an inductive invariant: it
holds at first, every action keeps it (one lemma for each part, one step for
each action that can disturb the part), and it implies the property. Those of
`Referee` and `Defender` are invariants of the runs `referee_power` and
`defender`. The others are defined in the proof modules and were checked by TLC
on the instances of the runs before they were proved; TLC cannot enumerate the
`Seq` in their types, so there the type is stated element by element.

Assumptions are those the modules name. They say that bounds are natural
numbers and limits positive, that there are three flags in the referee and that
flags and files are numbered (`NumberAssumption`), that the value for a missing
password is no password and the valid and the ASCII ones are passwords
(`PasswordAssumption`), that `Corrupt` is not a scoreboard, what an address is
(`AddressAssumption`), that clients have addresses, and that the nodes and
flags of the ontology are different things (`OntologyAssumption`). TLC evaluates
each of them.

**Referee** (`RefereeProofs`). The safety properties are not inductive: that an
announced flag is on disk rests on what a thread between `_save` and `_send`
knows. `IInv` adds who is in the critical section (`LockInv`), that the file
is behind memory by exactly the judgement under way and the temporary file is
what memory holds (`FileInv`), what a judged thread may say (`ToldInv`), who
owns a first acceptance (`FirstInv`), what is paid (`PaidInv`, `CountInv`),
and what a half-read status has seen (`SeenInv`). Theorems: `Invariance`,
`TypeCorrect`, `Durability`, `BudgetKept`, `FirstOnce`, `StatusSound`, `Paid`,
and `Implements`, the refinement of `Scoreboard`. `_save` does not sync, so a
power failure can bring back an older or an empty file: `Implements` assumes
there is none (`MaxPowerLosses = 0`, stated in the theorem), and the properties
about what clients were told (`AnnouncedIsDurable`, `AnswersArePaid`,
`AcceptedOnce`) speak of the time since the last power failure, when their
histories start again. `AcceptancesArePaid` holds across power failures.

**Defender** (`DefenderProofs`). `IInv` adds that only a healthy process is in
a tick (`TickInv`), that a scenario being carried out has its policy verdict in
the event log (`VettedInv`), and that the cycles so far are complete but for
the present one (`CycleInv`). Lemmas about `Expiry`, `Prune` and `BlockIp` are
stated once. Theorems: `Invariance`, `Authorisation`, `Temporariness`,
`Persistence`, `Journal`, `Admission` (an action property), and `Implements`,
the refinement of `Containment`: with the live blocks of the state file as the
abstract list, everything in a tick before the save is a stutter
(`HiddenSteps`), a save is a `Contain` because all it adds was authorised and is
short enough (`SaveContains`), a start finds the list it left or none
(`StartSteps`), the clock ends blocks by itself (`AdvanceSteps`), and an answer
follows the file because between two ticks memory and file agree
(`ClientSteps`, from `EnforcedIsPersisted`).

**Evidence of the Defender** (`EvidenceProofs`). `EvidenceInv` counts, for each
line, what has happened to it and what still can: times given + dropped + in the
buffer + ahead of the place the next read starts from is at most 1 + `rewinds`
(`OnceInv`). A read moves a line from "ahead" to the buffer, a batch from the
buffer to "given" or "dropped"; only a process that is set back adds one, and
`rewinds` counts that. `FirstInv` (the first process starts without a file) and
`PersistedInv` (between two ticks the place in the log is the saved one) say
when a start sets nothing back. Theorems: `Evidence`, `TypeCorrect` (`TypeOK` of
`Defender`, buffer included), `AccountedFor`, `SeenOnce`.

**Collector** (`CollectorProofs`). The same budget, now for lines *and* scans,
with the finds of the present tick in hand and with `swaps` for a file that was
exchanged between look and open (`OnceInv`). Beside it, `BehindInv` says what
lies behind a place: in a log that was only rotated every line behind the
offset, of the running process and of the saved one, is evidence, in hand or
torn (`Passed`), and the mtime kept is that of some scan that was in place and
is evidence or in hand, or was exchanged (`TimesSure`). `LogInv` is
the order of the pieces of a log, `FilesInv` the times of results in place and
aside, `PlaceInv` what each place of the tick has read. The three ways a process
ends (`Stop`) are one step of the proofs. Theorems: `Invariance`, `TypeCorrect`,
`Once`, `Skipped`, `ResultKnown`.

**Capability graph** (`CapabilityGraphProofs`). `Grounds`: what waits to be cited
or applied was really collected. `Memory` and `File` say the same of the graph in
memory and of the saved one: a status has its evidence, a confirmation its
voucher, and the list of an object and the history of what was applied to it
agree (`Agree`: the first `Cap` ids are the same and none of them comes twice;
`KeptAgrees`, `AppendAgrees` for the cut and for a new id). `File` adds that
memory has not lost a confirmation of the file, which is what makes `Save` keep
them. Theorems: `Invariance`, `TypeCorrect`, `Evidenced`, `Vouched`, `Applied`,
and `Stays` (an action property).

**Dashboard** (`DashboardProofs`). `Reached` says that the event log speaks of a
cycle and from there on of none before it. The log has reached the cycle of the
file (`SavedInv`), because it had reached the cycle under way when that was
saved (`CycleInv`): the torn event can swallow its start, but then the line is
ended and its end is written. What a log has reached it keeps (`LogGrows`), so
it has reached the cycle an answer read before (`AheadInv`, `ShownInv`).
Theorems: `Invariance`, `TypeCorrect`, `Current`, `Silence`, and `Available`
(an action property). They state no more than one torn event, as the
properties do.

**Deployment** (`DeploymentProofs`). `WriterInv`: a call past its first file owns
all files before the one it is at, and there are none after it, since nobody
else gets past `O_EXCL` on the first one. `KeeperInv`: a referee on its way has
kept whole values, as many as its place says. `CredentialInv`: a starting web
application has in its transaction what its place says, on top of the database
it found (`DraftInv`). That is why only `CreateTable` and a complete `Commit`
change the database (`CredentialChanges`), of which `Filled`, an action
property, is the consequence. Theorems: `Invariance`, `TypeCorrect`, `OneHand`,
`DistinctServed`, `Filled`, `Login`. They are about `Spec`; the instance of the
run restricts it (`moving`).

**Lists** (`SelectionsProofs`). A comprehension with a condition is usually
`SelectSeq`, which is recursive and out of the prover's reach. `Selected` takes
the elements at the positions of a set, in ascending order. `AscendingExists`
shows that there is such an order for every finite set of numbers: of the
counterexamples one would be smallest, and its least element in front of the
others is an order after all. `SelectedFacts` is what the collector and the
Defender need of it.

## 6. Where documentation and code differ

1. `src/README.md:139` says Nginx asks for each request; only location `/`
   has `auth_request` (`doc_every_request`).
2. `src/README.md:141` says localhost and private networks can never be banned;
   `PROTECTED_NETWORKS` has networks of IPv4 only (`doc_localhost`).
3. `src/README.md:141` says an executed block leaves `ACTION` and `VERIFY`;
   if the append raises after `block_ip`, the block is saved without them
   (`doc_action_events`).

## 7. What is only model-checked, and what is not modelled

Only model-checked: liveness (`LockIsReleased`, `AskedIsAnswered`,
`EvidenceIsConsidered`, `AnswerCatchesUp`), whose proofs need fairness and
`ENABLED`, which are out of this prover's reach. The three runs that expect a
violation show what is *not* true, on one instance each. `CollectorProofs` and
`EvidenceProofs` are about the same lines of the source at two scales; that the
one reading of the log refines the other is not stated.

Not modelled, with the reason:

* what a collected line or finding says (path, method, status, user agent,
  score): no decision of the code below the LLM depends on it, except that
  `urlsplit` raises for some targets (`odd` in `Collector`);
* the spelling of an address (two texts of one IPv6 address, a number): an
  address is a value;
* incidents, exposure, watch conditions and scenarios kept for the dashboard:
  they are written and displayed, never read by a decision;
* of the dashboard the health check of the target, the panel of activity and
  the counts derived from one read: each is computed anew from what one call
  returned;
* state files of schema 1.0: none is written by this code;
* the referee's seed, budget text and state directory at start: a check fails
  and ends the process, like `RefereeExits`;
* the scan itself: a sequence of HTTP requests and string tests without state;
* the pages of the web application and the Next.js target: they read the
  database or nothing;
* configuration parsing, HTTP headers and bodies: no property depends on them.

## 8. Plan

Done, in the order of importance: who is judged (`Referee`, `Scoreboard`), who
is locked out (`Policy`, `Defender`, `Containment`), what is believed
(`CapabilityGraph`), what is read (`Collector`), what is shown (`Dashboard`),
what all of it starts from (`Flags`, `Ap2Credential`, `Deployment`); and the
proofs of section 5.

Next:
1. the reading of the log in `Collector` as a refinement of an abstract tail of
   a log (lines, a place, what was passed), with the mapping and its proof;
2. the same for `Dashboard`, whose coarse Defender could be shown to be an
   abstraction of the one in `Defender` (cycle counter, file, end of a cycle);
3. liveness stays with TLC.
