------------------------------- MODULE Flags -------------------------------
(***************************************************************************)
(* How flags come into being and into use.  provision() (ctf/provision.py) *)
(* creates the runtime files one by one, each exclusively; the operator's  *)
(* tools, which are not in this repository, install flag values into the   *)
(* volumes, sometimes wrongly; the referee (referee/service.py) checks the *)
(* volumes one by one before it serves.  Calls of provision overlap or die *)
(* anywhere, and the volumes change while the referee reads them.          *)
(***************************************************************************)
EXTENDS Naturals, Sequences, FiniteSets

CONSTANTS
    Calls,        \* calls of provision
    Flags,        \* numbers of the flags, 1..3
    Others,       \* numbers of the files after them: hint, run id, token
    MaxMistakes   \* bound: wrong installations

Files == Flags \cup Others

ASSUME NumberAssumption ==
    /\ IsFiniteSet(Flags) /\ Flags # {} /\ Flags = 1..Cardinality(Flags)
    /\ IsFiniteSet(Files) /\ Files = 1..Cardinality(Files)
ASSUME MistakeAssumption == MaxMistakes \in Nat

VARIABLES
    call,      \* per call: "idle", "begun", "create", "write", "done", "failed"
    at,        \* per call: the number of the file it is at
    made,      \* runtime/ctf has an entry, if only a directory
    runtime,   \* its files
    volume,    \* per flag: what is in its volume
    referee,   \* "exited", "look", "read", "distinct" or "up"
    kept,      \* the values the referee has read
    mistakes

runtimeVars == <<call, at, made, runtime>>
refereeVars == <<referee, kept>>
flagVars == <<runtimeVars, volume, refereeVars, mistakes>>

\* A file knows the call that created it; it is empty until its text is written.
Absent == [by |-> "nobody", number |-> 0, whole |-> FALSE]
Empty(c, f) == [by |-> c, number |-> f, whole |-> FALSE]
Whole(c, f) == [by |-> c, number |-> f, whole |-> TRUE]

FlagsInit ==
    /\ call = [c \in Calls |-> "idle"] /\ at = [c \in Calls |-> 0]
    /\ made = FALSE /\ runtime = [f \in Files |-> Absent]
    /\ volume = [f \in Flags |-> [file |-> Absent, proper |-> FALSE]]
    /\ referee = "exited" /\ kept = <<>>
    /\ mistakes = 0

----------------------------------------------------------------------------
(* provision                                                               *)

\* The hint is one, and the directory is empty or not there; otherwise the call
\* raises and changes nothing.
Begin(c) ==
    /\ call[c] = "idle" /\ ~made
    /\ call' = [call EXCEPT ![c] = "begun"]
    /\ at' = [at EXCEPT ![c] = 1]
    /\ UNCHANGED <<made, runtime, volume, refereeVars, mistakes>>

Refused(c) ==
    /\ call[c] = "idle"
    /\ call' = [call EXCEPT ![c] = "failed"]
    /\ UNCHANGED <<at, made, runtime, volume, refereeVars, mistakes>>

\* _write_new: mkdir, which does not mind a directory that is there
MakeDirectory(c) ==
    /\ call[c] = "begun"
    /\ call' = [call EXCEPT ![c] = "create"]
    /\ made' = TRUE
    /\ UNCHANGED <<at, runtime, volume, refereeVars, mistakes>>

\* Mutant: the file is created or emptied.
CreateOver(c) ==
    /\ call[c] = "create"
    /\ runtime' = [runtime EXCEPT ![at[c]] = Empty(c, at[c])]
    /\ call' = [call EXCEPT ![c] = "write"]
    /\ UNCHANGED <<at, made, volume, refereeVars, mistakes>>

\* O_CREAT | O_EXCL raises when the file is there.
Create(c) ==
    /\ call[c] = "create"
    /\ IF runtime[at[c]] = Absent
       THEN /\ runtime' = [runtime EXCEPT ![at[c]] = Empty(c, at[c])]
            /\ call' = [call EXCEPT ![c] = "write"]
       ELSE call' = [call EXCEPT ![c] = "failed"] /\ UNCHANGED runtime
    /\ UNCHANGED <<at, made, volume, refereeVars, mistakes>>

\* The text is written when the file is closed, and the next one is begun.
Write(c) ==
    /\ call[c] = "write"
    /\ runtime' = [runtime EXCEPT ![at[c]] = Whole(c, at[c])]
    /\ IF at[c] + 1 \in Files
       THEN at' = [at EXCEPT ![c] = @ + 1] /\ call' = [call EXCEPT ![c] = "create"]
       ELSE call' = [call EXCEPT ![c] = "done"] /\ UNCHANGED at
    /\ UNCHANGED <<made, volume, refereeVars, mistakes>>

Running == {c \in Calls : call[c] \in {"begun", "create", "write"}}

\* Killed, or no space, or a hint that is not ASCII: the file it is at stays empty.
Dies(c) ==
    /\ c \in Running
    /\ call' = [call EXCEPT ![c] = "failed"]
    /\ UNCHANGED <<at, made, runtime, volume, refereeVars, mistakes>>

\* The operator removes what is left of a runtime, with no call under way.
Clear ==
    /\ Running = {} /\ made
    /\ made' = FALSE
    /\ runtime' = [f \in Files |-> Absent]
    /\ UNCHANGED <<call, at, volume, refereeVars, mistakes>>

----------------------------------------------------------------------------
(* The operator's installation of a value into a volume                    *)

\* The value of flag g in the volume of flag f, with the owner and the mode the
\* referee asks for or not
Install(f, g, proper) ==
    /\ runtime[g] # Absent
    /\ IF f = g /\ proper THEN UNCHANGED mistakes
                          ELSE mistakes < MaxMistakes /\ mistakes' = mistakes + 1
    /\ volume' = [volume EXCEPT ![f] = [file |-> runtime[g], proper |-> proper]]
    /\ UNCHANGED <<runtimeVars, refereeVars>>

----------------------------------------------------------------------------
(* Referee.__init__                                                        *)

Current == Len(kept) + 1   \* the flag it is at

Exit ==
    /\ referee' = "exited" /\ kept' = <<>>
    /\ UNCHANGED <<runtimeVars, volume, mistakes>>

RefereeStarts ==
    /\ referee = "exited"
    /\ referee' = "look"
    /\ UNCHANGED <<kept, runtimeVars, volume, mistakes>>

\* read_flag: lstat; the file is there, regular, of some size, and of the right
\* owner and mode.
LookAtFlag ==
    /\ referee = "look"
    /\ volume[Current].proper /\ volume[Current].file.whole
    /\ referee' = "read"
    /\ UNCHANGED <<kept, runtimeVars, volume, mistakes>>

\* Mutant: what was looked at is not checked when it is read.
ReadFlagUnchecked ==
    /\ referee = "read"
    /\ kept' = Append(kept, volume[Current].file)
    /\ referee' = IF Current + 1 \in Flags THEN "look" ELSE "distinct"
    /\ UNCHANGED <<runtimeVars, volume, mistakes>>

\* read_flag: read_text, and FLAG_RE
ReadFlag ==
    /\ referee = "read"
    /\ volume[Current].file.whole
    /\ kept' = Append(kept, volume[Current].file)
    /\ referee' = IF Current + 1 \in Flags THEN "look" ELSE "distinct"
    /\ UNCHANGED <<runtimeVars, volume, mistakes>>

Distinct == \A f, g \in Flags : f # g => kept[f] # kept[g]

\* Three distinct values, the state directory and the settings are as they must be.
Serve ==
    /\ referee = "distinct"
    /\ Distinct
    /\ referee' = "up"
    /\ UNCHANGED <<kept, runtimeVars, volume, mistakes>>

\* Each check that fails ends the process, which nothing starts again by itself
\* (restart: "no"); so do the state directory, the settings and a kill.
RefereeExits == referee # "exited" /\ Exit

FlagsNext ==
    \/ \E c \in Calls : Begin(c) \/ Refused(c) \/ MakeDirectory(c) \/ Create(c) \/ Write(c) \/ Dies(c)
    \/ Clear
    \/ \E f, g \in Flags : \E proper \in BOOLEAN : Install(f, g, proper)
    \/ LookAtFlag \/ ReadFlag \/ Serve \/ RefereeExits

----------------------------------------------------------------------------
(* Properties                                                              *)

Texts == [by : Calls, number : Files, whole : BOOLEAN]

FlagTypes ==
    /\ call \in [Calls -> {"idle", "begun", "create", "write", "done", "failed"}]
    /\ at \in [Calls -> Files \cup {0}]
    /\ made \in BOOLEAN
    /\ runtime \in [Files -> Texts \cup {Absent}]
    /\ volume \in [Flags -> [file : Texts \cup {Absent}, proper : BOOLEAN]]
    /\ referee \in {"exited", "look", "read", "distinct", "up"}
    /\ \A i \in DOMAIN kept : kept[i] \in Texts
    /\ mistakes \in 0..MaxMistakes

\* The files of a runtime are of one call, in the order of its writing, however
\* calls overlap and wherever they die; a complete runtime is of a call that
\* came to its end, and no call completes what another one left.
FilesOfOneCall ==
    \A f, g \in Files : runtime[g] # Absent /\ f < g =>
        /\ runtime[f].by = runtime[g].by
        /\ runtime[f].whole

CompleteIsDone ==
    (\A f \in Files : runtime[f].whole) =>
        \E c \in Calls : call[c] = "done" /\ \A f \in Files : runtime[f].by = c

FilesOfOneHand == FilesOfOneCall /\ CompleteIsDone

\* A referee that serves holds as many different, complete values as there are
\* flags, whatever was installed and exchanged while it was reading.
ServesDistinctFlags ==
    referee = "up" =>
        /\ Len(kept) = Cardinality(Flags)
        /\ \A f \in Flags : kept[f].whole
        /\ Distinct
=============================================================================
