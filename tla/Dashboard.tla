----------------------------- MODULE Dashboard -----------------------------
(***************************************************************************)
(* What the dashboard shows of the Defender (dashboard/app.py).  One       *)
(* answer to /api/status opens the state file, the event log, and both     *)
(* again, while the Defender goes on appending events, replacing the state *)
(* file and dying.  The Defender is coarser here than in Defender.tla: a   *)
(* cycle is its start, its end and its save.  The event log is finer: its  *)
(* lines are in order, and the last one may have been left half written.   *)
(***************************************************************************)
EXTENDS Naturals, Sequences, SequencesExt

CONSTANTS
    ReasoningWindow,  \* lines searched for the last reasoning event, 100
    EventWindow,      \* lines read for the recent events, 80
    Recent,           \* recent events that are shown, 6
    MaxCycles,        \* bound: the cycle counter
    MaxEvents,        \* bound: lines of the event log
    MaxTears,         \* bound: events that are written in part
    MaxResets,        \* bound: state files that were given up
    MaxMisreads       \* bound: opens or reads of the dashboard that fail

ASSUME WindowAssumption == {ReasoningWindow, EventWindow, Recent} \subseteq Nat \ {0}
ASSUME BoundAssumption ==
    {MaxCycles, MaxEvents, MaxTears, MaxResets, MaxMisreads} \subseteq Nat

VARIABLES
    pc,        \* the Defender: "down", "idle", "reason", "error" or "save"
    cycle,     \* the cycle counter in its memory
    file,      \* defender_state.json: its cycle and the history it belongs to
    events,    \* the lines of events.ndjson
    step,      \* the request to the dashboard: "idle", or what is read next
    answer,    \* what the request has read, or the last one has answered
    tears, resets, misreads   \* how often each happened

writer == <<pc, cycle, file, events, tears, resets>>
reader == <<step, answer, misreads>>
vars == <<writer, reader>>

Unavailable == [history |-> 0, cycle |-> 0, there |-> FALSE]
Saved(h, c) == [history |-> h, cycle |-> c, there |-> TRUE]

Event(type, h, c) == [type |-> type, history |-> h, cycle |-> c]
NoEvent == Event("none", 0, 0)

\* Lines that do not parse: one without its end, and one that another event was
\* appended to.
Half == Event("half", 0, 0)
Junk == Event("junk", 0, 0)
Unparsable == {"half", "junk"}

Init ==
    /\ pc = "down" /\ cycle = 0
    /\ file = Unavailable /\ events = <<>>
    /\ step = "idle"
    /\ answer = [state |-> Unavailable, event |-> NoEvent, later |-> FALSE, recent |-> 0]
    /\ tears = 0 /\ resets = 0 /\ misreads = 0

----------------------------------------------------------------------------
(* The Defender                                                            *)

\* StateStore.event opens the file to append, whatever its last line is.
Line(type, c) ==
    /\ Len(events) < MaxEvents
    /\ events' = IF events # <<>> /\ Last(events) = Half
                 THEN Append(Front(events), Junk)
                 ELSE Append(events, Event(type, resets, c))

\* StateStore.load; the default state is saved at once.
Load ==
    /\ pc = "down" /\ file.there
    /\ pc' = "idle" /\ cycle' = file.cycle
    /\ UNCHANGED <<file, events, tears, resets, reader>>

LoadDefault ==
    /\ pc = "down"
    /\ IF file.there THEN resets < MaxResets /\ resets' = resets + 1 ELSE UNCHANGED resets
    /\ pc' = "idle" /\ cycle' = 0
    /\ file' = Saved(resets', 0)
    /\ UNCHANGED <<events, tears, reader>>

\* collect: an EVIDENCE event
Collect ==
    /\ pc = "idle"
    /\ Line("EVIDENCE", cycle)
    /\ UNCHANGED <<pc, cycle, file, tears, resets, reader>>

Plan ==
    /\ pc = "idle" /\ cycle < MaxCycles
    /\ pc' = "reason" /\ cycle' = cycle + 1
    /\ Line("REASONING_START", cycle')
    /\ UNCHANGED <<file, tears, resets, reader>>

\* Mutant: the state is saved before the end of its cycle is logged.
ConcludeSavesFirst(type) ==
    /\ pc = "reason" \/ (pc = "error" /\ type = "ERROR")
    /\ IF file # Saved(resets, cycle)
       THEN file' = Saved(resets, cycle) /\ UNCHANGED <<pc, events>>
       ELSE pc' = "save" /\ Line(type, cycle) /\ UNCHANGED file
    /\ UNCHANGED <<cycle, tears, resets, reader>>

Conclude(type) ==
    /\ pc = "reason" \/ (pc = "error" /\ type = "ERROR")
    /\ pc' = "save"
    /\ Line(type, cycle)
    /\ UNCHANGED <<cycle, file, tears, resets, reader>>

\* Part of an event is written, and the write fails or the container is killed.
\* Only what raises inside the try block, the end of a cycle, is caught.
Tear ==
    /\ tears < MaxTears /\ Len(events) < MaxEvents /\ pc \in {"idle", "reason", "error"}
    /\ tears' = tears + 1
    /\ events' = IF events # <<>> /\ Last(events) = Half THEN events ELSE Append(events, Half)
    /\ \/ pc = "reason" /\ pc' = "error" /\ UNCHANGED cycle
       \/ pc' = "down" /\ cycle' = 0
    /\ UNCHANGED <<file, resets, reader>>

\* Mutant: the file is emptied and then written.
SaveInPlace ==
    /\ pc = "save"
    /\ IF file.there THEN file' = Unavailable /\ UNCHANGED pc
                     ELSE file' = Saved(resets, cycle) /\ pc' = "idle"
    /\ UNCHANGED <<cycle, events, tears, resets, reader>>

\* StateStore.save, a replace.  A tick without a batch saves the cycle it finds.
Save ==
    /\ pc = "save"
    /\ pc' = "idle"
    /\ file' = Saved(resets, cycle)
    /\ UNCHANGED <<cycle, events, tears, resets, reader>>

Die ==
    /\ pc # "down"
    /\ pc' = "down" /\ cycle' = 0
    /\ UNCHANGED <<file, events, tears, resets, reader>>

----------------------------------------------------------------------------
(* One request to /api/status at a time                                    *)

LastLines(n) == SubSeq(events, IF Len(events) > n THEN Len(events) - n + 1 ELSE 1, Len(events))

\* What a read brings, or that it failed.
Reads(value, failed) ==
    \/ answer' = value /\ UNCHANGED misreads
    \/ misreads < MaxMisreads /\ misreads' = misreads + 1 /\ answer' = failed

\* A request begins with what the state file says; the view of the Defender on
\* the page is the last one until there is a new one.
Begin(state) == [answer EXCEPT !.state = state, !.event = NoEvent, !.recent = 0]

\* Mutant: a state that was read is kept.
ReadStateOnce ==
    /\ step = "idle"
    /\ step' = "events"
    /\ Reads(Begin(IF answer.state.there THEN answer.state ELSE file), answer)
    /\ UNCHANGED writer

\* reasoning_snapshot: _read_json
ReadState ==
    /\ step = "idle"
    /\ step' = "events"
    /\ Reads(Begin(file), Begin(Unavailable))
    /\ UNCHANGED writer

Reasonings == {"REASONING_START", "REASONING_END", "ERROR"}

\* Mutant: the search ends at a line that does not parse.
LastReasoningUnbroken ==
    LET lines == LastLines(ReasoningWindow)
        at(types) == {i \in DOMAIN lines : lines[i].type \in types}
        i == Max(at(Reasonings) \cup {0})
    IN  IF i = 0 \/ \E j \in at(Unparsable) : j > i THEN NoEvent ELSE lines[i]

\* _recent_reasoning_event: the latest that parses and is about reasoning
LastReasoning ==
    LET lines == LastLines(ReasoningWindow)
        at == {i \in DOMAIN lines : lines[i].type \in Reasonings}
    IN  IF at = {} THEN NoEvent ELSE lines[Max(at)]

ReadEvents ==
    /\ step = "events"
    /\ step' = "later"
    /\ Reads([answer EXCEPT !.event = LastReasoning], [answer EXCEPT !.event = NoEvent])
    /\ UNCHANGED writer

\* defender_snapshot: the state again, of which only that it is there is kept here
ReadLater ==
    /\ step = "later"
    /\ step' = "recent"
    /\ Reads([answer EXCEPT !.later = file.there], [answer EXCEPT !.later = FALSE])
    /\ UNCHANGED writer

\* Mutant: all that were read are shown.
RecentEventsUncut ==
    LET lines == LastLines(EventWindow)
    IN  IF \E i \in DOMAIN lines : lines[i].type \in Unparsable
        THEN 0 ELSE Len(lines)

\* How many recent events there are to show: one line that does not parse leaves
\* none at all.
RecentEvents ==
    LET lines == LastLines(EventWindow)
    IN  IF \E i \in DOMAIN lines : lines[i].type \in Unparsable
        THEN 0 ELSE Min({Len(lines), Recent})

\* An event may be torn within a character.  This read decodes the whole file
\* and replaces nothing, so such a line leaves no recent events wherever it is.
Torn == \E i \in DOMAIN events : events[i].type \in Unparsable

\* Without a state there is nothing to read; either way the answer is sent.
ReadRecent ==
    /\ step = "recent"
    /\ step' = "idle"
    /\ \/ /\ answer.later
          /\ Reads([answer EXCEPT !.recent = RecentEvents], [answer EXCEPT !.recent = 0])
       \/ /\ answer.later => Torn
          /\ answer' = [answer EXCEPT !.recent = 0]
          /\ UNCHANGED misreads
    /\ UNCHANGED writer

----------------------------------------------------------------------------

Defend ==
    \/ Load \/ LoadDefault \/ Collect \/ Plan
    \/ \E type \in {"REASONING_END", "ERROR"} : Conclude(type)
    \/ Tear \/ Save \/ Die

Respond == ReadState \/ ReadEvents \/ ReadLater \/ ReadRecent

Next == Defend \/ Respond

\* The page asks again every five seconds, and each request is served.  Nothing
\* is assumed of the Defender.
Spec == Init /\ [][Next]_vars /\ WF_vars(Respond)

----------------------------------------------------------------------------
(* Properties                                                              *)

States == [history : 0..MaxResets, cycle : 0..MaxCycles, there : BOOLEAN]
Events == [type : Reasonings \cup Unparsable \cup {"EVIDENCE", "none"},
           history : 0..MaxResets, cycle : 0..MaxCycles]

\* Every variable holds a value of its kind.
TypeOK ==
    /\ pc \in {"down", "idle", "reason", "error", "save"}
    /\ cycle \in 0..MaxCycles /\ file \in States
    /\ \A i \in DOMAIN events : events[i] \in Events
    /\ step \in {"idle", "events", "later", "recent"}
    /\ answer.state \in States /\ answer.event \in Events /\ answer.later \in BOOLEAN
    /\ answer.recent \in 0..Recent
    /\ {tears, resets, misreads} \subseteq Nat

\* The assessment on the page is never of an older cycle than the counter beside
\* it: the files are read in the opposite order of their writing.  One line that
\* was left half written does not change that, nor do crashes and restarts.
ReasoningIsCurrent ==
    (step = "later" /\ answer.event # NoEvent /\ answer.state.cycle > 0 /\ tears <= 1) =>
        \/ answer.event.history > answer.state.history
        \/ /\ answer.event.history = answer.state.history
           /\ answer.event.cycle >= answer.state.cycle

\* With a cycle on the counter the page says that no analysis was made only when
\* the window is full of other lines, or the event log could not be read.
NoFalseSilence ==
    (step = "later" /\ answer.event = NoEvent /\ answer.state.cycle > 0 /\ tears <= 1) =>
        misreads > 0 \/ Len(events) >= ReasoningWindow

\* Once there was a state on the page there is one in every answer, unless a read
\* fails: no reader finds the file missing or half written.
StaysAvailable ==
    [][misreads' = misreads =>
          /\ answer.state.there => answer'.state.there
          /\ answer.later => answer'.later]_vars

\* A cycle that was saved comes on the page, or one after it, unless the state is
\* given up meanwhile.
AnswerCatchesUp ==
    \A c \in 1..MaxCycles :
        file.cycle = c ~> (step = "idle" /\ answer.state.cycle >= c) \/ resets > 0
=============================================================================
