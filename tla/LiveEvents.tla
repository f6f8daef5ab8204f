----------------------------- MODULE LiveEvents -----------------------------
(***************************************************************************)
(* The live state of a chat session: a JSON file with the turn's status    *)
(* and its latest events (internal/chatsession/live.go), which the         *)
(* publisher of every turn rewrites event by event and the events stream   *)
(* of another request polls (sessionEventsStream).  This module has the    *)
(* file, the publishers' steps and the poller; ToolBatch composes them     *)
(* with the turns that emit.  Emit and EndTurn ignore a read or a write of *)
(* the file that fails.                                                    *)
(***************************************************************************)
EXTENDS Naturals, Sequences

CONSTANTS
    Turns,          \* the turns of the session are 1..Turns; each has a publisher
    MaxLiveEvents,  \* maxLiveEvents, 40
    MaxFaults       \* bound: reads, opens and writes of the file that fail

ASSUME LiveAssumption == /\ Turns \in Nat \ {0} /\ MaxLiveEvents \in Nat \ {0}
                         /\ MaxFaults \in Nat

VARIABLES
    file,        \* the state file: [ok, state]; ok is FALSE when it is half written
    pub,         \* turn -> [by, state]: who is in Emit of its publisher, and what he writes
    emitted,     \* the events whose write was begun, in that order
    overlapped,  \* two publishers have been in Emit at the same time
    cut,         \* the list was cut at MaxLiveEvents
    lost,        \* the list was lost: its file could not be read, or not be filled
    faults,      \* reads, opens and writes of the file that have failed
    conn,        \* the poller is connected
    seen,        \* sessionEventsStream: seen
    sent         \* events the poller has pushed to its client

fileVars == <<file, pub, emitted, overlapped, cut, lost, conn, seen, sent>>
liveVars == <<fileVars, faults>>

Turn == 1..Turns

NoOne    == [turn |-> 0, call |-> 0]
NewState == [busy |-> FALSE, status |-> "", events |-> <<>>]
Free     == [by |-> NoOne, state |-> NewState]

\* A file that is truncated and not, or not readably, filled.
Truncated == [ok |-> FALSE, state |-> NewState]

LiveInit ==
    /\ file = [ok |-> TRUE, state |-> NewState]
    /\ pub = [t \in Turn |-> Free]
    /\ emitted = <<>>
    /\ overlapped = FALSE /\ cut = FALSE /\ lost = FALSE /\ faults = 0
    /\ conn = FALSE /\ seen = 0 /\ sent = <<>>

\* applyLiveEvent: what an event does to busy and status.
Busy(s, e) == CASE e.kind = "turn_start" -> TRUE
                [] e.kind \in {"error", "turn_end"} -> FALSE
                [] OTHER -> s.busy
Status(s, e) == CASE e.kind = "turn_start" -> "thinking"
                  [] e.kind = "tool_start" -> "tool"
                  [] e.kind = "error" -> "error"
                  [] e.kind = "turn_end" -> "ready"
                  [] OTHER -> s.status

\* The list keeps the last MaxLiveEvents events.
Latest(events) ==
    IF Len(events) > MaxLiveEvents
    THEN SubSeq(events, Len(events) - MaxLiveEvents + 1, Len(events))
    ELSE events

\* EndTurn marks the session idle and records no event.
Events(s, e) == IF e.kind = "turn_end" THEN s.events ELSE Latest(Append(s.events, e))

Apply(s, e) == [busy |-> Busy(s, e), status |-> Status(s, e), events |-> Events(s, e)]

\* LoadLiveState as Emit calls it: what cannot be read counts as no state yet.
Loaded == {IF file.ok THEN file.state ELSE NewState} \union {s \in {NewState} : faults < MaxFaults}

\* Emit of turn t's publisher, up to the write: its mutex is taken, the file is
\* read and opened for writing, which truncates it.
OpenEmit(t, who, e) ==
    \E state \in Loaded :
        LET missed == file.ok /\ state # file.state IN
        /\ pub[t] = Free
        /\ pub' = [pub EXCEPT ![t] = [by |-> who, state |-> Apply(state, e)]]
        /\ file' = Truncated
        /\ emitted' = IF e.kind = "turn_end" THEN emitted ELSE Append(emitted, e)
        /\ overlapped' = (overlapped \/ \E u \in Turn \ {t} : pub[u] # Free)
        /\ cut' = (cut \/ (e.kind # "turn_end" /\ Len(state.events) = MaxLiveEvents))
        /\ lost' = (lost \/ missed)
        /\ faults' = IF missed THEN faults + 1 ELSE faults
        /\ UNCHANGED <<conn, seen, sent>>

\* The file is filled and the mutex released.  What a failing write leaves, or
\* a second writer in a file both have opened, may not be readable.
FillEmit(t, who) ==
    /\ pub[t].by = who
    /\ \/ file' = [ok |-> TRUE, state |-> pub[t].state] /\ UNCHANGED <<lost, faults>>
       \/ /\ \/ overlapped /\ UNCHANGED faults
             \/ faults < MaxFaults /\ faults' = faults + 1
          /\ file' = Truncated
          /\ lost' = TRUE
    /\ pub' = [pub EXCEPT ![t] = Free]
    /\ UNCHANGED <<emitted, overlapped, cut, conn, seen, sent>>

\* The file cannot be opened: the event is dropped and the emitter goes on.
DropEmit(t) ==
    /\ pub[t] = Free /\ faults < MaxFaults
    /\ faults' = faults + 1
    /\ UNCHANGED fileVars

\* A client connects to the events stream.
Connect ==
    /\ ~conn
    /\ conn' = TRUE
    /\ UNCHANGED <<file, pub, emitted, overlapped, cut, lost, faults, seen, sent>>

\* Mutant: the last event is pushed again with the next one.
Poll_StartsAgain ==
    /\ conn /\ file.ok
    /\ seen # Len(file.state.events)
    /\ sent' = sent \o SubSeq(file.state.events, (IF seen > 1 THEN seen - 1 ELSE 0) + 1, Len(file.state.events))
    /\ seen' = Len(file.state.events)
    /\ UNCHANGED <<file, pub, emitted, overlapped, cut, lost, faults, conn>>

\* Mutant: the stream polls only while the session is busy.
Poll_WhileBusy ==
    /\ conn /\ file.ok /\ file.state.busy
    /\ seen # Len(file.state.events)
    /\ sent' = sent \o SubSeq(file.state.events, seen + 1, Len(file.state.events))
    /\ seen' = Len(file.state.events)
    /\ UNCHANGED <<file, pub, emitted, overlapped, cut, lost, faults, conn>>

\* One tick of the stream: what the list holds beyond the seen ones is pushed.
\* A file that cannot be read leaves everything as it is.
Poll ==
    /\ conn /\ file.ok
    /\ seen # Len(file.state.events)
    /\ sent' = sent \o SubSeq(file.state.events, seen + 1, Len(file.state.events))
    /\ seen' = Len(file.state.events)
    /\ UNCHANGED <<file, pub, emitted, overlapped, cut, lost, faults, conn>>

-----------------------------------------------------------------------------
Position(e) == CHOOSE n \in 1..Len(emitted) : emitted[n] = e

\* The client of the events stream gets no event twice and none before an
\* earlier one, whether the list is cut, lost and begun anew or neither, as
\* long as one publisher writes at a time.
InOrderOnce ==
    ~overlapped =>
        \A m, n \in 1..Len(sent) : m < n => Position(sent[m]) < Position(sent[n])
=============================================================================
