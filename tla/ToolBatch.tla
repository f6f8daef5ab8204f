------------------------------ MODULE ToolBatch -----------------------------
(***************************************************************************)
(* The parallel branch of ExecuteBatch (internal/agent/tool_exec.go) in    *)
(* the turns of one session, and the events its tools emit.  Only batches  *)
(* of two or more calls that are all safe to run beside others come here;  *)
(* the rest, and with them every delegated task, run one after the other   *)
(* (TurnLoop has that branch), so the second semaphore of this branch, for *)
(* delegates, is never taken and is left out.  Every call has a goroutine  *)
(* that takes a slot, runs the tool between two events and stores the      *)
(* result.  When the turn is cancelled while it spawns, ExecuteBatch       *)
(* returns at once: the goroutines it has started go on beside the next    *)
(* turn, and emit to whatever progress sink the shared loop has then.      *)
(***************************************************************************)
EXTENDS LiveEvents, FiniteSets

CONSTANTS
    Calls,       \* turn -> number of tool calls of its batch; 0: it has none
    MaxParallel  \* ToolExec.maxParallel

\* A single call runs in the other branch.
ASSUME BatchAssumption == Calls \in [Turn -> Nat \ {1}] /\ MaxParallel \in Nat \ {0}

VARIABLES
    turn,       \* the session's current turn
    main,       \* where it is
    next,       \* the next call to spawn
    cancelled,  \* turns whose context is cancelled
    settled,    \* turns whose batch was waited for
    st,         \* call -> where its goroutine is
    step,       \* call -> where it is in emitting its event
    results,    \* call -> its result
    sink,       \* Loop.onProgress: the turn whose publisher it is, or 0
    to,         \* call -> the sink it has called
    carried,    \* turn -> the turns whose events its sink has carried
    panicked    \* a nil sink was called: the process is gone

batchVars == <<turn, main, next, cancelled, settled, st, step, results, sink, to, carried, panicked>>
callVars  == <<st, step, results, to, carried, panicked>>
vars      == <<liveVars, batchVars>>

Call == UNION {{t} \X (1..Calls[t]) : t \in Turn}

Emits  == {"start", "end"}
Slot   == {"ready", "start", "running", "end"}
Alive  == Slot \union {"spawned"}

Who(c)      == [turn |-> c[1], call |-> c[2]]
Main(t)     == [turn |-> t, call |-> 0]
Event(w, k) == [turn |-> w.turn, call |-> w.call, kind |-> k]

\* Calls of a batch that hold a slot.
Slots(t) == {c \in Call : c[1] = t /\ st[c] \in Slot}

Init ==
    /\ LiveInit
    /\ turn = 0 /\ main = "idle" /\ next = 1
    /\ cancelled = {} /\ settled = {}
    /\ st = [c \in Call |-> "none"] /\ step = [c \in Call |-> "look"]
    /\ results = [c \in Call |-> "none"]
    /\ sink = 0 /\ to = [c \in Call |-> 0]
    /\ carried = [t \in Turn |-> {}]
    /\ panicked = FALSE

-----------------------------------------------------------------------------
(* The turn (chatStream, RunTurn): the sink is set, turn_start emitted, the *)
(* batch run, an error emitted if the turn is cancelled, the turn ended and *)
(* the sink taken away.                                                     *)

SetProgress ==
    /\ main = "idle" /\ turn < Turns
    /\ turn' = turn + 1 /\ sink' = turn + 1
    /\ main' = "begin" /\ next' = 1
    /\ UNCHANGED <<liveVars, cancelled, settled, callVars>>

\* What the turn itself emits, and where it goes on.
MainEvent == [begin |-> "turn_start", fail |-> "error", close |-> "turn_end"]
GoesOn    == [begin |-> "spawn", fail |-> "close", close |-> "idle"]

MainEmit ==
    /\ main \in DOMAIN MainEvent
    /\ \/ /\ OpenEmit(turn, Main(turn), Event(Main(turn), MainEvent[main]))
          /\ UNCHANGED <<main, sink>>
       \/ /\ FillEmit(turn, Main(turn)) \/ DropEmit(turn)
          /\ main' = GoesOn[main]
          /\ sink' = IF main = "close" THEN 0 ELSE sink
    /\ UNCHANGED <<turn, next, cancelled, settled, callVars>>

\* The client leaves or stops the turn.
Cancel ==
    /\ main # "idle" /\ turn \notin cancelled
    /\ cancelled' = cancelled \union {turn}
    /\ UNCHANGED <<liveVars, turn, main, next, settled, callVars, sink>>

\* ExecuteBatch: the loop over the calls.
Spawn ==
    /\ main = "spawn" /\ next <= Calls[turn] /\ turn \notin cancelled
    /\ st' = [st EXCEPT ![<<turn, next>>] = "spawned"]
    /\ next' = next + 1
    /\ UNCHANGED <<liveVars, turn, main, cancelled, settled, step, results, to, carried,
                   panicked, sink>>

\* It returns without waiting, the calls it has not reached interrupted.
ReturnEarly ==
    /\ main = "spawn" /\ next <= Calls[turn] /\ turn \in cancelled
    /\ results' = [c \in Call |-> IF c[1] = turn /\ c[2] >= next THEN "interrupted" ELSE results[c]]
    /\ main' = "fail"
    /\ UNCHANGED <<liveVars, turn, next, cancelled, settled, st, step, to, carried, panicked, sink>>

\* Mutant: wg.Add is called in the goroutine: those that have not begun do not count.
WaitForAll_AddInside ==
    /\ main = "spawn" /\ next > Calls[turn]
    /\ \A c \in Call : c[1] = turn => st[c] \notin Slot
    /\ settled' = settled \union {turn}
    /\ main' = IF turn \in cancelled THEN "fail" ELSE "close"
    /\ UNCHANGED <<liveVars, turn, next, cancelled, callVars, sink>>

\* wg.Wait.  A cancelled turn fails at its next round.
WaitForAll ==
    /\ main = "spawn" /\ next > Calls[turn]
    /\ \A c \in Call : c[1] = turn => st[c] = "done"
    /\ settled' = settled \union {turn}
    /\ main' = IF turn \in cancelled THEN "fail" ELSE "close"
    /\ UNCHANGED <<liveVars, turn, next, cancelled, callVars, sink>>

-----------------------------------------------------------------------------
(* The goroutine of a call.                                                *)

TakeSlot(c) ==
    /\ st[c] = "spawned" /\ Cardinality(Slots(c[1])) < MaxParallel
    /\ st' = [st EXCEPT ![c] = "ready"]
    /\ UNCHANGED <<liveVars, turn, main, next, cancelled, settled, step, results, sink, to,
                   carried, panicked>>

\* runOne begins with a look at the context.
CheckContext(c) ==
    /\ st[c] = "ready"
    /\ IF c[1] \in cancelled
       THEN /\ st' = [st EXCEPT ![c] = "done"]
            /\ results' = [results EXCEPT ![c] = "interrupted"]
       ELSE /\ st' = [st EXCEPT ![c] = "start"]
            /\ UNCHANGED results
    /\ UNCHANGED <<liveVars, turn, main, next, cancelled, settled, step, sink, to, carried,
                   panicked>>

Run(c) ==
    /\ st[c] = "running"
    /\ st' = [st EXCEPT ![c] = "end"]
    /\ UNCHANGED <<liveVars, turn, main, next, cancelled, settled, step, results, sink, to,
                   carried, panicked>>

\* After its first event the tool runs, after the second the result is stored.
Emitted(c) ==
    /\ step' = [step EXCEPT ![c] = "look"]
    /\ st' = [st EXCEPT ![c] = IF @ = "start" THEN "running" ELSE "done"]
    /\ results' = [results EXCEPT ![c] = IF st[c] = "start" THEN @ ELSE "ran"]

\* Loop.emit: the sink is looked at and, if there is one, called; what is
\* called is the sink there is then.
LookForSink(c) ==
    /\ st[c] \in Emits /\ step[c] = "look"
    /\ IF sink = 0 THEN Emitted(c)
       ELSE /\ step' = [step EXCEPT ![c] = "call"]
            /\ UNCHANGED <<st, results>>
    /\ UNCHANGED <<liveVars, turn, main, next, cancelled, settled, sink, to, carried, panicked>>

CallSink(c) ==
    /\ step[c] = "call"
    /\ IF sink = 0
       THEN panicked' = TRUE /\ UNCHANGED <<step, to>>
       ELSE /\ to' = [to EXCEPT ![c] = sink]
            /\ step' = [step EXCEPT ![c] = "emit"]
            /\ UNCHANGED panicked
    /\ UNCHANGED <<liveVars, turn, main, next, cancelled, settled, st, results, sink, carried>>

EmitEvent(c) ==
    \/ /\ step[c] = "emit"
       /\ OpenEmit(to[c], Who(c), Event(Who(c), IF st[c] = "start" THEN "tool_start" ELSE "tool_done"))
       /\ carried' = [carried EXCEPT ![to[c]] = @ \union {c[1]}]
       /\ step' = [step EXCEPT ![c] = "fill"]
       /\ UNCHANGED <<turn, main, next, cancelled, settled, st, results, sink, to, panicked>>
    \/ /\ \/ step[c] = "fill" /\ FillEmit(to[c], Who(c))
          \/ step[c] = "emit" /\ DropEmit(to[c])
       /\ Emitted(c)
       /\ UNCHANGED <<turn, main, next, cancelled, settled, sink, to, carried, panicked>>

Go(c) == TakeSlot(c) \/ CheckContext(c) \/ Run(c)
            \/ LookForSink(c) \/ CallSink(c) \/ EmitEvent(c)

GoMain == MainEmit \/ Spawn \/ ReturnEarly \/ WaitForAll

Stream == (Connect \/ Poll) /\ UNCHANGED batchVars

Over == /\ panicked \/ (main = "idle" /\ turn = Turns /\ \A c \in Call : st[c] \notin Alive)
        /\ UNCHANGED vars

Next == \/ /\ ~panicked
           /\ SetProgress \/ GoMain \/ Cancel \/ Stream \/ \E c \in Call : Go(c)
        \/ Over

\* Goroutines, the turn's handler and a connected poller go on; tools end
\* within their execution timeout.
Spec == /\ Init /\ [][Next]_vars
        /\ WF_vars(~panicked /\ GoMain)
        /\ \A c \in Call : WF_vars(~panicked /\ Go(c))
        /\ WF_vars(~panicked /\ Poll /\ UNCHANGED batchVars)

-----------------------------------------------------------------------------
TypeOK ==
    /\ turn \in 0..Turns /\ sink \in 0..Turns
    /\ main \in {"idle", "begin", "spawn", "fail", "close"}
    /\ next \in 1..(IF turn = 0 THEN 1 ELSE Calls[turn] + 1)
    /\ cancelled \subseteq Turn /\ settled \subseteq Turn
    /\ st \in [Call -> {"none", "done"} \union Alive]
    /\ step \in [Call -> {"look", "call", "emit", "fill"}]
    /\ results \in [Call -> {"none", "interrupted", "ran"}]
    /\ to \in [Call -> 0..Turns]
    /\ carried \in [Turn -> SUBSET Turn]
    /\ panicked \in BOOLEAN

\* A batch that was waited for is over: every call has its result, no
\* goroutine of it still runs or will emit, and no later step changes a
\* result (the next request to the model is built from them).
BatchSettled ==
    \A c \in Call : c[1] \in settled => st[c] = "done" /\ results[c] # "none"

\* The sink of a turn, and with it the stream of its user, carries another
\* turn's events only if that turn was cancelled; and a nil sink is only
\* called in such a turn.
OwnEvents ==
    /\ \A t, u \in Turn : u \in carried[t] => u = t \/ u \in cancelled
    /\ panicked => cancelled # {}

\* A connected client gets all events whose write was begun, up to the moment
\* when the list is cut or lost.  An event whose open failed is in no list, and
\* takes none of the others along.
StreamCatchesUp ==
    conn /\ ~overlapped /\ ~cut /\ ~lost
        ~> panicked \/ overlapped \/ cut \/ lost \/ Len(sent) = Len(emitted)
=============================================================================
