-------------------------- MODULE ToolBatchProofs ---------------------------
(***************************************************************************)
(* Safety of the tool batches of a session for any number of turns, calls  *)
(* and slots.  The invariant says where goroutines can be: one that is not *)
(* done belongs to the batch that is being run, or to a cancelled turn.    *)
(* A second one, on top of it, follows the events from the emitter to the  *)
(* client of the stream.                                                   *)
(***************************************************************************)
EXTENDS ToolBatch, SequenceTheorems, TLAPS

\* The loop has a sink during a turn and none between turns.
Sinks == /\ sink = IF main = "idle" THEN 0 ELSE turn
         /\ main # "idle" => turn \in Turn

\* The current turn's batch has not got to its i-th call.
Unspawned(i) == main = "begin" \/ (main = "spawn" /\ i >= next)

Batches ==
    /\ \A t \in settled : t < turn \/ (t = turn /\ main \notin {"begin", "spawn"})
    /\ \A c \in Call :
        /\ c[1] > turn \/ (c[1] = turn /\ Unspawned(c[2])) => st[c] = "none"
        /\ st[c] \in Alive => c[1] \in cancelled \/ (c[1] = turn /\ main = "spawn")
        /\ st[c] = "done" => results[c] # "none"
        /\ step[c] # "look" => st[c] \in Emits
        /\ step[c] \in {"emit", "fill"} => to[c] \in Turn /\ (to[c] = c[1] \/ c[1] \in cancelled)
        /\ c[1] \in settled => st[c] = "done"

IInv == TypeOK /\ Sinks /\ Batches /\ OwnEvents

LEMMA CallParts ==
    /\ \A c \in Call : c[1] \in Turn /\ c[2] \in 1..Calls[c[1]] /\ c = <<c[1], c[2]>>
    /\ \A t \in Turn, i \in Nat : i \in 1..Calls[t] => <<t, i>> \in Call
BY DEF Call

LEMMA CallsAreNat == \A t \in Turn : Calls[t] \in Nat
BY BatchAssumption DEF BatchAssumption

LEMMA InitInv == Init => IInv
<1> SUFFICES ASSUME Init PROVE IInv
  OBVIOUS
<1> USE LiveAssumption DEF LiveAssumption, Init, Alive, Slot, Turn, Emits
<1>1. TypeOK
  <2>1. turn \in 0..Turns /\ sink \in 0..Turns /\ next \in 1..(IF turn = 0 THEN 1 ELSE Calls[turn] + 1)
    OBVIOUS
  <2>2. /\ st \in [Call -> {"none", "done"} \union Alive] /\ step \in [Call -> {"look", "call", "emit", "fill"}]
        /\ results \in [Call -> {"none", "interrupted", "ran"}]
        /\ to \in [Call -> 0..Turns] /\ carried \in [Turn -> SUBSET Turn]
    OBVIOUS
  <2> QED  BY <2>1, <2>2 DEF TypeOK
<1>2. Sinks /\ Batches  BY DEF Sinks, Batches
<1>3. OwnEvents  BY DEF OwnEvents
<1> QED  BY <1>1, <1>2, <1>3 DEF IInv

\* What a step of the turn leaves to be shown is about main, turn and sink.
LEMMA MainType ==
    ASSUME IInv, SetProgress \/ GoMain \/ Cancel
    PROVE  TypeOK'
<1> USE CallParts, CallsAreNat, LiveAssumption DEF LiveAssumption, IInv, Sinks, Turn, Alive, Slot
<1>1. CASE SetProgress
  BY <1>1 DEF TypeOK, SetProgress, callVars
<1>2. CASE MainEmit
  BY <1>2 DEF TypeOK, MainEmit, MainEvent, GoesOn, callVars
<1>3. CASE Spawn
  BY <1>3 DEF TypeOK, Spawn
<1>4. CASE ReturnEarly
  BY <1>4 DEF TypeOK, ReturnEarly
<1>5. CASE WaitForAll
  BY <1>5 DEF TypeOK, WaitForAll, callVars
<1>6. CASE Cancel
  BY <1>6 DEF TypeOK, Cancel, callVars
<1> QED  BY <1>1, <1>2, <1>3, <1>4, <1>5, <1>6 DEF GoMain

LEMMA GoType ==
    ASSUME IInv, NEW c \in Call, Go(c)
    PROVE  TypeOK'
<1> USE CallParts, LiveAssumption DEF LiveAssumption, IInv, Turn, Alive, Slot
<1>1. CASE TakeSlot(c) \/ Run(c)
  BY <1>1 DEF TypeOK, TakeSlot, Run
<1>2. CASE CheckContext(c)
  BY <1>2 DEF TypeOK, CheckContext
<1>3. CASE LookForSink(c)
  BY <1>3 DEF TypeOK, LookForSink, Emitted
<1>4. CASE CallSink(c)
  BY <1>4 DEF TypeOK, CallSink
<1>5. CASE EmitEvent(c)
  <2>1. carried' \in [Turn -> SUBSET Turn]
    <3>1. CASE UNCHANGED carried  BY <3>1 DEF TypeOK
    <3>2. CASE carried' = [carried EXCEPT ![to[c]] = @ \union {c[1]}]
      <4>1. c[1] \in Turn /\ carried \in [Turn -> SUBSET Turn]  BY DEF TypeOK
      <4>2. carried' \in [Turn -> SUBSET Turn]
        BY <3>2, <4>1, \A t \in Turn : carried[t] \union {c[1]} \in SUBSET Turn
      <4> QED  BY <4>2
    <3> QED  BY <1>5, <3>1, <3>2 DEF EmitEvent
  <2>2. /\ st' \in [Call -> {"none", "done"} \union Alive]
        /\ step' \in [Call -> {"look", "call", "emit", "fill"}]
        /\ results' \in [Call -> {"none", "interrupted", "ran"}]
    BY <1>5 DEF TypeOK, EmitEvent, Emitted
  <2>3. UNCHANGED <<turn, main, next, cancelled, settled, sink, to, panicked>>
    BY <1>5 DEF EmitEvent
  <2> QED  BY <2>1, <2>2, <2>3 DEF TypeOK
<1> QED  BY <1>1, <1>2, <1>3, <1>4, <1>5 DEF Go

\* The turn: goroutines are started while it spawns; it goes on from there
\* when they are all done, or when it is cancelled.
LEMMA MainStep ==
    ASSUME IInv, SetProgress \/ GoMain \/ Cancel
    PROVE  Sinks' /\ Batches' /\ OwnEvents'
<1> USE CallParts, CallsAreNat, LiveAssumption DEF LiveAssumption, IInv, Turn
<1>1. CASE SetProgress
  <2>1. /\ turn \in Nat /\ main = "idle" /\ main' = "begin" /\ turn' = turn + 1 /\ turn' \in Turn /\ sink' = turn'
        /\ UNCHANGED <<cancelled, settled, st, step, results, to, carried, panicked>>
    BY <1>1 DEF SetProgress, callVars, TypeOK
  <2>2. Sinks'  BY <2>1 DEF Sinks
  <2>3. Batches'
    <3>0. settled \subseteq 1..Turns /\ \A t \in settled : t < turn \/ t = turn
      BY DEF Batches, TypeOK
    <3>1. \A t \in settled : t < turn'  BY <2>1, <3>0
    <3>2. \A c \in Call : c[1] \in Nat /\ (c[1] > turn \/ c[1] = turn \/ c[1] < turn)
      BY <2>1
    <3> QED  BY <2>1, <3>1, <3>2 DEF Batches, Unspawned
  <2>4. OwnEvents'  BY <2>1 DEF OwnEvents
  <2> QED  BY <2>2, <2>3, <2>4
<1>2. CASE MainEmit
  <2>1. /\ main \in {"begin", "fail", "close"} /\ turn' = turn /\ next' = next
        /\ \/ main' = main /\ sink' = sink
           \/ main = "begin" /\ main' = "spawn" /\ sink' = sink
           \/ main = "fail" /\ main' = "close" /\ sink' = sink
           \/ main = "close" /\ main' = "idle" /\ sink' = 0
        /\ UNCHANGED <<cancelled, settled, st, step, results, to, carried, panicked>>
    BY <1>2 DEF MainEmit, MainEvent, GoesOn, callVars
  <2>2. Sinks'  BY <2>1 DEF Sinks
  <2>3. Batches'  BY <2>1 DEF Batches, Unspawned
  <2>4. OwnEvents'  BY <2>1 DEF OwnEvents
  <2> QED  BY <2>2, <2>3, <2>4
<1>3. CASE Spawn
  <2> DEFINE c == <<turn, next>>
  <2>1. /\ main = "spawn" /\ c \in Call /\ c[1] = turn
        /\ st' = [st EXCEPT ![c] = "spawned"]
        /\ next \in Nat /\ next' = next + 1
        /\ UNCHANGED <<turn, main, cancelled, settled, step, results, to, carried, panicked, sink>>
    BY <1>3 DEF Spawn, Sinks, TypeOK
  <2>2. turn \notin settled /\ st[c] = "none" /\ step[c] = "look"
    <3>1. turn \notin settled  BY <2>1 DEF Batches, TypeOK
    <3>2. st[c] = "none"  BY <2>1, c[2] = next DEF Batches, Unspawned
    <3>3. step[c] = "look"  BY <2>1, <3>2 DEF Batches, Emits
    <3> QED  BY <3>1, <3>2, <3>3
  <2>3. Sinks'  BY <2>1 DEF Sinks
  <2>4. Batches'
    <3> SUFFICES ASSUME NEW d \in Call
                 PROVE  /\ d[1] > turn \/ (d[1] = turn /\ Unspawned(d[2])') => st'[d] = "none"
                        /\ st'[d] \in Alive => d[1] \in cancelled \/ d[1] = turn
                        /\ st'[d] = "done" => results[d] # "none"
                        /\ step[d] # "look" => st'[d] \in Emits
                        /\ step[d] \in {"emit", "fill"} => to[d] \in Turn /\ (to[d] = d[1] \/ d[1] \in cancelled)
                        /\ d[1] \in settled => st'[d] = "done"
      BY <2>1, <2>2 DEF Batches
    <3>1. CASE d = c  BY <2>1, <2>2, <3>1 DEF Batches, Unspawned, TypeOK
    <3>2. CASE d # c
      <4>1. st'[d] = st[d]  BY <2>1, <3>2 DEF TypeOK
      <4>2. Unspawned(d[2])' => Unspawned(d[2])
        BY <2>1 DEF Unspawned, TypeOK
      <4> QED  BY <2>1, <4>1, <4>2 DEF Batches
    <3> QED  BY <3>1, <3>2
  <2>5. OwnEvents'  BY <2>1 DEF OwnEvents
  <2> QED  BY <2>3, <2>4, <2>5
<1>4. CASE ReturnEarly
  <2>1. /\ main = "spawn" /\ main' = "fail" /\ turn \in cancelled
        /\ \A c \in Call : results'[c] \in {results[c], "interrupted"}
        /\ UNCHANGED <<turn, cancelled, settled, st, step, to, carried, panicked, sink>>
    BY <1>4 DEF ReturnEarly
  <2>2. Sinks'  BY <2>1 DEF Sinks
  <2>3. Batches'  BY <2>1 DEF Batches, Unspawned
  <2>4. OwnEvents'  BY <2>1 DEF OwnEvents
  <2> QED  BY <2>2, <2>3, <2>4
<1>5. CASE WaitForAll
  <2>1. /\ main = "spawn" /\ main' \in {"fail", "close"} /\ settled' = settled \union {turn}
        /\ \A c \in Call : c[1] = turn => st[c] = "done"
        /\ UNCHANGED <<turn, cancelled, st, step, results, to, carried, panicked, sink>>
    BY <1>5 DEF WaitForAll, callVars
  <2>2. Sinks'  BY <2>1 DEF Sinks
  <2>3. Batches'  BY <2>1 DEF Batches, Unspawned, Alive, Slot
  <2>4. OwnEvents'  BY <2>1 DEF OwnEvents
  <2> QED  BY <2>2, <2>3, <2>4
<1>6. CASE Cancel
  <2>1. /\ cancelled' = cancelled \union {turn}
        /\ UNCHANGED <<turn, main, next, settled, st, step, results, to, carried, panicked, sink>>
    BY <1>6 DEF Cancel, callVars
  <2>2. Sinks'  BY <2>1 DEF Sinks
  <2>3. Batches'  BY <2>1 DEF Batches, Unspawned
  <2>4. OwnEvents'  BY <2>1 DEF OwnEvents
  <2> QED  BY <2>2, <2>3, <2>4
<1> QED  BY <1>1, <1>2, <1>3, <1>4, <1>5, <1>6 DEF GoMain

\* A goroutine moves only while it is alive; what it emits goes to the sink
\* there is when it is called: its own turn's, or it is a cancelled turn's.
LEMMA GoStep ==
    ASSUME IInv, NEW c \in Call, Go(c)
    PROVE  Sinks' /\ Batches' /\ OwnEvents'
<1> USE CallParts, LiveAssumption DEF LiveAssumption, IInv, Turn
<1>1. UNCHANGED <<turn, main, next, cancelled, settled, sink>>
  BY DEF Go, TakeSlot, CheckContext, Run, LookForSink, CallSink, EmitEvent
<1>2. Sinks'  BY <1>1 DEF Sinks
<1>3. /\ st[c] \in Alive
      /\ st'[c] \in Alive \/ (st'[c] = "done" /\ results'[c] # "none")
      /\ st'[c] # "none"
      /\ step'[c] # "look" => st'[c] \in Emits
      /\ \A d \in Call \ {c} : st'[d] = st[d] /\ results'[d] = results[d] /\ step'[d] = step[d]
  <2>1. CASE TakeSlot(c) \/ CheckContext(c) \/ Run(c)
    BY <2>1 DEF TakeSlot, CheckContext, Run, TypeOK, Batches, Alive, Slot, Emits
  <2>2. CASE LookForSink(c)
    BY <2>2 DEF LookForSink, Emitted, TypeOK, Batches, Alive, Slot, Emits
  <2>3. CASE CallSink(c)
    BY <2>3 DEF CallSink, TypeOK, Batches, Alive, Slot, Emits
  <2>4. CASE EmitEvent(c)
    BY <2>4 DEF EmitEvent, Emitted, TypeOK, Batches, Alive, Slot, Emits
  <2> QED  BY <2>1, <2>2, <2>3, <2>4 DEF Go
<1>4. /\ \A d \in Call \ {c} : to'[d] = to[d]
      /\ step'[c] \in {"emit", "fill"} => to'[c] \in Turn /\ (to'[c] = c[1] \/ c[1] \in cancelled)
  <2>1. CASE TakeSlot(c) \/ CheckContext(c) \/ Run(c)
    BY <2>1 DEF TakeSlot, CheckContext, Run, TypeOK, Batches
  <2>2. CASE LookForSink(c)
    BY <2>2 DEF LookForSink, Emitted, TypeOK, Batches
  <2>3. CASE CallSink(c)
    BY <1>3, <2>3 DEF CallSink, TypeOK, Batches, Sinks
  <2>4. CASE EmitEvent(c)
    BY <2>4 DEF EmitEvent, Emitted, TypeOK, Batches
  <2> QED  BY <2>1, <2>2, <2>3, <2>4 DEF Go
<1>5. Batches'
  <2>1. ASSUME NEW d \in Call
        PROVE  /\ (d[1] > turn \/ (d[1] = turn /\ Unspawned(d[2]))) => st'[d] = "none"
               /\ st'[d] \in Alive => d[1] \in cancelled \/ (d[1] = turn /\ main = "spawn")
               /\ st'[d] = "done" => results'[d] # "none"
               /\ step'[d] # "look" => st'[d] \in Emits
               /\ step'[d] \in {"emit", "fill"} => to'[d] \in Turn /\ (to'[d] = d[1] \/ d[1] \in cancelled)
               /\ d[1] \in settled => st'[d] = "done"
    <3>1. CASE d # c  BY <1>3, <1>4, <3>1 DEF Batches
    <3>2. CASE d = c
      <4>1. st[c] # "none" /\ st[c] # "done"  BY <1>3 DEF Alive, Slot
      <4>2. st'[c] = "done" \/ st'[c] \in Alive => ~(st'[c] = "done" /\ st'[c] \in Alive)
        BY DEF Alive, Slot
      <4> QED  BY <1>3, <1>4, <3>2, <4>1, <4>2 DEF Batches
    <3> QED  BY <3>1, <3>2
  <2> QED  BY <1>1, <2>1 DEF Batches, Unspawned
<1>6. OwnEvents'
  <2>1. CASE CallSink(c)
    <3>1. c[1] \in cancelled \/ (c[1] = turn /\ main = "spawn")  BY <1>3 DEF Batches
    <3>2. sink = 0 => cancelled # {}
      BY <3>1 DEF Sinks
    <3> QED  BY <1>1, <2>1, <3>2 DEF CallSink, OwnEvents
  <2>2. CASE EmitEvent(c)
    <3>1. CASE UNCHANGED carried  BY <1>1, <2>2, <3>1 DEF EmitEvent, OwnEvents
    <3>2. CASE step[c] = "emit" /\ carried' = [carried EXCEPT ![to[c]] = @ \union {c[1]}]
      <4>1. to[c] = c[1] \/ c[1] \in cancelled  BY <3>2 DEF Batches
      <4>2. \A t, u \in Turn : u \in carried'[t] => u \in carried[t] \/ (t = to[c] /\ u = c[1])
        BY <3>2 DEF TypeOK
      <4>3. UNCHANGED panicked  BY <2>2 DEF EmitEvent
      <4> QED  BY <1>1, <4>1, <4>2, <4>3 DEF OwnEvents
    <3> QED  BY <2>2, <3>1, <3>2 DEF EmitEvent
  <2>3. CASE TakeSlot(c) \/ CheckContext(c) \/ Run(c) \/ LookForSink(c)
    BY <2>3 DEF TakeSlot, CheckContext, Run, LookForSink, OwnEvents
  <2> QED  BY <2>1, <2>2, <2>3 DEF Go
<1> QED  BY <1>2, <1>5, <1>6

LEMMA InvStep == IInv /\ [Next]_vars => IInv'
<1> SUFFICES ASSUME IInv, [Next]_vars PROVE IInv'
  OBVIOUS
<1>1. CASE SetProgress \/ GoMain \/ Cancel
  BY <1>1, MainType, MainStep DEF IInv
<1>2. ASSUME NEW c \in Call, Go(c)  PROVE IInv'
  BY <1>2, GoType, GoStep DEF IInv
<1>3. CASE UNCHANGED batchVars
  BY <1>3 DEF batchVars, IInv, TypeOK, Sinks, Batches, Unspawned, OwnEvents
<1> QED  BY <1>1, <1>2, <1>3 DEF Next, Stream, Over, vars

LEMMA Invariance == Spec => []IInv
BY InitInv, InvStep, PTL DEF Spec

-----------------------------------------------------------------------------
\* Every step keeps the types.
THEOREM BatchTypes == Spec => []TypeOK
BY Invariance, PTL DEF IInv

\* After wg.Wait no goroutine of the batch is left and every call has a result.
THEOREM Settled == Spec => []BatchSettled
<1>1. IInv => BatchSettled  BY DEF IInv, Batches, BatchSettled
<1> QED  BY <1>1, Invariance, PTL

\* Only a cancelled turn's goroutines emit to another turn's stream, or to none.
THEOREM EventsStayHome == Spec => []OwnEvents
BY Invariance, PTL DEF IInv

-----------------------------------------------------------------------------
(* The events stream.  No event is emitted twice (Emissions); while one      *)
(* publisher writes at a time, the list is the end of what was emitted       *)
(* (Listed), also when a read or a write of its file fails, and what the     *)
(* poller has pushed are events in their order, none of them behind the      *)
(* place it will go on from (Pushed).                                        *)

Kinds  == {"turn_start", "error", "turn_end", "tool_start", "tool_done"}
Whos   == [turn : Nat, call : Nat]
Record == [turn : Nat, call : Nat, kind : Kinds]
State  == [busy : BOOLEAN, status : {"", "thinking", "tool", "error", "ready"}, events : Seq(Record)]

LiveTypes ==
    /\ file \in [ok : BOOLEAN, state : State] /\ pub \in [Turn -> [by : Whos, state : State]]
    /\ emitted \in Seq(Record) /\ sent \in Seq(Record)
    /\ overlapped \in BOOLEAN /\ seen \in Nat

\* The turn, or the goroutine of the call, is past emitting event e.
MainPast(e) ==
    \/ e.turn < turn
    \/ e.turn = turn /\ main = "idle"
    \/ e.turn = turn /\ e.kind = "turn_start" /\ (main # "begin" \/ pub[turn].by = Main(turn))
    \/ e.turn = turn /\ e.kind = "error"
         /\ (main = "close" \/ (main = "fail" /\ pub[turn].by = Main(turn)))

CallPast(c, kind) ==
    \/ kind = "tool_start" /\ (st[c] \in {"running", "end", "done"} \/ (st[c] = "start" /\ step[c] = "fill"))
    \/ kind = "tool_done" /\ (st[c] = "done" \/ (st[c] = "end" /\ step[c] = "fill"))

Past(e) == \/ e.call = 0 /\ MainPast(e)
           \/ <<e.turn, e.call>> \in Call /\ CallPast(<<e.turn, e.call>>, e.kind)

Emissions == /\ \A m, n \in 1..Len(emitted) : emitted[m] = emitted[n] => m = n
             /\ \A n \in 1..Len(emitted), e \in Record : emitted[n] = e => Past(e)

\* The last of the events of em, as many as the list holds: all of them until
\* the list is cut, or lost and begun anew.
EndOf(s, em) ==
    /\ Len(s) <= Len(em) /\ Len(s) <= MaxLiveEvents
    /\ \A i \in 1..Len(s) : s[i] = em[Len(em) - Len(s) + i]

OneWriter == /\ \A t, u \in Turn : pub[t] # Free /\ pub[u] # Free => t = u
             /\ file.ok => \A t \in Turn : pub[t] = Free

Listed == /\ file.ok => EndOf(file.state.events, emitted)
          /\ \A t \in Turn : pub[t] # Free => EndOf(pub[t].state.events, emitted)

\* Events up to where a poller of the list s that has seen as many as this one
\* goes on from.
UpTo(s) == \A m \in 1..Len(sent) : \E n \in 1..Len(emitted) :
              sent[m] = emitted[n] /\ n <= Len(emitted) - Len(s) + seen

Pushed ==
    /\ UpTo(<<>>)
    /\ file.ok => UpTo(file.state.events)
    /\ \A t \in Turn : pub[t] # Free => UpTo(pub[t].state.events)
    /\ \A m, k \in 1..Len(sent), i, j \in 1..Len(emitted) :
          m < k /\ sent[m] = emitted[i] /\ sent[k] = emitted[j] => i < j

LiveInv == LiveTypes /\ Emissions /\ (~overlapped => OneWriter /\ Listed /\ Pushed)

LEMMA LiveParts ==
    /\ NewState \in State /\ Free \in [by : Whos, state : State] /\ NoOne \in Whos /\ Free.by = NoOne
    /\ \A t \in Turn : t \in Nat \ {0} /\ Main(t) \in Whos /\ Main(t) # NoOne
    /\ \A c \in Call : Who(c) \in Whos /\ Who(c) # NoOne /\ c[1] \in Nat /\ c[2] \in Nat \ {0}
    /\ \A c \in Call : \A t : Who(c) # Main(t)
    /\ NewState.events = <<>>
<1>1. \A t \in Turn : t \in Nat \ {0} /\ Main(t) \in Whos /\ Main(t) # NoOne
  BY LiveAssumption DEF LiveAssumption, Turn, Main, Whos, NoOne
<1>2. ASSUME NEW c \in Call
      PROVE  Who(c) \in Whos /\ Who(c) # NoOne /\ c[1] \in Nat /\ c[2] \in Nat \ {0}
             /\ \A t : Who(c) # Main(t)
  <2>1. c[1] \in Turn /\ c[2] \in 1..Calls[c[1]]  BY CallParts
  <2>2. c[1] \in Nat \ {0} /\ c[2] \in Nat \ {0}  BY <1>1, <2>1, CallsAreNat
  <2> QED  BY <2>2 DEF Who, Whos, NoOne, Main
<1>3. <<>> \in Seq(Record)  OBVIOUS
<1>4. NewState \in State /\ NewState.events = <<>>  BY <1>3 DEF NewState, State
<1>5. NoOne \in Whos  BY DEF NoOne, Whos
<1> QED  BY <1>1, <1>2, <1>4, <1>5 DEF Free

\* A step that leaves the places of the turn and of its calls, or takes them
\* on, leaves what they are past.
LEMMA PastStays ==
    ASSUME IInv, LiveTypes, [Next]_vars, NEW e \in Record, Past(e)
    PROVE  Past(e)'
<1> USE LiveParts
<1>0. e.turn \in Nat /\ turn \in Nat  BY LiveAssumption DEF LiveAssumption, Record, IInv, TypeOK
<1>1. CASE SetProgress
  <2>1. turn' = turn + 1 /\ UNCHANGED <<st, step>>  BY <1>1 DEF SetProgress, callVars
  <2>2. e.call = 0 /\ MainPast(e) => e.turn < turn'  BY <1>0, <2>1 DEF MainPast
  <2> QED  BY <2>1, <2>2 DEF Past, MainPast, CallPast
<1>2. CASE MainEmit
  <2>1. UNCHANGED <<turn, st, step>> /\ main # "idle" /\ turn \in Turn
    BY <1>2 DEF MainEmit, callVars, MainEvent, IInv, Sinks
  <2>2. MainPast(e) => MainPast(e)'
    <3>1. CASE UNCHANGED main /\ pub[turn] = Free
      <4>1. pub[turn].by # Main(turn)  BY <2>1, <3>1
      <4> QED  BY <2>1, <3>1, <4>1 DEF MainPast
    <3>2. CASE main' = GoesOn[main] /\ main \in {"begin", "fail", "close"}
      BY <2>1, <3>2 DEF MainPast, GoesOn
    <3> QED  BY <1>2, <3>1, <3>2 DEF MainEmit, OpenEmit, MainEvent
  <2> QED  BY <2>1, <2>2 DEF Past, CallPast
<1>3. CASE Spawn
  <2>1. /\ UNCHANGED <<liveVars, turn, main, step>> /\ <<turn, next>> \in Call
        /\ st' = [st EXCEPT ![<<turn, next>>] = "spawned"] /\ st[<<turn, next>>] = "none"
    <3>1. /\ main = "spawn" /\ next <= Calls[turn] /\ next \in Nat \ {0} /\ turn \in Turn
      BY <1>3, CallsAreNat DEF Spawn, IInv, Sinks, TypeOK
    <3>2. <<turn, next>> \in Call  BY <3>1, CallParts, CallsAreNat
    <3>3. st[<<turn, next>>] = "none"  BY <3>1, <3>2 DEF IInv, Batches, Unspawned
    <3> QED  BY <1>3, <3>2, <3>3 DEF Spawn
  <2>2. ASSUME NEW c \in Call, CallPast(c, e.kind) PROVE CallPast(c, e.kind)'
    <3>1. c # <<turn, next>>  BY <2>1, <2>2 DEF CallPast
    <3>2. st'[c] = st[c]  BY <2>1, <3>1 DEF IInv, TypeOK
    <3> QED  BY <2>1, <2>2, <3>2 DEF CallPast
  <2> QED  BY <2>1, <2>2 DEF Past, MainPast, liveVars, fileVars
<1>4. CASE ReturnEarly \/ WaitForAll \/ Cancel
  <2>1. /\ UNCHANGED <<liveVars, turn, st, step>>
        /\ UNCHANGED main \/ (main = "spawn" /\ main' \in {"fail", "close"})
    BY <1>4 DEF ReturnEarly, WaitForAll, Cancel, callVars
  <2> QED  BY <2>1 DEF Past, MainPast, CallPast, liveVars, fileVars
<1>5. ASSUME NEW c \in Call, Go(c) PROVE Past(e)'
  <2>1. UNCHANGED <<turn, main>>
    BY <1>5 DEF Go, TakeSlot, CheckContext, Run, LookForSink, CallSink, EmitEvent
  <2>2. ASSUME NEW d \in Call, CallPast(d, e.kind) PROVE CallPast(d, e.kind)'
    <3>1. CASE d # c
      <4>1. st'[d] = st[d] /\ step'[d] = step[d]
        BY <1>5, <3>1 DEF Go, TakeSlot, CheckContext, Run, LookForSink, CallSink,
                          EmitEvent, Emitted, IInv, TypeOK
      <4> QED  BY <2>2, <4>1 DEF CallPast
    <3>2. CASE d = c
      <4>1. CASE TakeSlot(c) \/ CheckContext(c) \/ Run(c)
        BY <2>2, <3>2, <4>1
           DEF TakeSlot, CheckContext, Run, CallPast, IInv, TypeOK
      <4>2. CASE LookForSink(c)
        BY <2>2, <3>2, <4>2 DEF LookForSink, Emitted, Emits, CallPast, IInv, TypeOK
      <4>3. CASE CallSink(c)
        BY <2>2, <3>2, <4>3 DEF CallSink, CallPast, IInv, TypeOK
      <4>4. CASE EmitEvent(c)
        <5>1. st[c] \in Emits  BY <4>4 DEF EmitEvent, IInv, Batches
        <5> QED  BY <2>2, <3>2, <4>4, <5>1 DEF EmitEvent, Emitted, Emits, CallPast, IInv, TypeOK
      <4> QED  BY <1>5, <4>1, <4>2, <4>3, <4>4 DEF Go
    <3> QED  BY <3>1, <3>2
  <2>3. ASSUME turn \in Turn, pub[turn].by = Main(turn) PROVE pub'[turn].by = Main(turn)
    <3>1. CASE EmitEvent(c)
      <4>1. /\ pub[to[c]] = Free \/ pub[to[c]].by = Who(c)
            /\ \A t \in Turn \ {to[c]} : pub'[t] = pub[t]
        BY <3>1 DEF EmitEvent, OpenEmit, FillEmit, DropEmit, liveVars, fileVars, LiveTypes
      <4>2. to[c] # turn  BY <2>3, <4>1
      <4> QED  BY <2>3, <4>1, <4>2
    <3>2. CASE ~EmitEvent(c)
      BY <1>5, <2>3, <3>2
         DEF Go, TakeSlot, CheckContext, Run, LookForSink, CallSink, liveVars, fileVars
    <3> QED  BY <3>1, <3>2
  <2>4. MainPast(e) => MainPast(e)'
    <3>1. main # "idle" => turn \in Turn  BY DEF IInv, Sinks
    <3> QED  BY <2>1, <2>3, <3>1 DEF MainPast
  <2> QED  BY <2>1, <2>2, <2>4 DEF Past
<1>6. CASE UNCHANGED vars \/ Stream
  BY <1>6 DEF vars, Stream, batchVars, liveVars, fileVars, Connect, Poll, Past, MainPast, CallPast
<1> QED  BY <1>1, <1>2, <1>3, <1>4, <1>5, <1>6 DEF Next, GoMain, Over

\* The steps as the stream sees them: an event is written that its emitter is
\* past only then, the file is filled, or the poller moves.
Emission(t, w, e) == /\ w # NoOne /\ OpenEmit(t, w, e)
                     /\ e.kind # "turn_end" => ~Past(e) /\ Past(e)'

LEMMA LiveMoves ==
    ASSUME IInv, LiveTypes, [Next]_vars
    PROVE  \/ UNCHANGED fileVars
           \/ Connect \/ Poll
           \/ \E t \in Turn, w \in Whos : w # NoOne /\ FillEmit(t, w)
           \/ \E t \in Turn, w \in Whos, e \in Record : Emission(t, w, e)
<1> USE LiveParts
<1>1. CASE MainEmit
  <2>1. turn \in Turn /\ main \in {"begin", "fail", "close"} /\ UNCHANGED turn
    BY <1>1 DEF MainEmit, MainEvent, IInv, Sinks
  <2>2. CASE FillEmit(turn, Main(turn))  BY <2>1, <2>2
  <2>4. CASE DropEmit(turn)  BY <2>4 DEF DropEmit, liveVars, fileVars
  <2>3. CASE OpenEmit(turn, Main(turn), Event(Main(turn), MainEvent[main])) /\ UNCHANGED main
    <3>1. PICK e \in Record :
            /\ e = Event(Main(turn), MainEvent[main]) /\ e.turn = turn /\ e.call = 0
            /\ e.kind = IF main = "begin" THEN "turn_start" ELSE IF main = "fail" THEN "error" ELSE "turn_end"
      <4>1. MainEvent[main] = IF main = "begin" THEN "turn_start" ELSE IF main = "fail" THEN "error" ELSE "turn_end"
        BY <2>1 DEF MainEvent
      <4>2. Event(Main(turn), MainEvent[main]) = [turn |-> turn, call |-> 0, kind |-> MainEvent[main]]
        BY DEF Event, Main
      <4>3. turn \in Nat /\ MainEvent[main] \in Kinds  BY <2>1, <4>1 DEF Kinds
      <4> QED  BY <4>1, <4>2, <4>3 DEF Record
    <3>2. <<e.turn, e.call>> \notin Call
      <4> SUFFICES ASSUME <<turn, 0>> \in Call PROVE FALSE  BY <3>1
      <4>1. <<turn, 0>>[2] \in Nat \ {0}  OBVIOUS
      <4> QED  BY <4>1
    <3>3. pub[turn] = Free /\ pub'[turn].by = Main(turn)
      BY <2>1, <2>3 DEF OpenEmit, LiveTypes
    <3>4. pub[turn].by # Main(turn)  BY <2>1, <3>3
    <3>5. turn \in Nat  BY <2>1
    <3>6. e.kind # "turn_end" => ~Past(e) /\ Past(e)'
      BY <2>1, <2>3, <3>1, <3>2, <3>3, <3>4, <3>5 DEF Past, MainPast
    <3> QED  BY <2>1, <2>3, <3>1, <3>6 DEF Emission
  <2> QED  BY <1>1, <2>2, <2>3, <2>4 DEF MainEmit
<1>2. ASSUME NEW c \in Call, EmitEvent(c)
      PROVE  \/ UNCHANGED fileVars
             \/ \E t \in Turn, w \in Whos : w # NoOne /\ FillEmit(t, w)
             \/ \E t \in Turn, w \in Whos, e \in Record : Emission(t, w, e)
  <2>1. to[c] \in Turn /\ st[c] \in Emits /\ step \in [Call -> {"look", "call", "emit", "fill"}]
    BY <1>2 DEF EmitEvent, IInv, Batches, TypeOK
  <2>2. CASE FillEmit(to[c], Who(c))  BY <2>1, <2>2
  <2>4. CASE DropEmit(to[c])  BY <2>4 DEF DropEmit, liveVars, fileVars
  <2>3. CASE /\ step[c] = "emit"
             /\ OpenEmit(to[c], Who(c), Event(Who(c), IF st[c] = "start" THEN "tool_start" ELSE "tool_done"))
             /\ step' = [step EXCEPT ![c] = "fill"] /\ UNCHANGED <<turn, main, st>>
    <3>1. PICK e \in Record :
            /\ e = Event(Who(c), IF st[c] = "start" THEN "tool_start" ELSE "tool_done")
            /\ <<e.turn, e.call>> = c /\ e.call # 0
            /\ e.kind = IF st[c] = "start" THEN "tool_start" ELSE "tool_done"
      <4> DEFINE k == IF st[c] = "start" THEN "tool_start" ELSE "tool_done"
                 r == [turn |-> c[1], call |-> c[2], kind |-> k]
      <4>1. Event(Who(c), k) = r  BY DEF Event, Who
      <4>2. r \in Record /\ r.kind = k /\ r.turn = c[1] /\ r.call = c[2]  BY DEF Record, Kinds
      <4>3. <<c[1], c[2]>> = c  BY CallParts
      <4> HIDE DEF r, k
      <4>4. r = Event(Who(c), k) /\ <<r.turn, r.call>> = c /\ r.call # 0 /\ r.kind = k
        BY <4>1, <4>2, <4>3
      <4> QED  BY <4>2, <4>4 DEF k
    <3>2. ~Past(e) /\ Past(e)'
      BY <2>1, <2>3, <3>1 DEF Past, CallPast, Emits
    <3> QED  BY <2>1, <2>3, <3>1, <3>2 DEF Emission
  <2> QED  BY <1>2, <2>2, <2>3, <2>4 DEF EmitEvent
<1>3. CASE SetProgress \/ Spawn \/ ReturnEarly \/ WaitForAll \/ Cancel
  BY <1>3 DEF SetProgress, Spawn, ReturnEarly, WaitForAll, Cancel, liveVars
<1>4. ASSUME NEW c \in Call, Go(c), ~EmitEvent(c) PROVE UNCHANGED fileVars
  BY <1>4 DEF Go, TakeSlot, CheckContext, Run, LookForSink, CallSink, liveVars
<1>5. CASE UNCHANGED vars \/ Stream
  BY <1>5 DEF vars, Stream, liveVars
<1> QED  BY <1>1, <1>2, <1>3, <1>4, <1>5 DEF Next, GoMain, Over

\* The list stays the end of what was emitted.
LEMMA EndGrows ==
    ASSUME NEW s \in Seq(Record), NEW em \in Seq(Record), NEW e \in Record, EndOf(s, em)
    PROVE  /\ Latest(Append(s, e)) \in Seq(Record)
           /\ EndOf(Latest(Append(s, e)), Append(em, e))
           /\ Len(Latest(Append(s, e))) <= Len(s) + 1
<1> DEFINE a == Append(s, e)
           em2 == Append(em, e)
           N == MaxLiveEvents
<1>1. N \in Nat \ {0} /\ Len(s) \in Nat /\ Len(em) \in Nat
  BY LiveAssumption DEF LiveAssumption
<1>2. /\ a \in Seq(Record) /\ Len(a) = Len(s) + 1 /\ a[Len(s) + 1] = e
      /\ \A i \in 1..Len(s) : a[i] = s[i]
      /\ Len(em2) = Len(em) + 1 /\ em2[Len(em) + 1] = e /\ \A i \in 1..Len(em) : em2[i] = em[i]
  OBVIOUS
<1> HIDE DEF a, em2, N
<1>3. /\ Len(s) <= Len(em) /\ Len(s) <= N
      /\ \A i \in 1..Len(s) : s[i] = em[Len(em) - Len(s) + i]
  BY DEF EndOf, N
<1>4. \A i \in 1..Len(a) : a[i] = em2[Len(em2) - Len(a) + i]
  <2> SUFFICES ASSUME NEW i \in 1..Len(a) PROVE a[i] = em2[Len(em2) - Len(a) + i]
    OBVIOUS
  <2>1. CASE i = Len(s) + 1
    <3>1. Len(em2) - Len(a) + i = Len(em) + 1  BY <1>1, <1>2, <2>1
    <3> QED  BY <1>2, <2>1, <3>1
  <2>2. CASE i \in 1..Len(s)
    <3>1. Len(em2) - Len(a) + i = Len(em) - Len(s) + i /\ Len(em) - Len(s) + i \in 1..Len(em)
      BY <1>1, <1>2, <1>3, <2>2
    <3> QED  BY <1>2, <1>3, <2>2, <3>1
  <2> QED  BY <1>1, <1>2, <2>1, <2>2
<1>5. CASE Len(a) <= N
  <2>1. Latest(a) = a  BY <1>1, <1>2, <1>5 DEF Latest, N
  <2>2. EndOf(a, em2)  BY <1>1, <1>2, <1>3, <1>4, <1>5 DEF EndOf, N
  <2> QED  BY <1>2, <2>1, <2>2 DEF a, em2
<1>6. CASE Len(a) > N
  <2> DEFINE b == SubSeq(a, Len(a) - N + 1, Len(a))
             m == Len(a) - N + 1
  <2>1. Len(s) = N /\ m = 2 /\ Len(a) = N + 1  BY <1>1, <1>2, <1>3, <1>6
  <2>2. \A i \in m..Len(a) : a[i] \in Record
    BY <1>1, <1>2, <2>1
  <2>3. /\ b \in Seq(Record) /\ Len(b) = N /\ \A i \in 1..N : b[i] = a[i + 1]
    <3>1. m \in Int /\ Len(a) \in Int  BY <1>1, <2>1
    <3>2. /\ b \in Seq(Record) /\ Len(b) = (IF m <= Len(a) THEN Len(a) - m + 1 ELSE 0)
          /\ \A i \in 1..(Len(a) - m + 1) : b[i] = a[m + i - 1]
      BY <2>2, <3>1, SubSeqProperties
    <3>3. \A i \in 1..N : m + i - 1 = i + 1  BY <1>1, <2>1
    <3> QED  BY <1>1, <2>1, <3>2, <3>3
  <2>4. Latest(a) = b  BY <1>6 DEF Latest, N
  <2> HIDE DEF b, m
  <2>5. EndOf(b, em2)
    <3>1. \A i \in 1..N : b[i] = em2[Len(em2) - N + i]
      <4> SUFFICES ASSUME NEW i \in 1..N PROVE b[i] = em2[Len(em2) - N + i]  OBVIOUS
      <4>1. i + 1 \in 1..Len(a) /\ Len(em2) - Len(a) + (i + 1) = Len(em2) - N + i
        BY <1>1, <1>2, <2>1
      <4> QED  BY <1>4, <2>3, <4>1
    <3>2. N <= Len(em2)  BY <1>1, <1>2, <1>3, <2>1
    <3> QED  BY <1>1, <2>3, <3>1, <3>2 DEF EndOf, N
  <2>6. Len(b) <= Len(s) + 1  BY <1>1, <2>1, <2>3
  <2> QED  BY <2>3, <2>4, <2>5, <2>6 DEF a, em2
<1> QED  BY <1>1, <1>2, <1>5, <1>6 DEF a, em2

LEMMA ApplyType ==
    ASSUME NEW s \in State, NEW e \in Record
    PROVE  Apply(s, e) \in State
<1> DEFINE a == Append(s.events, e)
<1>0. s.events \in Seq(Record)  BY DEF State
<1>1. a \in Seq(Record) /\ Len(a) \in Nat  BY <1>0
<1>2. Latest(a) \in Seq(Record)
  <2>1. CASE Len(a) > MaxLiveEvents
    <3> DEFINE m == Len(a) - MaxLiveEvents + 1
    <3>1. m \in Int /\ m >= 1  BY <1>1, <2>1, LiveAssumption DEF LiveAssumption
    <3>2. \A i \in m..Len(a) : a[i] \in Record  BY <1>1, <3>1
    <3> HIDE DEF a
    <3>3. SubSeq(a, m, Len(a)) \in Seq(Record)  BY <1>1, <3>1, <3>2, SubSeqProperties
    <3> QED  BY <2>1, <3>3 DEF Latest
  <2>2. CASE ~(Len(a) > MaxLiveEvents)
    <3> HIDE DEF a
    <3> QED  BY <1>1, <2>2 DEF Latest
  <2> QED  BY <2>1, <2>2
<1>3. Events(s, e) \in Seq(Record)  BY <1>0, <1>2 DEF Events
<1>4. Busy(s, e) \in BOOLEAN /\ Status(s, e) \in {"", "thinking", "tool", "error", "ready"}
  BY DEF Busy, Status, State
<1> QED  BY <1>3, <1>4 DEF Apply, State

\* What is emitted stays apart, the new event from all before it.
LEMMA EmissionsStay ==
    ASSUME IInv, LiveTypes, Emissions, [Next]_vars, UNCHANGED emitted
    PROVE  Emissions'
<1>1. ASSUME NEW n \in 1..Len(emitted), NEW e \in Record, emitted[n] = e PROVE Past(e)'
  BY <1>1, PastStays DEF Emissions
<1> QED  BY <1>1 DEF Emissions

LEMMA EmissionsGrow ==
    ASSUME IInv, LiveTypes, Emissions, [Next]_vars,
           NEW t \in Turn, NEW w \in Whos, NEW e \in Record, Emission(t, w, e)
    PROVE  Emissions'
<1>1. \A n \in 1..Len(emitted), f \in Record : emitted[n] = f => Past(f) /\ Past(f)'
  BY PastStays DEF Emissions
<1>3. CASE e.kind = "turn_end"
  BY <1>3, EmissionsStay DEF Emission, OpenEmit
<1>4. CASE e.kind # "turn_end"
  <2>1. emitted' = Append(emitted, e) /\ ~Past(e) /\ Past(e)'
    BY <1>4 DEF Emission, OpenEmit
  <2>2. /\ Len(emitted') = Len(emitted) + 1 /\ Len(emitted) \in Nat /\ emitted'[Len(emitted) + 1] = e
        /\ \A n \in 1..Len(emitted) : emitted'[n] = emitted[n]
    BY <2>1 DEF LiveTypes
  <2>3. \A n \in 1..Len(emitted) : emitted[n] # e  BY <1>1, <2>1
  <2>4. ASSUME NEW m \in 1..Len(emitted'), NEW n \in 1..Len(emitted'), emitted'[m] = emitted'[n]
        PROVE  m = n
    BY <2>2, <2>3, <2>4 DEF Emissions
  <2>5. ASSUME NEW n \in 1..Len(emitted'), NEW f \in Record, emitted'[n] = f PROVE Past(f)'
    <3>1. CASE n = Len(emitted) + 1  BY <2>1, <2>2, <2>5, <3>1
    <3>2. CASE n \in 1..Len(emitted)  BY <1>1, <2>2, <2>5, <3>2
    <3> QED  BY <2>2, <3>1, <3>2
  <2> QED  BY <2>4, <2>5 DEF Emissions
<1> QED  BY <1>3, <1>4

\* Where a poller goes on only moves on while events are added.
LEMMA UpToGrows ==
    ASSUME LiveTypes, UNCHANGED <<seen, sent>>,
           NEW s \in Seq(Record), NEW r \in Seq(Record), UpTo(s),
           Len(emitted) <= Len(emitted'), emitted' \in Seq(Record),
           \A n \in 1..Len(emitted) : emitted'[n] = emitted[n],
           Len(emitted) - Len(s) <= Len(emitted') - Len(r)
    PROVE  UpTo(r)'
<1>1. /\ Len(emitted) \in Nat /\ Len(emitted') \in Nat /\ seen \in Nat
      /\ Len(s) \in Nat /\ Len(r) \in Nat
  BY DEF LiveTypes
<1>2. ASSUME NEW m \in 1..Len(sent)
      PROVE  \E n \in 1..Len(emitted') : sent[m] = emitted'[n] /\ n <= Len(emitted') - Len(r) + seen
  <2>1. PICK n \in 1..Len(emitted) : sent[m] = emitted[n] /\ n <= Len(emitted) - Len(s) + seen
    BY DEF UpTo
  <2>2. n \in 1..Len(emitted') /\ sent[m] = emitted'[n] /\ n <= Len(emitted') - Len(r) + seen
    BY <1>1, <2>1
  <2> QED  BY <2>2
<1> QED  BY <1>2 DEF UpTo

\* An event is written: its writer is alone and goes on from the list, or from
\* none.
LEMMA EmissionKeeps ==
    ASSUME IInv, LiveInv, [Next]_vars,
           NEW t \in Turn, NEW w \in Whos, NEW e \in Record, Emission(t, w, e)
    PROVE  LiveInv'
<1>0. PICK state \in Loaded :
      /\ pub' = [pub EXCEPT ![t] = [by |-> w, state |-> Apply(state, e)]]
  BY DEF Emission, OpenEmit
<1>1. /\ LiveTypes /\ Emissions /\ w # NoOne /\ pub[t] = Free
      /\ file' = Truncated
      /\ emitted' = IF e.kind = "turn_end" THEN emitted ELSE Append(emitted, e)
      /\ overlapped' = (overlapped \/ \E u \in Turn \ {t} : pub[u] # Free)
      /\ UNCHANGED <<seen, sent>>
  BY DEF LiveInv, Emission, OpenEmit
<1>2. state \in State /\ Apply(state, e) \in State
  <2>1. state = NewState \/ (file.ok /\ state = file.state)  BY <1>0 DEF Loaded
  <2>2. state \in State  BY <1>1, <2>1, LiveParts DEF LiveTypes
  <2> QED  BY <2>2, ApplyType
<1>3. LiveTypes'
  <2>1. file' \in [ok : BOOLEAN, state : State]  BY <1>1, LiveParts DEF Truncated
  <2>2. pub' \in [Turn -> [by : Whos, state : State]]  BY <1>0, <1>1, <1>2 DEF LiveTypes
  <2>3. emitted' \in Seq(Record) /\ sent' \in Seq(Record) /\ overlapped' \in BOOLEAN /\ seen' \in Nat
    BY <1>1 DEF LiveTypes
  <2> QED  BY <2>1, <2>2, <2>3 DEF LiveTypes
<1>4. Emissions'  BY <1>1, EmissionsGrow
<1>5. ASSUME ~overlapped' PROVE OneWriter' /\ Listed' /\ Pushed'
  <2> DEFINE s == state.events
             r == Events(state, e)
  <2>1. ~overlapped /\ \A u \in Turn : pub[u] = Free  BY <1>1, <1>5
  <2>2. EndOf(s, emitted) /\ UpTo(s) /\ Pushed /\ s \in Seq(Record)
    <3>1. CASE file.ok /\ state = file.state
      BY <1>2, <2>1, <3>1 DEF LiveInv, Listed, Pushed, State
    <3>2. CASE state = NewState
      <4>1. s = <<>> /\ <<>> \in Seq(Record)  BY <3>2, LiveParts
      <4>2. EndOf(<<>>, emitted)
        BY <1>1, LiveAssumption DEF EndOf, LiveAssumption, LiveTypes
      <4> QED  BY <2>1, <4>1, <4>2 DEF LiveInv, Pushed
    <3> QED  BY <1>0, <3>1, <3>2 DEF Loaded
  <2>3. /\ pub'[t] # Free /\ pub'[t].state.events = r
        /\ \A u \in Turn \ {t} : pub'[u] = Free
        /\ ~file'.ok
    <3>1. pub'[t] = [by |-> w, state |-> Apply(state, e)] /\ \A u \in Turn \ {t} : pub'[u] = pub[u]
      BY <1>0, <1>1 DEF LiveTypes
    <3>2. pub'[t].by # Free.by  BY <1>1, <3>1, LiveParts
    <3>3. pub'[t].state.events = r  BY <3>1 DEF Apply
    <3>4. ~file'.ok  BY <1>1 DEF Truncated
    <3> QED  BY <2>1, <3>1, <3>2, <3>3, <3>4
  <2> HIDE DEF s
  <2>4. /\ EndOf(r, emitted') /\ r \in Seq(Record)
        /\ Len(emitted) - Len(s) <= Len(emitted') - Len(r)
    <3>0. emitted \in Seq(Record)  BY <1>1 DEF LiveTypes
    <3>1. CASE e.kind = "turn_end"
      <4>1. r = s /\ emitted' = emitted  BY <1>1, <3>1 DEF Events, s
      <4> HIDE DEF r
      <4> QED  BY <2>2, <3>0, <4>1
    <3>2. CASE e.kind # "turn_end"
      <4>1. r = Latest(Append(s, e)) /\ emitted' = Append(emitted, e)  BY <1>1, <3>2 DEF Events, s
      <4> HIDE DEF r
      <4>2. EndOf(r, emitted') /\ r \in Seq(Record) /\ Len(r) <= Len(s) + 1
        BY <2>2, <3>0, <4>1, EndGrows
      <4>3. /\ Len(emitted') = Len(emitted) + 1 /\ Len(emitted) \in Nat
            /\ Len(r) \in Nat /\ Len(s) \in Nat
        BY <2>2, <3>0, <4>1, <4>2
      <4> QED  BY <4>2, <4>3
    <3> QED  BY <3>1, <3>2
  <2> HIDE DEF r
  <2>5. OneWriter'  BY <2>3 DEF OneWriter
  <2>6. Listed'  BY <2>3, <2>4 DEF Listed
  <2>7. Pushed'
    <3>1. /\ Len(emitted) \in Nat /\ Len(emitted) <= Len(emitted') /\ emitted' \in Seq(Record)
          /\ \A n \in 1..Len(emitted) : n \in 1..Len(emitted') /\ emitted'[n] = emitted[n]
      BY <1>1 DEF LiveTypes
    <3>2. UpTo(r)'  BY <1>1, <2>2, <2>4, <3>1, UpToGrows
    <3>3. UpTo(<<>>)'
      <4>1. <<>> \in Seq(Record) /\ Len(emitted') \in Nat  BY <3>1
      <4>2. UpTo(<<>>) /\ Len(emitted) - Len(<<>>) <= Len(emitted') - Len(<<>>)
        BY <2>2, <3>1, <4>1 DEF Pushed
      <4> QED  BY <1>1, <3>1, <4>1, <4>2, UpToGrows
    <3>4. ASSUME NEW m \in 1..Len(sent), NEW k \in 1..Len(sent), m < k,
                 NEW i \in 1..Len(emitted'), NEW j \in 1..Len(emitted'),
                 sent[m] = emitted'[i], sent[k] = emitted'[j]
          PROVE  i < j
      <4>0. \A l \in 1..Len(sent) : \E n \in 1..Len(emitted) : sent[l] = emitted[n]
        BY <2>2 DEF Pushed, UpTo
      <4>1. PICK p \in 1..Len(emitted) : sent[m] = emitted'[p] /\ sent[m] = emitted[p] /\ p \in 1..Len(emitted')
        BY <3>1, <4>0
      <4>2. PICK q \in 1..Len(emitted) : sent[k] = emitted'[q] /\ sent[k] = emitted[q] /\ q \in 1..Len(emitted')
        BY <3>1, <4>0
      <4>3. i = p /\ j = q  BY <1>4, <3>4, <4>1, <4>2 DEF Emissions
      <4>4. p < q  BY <2>2, <3>4, <4>1, <4>2 DEF Pushed
      <4> QED  BY <4>3, <4>4
    <3>5. \A m, k \in 1..Len(sent'), i, j \in 1..Len(emitted') :
             m < k /\ sent'[m] = emitted'[i] /\ sent'[k] = emitted'[j] => i < j
      BY <1>1, <3>4
    <3>6. \A u \in Turn : pub'[u] # Free => u = t /\ pub'[u].state.events = r  BY <2>3
    <3> QED  BY <2>3, <3>2, <3>3, <3>5, <3>6 DEF Pushed
  <2> QED  BY <2>5, <2>6, <2>7
<1> QED  BY <1>3, <1>4, <1>5 DEF LiveInv

\* The file is filled, or not: nobody writes any more, and what can be read is
\* the writer's list.
LEMMA FillKeeps ==
    ASSUME IInv, LiveInv, [Next]_vars, NEW t \in Turn, NEW w \in Whos, w # NoOne, FillEmit(t, w)
    PROVE  LiveInv'
<1>1. /\ LiveTypes /\ Emissions /\ pub[t].by = w /\ pub' = [pub EXCEPT ![t] = Free]
      /\ file' = [ok |-> TRUE, state |-> pub[t].state] \/ file' = Truncated
      /\ UNCHANGED <<emitted, overlapped, seen, sent>>
  BY DEF LiveInv, FillEmit
<1>2. LiveTypes'
  <2>0. pub[t].state \in State  BY <1>1 DEF LiveTypes
  <2>1. file' \in [ok : BOOLEAN, state : State]
    <3>1. CASE file' = [ok |-> TRUE, state |-> pub[t].state]  BY <2>0, <3>1
    <3>2. CASE file' = Truncated  BY <3>2, LiveParts DEF Truncated
    <3> QED  BY <1>1, <3>1, <3>2
  <2>2. pub' \in [Turn -> [by : Whos, state : State]]  BY <1>1, LiveParts DEF LiveTypes
  <2> QED  BY <1>1, <2>1, <2>2 DEF LiveTypes
<1>3. Emissions'  BY <1>1, EmissionsStay
<1>4. ASSUME ~overlapped' PROVE OneWriter' /\ Listed' /\ Pushed'
  <2>1. ~overlapped /\ OneWriter /\ Listed /\ Pushed  BY <1>1, <1>4 DEF LiveInv
  <2>2. pub[t] # Free  BY <1>1, LiveParts
  <2>3. \A u \in Turn : pub'[u] = Free  BY <1>1, <2>1, <2>2 DEF LiveTypes, OneWriter
  <2>4. file'.ok => file'.state.events = pub[t].state.events  BY <1>1 DEF Truncated
  <2> DEFINE r == pub[t].state.events
  <2>5. EndOf(r, emitted') /\ (UpTo(r) /\ UNCHANGED <<emitted, seen, sent>>)
    BY <1>1, <2>1, <2>2 DEF Listed, Pushed
  <2>6. OneWriter'  BY <2>3 DEF OneWriter
  <2>7. Listed'  BY <2>3, <2>4, <2>5 DEF Listed
  <2>11. file'.ok => UpTo(file.state.events)'
    <3> DEFINE f == file'.state.events
    <3>1. f = r => UpTo(file.state.events)'  BY <2>5 DEF UpTo
    <3> QED  BY <2>4, <3>1
  <2>8. UpTo(<<>>)'  BY <1>1, <2>1 DEF Pushed, UpTo
  <2>9. \A m, k \in 1..Len(sent'), i, j \in 1..Len(emitted') :
           m < k /\ sent'[m] = emitted'[i] /\ sent'[k] = emitted'[j] => i < j
    BY <1>1, <2>1 DEF Pushed
  <2>10. Pushed'  BY <2>3, <2>8, <2>9, <2>11 DEF Pushed
  <2> QED  BY <2>6, <2>7, <2>10
<1> QED  BY <1>2, <1>3, <1>4 DEF LiveInv

\* The poller moves: what it pushes are the events of the list behind seen.
LEMMA PollKeeps ==
    ASSUME IInv, LiveInv, [Next]_vars, Poll
    PROVE  LiveInv'
<1> DEFINE s == file.state.events
           d == SubSeq(s, seen + 1, Len(s))
<1>1. /\ LiveTypes /\ Emissions /\ file.ok /\ seen # Len(s) /\ sent' = sent \o d /\ seen' = Len(s)
      /\ UNCHANGED <<file, pub, emitted, overlapped>>
  BY DEF LiveInv, Poll
<1>2. s \in Seq(Record) /\ Len(s) \in Nat /\ seen \in Nat /\ Len(sent) \in Nat /\ Len(emitted) \in Nat
  <2>1. file.state \in State  BY <1>1 DEF LiveTypes
  <2>2. s \in Seq(Record)  BY <2>1 DEF State
  <2>3. emitted \in Seq(Record) /\ sent \in Seq(Record) /\ seen \in Nat  BY <1>1 DEF LiveTypes
  <2> HIDE DEF s
  <2> QED  BY <2>2, <2>3
<1> HIDE DEF s
<1>3. /\ d \in Seq(Record) /\ Len(d) = IF seen + 1 <= Len(s) THEN Len(s) - seen ELSE 0
      /\ \A i \in 1..(Len(s) - seen) : d[i] = s[seen + i]
  <2> DEFINE b == seen + 1
  <2>1. b \in Int /\ Len(s) \in Int /\ \A i \in b..Len(s) : s[i] \in Record  BY <1>2
  <2>2. /\ SubSeq(s, b, Len(s)) \in Seq(Record)
        /\ Len(SubSeq(s, b, Len(s))) = IF b <= Len(s) THEN Len(s) - b + 1 ELSE 0
        /\ \A i \in 1..(Len(s) - b + 1) : SubSeq(s, b, Len(s))[i] = s[b + i - 1]
    <3> HIDE DEF b
    <3> QED  BY <2>1, SubSeqProperties
  <2>3. Len(s) - b + 1 = Len(s) - seen /\ \A i \in 1..(Len(s) - seen) : b + i - 1 = seen + i
    BY <1>2
  <2> QED  BY <2>2, <2>3
<1> HIDE DEF d
<1>4. LiveTypes'  BY <1>1, <1>2, <1>3 DEF LiveTypes
<1>5. Emissions'  BY <1>1, EmissionsStay
<1>6. ASSUME ~overlapped' PROVE OneWriter' /\ Listed' /\ Pushed'
  <2>1. OneWriter /\ Listed /\ Pushed /\ EndOf(s, emitted) /\ UpTo(s)
    BY <1>1, <1>6 DEF LiveInv, Listed, Pushed, s
  <2>2. OneWriter' /\ Listed'  BY <1>1, <2>1 DEF OneWriter, Listed
  <2>4. Len(s) <= Len(emitted)  BY <2>1 DEF EndOf
  <2> DEFINE o == Len(emitted) - Len(s) + seen
  <2>5. /\ o \in Nat /\ Len(d) \in Nat
        /\ Len(d) # 0 => o + Len(d) = Len(emitted) /\ Len(d) = Len(s) - seen
    BY <1>2, <1>3, <2>4
  <2>6. \A i \in 1..Len(d) : d[i] = emitted[o + i]
    <3> SUFFICES ASSUME NEW i \in 1..Len(d) PROVE d[i] = emitted[o + i]  OBVIOUS
    <3>0. Len(d) = Len(s) - seen  BY <2>5
    <3>1. d[i] = s[seen + i] /\ seen + i \in 1..Len(s)  BY <1>2, <1>3, <3>0
    <3>2. s[seen + i] = emitted[Len(emitted) - Len(s) + (seen + i)]  BY <2>1, <3>1 DEF EndOf
    <3>3. Len(emitted) - Len(s) + (seen + i) = o + i  BY <1>2, <2>4
    <3> QED  BY <3>1, <3>2, <3>3
  <2>14. \A m \in 1..Len(sent) : \E n \in 1..Len(emitted) : sent[m] = emitted[n] /\ n <= o
    BY <2>1 DEF UpTo
  <2> HIDE DEF o
  <2>7. /\ Len(sent') = Len(sent) + Len(d)
        /\ \A m \in 1..Len(sent) : sent'[m] = sent[m]
        /\ \A m \in 1..Len(sent') : m \notin 1..Len(sent) =>
              m - Len(sent) \in 1..Len(d) /\ sent'[m] = d[m - Len(sent)]
    <3>1. sent \in Seq(Record) /\ d \in Seq(Record) /\ sent' = sent \o d  BY <1>1, <1>3 DEF LiveTypes
    <3>2. /\ Len(sent') = Len(sent) + Len(d) /\ Len(d) \in Nat
          /\ \A m \in 1..(Len(sent) + Len(d)) :
                sent'[m] = IF m <= Len(sent) THEN sent[m] ELSE d[m - Len(sent)]
      BY <3>1
    <3> QED  BY <1>2, <3>2
  \* What is new is at o + its place among the new ones.
  <2>8. \A m \in 1..Len(sent') : m \notin 1..Len(sent) =>
           /\ sent'[m] = emitted[o + (m - Len(sent))] /\ m > Len(sent) /\ m - Len(sent) >= 1
           /\ m - Len(sent) \in Nat
           /\ o + (m - Len(sent)) \in 1..Len(emitted)
    <3> SUFFICES ASSUME NEW m \in 1..Len(sent'), m \notin 1..Len(sent)
                 PROVE  /\ sent'[m] = emitted[o + (m - Len(sent))] /\ m > Len(sent) /\ m - Len(sent) >= 1
                        /\ m - Len(sent) \in Nat
                        /\ o + (m - Len(sent)) \in 1..Len(emitted)
      OBVIOUS
    <3>1. m - Len(sent) \in 1..Len(d) /\ sent'[m] = d[m - Len(sent)]  BY <2>7
    <3>2. sent'[m] = emitted[o + (m - Len(sent))]  BY <2>6, <3>1
    <3>3. o + Len(d) = Len(emitted)  BY <2>5, <3>1
    <3> QED  BY <1>2, <2>5, <3>1, <3>2, <3>3
  <2>9. ASSUME NEW m \in 1..Len(sent')
        PROVE  \E n \in 1..Len(emitted) : sent'[m] = emitted[n]
    <3>1. CASE m \in 1..Len(sent)  BY <2>7, <2>14, <3>1
    <3>2. CASE m \notin 1..Len(sent)  BY <2>8, <3>2
    <3> QED  BY <3>1, <3>2
  <2>10. ASSUME NEW m \in 1..Len(sent'), NEW k \in 1..Len(sent'), m < k,
                NEW i \in 1..Len(emitted), NEW j \in 1..Len(emitted),
                sent'[m] = emitted[i], sent'[k] = emitted[j]
         PROVE  i < j
    <3>1. CASE k \in 1..Len(sent)
      <4>1. m \in 1..Len(sent)  BY <1>2, <2>10, <3>1
      <4>2. sent[m] = emitted[i] /\ sent[k] = emitted[j]  BY <2>7, <2>10, <3>1, <4>1
      <4> QED  BY <2>1, <2>10, <3>1, <4>1, <4>2 DEF Pushed
    <3>2. CASE k \notin 1..Len(sent)
      <4>1. j = o + (k - Len(sent)) /\ k - Len(sent) >= 1 /\ k - Len(sent) \in Nat
        BY <1>1, <2>8, <2>10, <3>2 DEF Emissions
      <4>2. CASE m \in 1..Len(sent)
        <5>1. PICK n \in 1..Len(emitted) : sent[m] = emitted[n] /\ n <= o
          BY <2>14, <4>2
        <5>2. i = n  BY <1>1, <2>7, <2>10, <4>2, <5>1 DEF Emissions
        <5> QED  BY <1>2, <2>5, <4>1, <5>1, <5>2
      <4>3. CASE m \notin 1..Len(sent)
        <5>1. i = o + (m - Len(sent)) /\ m - Len(sent) \in Nat
          BY <1>1, <2>8, <2>10, <4>3 DEF Emissions
        <5> QED  BY <1>2, <2>5, <2>10, <4>1, <5>1
      <4> QED  BY <4>2, <4>3
    <3> QED  BY <3>1, <3>2
  \* The poller goes on from the end of the list, behind all that was emitted.
  <2>11. UpTo(s)' /\ UpTo(<<>>)'
    <3>1. seen' = Len(s) /\ emitted' = emitted  BY <1>1
    <3>2. /\ Len(emitted) - Len(s) + Len(s) = Len(emitted)
          /\ Len(emitted) - Len(<<>>) + Len(s) >= Len(emitted)
      BY <1>2
    <3>3. s' = s  BY <1>1 DEF s
    <3> QED  BY <2>9, <3>1, <3>2, <3>3 DEF UpTo
  <2>12. Pushed'
    <3>1. \A u \in Turn : pub'[u] = Free  BY <1>1, <2>1 DEF OneWriter
    <3>2. \A m, k \in 1..Len(sent'), i, j \in 1..Len(emitted') :
             m < k /\ sent'[m] = emitted'[i] /\ sent'[k] = emitted'[j] => i < j
      BY <1>1, <2>10
    <3>3. file'.ok => UpTo(file.state.events)'  BY <2>11 DEF s
    <3> QED  BY <2>11, <3>1, <3>2, <3>3 DEF Pushed
  <2> QED  BY <2>2, <2>12
<1> QED  BY <1>4, <1>5, <1>6 DEF LiveInv

LEMMA InitLive == Init => LiveInv
<1> SUFFICES ASSUME Init PROVE LiveInv
  OBVIOUS
<1> USE LiveParts
<1>1. LiveTypes
  <2>1. file \in [ok : BOOLEAN, state : State]  BY DEF Init, LiveInit
  <2>2. pub \in [Turn -> [by : Whos, state : State]]  BY DEF Init, LiveInit
  <2>3. emitted \in Seq(Record) /\ sent \in Seq(Record)
    <3>1. emitted = <<>> /\ sent = <<>> /\ <<>> \in Seq(Record)  BY DEF Init, LiveInit
    <3> QED  BY <3>1
  <2>4. overlapped \in BOOLEAN /\ seen \in Nat  BY DEF Init, LiveInit
  <2> QED  BY <2>1, <2>2, <2>3, <2>4 DEF LiveTypes
<1>2. Emissions  BY DEF Init, LiveInit, Emissions
<1>3. OneWriter  BY DEF Init, LiveInit, OneWriter
<1>4. Listed
  BY LiveAssumption DEF Init, LiveInit, Listed, EndOf, LiveAssumption
<1>5. Pushed  BY DEF Init, LiveInit, Pushed, UpTo
<1> QED  BY <1>1, <1>2, <1>3, <1>4, <1>5 DEF LiveInv

LEMMA LiveStep == IInv /\ LiveInv /\ [Next]_vars => LiveInv'
<1> SUFFICES ASSUME IInv, LiveInv, [Next]_vars PROVE LiveInv'
  OBVIOUS
<1>1. CASE UNCHANGED fileVars \/ Connect
  <2>1. UNCHANGED <<file, pub, emitted, overlapped, seen, sent>>  BY <1>1 DEF liveVars, fileVars, Connect
  <2>2. Emissions'  BY <2>1, EmissionsStay DEF LiveInv
  <2> QED  BY <2>1, <2>2 DEF LiveInv, LiveTypes, OneWriter, Listed, Pushed, UpTo
<1> QED  BY <1>1, LiveMoves, EmissionKeeps, FillKeeps, PollKeeps DEF LiveInv

\* The client of the events stream gets every event at most once and in the
\* order of emission, as long as one publisher writes at a time: for any
\* number of turns and calls, any length of the list, and reads and writes of
\* the file that fail.
THEOREM StreamInOrder == Spec => []InOrderOnce
<1>1. ASSUME LiveInv PROVE InOrderOnce
  <2> SUFFICES ASSUME ~overlapped, NEW m \in 1..Len(sent), NEW k \in 1..Len(sent), m < k
               PROVE  Position(sent[m]) < Position(sent[k])
    BY DEF InOrderOnce
  <2>1. Pushed  BY <1>1 DEF LiveInv
  <2>2. \A l \in 1..Len(sent) : \E n \in 1..Len(emitted) : emitted[n] = sent[l]
    BY <2>1 DEF Pushed, UpTo
  <2>3. \A l \in 1..Len(sent) : /\ Position(sent[l]) \in 1..Len(emitted)
                                /\ emitted[Position(sent[l])] = sent[l]
    BY <2>2 DEF Position
  <2> QED  BY <2>1, <2>3 DEF Pushed
<1>2. Spec => []LiveInv  BY Invariance, InitLive, LiveStep, PTL DEF Spec
<1> QED  BY <1>1, <1>2, PTL
=============================================================================
