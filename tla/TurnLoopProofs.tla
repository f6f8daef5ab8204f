--------------------------- MODULE TurnLoopProofs ---------------------------
(***************************************************************************)
(* What TurnLoop keeps for every tool set, budget and number of turns and  *)
(* losses: its types, the consent behind every write, that a refused write *)
(* stays refused, that a write reruns only after a loss, the promise       *)
(* stated in WriteConsent, that a tool message answers a call, and that a  *)
(* session without the plan gate only sends requests a provider accepts,   *)
(* for every history, cut and number of protected messages.                *)
(***************************************************************************)
EXTENDS ModelRequests, FiniteSetTheorems, WellFoundedInduction, TLAPS

\* The calls of an assistant message carry its number.
LEMMA BatchCalls ==
    ASSUME NEW n \in Nat, NEW T, NEW c \in {n} \X T
    PROVE  c[1] = n /\ c[2] \in T
OBVIOUS

\* The next message's calls are calls.
LEMMA NextCalls ==
    ASSUME NEW n \in Nat, NEW T \in SUBSET (Reads \cup Writes)
    PROVE  {n + 1} \X T \subseteq Call
BY DEF Call

LEMMA EntryTypes ==
    ASSUME NEW S \in SUBSET Call
    PROVE  User \in Entry /\ Assistant(S) \in Entry /\ Results(S) \in Entry
BY DEF Entry, User, Assistant, Results

LEMMA NoHistory == << >> \in Seq(Entry)
OBVIOUS

THEOREM InitType == Init => TypeOK
<1> SUFFICES ASSUME Init PROVE TypeOK
  OBVIOUS
<1>1. saved \in [msgs : Seq(Entry), plan : SUBSET Call] /\ msgs \in Seq(Entry)
  BY NoHistory DEF Init
<1>2. round \in 0..MaxToolRounds /\ evalLeft \in 0..EvalMaxRetries
  BY TurnLoopAssumption DEF Init, TurnLoopAssumption
<1> QED
  BY <1>1, <1>2 DEF Init, TypeOK, PC

\* Leaving the turn resets everything but the store and its history.
LEMMA IdleType ==
    ASSUME TypeOK, Idle,
           saved' \in [msgs : Seq(Entry), plan : SUBSET Call],
           dropped' \subseteq Call, losses' \in Nat
    PROVE  TypeOK'
<1>1. msgs' \in Seq(Entry)
  BY NoHistory DEF Idle
<1>2. round' \in 0..MaxToolRounds /\ evalLeft' \in 0..EvalMaxRetries
  BY TurnLoopAssumption DEF Idle, TurnLoopAssumption
<1>3. UNCHANGED <<batch, confirmed, ran, twice, turns>>
  BY DEF Idle
<1> QED
  BY <1>1, <1>2, <1>3 DEF TypeOK, Idle, PC

\* Every step keeps the types.
THEOREM StepType == TypeOK /\ [Next]_vars => TypeOK'
<1> SUFFICES ASSUME TypeOK, [Next]_vars PROVE TypeOK'
  OBVIOUS
<1> USE TurnLoopAssumption DEF TurnLoopAssumption
<1>1. ASSUME NEW text \in {"approve", "reject", "other"}, NEW inter \in BOOLEAN,
             NEW appr \in BOOLEAN, Submit(text, inter, appr)
      PROVE  TypeOK'
  <2>1. User \in Entry
    BY EntryTypes
  <2>2. msgs' \in Seq(Entry)
    BY <1>1, <2>1 DEF TypeOK, Submit
  <2> QED
    BY <1>1, <2>2 DEF TypeOK, Submit, PC, work
<1>2. CASE Prepare
  <2>1. CASE ResumePlan
    BY <2>1 DEF TypeOK, ResumePlan, PC
  <2>2. CASE CancelPlan
    BY <2>2 DEF TypeOK, CancelPlan, PC, turn, work, ghosts
  <2>3. CASE BeginTurn
    BY <2>3 DEF TypeOK, BeginTurn, PC, work, ghosts
  <2> QED
    BY <1>2, <2>1, <2>2, <2>3 DEF Prepare
<1>3. CASE Rounds
  <2>1. CASE FailTurn \/ CallLLM
    BY <1>3, <2>1 DEF TypeOK, FailTurn, CallLLM, PC, turn, work, ghosts, session
  <2>2. CASE BudgetExhausted
    <3>1. msgs' \in Seq(Entry)
      BY <2>2, EntryTypes DEF TypeOK, BudgetExhausted
    <3> QED
      BY <2>2, <3>1 DEF TypeOK, BudgetExhausted, PC, turn, work, ghosts
  <2> QED
    BY <1>3, <2>1, <2>2 DEF Rounds
<1>4. CASE Model
  <2>1. CASE LLMError
    BY <2>1 DEF TypeOK, LLMError, PC, turn, work, ghosts, session
  <2>2. CASE LLMReply
    <3>1. msgs' \in Seq(Entry)
      BY <2>2, EntryTypes DEF TypeOK, LLMReply
    <3> QED
      BY <2>2, <3>1 DEF TypeOK, LLMReply, PC, turn, work, ghosts
  <2>3. CASE EvalRetry
    <3>1. msgs' \in Seq(Entry)
      BY <2>3, EntryTypes DEF TypeOK, EvalRetry
    <3> QED
      BY <2>3, <3>1 DEF TypeOK, EvalRetry, PC, turn, work, ghosts
  <2>4. ASSUME NEW tools \in (SUBSET (Reads \cup Writes)) \ {{}}, LLMTools(tools)
        PROVE  TypeOK'
    <3>1. calls' \subseteq Call
      BY <2>4, NextCalls DEF TypeOK, LLMTools
    <3>2. Assistant(calls') \in Entry /\ Results(ReadOnly(calls')) \in Entry
      BY <3>1, EntryTypes DEF ReadOnly
    <3>3. msgs' \in Seq(Entry)
      BY <2>4, <3>2 DEF TypeOK, LLMTools
    <3>4. batch' \in Nat
      BY <2>4 DEF TypeOK, LLMTools
    <3>5. UNCHANGED <<saved, plan, turn, todo, exec, cancelled, ghosts>> /\ pc' = "gate"
      BY <2>4 DEF LLMTools
    <3> QED
      BY <3>1, <3>3, <3>4, <3>5 DEF TypeOK, PC, turn, ghosts
  <2> QED
    BY <1>4, <2>1, <2>2, <2>3, <2>4 DEF Model
<1>5. CASE Execute
  <2>1. CASE Hold \/ Proceed
    BY <2>1 DEF TypeOK, Hold, Proceed, Mutating, PC, turn, work, ghosts, session
  <2>2. CASE AppendResults
    <3>1. msgs' \in Seq(Entry)
      BY <2>2, EntryTypes DEF TypeOK, AppendResults
    <3> QED
      BY <2>2, <3>1 DEF TypeOK, AppendResults, PC, turn, work, ghosts
  <2>3. ASSUME NEW c \in todo, RunWrite(c) \/ AskAndRun(c) \/ SkipWrite(c)
        PROVE  TypeOK'
    <3>1. CASE RunWrite(c)
      BY <3>1 DEF TypeOK, RunWrite, Ran, PC, turn, session
    <3>2. CASE AskAndRun(c)
      BY <3>2 DEF TypeOK, AskAndRun, Ran, PC, turn, session
    <3>3. CASE SkipWrite(c)
      BY <3>3 DEF TypeOK, SkipWrite, PC, turn, session, ghosts
    <3> QED
      BY <2>3, <3>1, <3>2, <3>3
  <2> QED
    BY <1>5, <2>1, <2>2, <2>3 DEF Execute
<1>6. CASE Save
  <2>1. saved' \in [msgs : Seq(Entry), plan : SUBSET Call]
    BY <1>6 DEF TypeOK, Save
  <2>2. dropped' \subseteq Call /\ losses' \in Nat
    BY <1>6 DEF TypeOK, Save
  <2>3. Idle
    BY <1>6 DEF Save
  <2> QED
    BY <2>1, <2>2, <2>3, IdleType DEF TypeOK
<1>7. CASE Cancel
  BY <1>7 DEF TypeOK, Cancel, PC, turn, work, ghosts, session
<1>8. CASE LoseTurn
  <2>1. saved' \in [msgs : Seq(Entry), plan : SUBSET Call]
    BY <1>8 DEF TypeOK, LoseTurn
  <2>2. dropped' \subseteq Call /\ losses' \in Nat
    BY <1>8 DEF TypeOK, LoseTurn
  <2>3. Idle
    BY <1>8 DEF LoseTurn
  <2> QED
    BY <2>1, <2>2, <2>3, IdleType DEF TypeOK
<1>9. CASE UNCHANGED vars
  BY <1>9 DEF TypeOK, vars, PC, turn, work, ghosts, session
<1> QED
  BY <1>1, <1>2, <1>3, <1>4, <1>5, <1>6, <1>7, <1>8, <1>9 DEF Next, Request, Step

\* Type correctness.
THEOREM TypeCorrect == Spec => []TypeOK
BY InitType, StepType, PTL DEF Spec

-----------------------------------------------------------------------------
\* The rest of the inductive invariant, given the types.

Safe == /\ Granted /\ PlanPlaces /\ Fresh /\ NewPlanIsNew
        /\ RejectedStaysRejected /\ OnceWithoutLoss

\* Nothing Safe speaks of changes but the place in the turn, to a place that
\* asks nothing of it.
LEMMA QuietStep ==
    ASSUME Safe,
           UNCHANGED <<saved, plan, pre, approved, resumed, interactive, batch,
                       calls, todo, dropped, ran, twice, losses>>,
           pc' = pc \/ (pc \in {"round", "llm", "mutate"} /\ todo = {}
                        /\ pc' \in {"round", "llm", "ended"})
    PROVE  Safe'
<1>1. Granted' /\ PlanPlaces'
  BY DEF Safe, Granted, PlanPlaces
<1>2. Fresh' /\ RejectedStaysRejected'
  BY DEF Safe, Fresh, RejectedStaysRejected
<1>3. NewPlanIsNew' /\ OnceWithoutLoss'
  BY DEF Safe, PlanPlaces, NewPlanIsNew, OnceWithoutLoss
<1> QED
  BY <1>1, <1>2, <1>3 DEF Safe

\* A write leaves the batch in execution, having run or not.
LEMMA WriteStep ==
    ASSUME Safe, NEW c \in todo, pc = "mutate", pc' = "mutate",
           todo' = todo \ {c},
           UNCHANGED <<saved, plan, pre, approved, resumed, interactive, batch,
                       calls, dropped, losses>>,
           Ran(c) \/ UNCHANGED <<ran, twice>>
    PROVE  Safe'
<1>1. Granted' /\ PlanPlaces'
  BY DEF Safe, Granted, PlanPlaces
<1>2. Fresh' /\ RejectedStaysRejected'
  BY DEF Safe, Fresh, RejectedStaysRejected, Ran
<1>3. NewPlanIsNew'
  BY DEF Safe, NewPlanIsNew
<1>4. OnceWithoutLoss'
  BY DEF Safe, PlanPlaces, OnceWithoutLoss, Ran
<1> QED
  BY <1>1, <1>2, <1>3, <1>4 DEF Safe

THEOREM InitInv == Init => TurnInv
<1>1. Init => Safe
  BY DEF Init, Safe, Granted, PlanPlaces, Fresh, NewPlanIsNew,
         RejectedStaysRejected, OnceWithoutLoss
<1> QED
  BY <1>1, InitType DEF TurnInv, Safe

\* Every step keeps the inductive invariant.
THEOREM StepInv == TurnInv /\ [Next]_vars => TurnInv'
<1> SUFFICES ASSUME TypeOK, Safe, [Next]_vars PROVE Safe'
  BY StepType DEF TurnInv, Safe
<1>1. ASSUME NEW text \in {"approve", "reject", "other"}, NEW inter \in BOOLEAN,
             NEW appr \in BOOLEAN, Submit(text, inter, appr)
      PROVE  Safe'
  <2>1. Granted' /\ PlanPlaces' /\ NewPlanIsNew'
    BY <1>1 DEF Safe, Submit, Granted, PlanPlaces, NewPlanIsNew, work
  <2>2. Fresh' /\ RejectedStaysRejected' /\ OnceWithoutLoss'
    BY <1>1 DEF Safe, Submit, Fresh, RejectedStaysRejected, OnceWithoutLoss, work
  <2> QED
    BY <2>1, <2>2 DEF Safe
<1>2. CASE ResumePlan
  <2>1. Granted' /\ PlanPlaces' /\ NewPlanIsNew'
    BY <1>2 DEF Safe, ResumePlan, Granted, PlanPlaces, NewPlanIsNew
  <2>2. Fresh' /\ RejectedStaysRejected' /\ OnceWithoutLoss'
    BY <1>2 DEF Safe, ResumePlan, Fresh, RejectedStaysRejected, OnceWithoutLoss
  <2> QED
    BY <2>1, <2>2 DEF Safe
<1>3. CASE CancelPlan \/ BeginTurn
  <2>1. Granted' /\ PlanPlaces' /\ NewPlanIsNew'
    BY <1>3 DEF Safe, CancelPlan, BeginTurn, Granted, PlanPlaces, NewPlanIsNew,
                turn, work, ghosts
  <2>2. Fresh' /\ RejectedStaysRejected' /\ OnceWithoutLoss'
    BY <1>3 DEF Safe, CancelPlan, BeginTurn, Fresh, RejectedStaysRejected,
                OnceWithoutLoss, turn, work, ghosts
  <2> QED
    BY <2>1, <2>2 DEF Safe
<1>4. CASE Rounds \/ LLMError \/ LLMReply \/ EvalRetry \/ AppendResults
  <2>1. todo = {}
    BY <1>4 DEF Safe, PlanPlaces, Rounds, FailTurn, CallLLM, BudgetExhausted,
                LLMError, LLMReply, EvalRetry, AppendResults
  <2>2. /\ UNCHANGED <<saved, plan, pre, approved, resumed, interactive, batch,
                       calls, todo, dropped, ran, twice, losses>>
        /\ pc \in {"round", "llm", "mutate"} /\ pc' \in {"round", "llm", "ended"}
    BY <1>4 DEF Rounds, FailTurn, CallLLM, BudgetExhausted, LLMError, LLMReply,
                EvalRetry, AppendResults, session, turn, work, ghosts
  <2> QED
    BY <2>1, <2>2, QuietStep
<1>5. ASSUME NEW tools \in (SUBSET (Reads \cup Writes)) \ {{}}, LLMTools(tools)
      PROVE  Safe'
  <2>1. \A c \in calls' : c[1] = batch + 1
    BY <1>5, BatchCalls DEF LLMTools, TypeOK
  <2>2. batch' = batch + 1 /\ batch \in Nat /\ pc = "llm" /\ pc' = "gate"
        /\ UNCHANGED <<saved, plan, pre, approved, resumed, interactive, todo,
                       dropped, ran, twice, losses>>
    BY <1>5 DEF LLMTools, TypeOK, turn, ghosts
  <2>3. \A c \in ran \cup dropped \cup saved.plan \cup plan \cup todo :
            c[1] \in Nat /\ c[1] <= batch
    <3>1. ran \cup dropped \cup saved.plan \cup plan \cup todo \subseteq Call
      BY DEF TypeOK
    <3>2. \A c \in Call : c[1] \in Nat
      BY DEF Call
    <3> QED
      BY <3>1, <3>2 DEF Safe, Fresh
  <2>4. calls' \cap (ran \cup dropped \cup saved.plan) = {}
    BY <2>1, <2>2, <2>3
  <2>5. Granted' /\ PlanPlaces' /\ NewPlanIsNew'
    BY <2>2, <2>4 DEF Safe, Granted, PlanPlaces, NewPlanIsNew
  <2>6. Fresh' /\ RejectedStaysRejected'
    BY <2>1, <2>2, <2>3 DEF Safe, Fresh, RejectedStaysRejected
  <2>7. OnceWithoutLoss'
    BY <2>2, <2>4 DEF Safe, OnceWithoutLoss
  <2> QED
    BY <2>5, <2>6, <2>7 DEF Safe
<1>6. CASE Hold
  <2>1. Granted' /\ PlanPlaces' /\ NewPlanIsNew'
    BY <1>6 DEF Safe, Hold, Granted, PlanPlaces, NewPlanIsNew, Mutating, turn, work
  <2>2. Fresh' /\ RejectedStaysRejected' /\ OnceWithoutLoss'
    BY <1>6 DEF Safe, Hold, Fresh, RejectedStaysRejected, OnceWithoutLoss,
                PlanPlaces, NewPlanIsNew, Mutating, turn, work, ghosts
  <2> QED
    BY <2>1, <2>2 DEF Safe
<1>7. CASE Proceed
  <2>1. Granted' /\ PlanPlaces' /\ NewPlanIsNew'
    BY <1>7 DEF Safe, Proceed, ShouldHold, Granted, PlanPlaces, NewPlanIsNew,
                turn, session
  <2>2. Fresh' /\ RejectedStaysRejected' /\ OnceWithoutLoss'
    BY <1>7 DEF Safe, Proceed, Fresh, RejectedStaysRejected, OnceWithoutLoss,
                PlanPlaces, NewPlanIsNew, Mutating, turn, session, ghosts
  <2> QED
    BY <2>1, <2>2 DEF Safe
<1>8. ASSUME NEW c \in todo, RunWrite(c) \/ AskAndRun(c) \/ SkipWrite(c)
      PROVE  Safe'
  <2>1. /\ pc = "mutate" /\ pc' = "mutate" /\ todo' = todo \ {c}
        /\ UNCHANGED <<saved, plan, pre, approved, resumed, interactive, batch,
                       calls, dropped, losses>>
        /\ Ran(c) \/ UNCHANGED <<ran, twice>>
    BY <1>8 DEF RunWrite, AskAndRun, SkipWrite, session, turn, ghosts
  <2> QED
    BY <2>1, WriteStep
<1>9. CASE Save
  <2>1. Granted' /\ PlanPlaces' /\ NewPlanIsNew'
    BY <1>9 DEF Save, Idle, Granted, PlanPlaces, NewPlanIsNew
  <2>2. Fresh' /\ RejectedStaysRejected' /\ OnceWithoutLoss'
    BY <1>9 DEF Safe, Save, Idle, Fresh, RejectedStaysRejected, OnceWithoutLoss,
                NewPlanIsNew
  <2> QED
    BY <2>1, <2>2 DEF Safe
<1>10. CASE LoseTurn
  <2>1. Granted' /\ PlanPlaces' /\ NewPlanIsNew'
    BY <1>10 DEF LoseTurn, Idle, Granted, PlanPlaces, NewPlanIsNew
  <2>2. Fresh' /\ RejectedStaysRejected'
    BY <1>10 DEF Safe, LoseTurn, Idle, Fresh, RejectedStaysRejected
  <2>3. OnceWithoutLoss'
    BY <1>10 DEF LoseTurn, OnceWithoutLoss, TypeOK
  <2> QED
    BY <2>1, <2>2, <2>3 DEF Safe
<1>11. CASE Cancel \/ UNCHANGED vars
  BY <1>11, QuietStep DEF Cancel, vars, session, turn, work, ghosts
<1> QED
  BY <1>1, <1>2, <1>3, <1>4, <1>5, <1>6, <1>7, <1>8, <1>9, <1>10, <1>11
     DEF Next, Request, Step, Prepare, Model, Execute

\* The inductive invariant is one.
THEOREM Invariant == Spec => []TurnInv
BY InitInv, StepInv, PTL DEF Spec

-----------------------------------------------------------------------------
\* Every write an interactive turn runs under the plan gate has a consent
\* behind it: its own, the request's, or the confirmed plan the turn began with.
THEOREM Consented == Spec => []MutationConsent
<1>1. TurnInv => MutationConsent
  BY DEF TurnInv, Granted, MutationConsent
<1> QED
  BY <1>1, Invariant, PTL

\* Refused writes never come back.
THEOREM StaysRejected == Spec => []RejectedStaysRejected
<1>1. TurnInv => RejectedStaysRejected
  BY DEF TurnInv
<1> QED
  BY <1>1, Invariant, PTL

\* Only a lost turn makes a write run again.
THEOREM RunsOnce == Spec => []RerunOnlyAfterLoss
<1>1. TurnInv => RerunOnlyAfterLoss
  BY DEF TurnInv, TypeOK, OnceWithoutLoss, RerunOnlyAfterLoss
<1> QED
  BY <1>1, Invariant, PTL

-----------------------------------------------------------------------------
\* Why tool messages answer calls, each once.  Every history the session or the
\* store holds is answered; a plan that is held or stored, the writes at the
\* gate and the writes in execution are pending in their history; and a call id
\* never runs ahead of the batch count, so a new message's calls are unanswered.

Carries(h, role, c) == \E i \in 1..Len(h) : h[i].role = role /\ c \in h[i].calls

AnsweredOnce(h) == \A j \in 1..Len(h) : h[j].role = "tool" =>
    \A c \in h[j].calls :
        /\ \E i \in 1..(j-1) : h[i].role = "assistant" /\ c \in h[i].calls
        /\ \A i \in 1..(j-1) : h[i].role = "tool" => c \notin h[i].calls

Pending(h, S) == \A c \in S : Carries(h, "assistant", c) /\ ~Carries(h, "tool", c)

Known(h, n) == \A j \in 1..Len(h) : \A c \in h[j].calls : c[1] <= n

AnswerInv ==
    /\ AnsweredOnce(msgs) /\ Known(msgs, batch) /\ Pending(msgs, plan)
    /\ AnsweredOnce(saved.msgs) /\ Known(saved.msgs, batch)
    /\ Pending(saved.msgs, saved.plan)
    /\ pc = "gate" => Pending(msgs, Mutating(calls))
    /\ pc = "mutate" => Pending(msgs, exec)

\* An entry that is no tool message, or one that answers pending calls.
LEMMA AppendAnswered ==
    ASSUME NEW h \in Seq(Entry), NEW e \in Entry, AnsweredOnce(h),
           e.role = "tool" => Pending(h, e.calls)
    PROVE  AnsweredOnce(Append(h, e))
<1> DEFINE g == Append(h, e)
<1>1. Len(h) \in Nat /\ Len(g) = Len(h) + 1 /\ g[Len(h) + 1] = e
      /\ \A i \in 1..Len(h) : g[i] = h[i]
  OBVIOUS
<1> HIDE DEF g
<1>2. SUFFICES ASSUME NEW j \in 1..Len(g), g[j].role = "tool", NEW c \in g[j].calls
               PROVE  /\ \E i \in 1..(j-1) : g[i].role = "assistant" /\ c \in g[i].calls
                      /\ \A i \in 1..(j-1) : g[i].role = "tool" => c \notin g[i].calls
  BY DEF AnsweredOnce, g
<1>3. CASE j \in 1..Len(h)
  BY <1>1, <1>2, <1>3 DEF AnsweredOnce
<1>4. CASE j = Len(h) + 1
  BY <1>1, <1>2, <1>4 DEF Pending, Carries
<1> QED
  BY <1>1, <1>3, <1>4

\* Pending calls stay pending until a tool message names them.
LEMMA AppendPending ==
    ASSUME NEW h \in Seq(Entry), NEW e \in Entry, NEW S, Pending(h, S),
           e.role = "tool" => e.calls \cap S = {}
    PROVE  Pending(Append(h, e), S)
<1> DEFINE g == Append(h, e)
<1>1. Len(h) \in Nat /\ Len(g) = Len(h) + 1 /\ g[Len(h) + 1] = e
      /\ \A i \in 1..Len(h) : g[i] = h[i]
  OBVIOUS
<1> HIDE DEF g
<1>2. ASSUME NEW c \in S PROVE Carries(g, "assistant", c) /\ ~Carries(g, "tool", c)
  BY <1>1 DEF Pending, Carries
<1> QED
  BY <1>2 DEF Pending, g

\* A message's calls are pending when none of them was known before.
LEMMA AppendCalls ==
    ASSUME NEW h \in Seq(Entry), NEW n \in Nat, Known(h, n), NEW S \in SUBSET Call,
           \A c \in S : c[1] = n + 1
    PROVE  Pending(Append(h, Assistant(S)), S)
<1> DEFINE e == Assistant(S)
           g == Append(h, e)
<1>1. Assistant(S) \in Entry
  BY EntryTypes
<1>2. Len(h) \in Nat /\ Len(g) = Len(h) + 1 /\ g[Len(h) + 1] = e
      /\ \A i \in 1..Len(h) : g[i] = h[i]
  BY <1>1
<1>3. e.role = "assistant" /\ e.calls = S
  BY DEF Assistant
<1> HIDE DEF g, e
<1>4. ASSUME NEW c \in S PROVE Carries(g, "assistant", c) /\ ~Carries(g, "tool", c)
  <2>1. \A i \in 1..Len(h) : c \notin h[i].calls
    BY DEF Known
  <2> QED
    BY <2>1, <1>2, <1>3 DEF Carries
<1> QED
  BY <1>4 DEF Pending, g, e

\* Call ids stay known when an entry names known ones.
LEMMA AppendKnown ==
    ASSUME NEW h \in Seq(Entry), NEW e \in Entry, NEW m \in Nat, Known(h, m),
           \A c \in e.calls : c[1] <= m
    PROVE  Known(Append(h, e), m)
<1> DEFINE g == Append(h, e)
<1>1. Len(h) \in Nat /\ Len(g) = Len(h) + 1 /\ g[Len(h) + 1] = e
      /\ \A i \in 1..Len(h) : g[i] = h[i]
  OBVIOUS
<1> HIDE DEF g
<1> QED
  BY <1>1 DEF Known, g

LEMMA KnownGrows ==
    ASSUME NEW h \in Seq(Entry), NEW n \in Nat, Known(h, n)
    PROVE  Known(h, n + 1)
<1>1. SUFFICES ASSUME NEW j \in 1..Len(h), NEW c \in h[j].calls PROVE c[1] <= n + 1
  BY DEF Known
<1>2. c[1] <= n
  BY DEF Known
<1>3. h[j] \in Entry
  OBVIOUS
<1>4. c \in Call
  BY <1>3 DEF Entry
<1> QED
  BY <1>2, <1>4 DEF Call

\* The entries that carry no calls disturb nothing.
LEMMA AppendPlain ==
    ASSUME NEW h \in Seq(Entry), NEW n \in Nat, NEW e \in {User, Assistant({})},
           AnsweredOnce(h), Known(h, n)
    PROVE  /\ AnsweredOnce(Append(h, e)) /\ Known(Append(h, e), n)
           /\ Append(h, e) \in Seq(Entry)
<1>1. e \in Entry
  <2>1. {} \in SUBSET Call
    OBVIOUS
  <2> QED
    BY <2>1, EntryTypes
<1>2. e.role # "tool" /\ e.calls = {}
  BY DEF User, Assistant
<1> QED
  BY <1>1, <1>2, AppendAnswered, AppendKnown

\* A step that leaves the histories alone, up to where a turn resumes or drops
\* a plan.
LEMMA AnswerFrame ==
    ASSUME AnswerInv, UNCHANGED <<msgs, saved, batch>>,
           plan' \in {plan, {}},
           pc' = "gate" => pc = "gate" /\ UNCHANGED calls,
           pc' = "mutate" => \/ pc = "mutate" /\ UNCHANGED exec
                             \/ pc = "start" /\ exec' = plan
                             \/ pc = "gate" /\ exec' = Mutating(calls)
    PROVE  AnswerInv'
<1>1. Pending(msgs, {})
  BY DEF Pending
<1>2. Pending(msgs, plan)'
  BY <1>1 DEF AnswerInv
<1>3. (pc = "gate" => Pending(msgs, Mutating(calls)))'
  BY DEF AnswerInv
<1>4. (pc = "mutate" => Pending(msgs, exec))'
  BY DEF AnswerInv
<1>5. (AnsweredOnce(msgs) /\ Known(msgs, batch) /\ AnsweredOnce(saved.msgs)
       /\ Known(saved.msgs, batch) /\ Pending(saved.msgs, saved.plan))'
  BY DEF AnswerInv
<1> QED
  BY <1>2, <1>3, <1>4, <1>5 DEF AnswerInv

\* A step that ends a round with a plain entry.
LEMMA AnswerPlain ==
    ASSUME TypeOK, AnswerInv, UNCHANGED <<saved, batch>>, plan' = {},
           AnsweredOnce(msgs'), Known(msgs', batch), pc' \notin {"gate", "mutate"}
    PROVE  AnswerInv'
BY DEF AnswerInv, Pending

LEMMA InitAnswers == Init => AnswerInv
<1> SUFFICES ASSUME Init PROVE AnswerInv
  OBVIOUS
<1>1. msgs = << >> /\ saved.msgs = << >> /\ saved.plan = {} /\ plan = {} /\ pc = "idle"
  BY DEF Init
<1>2. AnsweredOnce(<< >>) /\ Known(<< >>, batch) /\ Pending(<< >>, {})
  BY DEF AnsweredOnce, Known, Pending
<1> QED
  BY <1>1, <1>2 DEF AnswerInv

\* Every step keeps the histories answered.
LEMMA StepAnswers == TurnInv /\ AnswerInv /\ [Next]_vars => AnswerInv'
<1> SUFFICES ASSUME TypeOK, PlanPlaces, AnswerInv, [Next]_vars PROVE AnswerInv'
  BY DEF TurnInv
<1>0. /\ batch \in Nat /\ msgs \in Seq(Entry) /\ saved.msgs \in Seq(Entry)
      /\ calls \in SUBSET Call /\ exec \in SUBSET Call
  BY DEF TypeOK
<1>1. ASSUME NEW text \in {"approve", "reject", "other"}, NEW inter \in BOOLEAN,
             NEW appr \in BOOLEAN, Submit(text, inter, appr)
      PROVE  AnswerInv'
  <2>1. msgs' = Append(saved.msgs, User) /\ plan' = saved.plan /\ pc' = "start"
        /\ UNCHANGED <<saved, batch>>
    BY <1>1 DEF Submit, work
  <2>2. AnsweredOnce(Append(saved.msgs, User)) /\ Known(Append(saved.msgs, User), batch)
    BY <1>0, AppendPlain DEF AnswerInv
  <2>3. User \in Entry /\ User.role # "tool"
    BY EntryTypes DEF User
  <2>4. Pending(Append(saved.msgs, User), saved.plan)
    BY <1>0, <2>3, AppendPending DEF AnswerInv
  <2> QED
    BY <2>1, <2>2, <2>4 DEF AnswerInv
<1>2. CASE Prepare
  BY <1>2, AnswerFrame DEF Prepare, ResumePlan, CancelPlan, BeginTurn, turn, work
<1>3. CASE FailTurn \/ CallLLM \/ LLMError \/ Cancel \/ UNCHANGED vars
  BY <1>3, AnswerFrame DEF FailTurn, CallLLM, LLMError, Cancel, vars, session, work
<1>4. CASE BudgetExhausted \/ LLMReply
  <2>1. msgs' = Append(msgs, Assistant({})) /\ pc' = "ended"
        /\ UNCHANGED <<saved, batch>> /\ plan' = {}
    BY <1>4 DEF BudgetExhausted, LLMReply, work, PlanPlaces
  <2>2. AnsweredOnce(msgs') /\ Known(msgs', batch)
    BY <1>0, <2>1, AppendPlain DEF AnswerInv
  <2> QED
    BY <2>1, <2>2, AnswerPlain
<1>5. CASE EvalRetry
  <2>1. msgs' = msgs \o <<Assistant({}), User>> /\ pc' = "round"
        /\ UNCHANGED <<saved, batch>> /\ plan' = {}
    BY <1>5 DEF EvalRetry, work, PlanPlaces
  <2>2. Assistant({}) \in Entry /\ User \in Entry
    BY EntryTypes
  <2>3. msgs' = Append(Append(msgs, Assistant({})), User)
    BY <1>0, <2>1, <2>2
  <2>4. AnsweredOnce(msgs') /\ Known(msgs', batch)
    <3>1. /\ AnsweredOnce(Append(msgs, Assistant({})))
          /\ Known(Append(msgs, Assistant({})), batch)
          /\ Append(msgs, Assistant({})) \in Seq(Entry)
      BY <1>0, AppendPlain DEF AnswerInv
    <3> QED
      BY <1>0, <2>3, <3>1, AppendPlain
  <2> QED
    BY <2>1, <2>4, AnswerPlain
<1>6. ASSUME NEW tools \in (SUBSET (Reads \cup Writes)) \ {{}}, LLMTools(tools)
      PROVE  AnswerInv'
  <2> DEFINE said == Append(msgs, Assistant(calls'))
             reads == ReadOnly(calls')
  <2>1. /\ batch' = batch + 1 /\ calls' = {batch + 1} \X tools
        /\ pc = "llm" /\ pc' = "gate" /\ UNCHANGED <<saved, plan>>
        /\ msgs' = IF reads = {} THEN said ELSE Append(said, Results(reads))
    BY <1>6 DEF LLMTools
  <2>2. calls' \in SUBSET Call /\ reads \in SUBSET Call
    BY <1>0, <2>1, NextCalls DEF ReadOnly
  <2>3. \A c \in calls' : c[1] = batch + 1
    BY <1>0, <2>1, BatchCalls
  <2>4. plan' = {}
    BY <2>1 DEF PlanPlaces
  <2>5. Assistant(calls') \in Entry /\ Assistant(calls').role = "assistant"
        /\ Assistant(calls').calls = calls'
    BY <2>2, EntryTypes DEF Assistant
  <2>6. Results(reads) \in Entry /\ Results(reads).role = "tool"
        /\ Results(reads).calls = reads
    BY <2>2, EntryTypes DEF Results
  <2>7. Known(msgs, batch + 1) /\ Known(saved.msgs, batch + 1)
    BY <1>0, KnownGrows DEF AnswerInv
  <2>8. said \in Seq(Entry) /\ AnsweredOnce(said) /\ Known(said, batch + 1)
    <3>1. said \in Seq(Entry)
      BY <1>0, <2>5
    <3>2. AnsweredOnce(said)
      BY <1>0, <2>5, AppendAnswered DEF AnswerInv
    <3>3. Known(said, batch + 1)
      <4>1. \A c \in calls' : c[1] <= batch + 1
        BY <1>0, <2>3
      <4> QED
        BY <4>1, <1>0, <2>5, <2>7, AppendKnown
    <3> QED
      BY <3>1, <3>2, <3>3
  <2>9. Pending(said, calls')
    BY <1>0, <2>2, <2>3, AppendCalls DEF AnswerInv
  <2>10. Pending(said, reads) /\ Pending(said, Mutating(calls'))
    BY <2>9 DEF Pending, ReadOnly, Mutating
  <2>11. reads \cap Mutating(calls') = {}
    BY TurnLoopAssumption DEF TurnLoopAssumption, ReadOnly, Mutating
  <2> HIDE DEF said, reads
  <2>12. CASE reads = {}
    BY <2>1, <2>4, <2>7, <2>8, <2>10, <2>12 DEF AnswerInv, Pending
  <2>13. CASE reads # {}
    <3>1. msgs' = Append(said, Results(reads))
      BY <2>1, <2>13
    <3>2. AnsweredOnce(msgs')
      BY <2>6, <2>8, <2>10, <3>1, AppendAnswered
    <3>3. Known(msgs', batch + 1)
      <4>1. \A c \in reads : c[1] <= batch + 1
        BY <1>0, <2>3 DEF reads, ReadOnly
      <4> QED
        BY <4>1, <1>0, <2>6, <2>8, <3>1, AppendKnown
    <3>4. Pending(msgs', Mutating(calls'))
      BY <2>6, <2>8, <2>10, <2>11, <3>1, AppendPending
    <3>5. Pending(msgs', plan')
      BY <2>4 DEF Pending
    <3> QED
      BY <2>1, <2>7, <3>2, <3>3, <3>4, <3>5 DEF AnswerInv
  <2> QED
    BY <2>12, <2>13
<1>7. CASE Hold
  <2>1. UNCHANGED <<msgs, saved, batch>> /\ plan' = Mutating(calls)
        /\ pc = "gate" /\ pc' = "ended"
    BY <1>7 DEF Hold, work
  <2> QED
    BY <2>1 DEF AnswerInv
<1>8. CASE Proceed
  BY <1>8, AnswerFrame DEF Proceed, session
<1>9. ASSUME NEW c \in todo, RunWrite(c) \/ AskAndRun(c) \/ SkipWrite(c)
      PROVE  AnswerInv'
  BY <1>9, AnswerFrame DEF RunWrite, AskAndRun, SkipWrite, session
<1>10. CASE AppendResults
  <2>1. msgs' = Append(msgs, Results(exec)) /\ pc = "mutate" /\ pc' = "round"
        /\ UNCHANGED <<saved, batch>> /\ plan' = {}
    BY <1>10 DEF AppendResults, work, PlanPlaces
  <2>2. Results(exec) \in Entry /\ Results(exec).role = "tool" /\ Results(exec).calls = exec
    BY <1>0, EntryTypes DEF Results
  <2>3. AnsweredOnce(msgs')
    BY <1>0, <2>1, <2>2, AppendAnswered DEF AnswerInv
  <2>4. \A c \in exec : c[1] <= batch
    BY <2>1 DEF AnswerInv, Pending, Carries, Known
  <2>5. Known(msgs', batch)
    BY <1>0, <2>1, <2>2, <2>4, AppendKnown DEF AnswerInv
  <2> QED
    BY <2>1, <2>3, <2>5, AnswerPlain
<1>11. CASE Save \/ LoseTurn
  <2>1. /\ msgs' = << >> /\ plan' = {} /\ pc' = "idle" /\ UNCHANGED batch
        /\ \/ saved'.msgs = msgs /\ saved'.plan = plan
           \/ UNCHANGED saved
    BY <1>11 DEF Save, LoseTurn, Idle
  <2>2. AnsweredOnce(<< >>) /\ Known(<< >>, batch) /\ Pending(<< >>, {})
    BY DEF AnsweredOnce, Known, Pending
  <2> QED
    BY <2>1, <2>2 DEF AnswerInv
<1> QED
  BY <1>1, <1>2, <1>3, <1>4, <1>5, <1>6, <1>7, <1>8, <1>9, <1>10, <1>11
     DEF Next, Request, Step, Rounds, Model, Execute

\* Tool messages answer calls made before them, each at most once, in the turn's
\* history and in the stored one, whatever is held, resumed, dropped or lost.
THEOREM ResultsAnswer == Spec => []ResultsAnswerCalls
<1>1. AnswerInv => ResultsAnswerCalls
  BY DEF AnswerInv, AnsweredOnce, ResultsAnswerCalls
<1>2. Init => AnswerInv
  BY InitAnswers
<1>3. TurnInv /\ AnswerInv /\ [Next]_vars => AnswerInv'
  BY StepAnswers
<1> QED
  BY <1>1, <1>2, <1>3, Invariant, PTL DEF Spec

-----------------------------------------------------------------------------
\* Why every request is well formed.  A history is a chain of messages, each of
\* which finds some calls open and leaves some open: a tool message answers open
\* calls, any other message comes when nothing is open and makes new ones.  The
\* turn's history is such a chain (RequestInv); Split, Compact and Sanitize each
\* make one of one (ReachSplit, ReachCompact, ReachAdd); and a chain that ends
\* with nothing open, its plain neighbours merged, is well formed.

\* A set of naturals that is not empty has a least element.
LEMMA FirstNat ==
    ASSUME NEW S, S \subseteq Nat, S # {}
    PROVE  \E m \in S : \A k \in S : m <= k
<1> DEFINE R == OpToRel(<, Nat)
<1>1. IsWellFoundedOn(R, Nat)
  BY NatLessThanWellFounded
<1>2. \A x, y \in Nat : y < x => <<y, x>> \in R
  BY DEF OpToRel
<1> HIDE DEF R
<1>3. PICK m \in S : \A k \in S : <<k, m>> \notin R
  BY <1>1, WFMin
<1>4. \A k \in S : ~(k < m)
  BY <1>2, <1>3
<1> QED
  BY <1>3, <1>4

\* One message after another: o is open before m and p after it, v and w are
\* the calls known then.  A tool message answers open calls; any other message
\* finds nothing open and makes calls not yet known.
Link(m, o, v, p, w) ==
    /\ m \in Entry /\ IsFiniteSet(m.calls) /\ v \subseteq w
    /\ IF m.role = "tool"
       THEN m.calls # {} /\ m.calls \subseteq o /\ p = o \ m.calls
       ELSE /\ o = {} /\ p = m.calls /\ m.calls \subseteq w /\ m.calls \cap v = {}
            /\ m.role = "user" => m.calls = {}

Chain(h, f, u) ==
    /\ h \in Seq(Entry) /\ f[0] = {}
    /\ \A n \in 1..Len(h) : Link(h[n], f[n-1], u[n-1], f[n], u[n])

\* The history ends with the calls of o open and none known but those of v.
Reaches(h, o, v) == \E f, u : Chain(h, f, u) /\ f[Len(h)] = o /\ u[Len(h)] = v

\* The empty history leaves nothing open.
LEMMA ReachNone == ASSUME NEW v PROVE Reaches(<< >>, {}, v)
<1> DEFINE f == [n \in {0} |-> {}]
           u == [n \in {0} |-> v]
<1>1. Chain(<< >>, f, u) /\ f[0] = {} /\ u[0] = v /\ Len(<< >>) = 0
  BY NoHistory DEF Chain
<1> QED
  BY <1>1 DEF Reaches

\* The chain goes on with the next message.
LEMMA ReachNext ==
    ASSUME NEW h, NEW o, NEW v, NEW m, NEW p, NEW w,
           Reaches(h, o, v), Link(m, o, v, p, w)
    PROVE  Reaches(Append(h, m), p, w)
<1>1. PICK f, u : Chain(h, f, u) /\ f[Len(h)] = o /\ u[Len(h)] = v
  BY DEF Reaches
<1>2. h \in Seq(Entry) /\ m \in Entry /\ Len(h) \in Nat
  BY <1>1 DEF Chain, Link
<1> DEFINE N == Len(h) + 1
           g == Append(h, m)
           fg == [n \in 0..N |-> IF n = N THEN p ELSE f[n]]
           ug == [n \in 0..N |-> IF n = N THEN w ELSE u[n]]
<1>3. g \in Seq(Entry) /\ Len(g) = N /\ g[N] = m /\ \A n \in 1..Len(h) : g[n] = h[n]
  BY <1>2
<1>4. fg[0] = {} /\ fg[N] = p /\ ug[N] = w
      /\ \A n \in 0..Len(h) : fg[n] = f[n] /\ ug[n] = u[n]
  BY <1>1, <1>2 DEF Chain
<1> HIDE DEF g, fg, ug
<1>5. ASSUME NEW n \in 1..N PROVE Link(g[n], fg[n-1], ug[n-1], fg[n], ug[n])
  <2>1. CASE n = N
    <3>1. n - 1 = Len(h) /\ Len(h) \in 0..Len(h)
      BY <1>2, <2>1
    <3>2. fg[n-1] = o /\ ug[n-1] = v
      BY <1>1, <1>4, <3>1
    <3> QED
      BY <1>3, <1>4, <2>1, <3>2
  <2>2. CASE n # N
    <3>1. n \in 1..Len(h) /\ n - 1 \in 0..Len(h) /\ n \in 0..Len(h)
      BY <1>2, <2>2
    <3>2. Link(h[n], f[n-1], u[n-1], f[n], u[n])
      BY <1>1, <3>1 DEF Chain
    <3> QED
      BY <1>3, <1>4, <3>1, <3>2
  <2> QED
    BY <2>1, <2>2
<1>6. Chain(g, fg, ug)
  BY <1>3, <1>4, <1>5 DEF Chain
<1> QED
  BY <1>3, <1>4, <1>6 DEF Reaches, g

\* More calls may be known than were made.
LEMMA ReachMore ==
    ASSUME NEW h, NEW o, NEW v, NEW w, Reaches(h, o, v), v \subseteq w
    PROVE  Reaches(h, o, w)
<1>1. PICK f, u : Chain(h, f, u) /\ f[Len(h)] = o /\ u[Len(h)] = v
  BY DEF Reaches
<1>2. h \in Seq(Entry) /\ Len(h) \in Nat
  BY <1>1 DEF Chain
<1> DEFINE ug == [n \in 0..Len(h) |-> IF n = Len(h) THEN w ELSE u[n]]
<1>3. ug[Len(h)] = w /\ \A n \in 0..Len(h) : n # Len(h) => ug[n] = u[n]
  BY <1>2
<1> HIDE DEF ug
<1>4. ASSUME NEW n \in 1..Len(h) PROVE Link(h[n], f[n-1], ug[n-1], f[n], ug[n])
  <2>1. Link(h[n], f[n-1], u[n-1], f[n], u[n])
    BY <1>1 DEF Chain
  <2>2. n - 1 \in 0..Len(h) /\ n - 1 # Len(h) /\ n \in 0..Len(h)
    BY <1>2
  <2>3. ug[n-1] = u[n-1] /\ u[n] \subseteq ug[n]
    BY <1>1, <1>3, <2>2
  <2> QED
    BY <2>1, <2>3 DEF Link
<1>5. Chain(h, f, ug)
  BY <1>1, <1>4 DEF Chain
<1> QED
  BY <1>1, <1>3, <1>5 DEF Reaches

\* What stays of the calls open at m when the history has come to n, what opened
\* since, and what is known.
Since(h, f, u, m, n) ==
    /\ u[m] \subseteq u[n]
    /\ f[n] \cap u[m] \subseteq f[m]
    /\ \A c \in f[m] : c \in f[n] \/ \E j \in (m+1)..n : h[j].role = "tool" /\ c \in h[j].calls
    /\ \A c \in f[n] : c \in f[m] \/ \E j \in (m+1)..n : h[j].role # "tool" /\ c \in h[j].calls

LEMMA ChainSince ==
    ASSUME NEW h, NEW f, NEW u, Chain(h, f, u), NEW m \in Nat, NEW n \in Nat,
           m <= n, n <= Len(h)
    PROVE  Since(h, f, u, m, n)
<1>1. h \in Seq(Entry) /\ Len(h) \in Nat
  BY DEF Chain
<1> DEFINE Bad == {k \in m..n : ~Since(h, f, u, m, k)}
<1>2. SUFFICES ASSUME Bad # {} PROVE FALSE
  <2>1. n \in m..n
    OBVIOUS
  <2> QED
    BY <1>2, <2>1
<1>3. Bad \subseteq Nat
  OBVIOUS
<1> HIDE DEF Bad
<1>4. PICK k \in Bad : \A i \in Bad : k <= i
  BY <1>2, <1>3, FirstNat
<1>5. k \in m..n /\ ~Since(h, f, u, m, k)
  BY <1>4 DEF Bad
<1>6. Since(h, f, u, m, m)
  BY DEF Since
<1>7. k - 1 \in m..n /\ k - 1 \in Nat /\ k \in 1..Len(h)
  BY <1>1, <1>5, <1>6
<1>8. Since(h, f, u, m, k - 1)
  BY <1>4, <1>7 DEF Bad
<1>9. Link(h[k], f[k-1], u[k-1], f[k], u[k])
  BY <1>7 DEF Chain
<1>10. u[m] \subseteq u[k] /\ f[k] \cap u[m] \subseteq f[m]
  BY <1>8, <1>9 DEF Since, Link
<1>11. k \in (m+1)..k /\ \A j \in (m+1)..(k-1) : j \in (m+1)..k
  BY <1>5, <1>7
<1>12. \A c \in f[m] : c \in f[k] \/ \E j \in (m+1)..k : h[j].role = "tool" /\ c \in h[j].calls
  <2> SUFFICES ASSUME NEW c \in f[m], c \notin f[k]
               PROVE  \E j \in (m+1)..k : h[j].role = "tool" /\ c \in h[j].calls
    OBVIOUS
  <2>1. CASE c \in f[k-1]
    BY <1>9, <1>11, <2>1 DEF Link
  <2>2. CASE c \notin f[k-1]
    BY <1>8, <1>11, <2>2 DEF Since
  <2> QED
    BY <2>1, <2>2
<1>13. \A c \in f[k] : c \in f[m] \/ \E j \in (m+1)..k : h[j].role # "tool" /\ c \in h[j].calls
  <2> SUFFICES ASSUME NEW c \in f[k], c \notin f[m]
               PROVE  \E j \in (m+1)..k : h[j].role # "tool" /\ c \in h[j].calls
    OBVIOUS
  <2>1. CASE h[k].role # "tool"
    BY <1>9, <1>11, <2>1 DEF Link
  <2>2. CASE h[k].role = "tool"
    <3>1. c \in f[k-1]
      BY <1>9, <2>2 DEF Link
    <3> QED
      BY <1>8, <1>11, <3>1 DEF Since
  <2> QED
    BY <2>1, <2>2
<1> QED
  BY <1>5, <1>10, <1>12, <1>13 DEF Since

\* What is open is known.
LEMMA OpenKnown ==
    ASSUME NEW h, NEW f, NEW u, Chain(h, f, u), NEW n \in 0..Len(h)
    PROVE  f[n] \subseteq u[n]
<1>1. h \in Seq(Entry) /\ Len(h) \in Nat /\ f[0] = {}
  BY DEF Chain
<1> DEFINE Bad == {k \in 0..n : ~(f[k] \subseteq u[k])}
<1>2. SUFFICES ASSUME Bad # {} PROVE FALSE
  <2>1. n \in 0..n
    BY <1>1
  <2> QED
    BY <1>2, <2>1
<1>3. Bad \subseteq Nat
  OBVIOUS
<1> HIDE DEF Bad
<1>4. PICK k \in Bad : \A i \in Bad : k <= i
  BY <1>2, <1>3, FirstNat
<1>5. k \in 0..n /\ ~(f[k] \subseteq u[k])
  BY <1>4 DEF Bad
<1>6. k - 1 \in 0..n /\ k \in 1..Len(h)
  BY <1>1, <1>5
<1>7. f[k-1] \subseteq u[k-1]
  BY <1>4, <1>6 DEF Bad
<1>8. Link(h[k], f[k-1], u[k-1], f[k], u[k])
  BY <1>6 DEF Chain
<1> QED
  BY <1>5, <1>7, <1>8 DEF Link

\* An answered call is not open again.
LEMMA AnsweredCloses ==
    ASSUME NEW h, NEW f, NEW u, Chain(h, f, u), NEW n \in 0..Len(h), NEW j \in 1..n,
           h[j].role = "tool"
    PROVE  h[j].calls \cap f[n] = {}
<1>1. h \in Seq(Entry) /\ Len(h) \in Nat /\ j \in Nat /\ n \in Nat /\ j <= n /\ n <= Len(h)
      /\ j - 1 \in 0..Len(h) /\ j \in 1..Len(h)
  BY DEF Chain
<1>2. Link(h[j], f[j-1], u[j-1], f[j], u[j])
  BY <1>1 DEF Chain
<1>3. f[j-1] \subseteq u[j-1]
  BY <1>1, OpenKnown
<1>4. h[j].calls \subseteq u[j] /\ h[j].calls \cap f[j] = {}
  BY <1>2, <1>3 DEF Link
<1>5. f[n] \cap u[j] \subseteq f[j]
  BY <1>1, ChainSince DEF Since
<1> QED
  BY <1>4, <1>5

\* A request whose every call is answered, and whose plain neighbours are merged,
\* is well formed.
LEMMA ReachedIsFormed ==
    ASSUME NEW h, NEW v, Reaches(h, {}, v),
           \A i \in 1..(Len(h)-1) :
               h[i].role = h[i+1].role => h[i].role = "tool" \/ h[i].calls # {}
    PROVE  WellFormed(h)
<1>1. PICK f, u : Chain(h, f, u) /\ f[Len(h)] = {}
  BY DEF Reaches
<1>2. h \in Seq(Entry) /\ Len(h) \in Nat /\ f[0] = {}
      /\ \A n \in 1..Len(h) : Link(h[n], f[n-1], u[n-1], f[n], u[n])
  BY <1>1 DEF Chain
\* In a run of tool messages after i, all answer i.
<1>3. ASSUME NEW i \in 1..Len(h), h[i].role # "tool", NEW n \in i..Len(h),
             \A k \in (i+1)..n : h[k].role = "tool"
      PROVE  /\ f[n] \subseteq h[i].calls
             /\ \A c \in h[i].calls : c \in f[n] \/ \E j \in (i+1)..n : c \in h[j].calls
  <2>1. i \in Nat /\ n \in Nat /\ i <= n /\ n <= Len(h)
    BY <1>2, <1>3
  <2>2. Since(h, f, u, i, n)
    BY <1>1, <2>1, ChainSince
  <2>3. f[i] = h[i].calls
    BY <1>2, <1>3 DEF Link
  <2> QED
    BY <1>3, <2>2, <2>3 DEF Since
<1>4. ASSUME NEW i \in 1..Len(h), h[i].role # "tool", NEW j \in Answers(h, i)
      PROVE  h[j].calls \subseteq h[i].calls
  <2>1. j \in (i+1)..Len(h) /\ \A k \in (i+1)..j : h[k].role = "tool"
    BY <1>4 DEF Answers
  <2>2. j - 1 \in i..Len(h) /\ j \in 1..Len(h) /\ \A k \in (i+1)..(j-1) : h[k].role = "tool"
        /\ j \in (i+1)..j
    BY <1>2, <1>4, <2>1
  <2>3. f[j-1] \subseteq h[i].calls
    BY <1>3, <1>4, <2>2
  <2>4. Link(h[j], f[j-1], u[j-1], f[j], u[j]) /\ h[j].role = "tool"
    BY <1>2, <2>1, <2>2
  <2> QED
    BY <2>3, <2>4 DEF Link
<1>5. ASSUME NEW i \in 1..Len(h), h[i].role # "tool", NEW c \in h[i].calls
      PROVE  \E j \in Answers(h, i) : c \in h[j].calls
  <2> DEFINE Ends == {n \in i..Len(h) : n = Len(h) \/ h[n+1].role # "tool"}
  <2>1. Len(h) \in Ends /\ Ends \subseteq Nat
    BY <1>2, <1>5
  <2> HIDE DEF Ends
  <2>2. PICK n \in Ends : \A k \in Ends : n <= k
    BY <2>1, FirstNat
  <2>3. n \in i..Len(h) /\ (n = Len(h) \/ h[n+1].role # "tool")
    BY <2>2 DEF Ends
  <2>4. \A k \in (i+1)..n : h[k].role = "tool"
    <3> SUFFICES ASSUME NEW k \in (i+1)..n, h[k].role # "tool" PROVE FALSE
      OBVIOUS
    <3>1. k - 1 \in i..Len(h) /\ (k - 1) + 1 = k /\ k - 1 < n
      BY <1>2, <1>5, <2>3
    <3>2. k - 1 \in Ends
      BY <3>1 DEF Ends
    <3> QED
      BY <2>2, <2>3, <3>1, <3>2
  <2>5. f[n] = {}
    <3>1. CASE n = Len(h)
      BY <1>1, <3>1
    <3>2. CASE n # Len(h)
      <4>1. n + 1 \in 1..Len(h) /\ (n + 1) - 1 = n /\ h[n+1].role # "tool"
        BY <1>2, <1>5, <2>3, <3>2
      <4> QED
        BY <1>2, <4>1 DEF Link
    <3> QED
      BY <3>1, <3>2
  <2>6. PICK j \in (i+1)..n : c \in h[j].calls
    BY <1>3, <1>5, <2>3, <2>4, <2>5
  <2>7. j \in Answers(h, i)
    BY <2>3, <2>4, <2>6 DEF Answers
  <2> QED
    BY <2>6, <2>7
<1>6. ASSUME NEW i \in 1..Len(h), h[i].role = "assistant"
      PROVE  UNION {h[j].calls : j \in Answers(h, i)} = h[i].calls
  BY <1>4, <1>5, <1>6
<1>7. ASSUME NEW j \in 1..Len(h), h[j].role = "tool"
      PROVE  \E i \in 1..(j-1) : h[i].role = "assistant" /\ j \in Answers(h, i)
  <2> DEFINE Gap == {n \in Nat : n <= j-1 /\ (n = j-1 \/ h[j-1-n].role # "tool")}
  <2>1. j - 1 \in Gap /\ Gap \subseteq Nat
    BY <1>7
  <2> HIDE DEF Gap
  <2>2. PICK n \in Gap : \A k \in Gap : n <= k
    BY <2>1, FirstNat
  <2> DEFINE i == j - 1 - n
  <2>3. n \in Nat /\ n <= j - 1 /\ (n = j - 1 \/ h[j-1-n].role # "tool")
    BY <2>2 DEF Gap
  <2>4. i \in 0..(j-1) /\ (i = 0 \/ h[i].role # "tool") /\ i \in 0..Len(h)
    BY <1>2, <1>7, <2>3
  <2>5. \A k \in (i+1)..j : h[k].role = "tool"
    <3> SUFFICES ASSUME NEW k \in (i+1)..j, h[k].role # "tool" PROVE FALSE
      OBVIOUS
    <3>1. k # j /\ k \in Int /\ j \in Int /\ k <= j /\ k >= i + 1 /\ i \in Int
      BY <1>7, <2>4
    <3>2. j - 1 - k \in Nat /\ j - 1 - k <= j - 1 /\ j - 1 - (j - 1 - k) = k
      BY <2>4, <3>1
    <3>3. j - 1 - k \in Gap
      BY <3>2 DEF Gap
    <3>4. j - 1 - k < n
      BY <2>3, <3>1
    <3> QED
      BY <2>2, <2>3, <3>2, <3>3, <3>4
  <2> HIDE DEF i
  <2>6. Link(h[i+1], f[i], u[i], f[i+1], u[i+1]) /\ h[i+1].role = "tool"
    <3>1. i + 1 \in 1..Len(h) /\ (i + 1) - 1 = i /\ i + 1 \in (i+1)..j
      BY <1>2, <1>7, <2>4
    <3> QED
      BY <1>2, <2>5, <3>1
  <2>7. f[i] # {}
    BY <2>6 DEF Link
  <2>8. i \in 1..(j-1) /\ i \in 1..Len(h) /\ h[i].role # "tool"
    BY <1>2, <1>7, <2>4, <2>7
  <2>9. h[i].role = "assistant"
    <3>1. Link(h[i], f[i-1], u[i-1], f[i], u[i])
      BY <1>2, <2>8
    <3> QED
      BY <2>7, <2>8, <3>1 DEF Link, Entry
  <2>10. j \in Answers(h, i)
    BY <1>7, <2>5, <2>8 DEF Answers
  <2> QED
    BY <2>8, <2>9, <2>10
<1> QED
  BY <1>6, <1>7 DEF WellFormed

-----------------------------------------------------------------------------
\* Split: a tool message per call.

\* The messages Each writes: one per call, every call once.
LEMMA EachCalls ==
    ASSUME NEW S \in SUBSET Call, IsFiniteSet(S)
    PROVE  \E cs : /\ cs \in [1..Cardinality(S) -> S] /\ Cardinality(S) \in Nat
                   /\ \A k, l \in 1..Cardinality(S) : cs[k] = cs[l] => k = l
                   /\ \A c \in S : \E k \in 1..Cardinality(S) : cs[k] = c
                   /\ Each(S) \in Seq(Entry) /\ Len(Each(S)) = Cardinality(S)
                   /\ \A k \in 1..Cardinality(S) :
                          Each(S)[k] = [role |-> "tool", calls |-> {cs[k]}]
<1> DEFINE N == Cardinality(S)
           cs == SetToSeq(S)
<1>1. N \in Nat /\ ExistsBijection(1..N, S)
  BY FS_CardinalityType
<1>2. PICK b \in [1..N -> S] : IsInjective(b)
  BY <1>1, Zenon DEF ExistsBijection, Bijection, Injection
<1>3. cs \in [1..N -> S] /\ IsInjective(cs)
  BY <1>2, Zenon DEF SetToSeq
<1>4. cs \in Surjection(1..N, S)
  <2>1. cs \in Injection(1..N, S)
    BY <1>3, Zenon DEF Injection
  <2>2. Cardinality(1..N) = N
    BY <1>1, FS_Interval
  <2> QED
    BY <2>1, <2>2, FS_Injection
<1>5. Len(cs) = N /\ cs \in Seq(S)
  BY <1>1, <1>3
<1>6. Each(S) = [k \in 1..N |-> [role |-> "tool", calls |-> {cs[k]}]]
  BY <1>5 DEF Each
<1> HIDE DEF cs, N
<1>7. \A k, l \in 1..N : cs[k] = cs[l] => k = l
  BY <1>3 DEF IsInjective
<1>8. \A c \in S : \E k \in 1..N : cs[k] = c
  BY <1>4 DEF Surjection
<1>9. \A k \in 1..N : [role |-> "tool", calls |-> {cs[k]}] \in Entry
  BY <1>3 DEF Entry
<1>10. Each(S) \in Seq(Entry) /\ Len(Each(S)) = N
       /\ \A k \in 1..N : Each(S)[k] = [role |-> "tool", calls |-> {cs[k]}]
  <2> DEFINE e(k) == [role |-> "tool", calls |-> {cs[k]}]
  <2>1. Each(S) = [k \in 1..N |-> e(k)] /\ \A k \in 1..N : e(k) \in Entry
    BY <1>6, <1>9
  <2> HIDE DEF e
  <2>2. Each(S) \in Seq(Entry) /\ Len(Each(S)) = N /\ \A k \in 1..N : Each(S)[k] = e(k)
    BY <1>1, <2>1 DEF N
  <2> QED
    BY <2>2 DEF e
<1> QED
  BY <1>1, <1>3, <1>7, <1>8, <1>10 DEF N

\* They answer the calls they name.
LEMMA ReachEach ==
    ASSUME NEW h, NEW o, NEW v, Reaches(h, o, v), NEW S \in SUBSET o,
           S \subseteq Call, IsFiniteSet(S)
    PROVE  Reaches(h \o Each(S), o \ S, v)
<1>1. PICK f, u : Chain(h, f, u) /\ f[Len(h)] = o /\ u[Len(h)] = v
  BY DEF Reaches
<1>2. h \in Seq(Entry) /\ Len(h) \in Nat
  BY <1>1 DEF Chain
<1> DEFINE K == Cardinality(S)
           L == Len(h)
           e == Each(S)
           g == h \o e
<1>3. PICK cs : /\ cs \in [1..K -> S] /\ K \in Nat
                /\ \A k, l \in 1..K : cs[k] = cs[l] => k = l
                /\ \A c \in S : \E k \in 1..K : cs[k] = c
                /\ e \in Seq(Entry) /\ Len(e) = K
                /\ \A k \in 1..K : e[k] = [role |-> "tool", calls |-> {cs[k]}]
  BY EachCalls
<1> DEFINE fg == [n \in 0..(L + K) |->
                     IF n <= L THEN f[n] ELSE o \ {cs[k] : k \in 1..(n - L)}]
           ug == [n \in 0..(L + K) |-> IF n <= L THEN u[n] ELSE v]
<1> HIDE DEF e, K
<1>4. /\ g \in Seq(Entry) /\ Len(g) = L + K /\ L \in Nat
      /\ \A n \in 1..L : g[n] = h[n]
      /\ \A n \in (L+1)..(L+K) : g[n] = e[n - L]
  <2> SUFFICES ASSUME NEW q \in Seq(Entry), q = e PROVE
           /\ h \o q \in Seq(Entry) /\ Len(h \o q) = L + K /\ L \in Nat
           /\ \A n \in 1..L : (h \o q)[n] = h[n]
           /\ \A n \in (L+1)..(L+K) : (h \o q)[n] = q[n - L]
    BY <1>3
  <2>1. Len(q) = K
    BY <1>3
  <2> QED
    BY <1>2, <2>1
<1>5. /\ \A n \in 0..L : fg[n] = f[n] /\ ug[n] = u[n]
      /\ \A n \in L..(L+K) : fg[n] = o \ {cs[k] : k \in 1..(n - L)} /\ ug[n] = v
  <2>1. ASSUME NEW n \in 0..L PROVE fg[n] = f[n] /\ ug[n] = u[n]
    BY <1>3, <1>4
  <2>2. ASSUME NEW n \in L..(L+K)
        PROVE  fg[n] = o \ {cs[k] : k \in 1..(n - L)} /\ ug[n] = v
    <3>1. CASE n = L
      <4>1. {cs[k] : k \in 1..(n - L)} = {}
        BY <1>4, <3>1
      <4>2. L \in 0..(L + K) /\ L <= L
        BY <1>3, <1>4
      <4>3. fg[L] = f[L] /\ ug[L] = u[L]
        BY <4>2
      <4> HIDE DEF fg, ug
      <4> QED
        BY <1>1, <3>1, <4>1, <4>3
    <3>2. CASE n # L
      BY <1>3, <1>4, <3>2
    <3> QED
      BY <3>1, <3>2
  <2> QED
    BY <2>1, <2>2
<1> HIDE DEF fg, ug, g
<1>6. ASSUME NEW n \in 1..Len(g) PROVE Link(g[n], fg[n-1], ug[n-1], fg[n], ug[n])
  <2>1. CASE n <= L
    <3>1. n \in 1..L /\ n - 1 \in 0..L /\ n \in 0..L
      BY <1>4, <2>1
    <3>2. Link(h[n], f[n-1], u[n-1], f[n], u[n])
      BY <1>1, <3>1 DEF Chain
    <3> QED
      BY <1>4, <1>5, <3>1, <3>2
  <2>2. CASE n > L
    <3> DEFINE k == n - L
    <3>1. k \in 1..K /\ n \in (L+1)..(L+K) /\ n \in L..(L+K) /\ n - 1 \in L..(L+K)
          /\ (n - 1) - L = k - 1
      BY <1>3, <1>4, <2>2
    <3>2. fg[n-1] = o \ {cs[i] : i \in 1..(k-1)} /\ fg[n] = o \ {cs[i] : i \in 1..k}
          /\ ug[n-1] = v /\ ug[n] = v
      BY <1>5, <3>1
    <3>3. g[n] = [role |-> "tool", calls |-> {cs[k]}]
      BY <1>3, <1>4, <3>1
    <3> HIDE DEF k
    <3>4. cs[k] \in S /\ cs[k] \notin {cs[i] : i \in 1..(k-1)}
      <4>1. \A i \in 1..(k-1) : i \in 1..K /\ i # k
        BY <1>3, <3>1
      <4> QED
        BY <1>3, <3>1, <4>1
    <3>5. {cs[i] : i \in 1..k} = {cs[i] : i \in 1..(k-1)} \cup {cs[k]}
      <4>1. \A i \in 1..k : i = k \/ i \in 1..(k-1)
        BY <3>1
      <4>2. \A i \in 1..(k-1) : i \in 1..k
        BY <3>1
      <4>3. k \in 1..k
        BY <3>1
      <4> QED
        BY <4>1, <4>2, <4>3
    <3>6. g[n] \in Entry
      BY <1>4, <3>1, <1>3
    <3>7. IsFiniteSet({cs[k]})
      BY FS_Singleton
    <3>8. cs[k] \in fg[n-1] /\ fg[n] = fg[n-1] \ {cs[k]}
      BY <3>2, <3>4, <3>5
    <3> QED
      BY <3>2, <3>3, <3>6, <3>7, <3>8 DEF Link
  <2> QED
    BY <1>4, <2>1, <2>2
<1>7. Chain(g, fg, ug)
  <2>1. 0 \in 0..L
    BY <1>4
  <2>2. fg[0] = {}
    BY <1>1, <1>5, <2>1 DEF Chain
  <2> QED
    BY <1>4, <1>6, <2>2 DEF Chain
<1>8. fg[Len(g)] = o \ S /\ ug[Len(g)] = v
  <2>1. L + K \in L..(L+K) /\ (L + K) - L = K
    BY <1>3, <1>4
  <2>2. {cs[k] : k \in 1..K} = S
    BY <1>3
  <2> QED
    BY <1>4, <1>5, <2>1, <2>2
<1> QED
  BY <1>7, <1>8 DEF Reaches, g, e

\* The partial concatenations of FlattenSeq exist.
Joined(ss, f, n) ==
    f = [i \in 1..n |-> IF i = 1 THEN ss[i] ELSE f[i-1] \o ss[i]]

LEMMA JoinedExists ==
    ASSUME NEW ss, NEW n \in Nat
    PROVE  \E f : Joined(ss, f, n)
<1> DEFINE Bad == {k \in 0..n : ~\E f : Joined(ss, f, k)}
<1>1. SUFFICES ASSUME Bad # {} PROVE FALSE
  OBVIOUS
<1>2. Bad \subseteq Nat
  OBVIOUS
<1> HIDE DEF Bad
<1>3. PICK m \in Bad : \A k \in Bad : m <= k
  BY <1>1, <1>2, FirstNat
<1>4. m \in 0..n /\ ~\E f : Joined(ss, f, m)
  BY <1>3 DEF Bad
<1>5. m # 0
  <2>1. << >> = [i \in 1..0 |-> IF i = 1 THEN ss[i] ELSE << >>[i-1] \o ss[i]]
    OBVIOUS
  <2>2. Joined(ss, << >>, 0)
    BY <2>1 DEF Joined
  <2> QED
    BY <1>4, <2>2
<1>6. m - 1 \in 0..n /\ m \in 1..n /\ ~(m <= m - 1)
  BY <1>4, <1>5
<1>7. m - 1 \notin Bad
  BY <1>3, <1>6
<1>8. PICK f : Joined(ss, f, m - 1)
  BY <1>6, <1>7 DEF Bad
<1> DEFINE g == [i \in 1..m |-> IF i = 1 THEN ss[i] ELSE f[i-1] \o ss[i]]
<1>9. ASSUME NEW i \in 1..m, i # 1 PROVE g[i-1] = f[i-1]
  <2>1. i - 1 \in 1..(m-1) /\ i - 1 \in 1..m
    BY <1>6, <1>9
  <2>2. f[i-1] = IF i-1 = 1 THEN ss[i-1] ELSE f[(i-1)-1] \o ss[i-1]
    BY <1>8, <2>1, Zenon DEF Joined
  <2>3. g[i-1] = IF i-1 = 1 THEN ss[i-1] ELSE f[(i-1)-1] \o ss[i-1]
    BY <2>1, Zenon
  <2> QED
    BY <2>2, <2>3, Zenon
<1>10. \A i \in 1..m : (IF i = 1 THEN ss[i] ELSE f[i-1] \o ss[i])
                        = (IF i = 1 THEN ss[i] ELSE g[i-1] \o ss[i])
  <2> HIDE DEF g
  <2> QED
    BY <1>9, Zenon
<1>11. g = [i \in 1..m |-> IF i = 1 THEN ss[i] ELSE g[i-1] \o ss[i]]
  BY <1>10
<1>12. Joined(ss, g, m)
  BY <1>11 DEF Joined
<1> QED
  BY <1>4, <1>12

\* FlattenSeq is the last of its partial concatenations.
LEMMA FlattenJoined ==
    ASSUME NEW ss, NEW N \in Nat, N # 0, Len(ss) = N
    PROVE  \E f : Joined(ss, f, N) /\ FlattenSeq(ss) = f[N]
<1> DEFINE f == CHOOSE f : f = [i \in 1..Len(ss) |-> IF i = 1 THEN ss[i] ELSE f[i-1] \o ss[i]]
<1>1. \E g : g = [i \in 1..Len(ss) |-> IF i = 1 THEN ss[i] ELSE g[i-1] \o ss[i]]
  BY JoinedExists DEF Joined
<1>2. f = [i \in 1..Len(ss) |-> IF i = 1 THEN ss[i] ELSE f[i-1] \o ss[i]]
  BY <1>1, Zenon
<1>3. Len(ss) # 0
  OBVIOUS
<1>4. FlattenSeq(ss) = f[Len(ss)]
  BY <1>3, Zenon DEF FlattenSeq
<1> HIDE DEF f
<1>5. Joined(ss, f, N)
  BY <1>2 DEF Joined
<1> QED
  BY <1>4, <1>5

\* Pieces that each carry the history from one state to the next carry it,
\* flattened, from the first to the last.
LEMMA ReachFlatten ==
    ASSUME NEW N \in Nat, NEW ss \in [1..N -> Seq(Entry)], NEW F, NEW U, F[0] = {},
           \A n \in 1..N : \A s :
               Reaches(s, F[n-1], U[n-1]) => Reaches(s \o ss[n], F[n], U[n])
    PROVE  Reaches(FlattenSeq(ss), F[N], U[N])
<1>1. ss \in Seq(Seq(Entry)) /\ Len(ss) = N
  OBVIOUS
<1>2. Reaches(<< >>, F[0], U[0])
  BY ReachNone
<1>3. CASE N = 0
  <2>1. FlattenSeq(ss) = ss /\ ss = << >>
    BY <1>1, <1>3 DEF FlattenSeq
  <2> QED
    BY <1>2, <1>3, <2>1
<1>4. CASE N # 0
  <2>1. PICK f : Joined(ss, f, N) /\ FlattenSeq(ss) = f[N]
    BY <1>1, <1>4, FlattenJoined
  <2>2. \A i \in 1..N : f[i] = IF i = 1 THEN ss[i] ELSE f[i-1] \o ss[i]
    BY <2>1 DEF Joined
  <2> DEFINE Bad == {k \in 1..N : ~Reaches(f[k], F[k], U[k])}
  <2>3. SUFFICES ASSUME Bad # {} PROVE FALSE
    <3>1. N \in 1..N
      BY <1>4
    <3> QED
      BY <2>1, <2>3, <3>1
  <2>4. Bad \subseteq Nat
    OBVIOUS
  <2> HIDE DEF Bad
  <2>5. PICK k \in Bad : \A i \in Bad : k <= i
    BY <2>3, <2>4, FirstNat
  <2>6. k \in 1..N /\ ~Reaches(f[k], F[k], U[k])
    BY <2>5 DEF Bad
  <2>7. CASE k = 1
    <3>1. f[1] = ss[1] /\ ss[1] \in Seq(Entry) /\ 1 - 1 = 0 /\ 1 \in 1..N
      BY <2>2, <2>6, <2>7
    <3>2. << >> \o ss[1] = ss[1]
      BY <3>1
    <3>3. Reaches(<< >> \o ss[1], F[1], U[1])
      BY <1>2, <3>1
    <3> QED
      BY <2>6, <2>7, <3>1, <3>2, <3>3
  <2>8. CASE k # 1
    <3>1. k - 1 \in 1..N /\ ~(k <= k - 1)
      BY <2>6, <2>8
    <3>2. Reaches(f[k-1], F[k-1], U[k-1])
      BY <2>5, <3>1 DEF Bad
    <3>3. f[k] = f[k-1] \o ss[k]
      BY <2>2, <2>6, <2>8
    <3> QED
      BY <2>6, <3>2, <3>3
  <2> QED
    BY <2>7, <2>8
<1> QED
  BY <1>3, <1>4

\* A history with one message per call reaches what it reached.
LEMMA ReachSplit ==
    ASSUME NEW h, NEW o, NEW v, Reaches(h, o, v)
    PROVE  Reaches(Split(h), o, v)
<1>1. PICK f, u : Chain(h, f, u) /\ f[Len(h)] = o /\ u[Len(h)] = v
  BY DEF Reaches
<1>2. h \in Seq(Entry) /\ Len(h) \in Nat /\ f[0] = {}
      /\ \A n \in 1..Len(h) : Link(h[n], f[n-1], u[n-1], f[n], u[n])
  BY <1>1 DEF Chain
<1> DEFINE ss == [i \in 1..Len(h) |-> IF h[i].role = "tool" THEN Each(h[i].calls) ELSE <<h[i]>>]
<1>3. ASSUME NEW i \in 1..Len(h)
      PROVE  /\ ss[i] \in Seq(Entry)
             /\ \A s : Reaches(s, f[i-1], u[i-1]) => Reaches(s \o ss[i], f[i], u[i])
  <2>1. h[i] \in Entry /\ h[i].calls \in SUBSET Call /\ IsFiniteSet(h[i].calls)
        /\ Link(h[i], f[i-1], u[i-1], f[i], u[i])
    BY <1>2 DEF Link, Entry
  <2>2. CASE h[i].role = "tool"
    <3>1. ss[i] = Each(h[i].calls)
      BY <2>2
    <3>2. ss[i] \in Seq(Entry)
      BY <2>1, <3>1, EachCalls
    <3>3. ASSUME NEW s, Reaches(s, f[i-1], u[i-1]) PROVE Reaches(s \o ss[i], f[i], u[i])
      <4>1. h[i].calls \subseteq f[i-1] /\ f[i] = f[i-1] \ h[i].calls /\ u[i-1] \subseteq u[i]
        BY <2>1, <2>2 DEF Link
      <4>2. Reaches(s \o Each(h[i].calls), f[i-1] \ h[i].calls, u[i-1])
        BY <2>1, <3>3, <4>1, ReachEach
      <4> QED
        BY <3>1, <4>1, <4>2, ReachMore
    <3> QED
      BY <3>2, <3>3
  <2>3. CASE h[i].role # "tool"
    <3>1. ss[i] = <<h[i]>>
      BY <2>3
    <3> HIDE DEF ss
    <3> DEFINE m == h[i]
    <3>0. ss[i] = <<m>> /\ m \in Entry
      BY <2>1, <3>1
    <3> HIDE DEF m
    <3>2. ss[i] \in Seq(Entry)
      BY <3>0
    <3>3. ASSUME NEW s, Reaches(s, f[i-1], u[i-1]) PROVE Reaches(s \o ss[i], f[i], u[i])
      <4>1. Reaches(Append(s, m), f[i], u[i])
        BY <2>1, <3>3, ReachNext DEF m
      <4>2. s \in Seq(Entry)
        BY <3>3 DEF Reaches, Chain
      <4>3. s \o ss[i] = Append(s, m)
        BY <3>0, <4>2
      <4> QED
        BY <4>1, <4>3
    <3> QED
      BY <3>2, <3>3
  <2> QED
    BY <2>2, <2>3
<1>4. ss \in [1..Len(h) -> Seq(Entry)]
  BY <1>3
<1>5. Split(h) = FlattenSeq(ss)
  BY DEF Split
<1> HIDE DEF ss
<1>6. Reaches(FlattenSeq(ss), f[Len(h)], u[Len(h)])
  BY <1>2, <1>3, <1>4, ReachFlatten
<1> QED
  BY <1>1, <1>5, <1>6

-----------------------------------------------------------------------------
\* Compactions.

LEMMA AppendThenMore ==
    ASSUME NEW s \in Seq(Entry), NEW m \in Entry, NEW e \in Seq(Entry)
    PROVE  s \o (<<m>> \o e) = Append(s, m) \o e
OBVIOUS

Answered(h, c) == \E k \in 1..Len(h) : h[k].role = "tool" /\ c \in h[k].calls
Made(h, c)     == \E k \in 1..Len(h) : h[k].role # "tool" /\ c \in h[k].calls

\* Where every result has its call, Repair answers what a message left open.
LEMMA ReachRepair ==
    ASSUME NEW g \in Seq(Entry), NEW F, NEW U, F[0] = {},
           \A n \in 1..Len(g) :
               /\ Link(g[n], F[n-1], U[n-1],
                       IF g[n].role = "tool" THEN F[n] ELSE g[n].calls, U[n])
               /\ g[n].role = "tool" => \A c \in g[n].calls : Made(g, c)
               /\ g[n].role # "tool" => F[n] = {c \in g[n].calls : Answered(g, c)}
    PROVE  Reaches(Repair(g), F[Len(g)], U[Len(g)])
<1> DEFINE N == Len(g)
           Of(tool) == UNION {g[i].calls : i \in {k \in 1..Len(g) : (g[k].role = "tool") = tool}}
           mended(m) == IF m.role = "tool" THEN IF m.calls \subseteq Of(FALSE) THEN <<m>> ELSE << >>
                        ELSE <<m>> \o Each(m.calls \ Of(TRUE))
           ss == [i \in 1..Len(g) |-> mended(g[i])]
<1>1. Repair(g) = FlattenSeq(ss)
  BY Zenon DEF Repair
<1>2. N \in Nat
  OBVIOUS
<1>3. \A c : c \in Of(TRUE) <=> Answered(g, c)
  BY DEF Answered
<1>4. \A c : c \in Of(FALSE) <=> Made(g, c)
  <2>1. \A k \in 1..Len(g) : (g[k].role = "tool") = FALSE <=> g[k].role # "tool"
    OBVIOUS
  <2> QED
    BY <2>1 DEF Made
<1>5. \A i \in 1..N : ss[i] = mended(g[i])
  OBVIOUS
<1> HIDE DEF Of, ss
<1>6. ASSUME NEW i \in 1..N
      PROVE  /\ ss[i] \in Seq(Entry)
             /\ \A s : Reaches(s, F[i-1], U[i-1]) => Reaches(s \o ss[i], F[i], U[i])
  <2> DEFINE m == g[i]
  <2>1. /\ Link(m, F[i-1], U[i-1], IF m.role = "tool" THEN F[i] ELSE m.calls, U[i])
        /\ m.role = "tool" => \A c \in m.calls : Made(g, c)
        /\ m.role # "tool" => F[i] = {c \in m.calls : Answered(g, c)}
    OBVIOUS
  <2>2. m \in Entry
    BY <2>1 DEF Link
  <2>3. ss[i] = mended(m)
    BY <1>5
  <2> HIDE DEF m
  <2>4. CASE m.role = "tool"
    <3>1. ss[i] = <<m>>
      BY <1>4, <2>1, <2>3, <2>4
    <3>2. ASSUME NEW s, Reaches(s, F[i-1], U[i-1]) PROVE Reaches(s \o ss[i], F[i], U[i])
      <4>1. Reaches(Append(s, m), F[i], U[i])
        BY <2>1, <2>4, <3>2, ReachNext
      <4>2. s \in Seq(Entry)
        BY <3>2 DEF Reaches, Chain
      <4>3. s \o ss[i] = Append(s, m)
        BY <2>2, <3>1, <4>2
      <4> QED
        BY <4>1, <4>3
    <3>3. ss[i] \in Seq(Entry)
      BY <2>2, <3>1
    <3> QED
      BY <3>2, <3>3
  <2>5. CASE m.role # "tool"
    <3> DEFINE S == m.calls \ Of(TRUE)
               e == Each(S)
    <3>1. ss[i] = <<m>> \o e
      BY <2>3, <2>5
    <3>2. m.calls \subseteq Call /\ IsFiniteSet(m.calls)
      BY <2>1, <2>2 DEF Link, Entry
    <3>3. S \in SUBSET Call /\ S \subseteq m.calls /\ IsFiniteSet(S)
      BY <3>2, FS_Subset
    <3>4. m.calls \ S = F[i]
      BY <1>3, <2>1, <2>5
    <3> HIDE DEF S
    <3>5. e \in Seq(Entry)
      BY <3>3, EachCalls
    <3>6. ASSUME NEW s, Reaches(s, F[i-1], U[i-1]) PROVE Reaches(s \o ss[i], F[i], U[i])
      <4>1. Reaches(Append(s, m), m.calls, U[i])
        BY <2>1, <2>5, <3>6, ReachNext
      <4>2. Reaches(Append(s, m) \o e, F[i], U[i])
        BY <3>3, <3>4, <4>1, ReachEach
      <4>3. s \in Seq(Entry)
        BY <3>6 DEF Reaches, Chain
      <4> HIDE DEF e
      <4>4. s \o ss[i] = Append(s, m) \o e
        BY <2>2, <3>1, <3>5, <4>3, AppendThenMore
      <4> QED
        BY <4>2, <4>4
    <3> HIDE DEF e
    <3>7. ss[i] \in Seq(Entry)
      BY <2>2, <3>1, <3>5
    <3> QED
      BY <3>6, <3>7
  <2> QED
    BY <2>4, <2>5
<1>7. ss \in [1..N -> Seq(Entry)]
  BY <1>6 DEF ss
<1> HIDE DEF N
<1>8. Reaches(FlattenSeq(ss), F[N], U[N])
  BY <1>2, <1>6, <1>7, ReachFlatten DEF N
<1> QED
  BY <1>1, <1>8 DEF N

\* A tail the cut leaves never begins with a result.
LEMMA TailBegins ==
    ASSUME NEW h, NEW o, NEW v, Reaches(h, o, v),
           NEW first \in Nat, NEW last \in Nat \ {0}, Len(h) >= first + last + 1,
           NEW d \in Cuts(h, first, last), d > first
    PROVE  d \in 1..(Len(h)-1) /\ h[d+1].role # "tool"
<1>1. PICK f, u : Chain(h, f, u)
  BY DEF Reaches
<1>2. h \in Seq(Entry) /\ Len(h) \in Nat /\ f[0] = {}
      /\ \A n \in 1..Len(h) : Link(h[n], f[n-1], u[n-1], f[n], u[n])
  BY <1>1 DEF Chain
<1> DEFINE above(c) == IF c < first THEN first ELSE c
<1>3. PICK c \in 0..(Len(h) - last) : d = above(Align(h, above(c)))
  BY DEF Cuts
<1> DEFINE cut == above(c)
<1>4. cut \in 0..(Len(h)-1)
  BY <1>2, <1>3
<1>5. d = above(Align(h, cut))
  BY <1>3
<1> HIDE DEF cut
<1>6. CASE cut = 0
  BY <1>2, <1>5, <1>6 DEF Align
<1>7. CASE cut # 0
  <2> DEFINE before == {i \in 1..(cut+1) : i = 1 \/ h[i].role # "tool"}
             i == CHOOSE i \in before : \A k \in before : k <= i
  <2>1. cut \in 1..(Len(h)-1)
    BY <1>2, <1>4, <1>7
  <2>2. Align(h, cut) = IF h[i].role = "assistant" /\ h[i].calls # {} THEN i - 1 ELSE cut
    BY <2>1 DEF Align
  <2>3. \E j \in before : \A k \in before : k <= j
    <3> DEFINE Gap == {n \in Nat : cut + 1 - n \in before}
    <3>1. cut \in Gap /\ Gap \subseteq Nat
      BY <2>1
    <3> HIDE DEF Gap
    <3>2. PICK n \in Gap : \A k \in Gap : n <= k
      BY <3>1, FirstNat
    <3>3. n \in Nat /\ cut + 1 - n \in before
      BY <3>2 DEF Gap
    <3>4. ASSUME NEW k \in before PROVE k <= cut + 1 - n
      <4>1. k \in 1..(cut+1) /\ cut + 1 - k \in Nat /\ cut + 1 - (cut + 1 - k) = k
        BY <2>1
      <4>2. cut + 1 - k \in Gap
        BY <4>1 DEF Gap
      <4> QED
        BY <2>1, <3>2, <3>3, <4>1, <4>2
    <3> QED
      BY <3>3, <3>4
  <2>4. i \in before /\ \A k \in before : k <= i
    BY <2>3, Zenon
  <2> HIDE DEF i
  <2>5. i \in 1..(cut+1) /\ i \in 1..Len(h) /\ (i = 1 \/ h[i].role # "tool")
    BY <1>2, <2>1, <2>4
  <2>6. \A k \in (i+1)..(cut+1) : h[k].role = "tool"
    <3> SUFFICES ASSUME NEW k \in (i+1)..(cut+1), h[k].role # "tool" PROVE FALSE
      OBVIOUS
    <3>1. k \in 1..(cut+1) /\ ~(k <= i)
      BY <2>1, <2>5
    <3> QED
      BY <2>4, <3>1
  <2>7. h[i].role # "tool"
    <3>1. CASE i = 1
      <4>0. 1 - 1 = 0 /\ 1 \in 1..Len(h)
        BY <2>5, <3>1
      <4>1. Link(h[1], f[0], u[0], f[1], u[1])
        BY <1>2, <4>0
      <4> QED
        BY <1>2, <3>1, <4>1 DEF Link
    <3> QED
      BY <2>5, <3>1
  <2>8. Align(h, cut) \in 0..(Len(h)-1) /\ h[Align(h, cut) + 1].role # "tool"
    <3>1. CASE h[i].role = "assistant" /\ h[i].calls # {}
      <4>1. Align(h, cut) = i - 1 /\ (i - 1) + 1 = i
        BY <2>2, <2>5, <3>1
      <4> QED
        BY <1>2, <2>5, <2>7, <4>1
    <3>2. CASE ~(h[i].role = "assistant" /\ h[i].calls # {})
      <4>1. h[i].calls = {} /\ f[i] = {}
        BY <1>2, <2>5, <2>7, <3>2 DEF Link, Entry
      <4>2. i = cut + 1
        <5> SUFFICES ASSUME i # cut + 1 PROVE FALSE
          OBVIOUS
        <5>1. i + 1 \in (i+1)..(cut+1) /\ i + 1 \in 1..Len(h) /\ (i + 1) - 1 = i
          BY <1>2, <2>1, <2>5
        <5>2. Link(h[i+1], f[i], u[i], f[i+1], u[i+1]) /\ h[i+1].role = "tool"
          BY <1>2, <2>6, <5>1
        <5> QED
          BY <4>1, <5>2 DEF Link
      <4>3. Align(h, cut) = cut
        BY <2>2, <3>2
      <4> QED
        BY <2>1, <2>7, <4>2, <4>3
    <3> QED
      BY <3>1, <3>2
  <2>9. d = Align(h, cut)
    BY <1>5, <2>8
  <2> QED
    BY <2>8, <2>9, <1>2
<1> QED
  BY <1>6, <1>7

\* The shapes of a tail, of a concatenation and of a cut.
LEMMA TailSeq ==
    ASSUME NEW h \in Seq(Entry), NEW d \in 1..(Len(h)-1)
    PROVE  /\ SubSeq(h, d+1, Len(h)) \in Seq(Entry)
           /\ Len(SubSeq(h, d+1, Len(h))) = Len(h) - d
           /\ \A n \in 1..(Len(h)-d) : SubSeq(h, d+1, Len(h))[n] = h[d + n]
<1>1. Len(h) \in Nat
  OBVIOUS
<1>2. \A i \in (d+1)..Len(h) : h[i] \in Entry
  OBVIOUS
<1>3. SubSeq(h, d+1, Len(h)) = [i \in 1..(Len(h) - d) |-> h[d + i]]
  OBVIOUS
<1> QED
  BY <1>1, <1>2, <1>3

LEMMA JoinSeq ==
    ASSUME NEW a \in Seq(Entry), NEW b \in Seq(Entry)
    PROVE  /\ a \o b \in Seq(Entry) /\ Len(a \o b) = Len(a) + Len(b)
           /\ \A n \in 1..Len(a) : (a \o b)[n] = a[n]
           /\ \A n \in (Len(a)+1)..(Len(a)+Len(b)) : (a \o b)[n] = b[n - Len(a)]
OBVIOUS

\* g is h with the e + 1 messages after the first ones replaced by m.
IsCut(g, h, m, first, e, N) ==
    /\ g \in Seq(Entry) /\ Len(g) = N
    /\ \A n \in 1..first : g[n] = h[n]
    /\ g[first+1] = m
    /\ \A n \in (first+2)..N : g[n] = h[n + e]

LEMMA CutSeq ==
    ASSUME NEW h \in Seq(Entry), NEW m \in Entry, NEW first \in Nat, NEW e \in Nat,
           NEW d \in Nat, NEW N \in Nat, d = first + 1 + e, first + 1 < N, N + e = Len(h)
    PROVE  IsCut(SubSeq(h, 1, first) \o <<m>> \o SubSeq(h, d+1, Len(h)), h, m, first, e, N)
<1> DEFINE a == SubSeq(h, 1, first)
           b == SubSeq(h, d+1, Len(h))
           q == a \o <<m>>
<1>1. first <= Len(h) /\ d \in 1..(Len(h)-1) /\ Len(h) - d = N - first - 1
  OBVIOUS
<1>2. a \in Seq(Entry) /\ Len(a) = first /\ \A n \in 1..first : a[n] = h[n]
  BY <1>1
<1>3. b \in Seq(Entry) /\ Len(b) = N - first - 1
      /\ \A n \in 1..(N - first - 1) : b[n] = h[d + n]
  BY <1>1, TailSeq
<1> HIDE DEF a, b
<1>4. q \in Seq(Entry) /\ Len(q) = first + 1 /\ q[first+1] = m
      /\ \A n \in 1..first : q[n] = a[n]
  BY <1>2
<1> HIDE DEF q
<1>5. /\ q \o b \in Seq(Entry) /\ Len(q \o b) = Len(q) + Len(b)
      /\ \A n \in 1..Len(q) : (q \o b)[n] = q[n]
      /\ \A n \in (Len(q)+1)..(Len(q)+Len(b)) : (q \o b)[n] = b[n - Len(q)]
  BY <1>3, <1>4, JoinSeq
<1>6. Len(q) + Len(b) = N /\ Len(q) + 1 = first + 2 /\ Len(q) = first + 1
  BY <1>3, <1>4
<1>7. \A n \in 1..first : (q \o b)[n] = h[n]
  BY <1>2, <1>4, <1>5, <1>6
<1>8. (q \o b)[first+1] = m
  BY <1>4, <1>5, <1>6
<1>9. ASSUME NEW n \in (first+2)..N PROVE (q \o b)[n] = h[n + e]
  <2>1. (q \o b)[n] = b[n - (first + 1)]
    BY <1>5, <1>6
  <2>2. n - (first + 1) \in 1..(N - first - 1) /\ d + (n - (first + 1)) = n + e
    OBVIOUS
  <2> QED
    BY <1>3, <2>1, <2>2
<1>10. q \o b \in Seq(Entry) /\ Len(q \o b) = N
  BY <1>5, <1>6
<1>11. IsCut(q \o b, h, m, first, e, N)
  BY <1>7, <1>8, <1>9, <1>10 DEF IsCut
<1> QED
  BY <1>11 DEF q, a, b

\* A compacted history has every call answered again.
LEMMA ReachCompact ==
    ASSUME NEW h, NEW v, Reaches(h, {}, v), NEW first \in Nat,
           NEW d \in 1..(Len(h)-1), first < d, h[d+1].role # "tool"
    PROVE  Reaches(Compact(h, first, d), {}, v)
<1>1. PICK f, u : Chain(h, f, u) /\ f[Len(h)] = {} /\ u[Len(h)] = v
  BY DEF Reaches
<1>2. h \in Seq(Entry) /\ Len(h) \in Nat /\ f[0] = {}
      /\ \A n \in 1..Len(h) : Link(h[n], f[n-1], u[n-1], f[n], u[n])
  BY <1>1 DEF Chain
<1> DEFINE by == IF first > 0 /\ h[first].role = "user" THEN "assistant" ELSE "user"
           sum == [role |-> by, calls |-> {}]
           e == d - first - 1
           N == Len(h) - e
           g == SubSeq(h, 1, first) \o <<sum>> \o SubSeq(h, d+1, Len(h))
           P == f[first]
           F == [n \in 0..N |-> IF n <= first THEN f[n] \ P ELSE f[n + e]]
           U == [n \in 0..N |-> IF n <= first THEN u[n] ELSE u[n + e]]
<1>3. sum \in Entry /\ sum.role # "tool" /\ sum.calls = {}
  BY DEF Entry
<1> HIDE DEF sum
<1>4. e \in Nat /\ N \in Nat /\ first + 1 + e = d /\ first + 1 < N /\ N + e = Len(h)
      /\ d \in 1..Len(h) /\ d + 1 \in 1..Len(h)
  BY <1>2
<1> HIDE DEF e, N
<1>5. /\ g \in Seq(Entry) /\ Len(g) = N
      /\ \A n \in 1..first : g[n] = h[n]
      /\ g[first+1] = sum
      /\ \A n \in (first+2)..N : g[n] = h[n + e]
  <2>1. d \in Nat /\ d = first + 1 + e
    BY <1>4
  <2>2. IsCut(g, h, sum, first, e, N)
    BY <1>2, <1>3, <1>4, <2>1, CutSeq
  <2> QED
    BY <2>2 DEF IsCut
<1>6. /\ \A n \in 0..first : F[n] = f[n] \ P /\ U[n] = u[n]
      /\ \A n \in (first+1)..N : F[n] = f[n + e] /\ U[n] = u[n + e]
  <2> HIDE DEF e, N, P, g
  <2>1. ASSUME NEW n \in 0..first PROVE F[n] = f[n] \ P /\ U[n] = u[n]
    BY <1>4, <2>1
  <2>2. ASSUME NEW n \in (first+1)..N PROVE F[n] = f[n + e] /\ U[n] = u[n + e]
    BY <1>4, <2>2
  <2> QED
    BY <2>1, <2>2
<1> HIDE DEF g, F, U, P
<1>8. f[d] = {}
  <2>1. Link(h[d+1], f[d], u[d], f[d+1], u[d+1])
    BY <1>2, <1>4
  <2> QED
    BY <2>1 DEF Link
<1>9. F[0] = {} /\ F[first] = {} /\ F[first+1] = {} /\ F[N] = {} /\ U[N] = v
  <2>1. F[0] = {} /\ F[first] = {}
    BY <1>2, <1>6 DEF P
  <2>2. F[first+1] = {}
    BY <1>4, <1>6, <1>8
  <2>3. F[N] = f[N + e] /\ U[N] = u[N + e]
    BY <1>4, <1>6
  <2>4. F[N] = {} /\ U[N] = v
    BY <1>1, <1>4, <2>3
  <2> QED
    BY <2>1, <2>2, <2>4
\* The head.
<1>10. ASSUME NEW n \in 1..first
       PROVE  /\ n \in 1..Len(h) /\ n - 1 \in 0..first /\ n \in 0..first /\ n \in 1..N
              /\ Link(h[n], f[n-1], u[n-1], f[n], u[n])
              /\ g[n] = h[n] /\ F[n] = f[n] \ P /\ F[n-1] = f[n-1] \ P
              /\ U[n] = u[n] /\ U[n-1] = u[n-1]
  <2>1. n \in 1..Len(h) /\ n - 1 \in 0..first /\ n \in 0..first /\ n \in 1..N
    BY <1>2, <1>4
  <2> QED
    BY <1>2, <1>5, <1>6, <2>1
\* The tail.
<1>11. ASSUME NEW n \in (first+2)..N
       PROVE  /\ n + e \in (d+1)..Len(h) /\ n + e \in 1..Len(h)
              /\ n + e \in Nat /\ (n + e) - 1 \in Nat /\ d <= (n + e) - 1 /\ (n + e) - 1 <= Len(h)
              /\ n \in 1..N
              /\ Link(h[n+e], f[(n+e)-1], u[(n+e)-1], f[n+e], u[n+e])
              /\ g[n] = h[n+e] /\ F[n] = f[n+e] /\ F[n-1] = f[(n+e)-1]
              /\ U[n] = u[n+e] /\ U[n-1] = u[(n+e)-1]
  <2>1. /\ n + e \in (d+1)..Len(h) /\ n + e \in 1..Len(h)
        /\ n + e \in Nat /\ (n + e) - 1 \in Nat /\ d <= (n + e) - 1 /\ (n + e) - 1 <= Len(h)
        /\ n \in 1..N /\ n \in (first+1)..N /\ n - 1 \in (first+1)..N /\ (n - 1) + e = (n + e) - 1
    BY <1>2, <1>4
  <2> QED
    BY <1>2, <1>5, <1>6, <2>1
<1>12. P \subseteq u[d]
  <2>1. P \subseteq u[first]
    <3>1. first \in 0..Len(h)
      BY <1>2, <1>4
    <3> QED
      BY <1>1, <3>1, OpenKnown DEF P
  <2>2. u[first] \subseteq u[d]
    <3>1. first <= d /\ d \in Nat /\ d <= Len(h)
      BY <1>4, <1>2
    <3> QED
      BY <1>1, <3>1, ChainSince DEF Since
  <2> QED
    BY <2>1, <2>2
\* The calls whose results were cut are the ones without a result.
<1>13. ASSUME NEW c \in P PROVE ~Answered(g, c)
  <2> SUFFICES ASSUME NEW k \in 1..N, g[k].role = "tool", c \in g[k].calls PROVE FALSE
    BY <1>5 DEF Answered
  <2>1. CASE k \in 1..first
    <3>1. first \in 0..Len(h)
      BY <1>2, <1>4
    <3>2. h[k].calls \cap f[first] = {}
      BY <1>1, <1>10, <2>1, <3>1, AnsweredCloses
    <3> QED
      BY <1>10, <2>1, <3>2 DEF P
  <2>2. CASE k = first + 1
    BY <1>3, <1>5, <2>2
  <2>3. CASE k \in (first+2)..N
    <3>1. c \in f[(k+e)-1]
      BY <1>11, <2>3 DEF Link
    <3>2. f[(k+e)-1] \cap u[d] \subseteq f[d]
      BY <1>1, <1>4, <1>11, <2>3, ChainSince DEF Since
    <3> QED
      BY <1>8, <1>12, <3>1, <3>2
  <2> QED
    BY <1>4, <2>1, <2>2, <2>3
<1>14. ASSUME NEW n \in 1..first, h[n].role # "tool", NEW c \in h[n].calls, c \notin P
       PROVE  Answered(g, c)
  <2>1. Since(h, f, u, n, first)
    <3>1. n \in Nat /\ n <= first /\ first <= Len(h)
      BY <1>2, <1>4
    <3> QED
      BY <1>1, <3>1, ChainSince
  <2>2. c \in f[n]
    BY <1>10, <1>14 DEF Link
  <2>3. PICK j \in (n+1)..first : h[j].role = "tool" /\ c \in h[j].calls
    BY <1>14, <2>1, <2>2 DEF Since, P
  <2>4. j \in 1..first
    BY <2>3
  <2> QED
    BY <1>5, <1>10, <2>3, <2>4 DEF Answered
<1>15. ASSUME NEW n \in (first+2)..N, h[n+e].role # "tool", NEW c \in h[n+e].calls
       PROVE  Answered(g, c)
  <2>1. Since(h, f, u, n + e, Len(h))
    <3>1. n + e <= Len(h)
      BY <1>2, <1>11
    <3> QED
      BY <1>1, <1>2, <1>11, <3>1, ChainSince
  <2>2. c \in f[n+e]
    BY <1>11, <1>15 DEF Link
  <2>3. PICK j \in (n+e+1)..Len(h) : h[j].role = "tool" /\ c \in h[j].calls
    BY <1>1, <2>1, <2>2 DEF Since
  <2>4. j - e \in (first+2)..N /\ (j - e) + e = j
    BY <1>2, <1>4, <2>3
  <2>5. j - e \in 1..Len(g) /\ g[j-e] = h[j]
    BY <1>5, <1>11, <2>4
  <2> QED
    BY <2>3, <2>5 DEF Answered
<1>16. ASSUME NEW n \in 1..first, h[n].role = "tool", NEW c \in h[n].calls
       PROVE  Made(g, c)
  <2>1. Since(h, f, u, 0, n - 1)
    <3>1. n - 1 \in Nat /\ 0 <= n - 1 /\ n - 1 <= Len(h)
      BY <1>2, <1>4
    <3> QED
      BY <1>1, <3>1, ChainSince
  <2>2. c \in f[n-1]
    BY <1>10, <1>16 DEF Link
  <2>3. PICK j \in 1..(n-1) : h[j].role # "tool" /\ c \in h[j].calls
    BY <1>2, <2>1, <2>2 DEF Since
  <2>4. j \in 1..first
    BY <2>3
  <2> QED
    BY <1>5, <1>10, <2>3, <2>4 DEF Made
<1>17. ASSUME NEW n \in (first+2)..N, h[n+e].role = "tool", NEW c \in h[n+e].calls
       PROVE  Made(g, c)
  <2>1. Since(h, f, u, d, (n + e) - 1)
    BY <1>1, <1>4, <1>11, ChainSince
  <2>2. c \in f[(n+e)-1]
    BY <1>11, <1>17 DEF Link
  <2>3. PICK j \in (d+1)..((n+e)-1) : h[j].role # "tool" /\ c \in h[j].calls
    BY <1>8, <2>1, <2>2 DEF Since
  <2>4. j - e \in (first+2)..N /\ (j - e) + e = j
    BY <1>2, <1>4, <1>11, <2>3
  <2>5. j - e \in 1..Len(g) /\ g[j-e] = h[j]
    BY <1>5, <1>11, <2>4
  <2> QED
    BY <2>3, <2>5 DEF Made
<1>18. ASSUME NEW n \in 1..N
       PROVE  /\ Link(g[n], F[n-1], U[n-1],
                      IF g[n].role = "tool" THEN F[n] ELSE g[n].calls, U[n])
              /\ g[n].role = "tool" => \A c \in g[n].calls : Made(g, c)
              /\ g[n].role # "tool" => F[n] = {c \in g[n].calls : Answered(g, c)}
  <2>1. CASE n \in 1..first
    <3>1. /\ Link(h[n], f[n-1], u[n-1], f[n], u[n])
          /\ g[n] = h[n] /\ F[n] = f[n] \ P /\ F[n-1] = f[n-1] \ P
          /\ U[n] = u[n] /\ U[n-1] = u[n-1]
      BY <1>10, <2>1
    <3>2. CASE h[n].role = "tool"
      <4>1. h[n].calls \cap P = {}
        <5>1. first \in 0..Len(h)
          BY <1>2, <1>4
        <5> QED
          BY <1>1, <2>1, <3>2, <5>1, AnsweredCloses DEF P
      <4>2. h[n].calls \subseteq F[n-1] /\ F[n] = F[n-1] \ h[n].calls
        BY <3>1, <3>2, <4>1 DEF Link
      <4>3. \A c \in h[n].calls : Made(g, c)
        BY <1>16, <2>1, <3>2
      <4> QED
        BY <3>1, <3>2, <4>2, <4>3 DEF Link
    <3>3. CASE h[n].role # "tool"
      <4>1. \A c \in h[n].calls : c \notin P => Answered(g, c)
        BY <1>14, <2>1, <3>3
      <4>2. F[n] = {c \in h[n].calls : Answered(g, c)}
        BY <1>13, <3>1, <3>3, <4>1 DEF Link
      <4>3. F[n-1] = {}
        BY <3>1, <3>3 DEF Link
      <4> QED
        BY <3>1, <3>3, <4>2, <4>3 DEF Link
    <3> QED
      BY <3>2, <3>3
  <2>2. CASE n = first + 1
    <3>1. n - 1 = first /\ first \in 0..first /\ n \in (first+1)..N /\ n + e = d
      BY <1>4, <2>2
    <3>2. U[n-1] = u[first] /\ U[n] = u[d] /\ F[n-1] = {} /\ F[n] = {} /\ g[n] = sum
      BY <1>5, <1>6, <1>9, <2>2, <3>1
    <3>3. u[first] \subseteq u[d]
      <4>1. first <= d /\ d \in Nat /\ d <= Len(h)
        BY <1>4, <1>2
      <4> QED
        BY <1>1, <4>1, ChainSince DEF Since
    <3>4. IsFiniteSet({})
      BY FS_EmptySet
    <3> QED
      BY <1>3, <3>2, <3>3, <3>4 DEF Link
  <2>3. CASE n \in (first+2)..N
    <3>1. /\ Link(h[n+e], f[(n+e)-1], u[(n+e)-1], f[n+e], u[n+e])
          /\ g[n] = h[n+e] /\ F[n] = f[n+e] /\ F[n-1] = f[(n+e)-1]
          /\ U[n] = u[n+e] /\ U[n-1] = u[(n+e)-1]
      BY <1>11, <2>3
    <3>2. CASE h[n+e].role = "tool"
      <4>1. \A c \in h[n+e].calls : Made(g, c)
        BY <1>17, <2>3, <3>2
      <4> QED
        BY <3>1, <3>2, <4>1
    <3>3. CASE h[n+e].role # "tool"
      <4>1. \A c \in h[n+e].calls : Answered(g, c)
        BY <1>15, <2>3, <3>3
      <4>2. f[n+e] = h[n+e].calls
        BY <3>1, <3>3 DEF Link
      <4> QED
        BY <3>1, <3>3, <4>1, <4>2
    <3> QED
      BY <3>2, <3>3
  <2> QED
    BY <1>4, <2>1, <2>2, <2>3
<1>19. Reaches(Repair(g), F[N], U[N])
  BY <1>5, <1>9, <1>18, ReachRepair
<1>20. Compact(h, first, d) = Repair(g)
  BY DEF Compact, g, sum
<1> QED
  BY <1>9, <1>19, <1>20

-----------------------------------------------------------------------------
\* SanitizeMessages.

\* The histories the fold of Sanitize goes through exist.
Folded(h, f, k) ==
    f = [s \in SUBSET (1..k) |->
            IF s = {} THEN << >> ELSE LET x == Max(s) IN AddSanitized(f[s \ {x}], h[x])]

\* A nonempty set of naturals up to k has its greatest element.
LEMMA MaxUpTo ==
    ASSUME NEW k \in Nat, NEW s \in SUBSET (1..k), s # {}
    PROVE  Max(s) \in s /\ \A y \in s : y <= Max(s)
<1> DEFINE Gap == {n \in Nat : k - n \in s}
<1>1. Gap # {} /\ Gap \subseteq Nat
  <2>1. PICK x \in s : TRUE
    OBVIOUS
  <2>2. k - x \in Nat /\ k - (k - x) = x
    BY <2>1
  <2> QED
    BY <2>1, <2>2
<1> HIDE DEF Gap
<1>2. PICK n \in Gap : \A i \in Gap : n <= i
  BY <1>1, FirstNat
<1>3. n \in Nat /\ k - n \in s
  BY <1>2 DEF Gap
<1>4. ASSUME NEW y \in s PROVE k - n >= y
  <2>1. k - y \in Nat /\ k - (k - y) = y
    OBVIOUS
  <2>2. k - y \in Gap
    BY <2>1 DEF Gap
  <2> QED
    BY <1>2, <1>3, <2>1, <2>2
<1>5. \E x \in s : \A y \in s : x >= y
  BY <1>3, <1>4
<1>6. Max(s) \in s /\ \A y \in s : Max(s) >= y
  BY <1>5, Zenon DEF Max
<1> QED
  BY <1>6

LEMMA FoldedExists ==
    ASSUME NEW h, NEW n \in Nat
    PROVE  \E f : Folded(h, f, n)
<1> DEFINE Bad == {k \in 0..n : ~\E f : Folded(h, f, k)}
<1>1. SUFFICES ASSUME Bad # {} PROVE FALSE
  OBVIOUS
<1>2. Bad \subseteq Nat
  OBVIOUS
<1> HIDE DEF Bad
<1>3. PICK m \in Bad : \A k \in Bad : m <= k
  BY <1>1, <1>2, FirstNat
<1>4. m \in 0..n /\ ~\E f : Folded(h, f, m)
  BY <1>3 DEF Bad
<1>5. m # 0
  <2> DEFINE z == [s \in SUBSET (1..0) |-> << >>]
             B(s) == IF s = {} THEN << >> ELSE LET x == Max(s) IN AddSanitized(z[s \ {x}], h[x])
  <2>1. \A s \in SUBSET (1..0) : s = {}
    OBVIOUS
  <2>2. \A s \in SUBSET (1..0) : B(s) = << >>
    BY <2>1, Zenon
  <2> HIDE DEF B
  <2>3. z = [s \in SUBSET (1..0) |-> B(s)]
    BY <2>2
  <2>4. Folded(h, z, 0)
    BY <2>3, Zenon DEF Folded, B
  <2> QED
    BY <1>4, <2>4
<1>6. m - 1 \in 0..n /\ m \in 1..n /\ ~(m <= m - 1) /\ m \in Nat
  BY <1>4, <1>5
<1>7. m - 1 \notin Bad
  BY <1>3, <1>6
<1>8. PICK f : Folded(h, f, m - 1)
  BY <1>6, <1>7 DEF Bad
<1> DEFINE B(f_, s) == IF s = {} THEN << >> ELSE LET x == Max(s) IN AddSanitized(f_[s \ {x}], h[x])
           g == [s \in SUBSET (1..m) |-> IF m \in s THEN B(f, s) ELSE f[s]]
<1>9. f = [s \in SUBSET (1..(m-1)) |-> B(f, s)]
  BY <1>8, Zenon DEF Folded
<1>10. ASSUME NEW s \in SUBSET (1..m)
       PROVE  g[s] = B(g, s)
  <2>1. CASE s = {}
    <3>1. s \in SUBSET (1..(m-1)) /\ m \notin s
      BY <2>1
    <3>2. g[s] = f[s]
      BY <3>1
    <3>3. f[s] = B(f, s)
      BY <1>9, <3>1, Zenon
    <3>4. B(f, s) = << >> /\ B(g, s) = << >>
      BY <2>1, Zenon
    <3> QED
      BY <3>2, <3>3, <3>4, Zenon
  <2>2. CASE s # {}
    <3> DEFINE t == s \ {Max(s)}
    <3>1. Max(s) \in s /\ \A y \in s : y <= Max(s)
      BY <1>6, <2>2, MaxUpTo
    <3>2. t \in SUBSET (1..(m-1)) /\ m \notin t /\ t \in SUBSET (1..m)
      <4>1. ASSUME NEW y \in t PROVE y \in 1..(m-1)
        <5>1. y \in 1..m /\ Max(s) \in 1..m /\ y # Max(s) /\ y <= Max(s)
          BY <3>1
        <5> QED
          BY <1>6, <5>1
      <4>2. t \subseteq s
        OBVIOUS
      <4> HIDE DEF t
      <4>3. m \notin 1..(m-1)
        BY <1>6
      <4> QED
        BY <4>1, <4>2, <4>3
    <3>3. g[t] = f[t]
      BY <3>2
    <3> HIDE DEF g
    <3>4. B(g, s) = B(f, s)
      BY <2>2, <3>3, Zenon
    <3>5. g[s] = IF m \in s THEN B(f, s) ELSE f[s]
      BY Zenon DEF g
    <3>6. CASE m \in s
      BY <3>4, <3>5, <3>6, Zenon
    <3>7. CASE m \notin s
      <4>1. s \in SUBSET (1..(m-1))
        <5>1. ASSUME NEW y \in s PROVE y \in 1..(m-1)
          <6>1. y \in 1..m /\ y # m
            BY <3>7
          <6> QED
            BY <1>6, <6>1
        <5> QED
          BY <5>1
      <4>2. f[s] = B(f, s)
        BY <1>9, <4>1, Zenon
      <4> QED
        BY <3>4, <3>5, <3>7, <4>2, Zenon
    <3> QED
      BY <3>6, <3>7
  <2> QED
    BY <2>1, <2>2
<1>11. g = [s \in SUBSET (1..m) |-> g[s]]
  OBVIOUS
<1> HIDE DEF g
<1>12. g = [s \in SUBSET (1..m) |-> B(g, s)]
  <2> HIDE DEF B
  <2> QED
    BY <1>10, <1>11
<1>13. Folded(h, g, m)
  BY <1>12, Zenon DEF Folded
<1> QED
  BY <1>4, <1>13

\* Sanitize is the last of the histories AddSanitized makes of the prefixes.
LEMMA SanitizeSteps ==
    ASSUME NEW h \in Seq(Entry)
    PROVE  \E out : /\ out[0] = << >>
                    /\ \A n \in 1..Len(h) : out[n] = AddSanitized(out[n-1], h[n])
                    /\ Sanitize(h) = out[Len(h)]
<1> DEFINE D == DOMAIN h
           f == CHOOSE f : f = [s \in SUBSET D |->
                    IF s = {} THEN << >> ELSE LET x == Max(s) IN AddSanitized(f[s \ {x}], h[x])]
<1>1. D = 1..Len(h) /\ Len(h) \in Nat
  OBVIOUS
<1>2. \E e : Folded(h, e, Len(h))
  BY <1>1, FoldedExists
<1>3. \E e : e = [s \in SUBSET D |->
                    IF s = {} THEN << >> ELSE LET x == Max(s) IN AddSanitized(e[s \ {x}], h[x])]
  BY <1>1, <1>2, Zenon DEF Folded
<1>4. f = [s \in SUBSET D |->
                    IF s = {} THEN << >> ELSE LET x == Max(s) IN AddSanitized(f[s \ {x}], h[x])]
  BY <1>3, Zenon
<1>5. Sanitize(h) = f[D]
  BY Zenon DEF Sanitize, FoldLeft, MapThenFoldSet
<1> HIDE DEF f, D
<1>6. \A s \in SUBSET D : f[s] =
          IF s = {} THEN << >> ELSE LET x == Max(s) IN AddSanitized(f[s \ {x}], h[x])
  BY <1>4, Zenon
<1> DEFINE out == [n \in 0..Len(h) |-> f[1..n]]
<1>7. out[0] = << >>
  <2>1. 1..0 = {} /\ 0 \in 0..Len(h)
    BY <1>1
  <2>2. f[{}] = << >>
    BY <1>6, Zenon
  <2> QED
    BY <2>1, <2>2
<1>8. ASSUME NEW n \in 1..Len(h) PROVE out[n] = AddSanitized(out[n-1], h[n])
  <2>0. n \in 0..Len(h) /\ n - 1 \in 0..Len(h) /\ n \in 1..n /\ n \in Nat
    BY <1>1
  <2>1. n \in 0..Len(h) /\ n - 1 \in 0..Len(h) /\ 1..n \in SUBSET D /\ n \in 1..n /\ 1..n # {}
        /\ n \in Nat
    <3>1. \A i \in 1..n : i \in 1..Len(h)
      BY <1>1
    <3> HIDE DEF out
    <3> QED
      BY <1>1, <2>0, <3>1
  <2>2. Max(1..n) = n
    <3>1. Max(1..n) \in 1..n /\ n <= Max(1..n)
      BY <2>1, MaxUpTo
    <3> QED
      BY <2>1, <3>1
  <2>3. (1..n) \ {n} = 1..(n-1)
    BY <2>1
  <2>4. f[1..n] = AddSanitized(f[(1..n) \ {Max(1..n)}], h[Max(1..n)])
    BY <1>6, <2>1, Zenon
  <2>5. f[1..n] = AddSanitized(f[1..(n-1)], h[n])
    BY <2>2, <2>3, <2>4, Zenon
  <2>6. out[n] = f[1..n] /\ out[n-1] = f[1..(n-1)]
    BY <2>1, Zenon
  <2> QED
    BY <2>5, <2>6, Zenon
<1>9. out[Len(h)] = f[D]
  <2>1. Len(h) \in 0..Len(h)
    BY <1>1
  <2> QED
    BY <1>1, <2>1, Zenon
<1> HIDE DEF out
<1> QED
  BY <1>5, <1>7, <1>8, <1>9

\* The messages but the last.
LEMMA FrontSeq ==
    ASSUME NEW s \in Seq(Entry), s # << >>
    PROVE  /\ Front(s) \in Seq(Entry) /\ Len(Front(s)) = Len(s) - 1
           /\ \A i \in 1..(Len(s)-1) : Front(s)[i] = s[i]
<1> DEFINE N == Len(s)
<1>1. N \in Nat /\ N # 0
  OBVIOUS
<1> HIDE DEF N
<1>2. Front(s) = SubSeq(s, 1, N - 1)
  BY DEF Front, N
<1>3. N - 1 \in Nat /\ N - 1 <= N /\ \A i \in 1..(N-1) : i \in 1..N
  BY <1>1
<1>4. \A i \in 1..(N-1) : s[i] \in Entry
  BY <1>3 DEF N
<1>5. SubSeq(s, 1, N - 1) = [i \in 1..(N-1) |-> s[i]]
  <2>1. (N - 1) - 1 + 1 = N - 1
    BY <1>1
  <2>2. SubSeq(s, 1, N - 1) = [i \in 1..((N - 1) - 1 + 1) |-> s[i + 1 - 1]]
    BY <1>1
  <2>3. \A i \in 1..(N-1) : s[i + 1 - 1] = s[i]
    BY <1>1
  <2> QED
    BY <2>1, <2>2, <2>3
<1> DEFINE r == Front(s)
<1>6. r = [i \in 1..(N-1) |-> s[i]]
  BY <1>2, <1>5
<1> HIDE DEF r
<1>7. r \in Seq(Entry) /\ Len(r) = N - 1 /\ \A i \in 1..(N-1) : r[i] = s[i]
  BY <1>3, <1>4, <1>6
<1> QED
  BY <1>7 DEF r, N

\* Without its last message, which is no result, a history has nothing open.
LEMMA ReachFront ==
    ASSUME NEW s, NEW o, NEW v, Reaches(s, o, v), s # << >>, s[Len(s)].role # "tool"
    PROVE  Reaches(Front(s), {}, v) /\ Front(s) \in Seq(Entry) /\ s[Len(s)] \in Entry
<1>1. PICK f, u : Chain(s, f, u) /\ f[Len(s)] = o /\ u[Len(s)] = v
  BY DEF Reaches
<1> DEFINE N == Len(s)
           g == Front(s)
<1>2. s \in Seq(Entry) /\ N \in Nat /\ N # 0 /\ f[0] = {}
      /\ \A n \in 1..N : Link(s[n], f[n-1], u[n-1], f[n], u[n])
  BY <1>1 DEF Chain
<1>4. g \in Seq(Entry) /\ Len(g) = N - 1 /\ \A n \in 1..(N-1) : g[n] = s[n]
  BY <1>2, FrontSeq
<1> HIDE DEF g
<1>5. Link(s[N], f[N-1], u[N-1], f[N], u[N])
  BY <1>2
<1>6. f[N-1] = {} /\ u[N-1] \subseteq v /\ s[N] \in Entry
  BY <1>1, <1>5 DEF Link
<1>7. Chain(g, f, u)
  <2>1. \A n \in 1..Len(g) : n \in 1..N /\ g[n] = s[n]
    BY <1>2, <1>4
  <2> QED
    BY <1>2, <1>4, <2>1 DEF Chain
<1>8. Reaches(g, {}, u[N-1])
  BY <1>4, <1>6, <1>7 DEF Reaches
<1> QED
  BY <1>4, <1>6, <1>8, ReachMore DEF g

\* Two neighbours of one role are results, or the first makes calls.
Merged(h) == \A i \in 1..(Len(h)-1) :
    h[i].role = h[i+1].role => h[i].role = "tool" \/ h[i].calls # {}

\* One step of Sanitize.
LEMMA ReachAdd ==
    ASSUME NEW s, NEW o, NEW v, NEW m, NEW p, NEW w,
           Reaches(s, o, v), Merged(s), Link(m, o, v, p, w)
    PROVE  Reaches(AddSanitized(s, m), p, w) /\ Merged(AddSanitized(s, m))
<1>1. s \in Seq(Entry) /\ Len(s) \in Nat /\ m \in Entry
  BY DEF Reaches, Chain, Link
<1>2. CASE s = << >> \/ m.role = "tool" \/ m.role # Last(s).role
           \/ (m.role = "assistant" /\ Last(s).calls # {})
  <2> DEFINE g == Append(s, m)
  <2>1. AddSanitized(s, m) = g
    BY <1>2 DEF AddSanitized
  <2>2. Reaches(g, p, w)
    BY ReachNext
  <2>3. Len(g) = Len(s) + 1 /\ g[Len(s)+1] = m /\ \A i \in 1..Len(s) : g[i] = s[i]
    BY <1>1
  <2>4. s # << >> => Last(s) = s[Len(s)]
    BY DEF Last
  <2> HIDE DEF g
  <2>5. ASSUME NEW i \in 1..(Len(g)-1), g[i].role = g[i+1].role, g[i].role # "tool"
        PROVE  g[i].calls # {}
    <3>1. CASE i = Len(s)
      <4>1. g[i] = s[Len(s)] /\ g[i+1] = m /\ s # << >>
        BY <1>1, <2>3, <2>5, <3>1
      <4> QED
        BY <1>2, <2>4, <2>5, <4>1
    <3>2. CASE i # Len(s)
      <4>1. i \in 1..(Len(s)-1) /\ i \in 1..Len(s) /\ i + 1 \in 1..Len(s)
        BY <1>1, <2>3, <3>2
      <4>2. g[i] = s[i] /\ g[i+1] = s[i+1]
        BY <2>3, <4>1
      <4> QED
        BY <2>5, <4>1, <4>2 DEF Merged
    <3> QED
      BY <3>1, <3>2
  <2>6. Merged(g)
    BY <2>5 DEF Merged
  <2> QED
    BY <2>1, <2>2, <2>6
<1>3. CASE ~(s = << >> \/ m.role = "tool" \/ m.role # Last(s).role
             \/ (m.role = "assistant" /\ Last(s).calls # {}))
  <2>1. Last(s) = s[Len(s)]
    BY DEF Last
  <2>2. s # << >> /\ m.role # "tool" /\ s[Len(s)].role = m.role
        /\ (m.role = "assistant" => s[Len(s)].calls = {})
    BY <1>3, <2>1
  <2>3. Reaches(Front(s), {}, v) /\ Front(s) \in Seq(Entry)
    BY <2>2, ReachFront
  <2>4. PICK f, u : Chain(s, f, u)
    BY DEF Reaches
  <2>5. Len(s) \in 1..Len(s)
    BY <1>1, <2>2
  <2>6. Link(s[Len(s)], f[Len(s)-1], u[Len(s)-1], f[Len(s)], u[Len(s)])
    BY <2>4, <2>5 DEF Chain
  <2>7. s[Len(s)].calls = {}
    BY <1>1, <2>2, <2>6 DEF Link, Entry
  <2> DEFINE b == [m EXCEPT !.calls = @ \cup Last(s).calls]
             g == Append(Front(s), m)
  <2>8. b = m
    <3>1. m.calls \cup Last(s).calls = m.calls
      BY <2>1, <2>7
    <3>2. b = [m EXCEPT !.calls = m.calls]
      BY <3>1
    <3> QED
      BY <1>1, <3>2 DEF Entry
  <2>9. AddSanitized(s, m) = Front(s) \o <<b>>
    BY <1>3, Zenon DEF AddSanitized
  <2>10. AddSanitized(s, m) = g
    <3> DEFINE r == Front(s)
    <3>1. AddSanitized(s, m) = r \o <<m>> /\ r \in Seq(Entry)
      BY <2>3, <2>8, <2>9
    <3> HIDE DEF r
    <3>2. r \o <<m>> = Append(r, m)
      BY <1>1, <3>1
    <3> QED
      BY <3>1, <3>2 DEF r
  <2>11. Link(m, {}, v, p, w)
    BY <2>2 DEF Link
  <2>12. Reaches(g, p, w)
    BY <2>3, <2>11, ReachNext
  <2>14. Len(g) = Len(s) /\ g[Len(s)] = m /\ \A i \in 1..(Len(s)-1) : g[i] = s[i]
    <3> DEFINE r == Front(s)
    <3>2. r \in Seq(Entry) /\ Len(r) = Len(s) - 1 /\ \A i \in 1..(Len(s)-1) : r[i] = s[i]
      BY <1>1, <2>2, FrontSeq
    <3> HIDE DEF r
    <3>3. Len(Append(r, m)) = Len(r) + 1 /\ Append(r, m)[Len(r)+1] = m
          /\ \A i \in 1..Len(r) : Append(r, m)[i] = r[i]
      BY <1>1, <3>2
    <3>4. Len(r) + 1 = Len(s) /\ g = Append(r, m)
      BY <1>1, <3>2 DEF r
    <3> HIDE DEF g
    <3> QED
      BY <3>2, <3>3, <3>4
  <2> HIDE DEF g
  <2>15. ASSUME NEW i \in 1..(Len(g)-1), g[i].role = g[i+1].role, g[i].role # "tool"
         PROVE  g[i].calls # {}
    <3>1. i \in 1..(Len(s)-1) /\ g[i] = s[i] /\ g[i+1].role = s[i+1].role
      <4>1. i \in 1..(Len(s)-1)
        BY <2>14
      <4>2. CASE i + 1 = Len(s)
        BY <2>2, <2>14, <4>1, <4>2
      <4>3. CASE i + 1 # Len(s)
        <5>1. i + 1 \in 1..(Len(s)-1)
          BY <1>1, <4>1, <4>3
        <5> QED
          BY <2>14, <4>1, <5>1
      <4> QED
        BY <4>2, <4>3
    <3> QED
      BY <2>15, <3>1 DEF Merged
  <2>16. Merged(g)
    BY <2>15 DEF Merged
  <2> QED
    BY <2>10, <2>12, <2>16
<1> QED
  BY <1>2, <1>3

\* What Sanitize makes of a history with every call answered is well formed.
LEMMA SanitizedIsFormed ==
    ASSUME NEW h, NEW v, Reaches(h, {}, v)
    PROVE  WellFormed(Sanitize(h))
<1>1. PICK f, u : Chain(h, f, u) /\ f[Len(h)] = {} /\ u[Len(h)] = v
  BY DEF Reaches
<1>2. h \in Seq(Entry) /\ Len(h) \in Nat /\ f[0] = {}
      /\ \A n \in 1..Len(h) : Link(h[n], f[n-1], u[n-1], f[n], u[n])
  BY <1>1 DEF Chain
<1>3. PICK out : /\ out[0] = << >>
                 /\ \A n \in 1..Len(h) : out[n] = AddSanitized(out[n-1], h[n])
                 /\ Sanitize(h) = out[Len(h)]
  BY <1>2, SanitizeSteps
<1> DEFINE Good(n) == Reaches(out[n], f[n], u[n]) /\ Merged(out[n])
           Bad == {n \in 0..Len(h) : ~Good(n)}
<1>4. Good(0)
  <2>1. Merged(<< >>)
    BY DEF Merged
  <2> QED
    BY <1>2, <1>3, <2>1, ReachNone
<1>5. Bad = {}
  <2> SUFFICES ASSUME Bad # {} PROVE FALSE
    OBVIOUS
  <2>1. Bad \subseteq Nat
    OBVIOUS
  <2> HIDE DEF Bad
  <2>2. PICK k \in Bad : \A i \in Bad : k <= i
    BY <2>1, FirstNat
  <2>3. k \in 0..Len(h) /\ ~Good(k)
    BY <2>2 DEF Bad
  <2>4. k - 1 \in 0..Len(h) /\ k \in 1..Len(h) /\ ~(k <= k - 1)
    <3> HIDE DEF Good
    <3> QED
      BY <1>2, <1>4, <2>3
  <2>5. Good(k - 1)
    BY <2>2, <2>4 DEF Bad
  <2>6. Link(h[k], f[k-1], u[k-1], f[k], u[k]) /\ out[k] = AddSanitized(out[k-1], h[k])
    BY <1>2, <1>3, <2>4
  <2> QED
    BY <2>3, <2>5, <2>6, ReachAdd
<1>6. Good(Len(h))
  BY <1>2, <1>5
<1> QED
  BY <1>1, <1>3, <1>6, ReachedIsFormed DEF Merged

\* Compactions of such a history are such histories.
LEMMA ReachCompactions ==
    ASSUME NEW h, NEW v, Reaches(h, {}, v), NEW first \in Nat, NEW last \in Nat \ {0},
           NEW g \in Compactions(h, first, last)
    PROVE  Reaches(g, {}, v)
<1>1. CASE g = h
  BY <1>1
<1>2. CASE g # h
  <2>1. ~(Len(h) < first + last + 1)
    BY <1>2 DEF Compactions
  <2>2. PICK d \in Cuts(h, first, last) : d > first /\ g = Compact(h, first, d)
    BY <1>2, <2>1 DEF Compactions
  <2>3. h \in Seq(Entry) /\ Len(h) \in Nat
    BY DEF Reaches, Chain
  <2>4. Len(h) >= first + last + 1
    BY <2>1, <2>3
  <2>5. d \in 1..(Len(h)-1) /\ h[d+1].role # "tool"
    BY <2>2, <2>4, TailBegins
  <2>6. first < d
    BY <2>2, <2>5, <2>3
  <2> QED
    BY <2>2, <2>5, <2>6, ReachCompact
<1> QED
  BY <1>1, <1>2

-----------------------------------------------------------------------------
\* The histories of the loop.

\* The calls of the first n messages that make any.
Upto(n) == {c \in Call : c[1] <= n}

\* Without the plan gate nothing is held: between rounds every call of the turn's
\* history is answered, at the gate its writes are open, and in execution the
\* writes of the batch are.
RequestInv ==
    /\ plan = {} /\ saved.plan = {}
    /\ IsFiniteSet(calls) /\ IsFiniteSet(exec)
    /\ Reaches(saved.msgs, {}, Upto(batch))
    /\ pc \notin {"gate", "mutate"} => Reaches(msgs, {}, Upto(batch))
    /\ pc = "gate" => Reaches(msgs, Mutating(calls), Upto(batch))
    /\ pc = "mutate" => exec # {} /\ Reaches(msgs, exec, Upto(batch))

\* A message without calls leaves nothing open.
LEMMA ReachPlain ==
    ASSUME NEW h, NEW v, NEW e \in {User, Assistant({})}, Reaches(h, {}, v)
    PROVE  Reaches(Append(h, e), {}, v)
<1>1. e \in Entry
  <2>1. {} \in SUBSET Call
    OBVIOUS
  <2> QED
    BY <2>1, EntryTypes
<1>2. e.role # "tool" /\ e.calls = {}
  BY DEF User, Assistant
<1>3. Link(e, {}, v, {}, v)
  BY <1>1, <1>2, FS_EmptySet DEF Link
<1> QED
  BY <1>3, ReachNext

\* The calls of the next message are new and finitely many.
LEMMA NextCallsNew ==
    ASSUME NEW n \in Nat, NEW T \in SUBSET (Reads \cup Writes)
    PROVE  /\ IsFiniteSet({n + 1} \X T) /\ {n + 1} \X T \subseteq Upto(n + 1)
           /\ ({n + 1} \X T) \cap Upto(n) = {} /\ Upto(n) \subseteq Upto(n + 1)
<1>1. IsFiniteSet(T) /\ IsFiniteSet({n + 1})
  BY FS_Subset, FS_Singleton, ModelRequestsAssumption DEF ModelRequestsAssumption
<1>2. IsFiniteSet({n + 1} \X T)
  BY <1>1, FS_Product
<1>3. \A c \in {n + 1} \X T : c[1] = n + 1
  BY BatchCalls
<1>4. {n + 1} \X T \subseteq Call
  BY NextCalls
<1>5. \A c \in Call : c[1] \in Nat
  BY DEF Call
<1>6. Upto(n) \subseteq Upto(n + 1)
  BY <1>5 DEF Upto
<1>7. {n + 1} \X T \subseteq Upto(n + 1)
  <2>1. \A c \in {n + 1} \X T : c \in Call /\ c[1] <= n + 1
    BY <1>3, <1>4
  <2> QED
    BY <2>1 DEF Upto
<1>8. ({n + 1} \X T) \cap Upto(n) = {}
  <2>1. \A c \in {n + 1} \X T : ~(c[1] <= n)
    BY <1>3
  <2> QED
    BY <2>1 DEF Upto
<1> QED
  BY <1>2, <1>6, <1>7, <1>8

\* A step that leaves the histories alone.
LEMMA RequestFrame ==
    ASSUME RequestInv, UNCHANGED <<msgs, saved, batch>>, plan' = {},
           IsFiniteSet(calls)', IsFiniteSet(exec)',
           \/ pc' = pc /\ UNCHANGED <<calls, exec>>
           \/ {pc, pc'} \cap {"gate", "mutate"} = {}
    PROVE  RequestInv'
BY DEF RequestInv

\* A step that leaves the turn with every call of its history answered.
LEMMA RequestPlain ==
    ASSUME RequestInv, UNCHANGED <<saved, batch, calls, exec>>, plan' = {},
           Reaches(msgs', {}, Upto(batch)), pc' \notin {"gate", "mutate"}
    PROVE  RequestInv'
BY DEF RequestInv

\* Every step keeps what is open where RequestInv says, without the plan gate.
LEMMA StepRequest ==
    ASSUME ~PlanGate, TypeOK, PlanPlaces, RequestInv, [Next]_vars
    PROVE  RequestInv'
<1>0. batch \in Nat /\ calls \in SUBSET Call /\ exec \in SUBSET Call
  BY DEF TypeOK
<1>1. ASSUME NEW text \in {"approve", "reject", "other"}, NEW inter \in BOOLEAN,
             NEW appr \in BOOLEAN, Submit(text, inter, appr)
      PROVE  RequestInv'
  <2>1. msgs' = Append(saved.msgs, User) /\ plan' = saved.plan /\ pc' = "start"
        /\ UNCHANGED <<saved, batch, calls, exec>>
    BY <1>1 DEF Submit, work
  <2>2. Reaches(Append(saved.msgs, User), {}, Upto(batch))
    BY ReachPlain DEF RequestInv
  <2> QED
    BY <2>1, <2>2 DEF RequestInv
<1>2. CASE Prepare
  <2>1. BeginTurn
    BY <1>2 DEF Prepare, ResumePlan, CancelPlan, RequestInv
  <2> QED
    BY <2>1, RequestFrame DEF BeginTurn, work, RequestInv
<1>3. CASE FailTurn \/ CallLLM \/ LLMError \/ Cancel \/ UNCHANGED vars
  BY <1>3, RequestFrame DEF FailTurn, CallLLM, LLMError, Cancel, vars, session, work,
                            RequestInv
<1>4. CASE BudgetExhausted \/ LLMReply
  <2>1. msgs' = Append(msgs, Assistant({})) /\ pc' = "ended" /\ pc \in {"round", "llm"}
        /\ UNCHANGED <<saved, batch, calls, exec>> /\ plan' = {}
    BY <1>4 DEF BudgetExhausted, LLMReply, work, RequestInv
  <2>2. Reaches(Append(msgs, Assistant({})), {}, Upto(batch))
    BY <2>1, ReachPlain DEF RequestInv
  <2> QED
    BY <2>1, <2>2, RequestPlain
<1>5. CASE EvalRetry
  <2>1. msgs' = msgs \o <<Assistant({}), User>> /\ pc' = "round" /\ pc = "llm"
        /\ UNCHANGED <<saved, batch, calls, exec>> /\ plan' = {}
    BY <1>5 DEF EvalRetry, work, RequestInv
  <2>2. Assistant({}) \in Entry /\ User \in Entry /\ msgs \in Seq(Entry)
    BY EntryTypes DEF TypeOK
  <2>3. msgs' = Append(Append(msgs, Assistant({})), User)
    BY <2>1, <2>2
  <2>4. Reaches(Append(msgs, Assistant({})), {}, Upto(batch))
    BY <2>1, ReachPlain DEF RequestInv
  <2>5. Reaches(Append(Append(msgs, Assistant({})), User), {}, Upto(batch))
    BY <2>4, ReachPlain
  <2> QED
    BY <2>1, <2>3, <2>5, RequestPlain
<1>6. ASSUME NEW tools \in (SUBSET (Reads \cup Writes)) \ {{}}, LLMTools(tools)
      PROVE  RequestInv'
  <2> DEFINE said == Append(msgs, Assistant(calls'))
             reads == ReadOnly(calls')
  <2>1. /\ batch' = batch + 1 /\ calls' = {batch + 1} \X tools
        /\ pc = "llm" /\ pc' = "gate" /\ UNCHANGED <<saved, plan, exec>>
        /\ msgs' = IF reads = {} THEN said ELSE Append(said, Results(reads))
    BY <1>6 DEF LLMTools
  <2>2. /\ IsFiniteSet(calls') /\ calls' \subseteq Upto(batch + 1)
        /\ calls' \cap Upto(batch) = {} /\ Upto(batch) \subseteq Upto(batch + 1)
        /\ calls' \in SUBSET Call
    BY <1>0, <2>1, NextCallsNew, NextCalls
  <2>3. reads \in SUBSET calls' /\ IsFiniteSet(reads) /\ reads \in SUBSET Call
    BY <2>2, FS_Subset DEF ReadOnly
  <2>4. calls' \ reads = Mutating(calls')
    <3>1. \A c \in calls' : c[2] \in Reads \cup Writes
      BY <1>0, <2>1, BatchCalls
    <3> QED
      BY <3>1, TurnLoopAssumption DEF TurnLoopAssumption, ReadOnly, Mutating
  <2>5. Link(Assistant(calls'), {}, Upto(batch), calls', Upto(batch + 1))
    <3>1. Assistant(calls') \in Entry /\ Assistant(calls').role = "assistant"
          /\ Assistant(calls').calls = calls'
      BY <2>2, EntryTypes DEF Assistant
    <3> QED
      BY <2>2, <3>1 DEF Link
  <2>6. Reaches(said, calls', Upto(batch + 1))
    BY <2>1, <2>5, ReachNext DEF RequestInv
  <2>7. Reaches(msgs', Mutating(calls'), Upto(batch + 1))
    <3>1. CASE reads = {}
      <4>1. calls' = Mutating(calls')
        BY <2>4, <3>1
      <4>2. msgs' = said
        BY <2>1, <3>1
      <4> HIDE DEF said
      <4> QED
        BY <2>6, <4>1, <4>2
    <3>2. CASE reads # {}
      <4>1. Results(reads) \in Entry /\ Results(reads).role = "tool"
            /\ Results(reads).calls = reads
        BY <2>3, EntryTypes DEF Results
      <4>2. Link(Results(reads), calls', Upto(batch + 1), Mutating(calls'), Upto(batch + 1))
        BY <2>3, <2>4, <3>2, <4>1 DEF Link
      <4>3. msgs' = Append(said, Results(reads))
        BY <2>1, <3>2
      <4> HIDE DEF said, reads
      <4> QED
        BY <2>6, <4>2, <4>3, ReachNext
    <3> QED
      BY <3>1, <3>2
  <2>8. Reaches(saved.msgs, {}, Upto(batch + 1))
    BY <2>2, ReachMore DEF RequestInv
  <2> HIDE DEF said, reads
  <2> QED
    BY <2>1, <2>2, <2>7, <2>8 DEF RequestInv
<1>7. CASE Hold
  BY <1>7 DEF Hold, ShouldHold
<1>8. CASE Proceed
  <2>1. /\ pc = "gate" /\ pc' = IF Mutating(calls) = {} THEN "round" ELSE "mutate"
        /\ exec' = Mutating(calls) /\ UNCHANGED <<saved, msgs, plan, batch, calls>>
    BY <1>8 DEF Proceed, session
  <2>2. IsFiniteSet(Mutating(calls))
    <3>1. Mutating(calls) \in SUBSET calls
      BY DEF Mutating
    <3> QED
      BY <3>1, FS_Subset DEF RequestInv
  <2>3. CASE Mutating(calls) = {}
    BY <2>1, <2>2, <2>3 DEF RequestInv
  <2>4. CASE Mutating(calls) # {}
    BY <2>1, <2>2, <2>4 DEF RequestInv
  <2> QED
    BY <2>3, <2>4
<1>9. ASSUME NEW c \in todo, RunWrite(c) \/ AskAndRun(c) \/ SkipWrite(c)
      PROVE  RequestInv'
  BY <1>9, RequestFrame DEF RunWrite, AskAndRun, SkipWrite, session, RequestInv
<1>10. CASE AppendResults
  <2>1. msgs' = Append(msgs, Results(exec)) /\ pc = "mutate" /\ pc' = "round"
        /\ UNCHANGED <<saved, batch, calls, exec>> /\ plan' = {}
    BY <1>10 DEF AppendResults, work, RequestInv
  <2>2. Results(exec) \in Entry /\ Results(exec).role = "tool" /\ Results(exec).calls = exec
    BY <1>0, EntryTypes DEF Results
  <2>3. Link(Results(exec), exec, Upto(batch), {}, Upto(batch))
    BY <2>1, <2>2 DEF Link, RequestInv
  <2>4. Reaches(Append(msgs, Results(exec)), {}, Upto(batch))
    BY <2>1, <2>3, ReachNext DEF RequestInv
  <2> QED
    BY <2>1, <2>4, RequestPlain
<1>11. CASE Save \/ LoseTurn
  <2>1. /\ msgs' = << >> /\ plan' = {} /\ pc' = "idle" /\ UNCHANGED batch
        /\ calls' = {} /\ exec' = {}
        /\ \/ pc = "ended" /\ saved'.msgs = msgs /\ saved'.plan = plan
           \/ UNCHANGED saved
    BY <1>11 DEF Save, LoseTurn, Idle
  <2>2. Reaches(<< >>, {}, Upto(batch)) /\ IsFiniteSet({})
    BY ReachNone, FS_EmptySet
  <2> QED
    BY <2>1, <2>2 DEF RequestInv
<1> QED
  BY <1>1, <1>2, <1>3, <1>4, <1>5, <1>6, <1>7, <1>8, <1>9, <1>10, <1>11
     DEF Next, Request, Step, Rounds, Model, Execute

\* What RequestInv says of the history is enough for every request.
LEMMA RequestIsFormed == RequestInv => RequestWellFormed
<1> SUFFICES ASSUME RequestInv, pc = "llm",
                    NEW first \in ProtectFirst, NEW last \in ProtectLast,
                    NEW h \in Compactions(Split(msgs), first, last),
                    NEW g \in Compactions(h, first, last)
             PROVE  WellFormed(Sanitize(g))
  BY DEF RequestWellFormed
<1>1. first \in Nat /\ last \in Nat \ {0}
  BY ModelRequestsAssumption DEF ModelRequestsAssumption
<1>2. Reaches(Split(msgs), {}, Upto(batch))
  BY ReachSplit DEF RequestInv
<1>3. Reaches(h, {}, Upto(batch))
  BY <1>1, <1>2, ReachCompactions
<1>4. Reaches(g, {}, Upto(batch))
  BY <1>1, <1>3, ReachCompactions
<1> QED
  BY <1>4, SanitizedIsFormed

\* Without the plan gate every request is an ordering a provider accepts, however
\* many messages are protected, wherever one or two compactions cut the history.
THEOREM RequestsWellFormed ==
    ASSUME ~PlanGate
    PROVE  Spec => []RequestWellFormed
<1>1. Init => RequestInv
  <2>1. Reaches(<< >>, {}, Upto(batch)) /\ IsFiniteSet({})
    BY ReachNone, FS_EmptySet
  <2> QED
    BY <2>1 DEF Init, RequestInv
<1>2. TurnInv /\ RequestInv /\ [Next]_vars => RequestInv'
  BY StepRequest DEF TurnInv
<1>3. RequestInv => RequestWellFormed
  BY RequestIsFormed
<1> QED
  BY <1>1, <1>2, <1>3, Invariant, PTL DEF Spec

-----------------------------------------------------------------------------
\* Each step of the loop is one step of WriteConsent, or none of it.
THEOREM ConsentStep == TurnInv /\ [Next]_vars => [Consent!Next]_(Consent!vars)
<1> SUFFICES ASSUME TurnInv, [Next]_vars PROVE [Consent!Next]_(Consent!vars)
  OBVIOUS
<1> USE DEF Consent!vars
<1>1. ASSUME NEW text \in {"approve", "reject", "other"}, NEW inter \in BOOLEAN,
             NEW appr \in BOOLEAN, Submit(text, inter, appr)
      PROVE  Consent!BeginTurn
  BY <1>1 DEF Submit, Consent!BeginTurn
<1>2. CASE ResumePlan
  <2>1. Consent!Confirm
    BY <1>2 DEF ResumePlan, Consent!Confirm
  <2> QED
    BY <2>1 DEF Consent!Next
<1>3. CASE CancelPlan \/ BeginTurn
  <2>1. Consent!Drop
    BY <1>3 DEF CancelPlan, BeginTurn, Consent!Drop, turn, work, ghosts
  <2> QED
    BY <2>1 DEF Consent!Next
<1>4. CASE Hold
  <2>1. plan' \subseteq Call
    BY <1>4 DEF Hold, Mutating, TurnInv, TypeOK
  <2>2. Consent!Ask
    BY <1>4, <2>1 DEF Hold, ShouldHold, Consent!Ask, turn, work, ghosts
  <2> QED
    BY <2>2 DEF Consent!Next
<1>5. ASSUME NEW c \in todo, RunWrite(c) PROVE Consent!Run
  BY <1>5 DEF RunWrite, ExecApproved, Ran, Consent!Run, TurnInv, Granted,
              session, turn
<1>6. ASSUME NEW c \in todo, AskAndRun(c) PROVE Consent!ConfirmOne
  BY <1>6 DEF AskAndRun, Ran, Consent!ConfirmOne, session, turn
<1>7. CASE Save \/ LoseTurn
  <2>1. Consent!Settle
    BY <1>7 DEF Save, LoseTurn, Idle, Consent!Settle
  <2> QED
    BY <2>1 DEF Consent!Next
<1>8. CASE \/ Rounds \/ Model \/ Proceed \/ AppendResults
           \/ \E c \in todo : SkipWrite(c)
           \/ Cancel \/ UNCHANGED vars
  BY <1>8 DEF Rounds, FailTurn, CallLLM, BudgetExhausted, Model, LLMError,
              LLMReply, EvalRetry, LLMTools, Proceed, AppendResults, SkipWrite,
              Cancel, vars, session, turn, work, ghosts
<1> QED
  BY <1>1, <1>2, <1>3, <1>4, <1>5, <1>6, <1>7, <1>8
     DEF Next, Request, Step, Prepare, Execute, Consent!Next

\* The loop implements WriteConsent.
THEOREM Implements == Spec => ImplementsConsent
<1>1. Init => Consent!Init
  BY DEF Init, Consent!Init
<1> QED
  BY <1>1, ConsentStep, Invariant, PTL DEF Spec, ImplementsConsent, Consent!Spec
=============================================================================
