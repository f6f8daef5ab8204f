------------------------------ MODULE TurnLoop ------------------------------
(***************************************************************************)
(* One chat session and the turns that run on it, one after the other: the *)
(* ReAct loop of internal/agent (RunTurn, runRound, applyToolRound), its   *)
(* plan gate (a turn that proposes a write stops and waits for the user),  *)
(* its quality retry and call budget, the cancellation of the request, and *)
(* the load and save of the session around every turn.                     *)
(*                                                                         *)
(* A tool call is <<batch, tool>>: the assistant message that proposed it  *)
(* (call ids are fresh per message) and the tool.  A history entry is      *)
(* [role, calls]; the tool messages one ExecuteBatch appends are one       *)
(* entry.  Contents, system prompt, compression and step records are not   *)
(* modelled.                                                               *)
(***************************************************************************)
EXTENDS Integers, Sequences

CONSTANTS
    MaxToolRounds,   \* Loop.maxToolRounds, 1..90
    EvalMaxRetries,  \* Loop.evalMaxRetries, 0 or 1
    PlanGate,        \* ToolExec.planGate
    Reads, Writes,   \* the tools: read-only, and those ApprovalRequired names
    MaxTurns,        \* bound: turns the user submits
    MaxLosses        \* bound: crashes and failed saves

ASSUME TurnLoopAssumption ==
    /\ MaxToolRounds \in 1..90
    /\ EvalMaxRetries \in 0..1
    /\ PlanGate \in BOOLEAN
    /\ Reads \cap Writes = {}
    /\ MaxTurns \in Nat
    /\ MaxLosses \in Nat

VARIABLES
    saved,        \* the session in the store: [msgs, plan]
    msgs, plan,   \* Session.Messages and Session.PendingPlan ({} is nil)
    pc,           \* where the turn stands; "idle" between turns
    userText,     \* what the plan policy makes of the user's text
    interactive,  \* toolCtx.Interactive
    pre,          \* toolCtx.Approved as the request set it
    approved,     \* toolCtx.Approved now
    resumed,      \* the turn runs in resumePendingPlan, not runPreparedTurn
    round,        \* model calls begun in this turn's loop
    evalLeft,     \* evalRetriesLeft
    batch,        \* assistant messages with tool calls so far (fresh ids)
    calls,        \* resp.ToolCalls of the round in progress
    todo,         \* writes of the batch in execution not yet reached
    exec,         \* the writes of the batch in execution
    cancelled     \* ctx.Err() # nil
VARIABLES                    \* history of the user's decisions and of the runs
    confirmed,    \* writes the user confirmed
    dropped,      \* held writes a saved turn threw away
    ran, twice,   \* writes that ran; that ran again
    turns, losses

session == <<msgs, plan>>
turn    == <<userText, interactive, pre, approved, resumed, round, evalLeft>>
work    == <<batch, calls, todo, exec>>
ghosts  == <<confirmed, dropped, ran, twice, turns, losses>>
vars    == <<saved, session, pc, turn, work, cancelled, ghosts>>

User         == [role |-> "user", calls |-> {}]
Assistant(S) == [role |-> "assistant", calls |-> S]
Results(S)   == [role |-> "tool", calls |-> S]

Call == (Nat \ {0}) \X (Reads \cup Writes)
Mutating(S) == {c \in S : c[2] \in Writes}      \* partitionToolCalls
ReadOnly(S) == {c \in S : c[2] \in Reads}

-----------------------------------------------------------------------------
Init ==
    /\ saved = [msgs |-> << >>, plan |-> {}]
    /\ msgs = << >> /\ plan = {}
    /\ pc = "idle"
    /\ userText = "other" /\ interactive = TRUE /\ pre = FALSE
    /\ approved = FALSE /\ resumed = FALSE /\ round = 0 /\ evalLeft = 0
    /\ batch = 0 /\ calls = {} /\ todo = {} /\ exec = {}
    /\ cancelled = FALSE
    /\ confirmed = {} /\ dropped = {} /\ ran = {} /\ twice = {}
    /\ turns = 0 /\ losses = 0

\* A request loads the session, sets the tool context and appends its message.
Submit(text, inter, appr) ==
    /\ pc = "idle" /\ turns < MaxTurns
    /\ pc' = "start"
    /\ msgs' = Append(saved.msgs, User) /\ plan' = saved.plan
    /\ userText' = text /\ interactive' = inter
    /\ pre' = appr /\ approved' = appr
    /\ turns' = turns + 1
    /\ UNCHANGED <<saved, resumed, round, evalLeft, work, cancelled,
                   confirmed, dropped, ran, twice, losses>>

-----------------------------------------------------------------------------
\* The pending plan (runPreparedTurn, first lines).

\* Mutant: the resumed plan is not taken out of the session.
ResumePlan_KeepsPlan ==
    /\ pc = "start" /\ plan # {} /\ userText = "approve"
    /\ pc' = "mutate"
    /\ todo' = plan /\ exec' = plan
    /\ approved' = TRUE /\ resumed' = TRUE
    /\ confirmed' = confirmed \cup plan
    /\ UNCHANGED <<saved, session, userText, interactive, pre, round, evalLeft,
                   batch, calls, cancelled, dropped, ran, twice, turns, losses>>

ResumePlan ==
    /\ pc = "start" /\ plan # {} /\ userText = "approve"
    /\ pc' = "mutate"
    /\ plan' = {} /\ todo' = plan /\ exec' = plan
    /\ approved' = TRUE /\ resumed' = TRUE
    /\ confirmed' = confirmed \cup plan
    /\ UNCHANGED <<saved, msgs, userText, interactive, pre, round, evalLeft,
                   batch, calls, cancelled, dropped, ran, twice, turns, losses>>

CancelPlan ==
    /\ pc = "start" /\ plan # {} /\ userText = "reject"
    /\ pc' = "ended" /\ plan' = {}
    /\ UNCHANGED <<saved, msgs, turn, work, cancelled, ghosts>>

\* Mutant: another request leaves the held plan pending.
BeginTurn_KeepsPlan ==
    /\ pc = "start" /\ (plan = {} \/ userText = "other")
    /\ pc' = "round"
    /\ evalLeft' = EvalMaxRetries
    /\ UNCHANGED <<saved, session, userText, interactive, pre, approved, resumed,
                   round, work, cancelled, ghosts>>

BeginTurn ==
    /\ pc = "start" /\ (plan = {} \/ userText = "other")
    /\ pc' = "round" /\ plan' = {}
    /\ evalLeft' = EvalMaxRetries
    /\ UNCHANGED <<saved, msgs, userText, interactive, pre, approved, resumed,
                   round, work, cancelled, ghosts>>

-----------------------------------------------------------------------------
\* The round loop of runPreparedTurn and of resumePendingPlan.

FailTurn ==
    /\ pc = "round" /\ round < MaxToolRounds /\ cancelled
    /\ pc' = "ended"
    /\ UNCHANGED <<saved, session, turn, work, cancelled, ghosts>>

CallLLM ==
    /\ pc = "round" /\ round < MaxToolRounds /\ ~cancelled
    /\ pc' = "llm" /\ round' = round + 1
    /\ UNCHANGED <<saved, session, userText, interactive, pre, approved,
                   resumed, evalLeft, work, cancelled, ghosts>>

\* Mutant: a spent budget is noticed one round late.
BudgetExhausted_OffByOne ==
    /\ pc = "round" /\ round > MaxToolRounds
    /\ pc' = "ended"
    /\ msgs' = Append(msgs, Assistant({}))
    /\ UNCHANGED <<saved, plan, turn, work, cancelled, ghosts>>

\* finishBudgetExhausted: one more call without tools, or a canned summary.
BudgetExhausted ==
    /\ pc = "round" /\ round = MaxToolRounds
    /\ pc' = "ended"
    /\ msgs' = Append(msgs, Assistant({}))
    /\ UNCHANGED <<saved, plan, turn, work, cancelled, ghosts>>

LLMError ==
    /\ pc = "llm"
    /\ pc' = "ended"
    /\ UNCHANGED <<saved, session, turn, work, cancelled, ghosts>>

LLMReply ==
    /\ pc = "llm"
    /\ pc' = "ended"
    /\ msgs' = Append(msgs, Assistant({}))
    /\ UNCHANGED <<saved, plan, turn, work, cancelled, ghosts>>

\* The evaluator rejects the reply and the turn has a retry left.
EvalRetry ==
    /\ pc = "llm" /\ ~resumed /\ evalLeft > 0
    /\ pc' = "round"
    /\ evalLeft' = evalLeft - 1
    /\ msgs' = msgs \o <<Assistant({}), User>>
    /\ UNCHANGED <<saved, plan, userText, interactive, pre, approved, resumed,
                   round, work, cancelled, ghosts>>

\* Mutant: every call of the message is answered before the writes ran.
LLMTools_AnswersAll(tools) ==
    /\ pc = "llm"
    /\ pc' = "gate"
    /\ batch' = batch + 1
    /\ calls' = {batch + 1} \X tools
    /\ msgs' = msgs \o <<Assistant(calls'), Results(calls')>>
    /\ UNCHANGED <<saved, plan, turn, todo, exec, cancelled, ghosts>>

\* applyToolRound: append the message, run its read-only calls, append theirs.
LLMTools(tools) ==
    /\ pc = "llm"
    /\ pc' = "gate"
    /\ batch' = batch + 1
    /\ calls' = {batch + 1} \X tools
    /\ msgs' = LET said == Append(msgs, Assistant(calls'))
               IN  IF ReadOnly(calls') = {} THEN said
                   ELSE Append(said, Results(ReadOnly(calls')))
    /\ UNCHANGED <<saved, plan, turn, todo, exec, cancelled, ghosts>>

\* Mutant: the approval is tested the wrong way round.
ShouldHold_Inverted(S) == PlanGate /\ interactive /\ approved /\ S # {}

ShouldHold(S) == PlanGate /\ interactive /\ ~approved /\ S # {}

\* Mutant: the turn goes on after the hold.
Hold_FallsThrough ==
    /\ pc = "gate" /\ ShouldHold(Mutating(calls))
    /\ pc' = "mutate"
    /\ plan' = Mutating(calls)
    /\ todo' = Mutating(calls) /\ exec' = Mutating(calls)
    /\ UNCHANGED <<saved, msgs, turn, batch, calls, cancelled, ghosts>>

Hold ==
    /\ pc = "gate" /\ ShouldHold(Mutating(calls))
    /\ pc' = "ended"
    /\ plan' = Mutating(calls)
    /\ UNCHANGED <<saved, msgs, turn, work, cancelled, ghosts>>

Proceed ==
    /\ pc = "gate" /\ ~ShouldHold(Mutating(calls))
    /\ pc' = IF Mutating(calls) = {} THEN "round" ELSE "mutate"
    /\ todo' = Mutating(calls) /\ exec' = Mutating(calls)
    /\ UNCHANGED <<saved, session, turn, batch, calls, cancelled, ghosts>>

-----------------------------------------------------------------------------
\* ExecuteBatch over the writes.

\* Inside applyToolRound the plan gate, once passed, lends its approval.
ExecApproved == approved \/ PlanGate

Ran(c) ==
    /\ ran' = ran \cup {c}
    /\ twice' = IF c \in ran THEN twice \cup {c} ELSE twice

RunWrite(c) ==
    /\ pc = "mutate" /\ c \in todo /\ ~cancelled
    /\ ~interactive \/ ExecApproved
    /\ todo' = todo \ {c}
    /\ Ran(c)
    /\ UNCHANGED <<saved, session, pc, turn, batch, calls, exec, cancelled,
                   confirmed, dropped, turns, losses>>

\* With the plan gate off the approval function asks about each call.
AskAndRun(c) ==
    /\ pc = "mutate" /\ c \in todo /\ ~cancelled
    /\ interactive /\ ~ExecApproved
    /\ todo' = todo \ {c}
    /\ confirmed' = confirmed \cup {c}
    /\ Ran(c)
    /\ UNCHANGED <<saved, session, pc, turn, batch, calls, exec, cancelled,
                   dropped, turns, losses>>

\* A call the approval function refuses, or a cancelled one: a result, no run.
SkipWrite(c) ==
    /\ pc = "mutate" /\ c \in todo
    /\ cancelled \/ (interactive /\ ~ExecApproved)
    /\ todo' = todo \ {c}
    /\ UNCHANGED <<saved, session, pc, turn, batch, calls, exec, cancelled,
                   ghosts>>

AppendResults ==
    /\ pc = "mutate" /\ todo = {}
    /\ pc' = "round"
    /\ msgs' = Append(msgs, Results(exec))
    /\ UNCHANGED <<saved, plan, turn, work, cancelled, ghosts>>

-----------------------------------------------------------------------------
\* The end of the request: SyncChatFromRuntime and Save, or their loss.

Idle ==
    /\ pc' = "idle"
    /\ msgs' = << >> /\ plan' = {}
    /\ userText' = "other" /\ interactive' = TRUE /\ pre' = FALSE
    /\ approved' = FALSE /\ resumed' = FALSE /\ round' = 0 /\ evalLeft' = 0
    /\ calls' = {} /\ todo' = {} /\ exec' = {}
    /\ cancelled' = FALSE
    /\ UNCHANGED <<batch, confirmed, ran, twice, turns>>

Save ==
    /\ pc = "ended"
    /\ saved' = [msgs |-> msgs, plan |-> plan]
    /\ dropped' = IF userText = "approve" THEN dropped
                                          ELSE dropped \cup saved.plan
    /\ Idle
    /\ UNCHANGED losses

\* The process dies during the turn, or the store refuses the save.
LoseTurn ==
    /\ pc # "idle" /\ losses < MaxLosses
    /\ losses' = losses + 1
    /\ Idle
    /\ UNCHANGED <<saved, dropped>>

\* The client goes away, or the turn's deadline passes.
Cancel ==
    /\ pc \notin {"idle", "ended"} /\ ~cancelled
    /\ cancelled' = TRUE
    /\ UNCHANGED <<saved, session, pc, turn, work, ghosts>>

-----------------------------------------------------------------------------
Prepare == ResumePlan \/ CancelPlan \/ BeginTurn
Rounds  == FailTurn \/ CallLLM \/ BudgetExhausted
Model   == \/ LLMError \/ LLMReply \/ EvalRetry
           \/ \E tools \in (SUBSET (Reads \cup Writes)) \ {{}} : LLMTools(tools)
Execute == \/ Hold \/ Proceed \/ AppendResults
           \/ \E c \in todo : RunWrite(c) \/ AskAndRun(c) \/ SkipWrite(c)
Step    == Prepare \/ Rounds \/ Model \/ Execute \/ Save

Request == \E text \in {"approve", "reject", "other"}, inter, appr \in BOOLEAN :
               Submit(text, inter, appr)

Next == Request \/ Step \/ Cancel \/ LoseTurn

Spec == Init /\ [][Next]_vars

\* Every tool and model call returns (both run under a timeout) and the request
\* handler goes on; the user, the client and failures owe nothing.
FairSpec == Spec /\ WF_vars(Step)

-----------------------------------------------------------------------------
Entry == [role : {"user", "assistant", "tool"}, calls : SUBSET Call]
PC    == {"idle", "start", "round", "llm", "gate", "mutate", "ended"}

\* Types; a turn never begins more model calls than its budget.
TypeOK ==
    /\ saved \in [msgs : Seq(Entry), plan : SUBSET Call]
    /\ msgs \in Seq(Entry) /\ plan \subseteq Call
    /\ pc \in PC
    /\ userText \in {"approve", "reject", "other"}
    /\ interactive \in BOOLEAN /\ pre \in BOOLEAN /\ approved \in BOOLEAN
    /\ resumed \in BOOLEAN /\ cancelled \in BOOLEAN
    /\ round \in 0..MaxToolRounds /\ evalLeft \in 0..EvalMaxRetries
    /\ batch \in Nat
    /\ calls \subseteq Call /\ exec \subseteq Call /\ todo \subseteq exec
    /\ confirmed \subseteq Call /\ dropped \subseteq Call
    /\ ran \subseteq Call /\ twice \subseteq ran
    /\ turns \in Nat /\ losses \in Nat

\* A write about to run in an interactive turn under the plan gate was confirmed
\* by the user, or its request came pre-approved, or the same turn began with
\* the user's confirmation of a held plan.
MutationConsent ==
    pc = "mutate" /\ PlanGate /\ interactive
        => todo \subseteq confirmed \/ pre \/ resumed

\* Writes the user refused (or answered with another request) in a turn that was
\* saved are never scheduled nor held again.
RejectedStaysRejected == (todo \cup plan \cup saved.plan) \cap dropped = {}

\* A write runs a second time only when a turn's save was lost.
RerunOnlyAfterLoss == twice # {} => losses > 0

\* Tool messages answer calls made earlier in the history, each at most once.
ResultsAnswerCalls ==
    \A h \in {msgs, saved.msgs} : \A j \in 1..Len(h) :
        h[j].role = "tool" =>
            /\ h[j].calls \subseteq
                   UNION {h[i].calls : i \in {k \in 1..(j-1) : h[k].role = "assistant"}}
            /\ \A i \in 1..(j-1) :
                   h[i].role = "tool" => h[i].calls \cap h[j].calls = {}

\* Every submitted turn ends, whatever the model proposes.
TurnEnds == (pc # "idle") ~> (pc = "idle")

-----------------------------------------------------------------------------
\* The inductive invariant behind the theorems of TurnLoopProofs.

\* Past the gate an interactive turn is approved, and an approval has a cause.
Granted ==
    /\ pc = "mutate" /\ PlanGate /\ interactive => approved
    /\ approved => pre \/ resumed

\* Where a held plan and unfinished writes can be.
PlanPlaces ==
    /\ pc \notin {"start", "ended"} => plan = {}
    /\ pc = "start" => plan = saved.plan
    /\ todo # {} => pc = "mutate"

\* Call ids are fresh: no known call belongs to a message still to come.
Fresh == \A c \in ran \cup dropped \cup saved.plan \cup plan \cup calls \cup todo :
             c[1] <= batch

\* The calls at the gate and a newly held plan are not the stored plan again.
NewPlanIsNew ==
    /\ pc = "gate" => calls \cap (dropped \cup saved.plan) = {}
    /\ pc = "ended" => plan \cap saved.plan = {}

\* Without losses, whatever may still run has not run.
OnceWithoutLoss == losses = 0 =>
    /\ (todo \cup plan) \cap ran = {} /\ twice = {}
    /\ pc \in {"idle", "start"} => saved.plan \cap ran = {}
    /\ pc = "gate" => calls \cap ran = {}

TurnInv == /\ TypeOK /\ Granted /\ PlanPlaces /\ Fresh /\ NewPlanIsNew
           /\ RejectedStaysRejected /\ OnceWithoutLoss

-----------------------------------------------------------------------------
\* The promise of the plan gate, kept by the loop: the turn's standing grant is
\* a request that is pre-approved or not interactive, or a confirmed plan.
\* With the gate off the approval function decides each call.
Consent == INSTANCE WriteConsent WITH
    asked     <- IF pc = "idle" THEN saved.plan ELSE plan,
    durable   <- saved.plan,
    consented <- confirmed,
    grant     <- pc # "idle" /\ (approved \/ ~interactive)

ImplementsConsent == Consent!Spec
=============================================================================
