-------------------------- MODULE SessionRequests --------------------------
(***************************************************************************)
(* The HTTP requests that run turns on the one Agent of agent-runtime      *)
(* (internal/runtimeapi): which of them hold chatMu and when, when each    *)
(* loads and saves its session, what each sets on the shared Agent (the    *)
(* user's model gateway, the progress sink, the plan gate and the approval *)
(* function) and puts back, and the clarify call of a streamed turn, which *)
(* gives chatMu away while it waits for its user.  A turn itself is what   *)
(* TurnLoop makes of it: it answers the plan it finds pending, may ask,    *)
(* may hold a plan of its own.  Access checks, live state and memory are   *)
(* not modelled.                                                           *)
(***************************************************************************)
EXTENDS Integers

CONSTANTS
    Request,    \* the requests
    Session,    \* stored chat sessions
    None,       \* no request, no plan
    Base,       \* App.Gateway; the gateway of a request without a user
    KindOf,     \* [Request -> Kind]
    SessionOf,  \* [Request -> Session]
    GatewayOf,  \* [Request -> gateways]: what the user's settings build
    TextOf,     \* [Request -> Text]: what the plan policy makes of the text
    PreOf,      \* [Request -> BOOLEAN]: X-Approve-Writes
    GateConfig, \* Config.EffectivePlanGate
    MaxAsks,    \* bound: [Request -> Nat], the clarify calls of each
    MaxFails    \* bound: saves the store refuses

\* POST /v1/chat/stream, /v1/chat/plan, /v1/chat/flow/resume,
\* /v1/chat/completions, and a turn of an evaluation job.
Kind == {"stream", "plan", "flow", "completion", "eval"}
Text == {"approve", "reject", "other"}

ASSUME SessionRequestsAssumption ==
    /\ None \notin Request
    /\ KindOf \in [Request -> Kind]
    /\ SessionOf \in [Request -> Session]
    /\ TextOf \in [Request -> Text]
    /\ PreOf \in [Request -> BOOLEAN]
    /\ GateConfig \in BOOLEAN
    /\ MaxAsks \in [Request -> Nat] /\ MaxFails \in Nat

VARIABLES
    pc,          \* where each request stands
    chatMu,      \* Handler.chatMu: its holder
    agentGw, progress, gate, approveAll,
                 \* Agent.Gateway; whose sink SetProgress set; the plan gate;
                 \* whether the approval function says yes to everything
    prev,        \* withUserAgentGateway's prev
    store,       \* each session: the turns it records, the plan it holds
    loaded,      \* the session as each request has it
    answered,    \* the pending plan each request's turn answered
    settled,     \* plans whose answering turn was saved
    borrowed,    \* requests that ran a write nobody approved for them
    asks, fails

shared == <<agentGw, progress, gate, approveAll>>
sess   == <<store, loaded>>
ghosts == <<answered, settled, borrowed>>
bounds == <<asks, fails>>
vars   == <<pc, chatMu, shared, prev, sess, ghosts, bounds>>

Go(r, place) == pc' = [pc EXCEPT ![r] = place]
LoadSession(r) == loaded' = [loaded EXCEPT ![r] = store[SessionOf[r]]]

\* Requests that load their session only under chatMu.
LoadsLocked(r) == KindOf[r] \in {"stream", "eval"}
Plan(r) == loaded[r].plan

-----------------------------------------------------------------------------
Init ==
    /\ pc = [r \in Request |-> "new"]
    /\ chatMu = None
    /\ agentGw = Base /\ progress = None
    /\ gate = GateConfig /\ approveAll = FALSE
    /\ prev = [r \in Request |-> Base]
    /\ store = [s \in Session |-> [turns |-> {}, plan |-> None]]
    /\ loaded = [r \in Request |-> [turns |-> {}, plan |-> None]]
    /\ answered = [r \in Request |-> None]
    /\ settled = {} /\ borrowed = {}
    /\ asks = [r \in Request |-> 0] /\ fails = 0

\* chatPlan and chatFlowResume load before they queue for chatMu; chatPlan
\* turns back without a pending plan, chatFlowResume without a workflow.
ArriveLoaded(r) ==
    /\ pc[r] = "new" /\ KindOf[r] \in {"plan", "flow"}
    /\ LoadSession(r)
    /\ IF KindOf[r] = "plan"
       THEN Go(r, IF store[SessionOf[r]].plan = None THEN "done" ELSE "queued")
       ELSE Go(r, "queued") \/ Go(r, "done")
    /\ UNCHANGED <<chatMu, shared, prev, store, ghosts, bounds>>

Arrive(r) ==
    /\ pc[r] = "new" /\ KindOf[r] \in {"stream", "eval"}
    /\ Go(r, "queued")
    /\ UNCHANGED <<chatMu, shared, prev, sess, ghosts, bounds>>

\* chatCompletions takes no lock and has a session of its own.
ArriveUnlocked(r) ==
    /\ pc[r] = "new" /\ KindOf[r] = "completion"
    /\ Go(r, "ready")
    /\ UNCHANGED <<chatMu, shared, prev, sess, ghosts, bounds>>

\* What a handler sets on the Agent once it holds chatMu.
SetAgent(r) ==
    /\ progress' = CASE KindOf[r] = "stream" -> r
                     [] KindOf[r] = "eval"   -> None
                     [] OTHER                -> progress
    /\ gate' = CASE KindOf[r] = "eval" -> FALSE
                 [] KindOf[r] = "flow" -> gate
                 [] OTHER              -> GateConfig
    /\ approveAll' = CASE KindOf[r] = "eval" -> TRUE
                       [] KindOf[r] = "flow" -> approveAll
                       [] OTHER              -> PreOf[r]

\* Mutant: a stream loads its session before it queues.
Enter_LoadedEarly(r) ==
    /\ pc[r] = "queued" /\ chatMu = None
    /\ chatMu' = r
    /\ SetAgent(r)
    /\ Go(r, "ready")
    /\ UNCHANGED <<agentGw, prev, sess, ghosts, bounds>>

Enter(r) ==
    /\ pc[r] = "queued" /\ chatMu = None
    /\ KindOf[r] = "plan" => TextOf[r] # "other"
    /\ chatMu' = r
    /\ IF LoadsLocked(r) THEN LoadSession(r) ELSE UNCHANGED loaded
    /\ SetAgent(r)
    /\ Go(r, "ready")
    /\ UNCHANGED <<agentGw, prev, store, ghosts, bounds>>

\* The session cannot be loaded; a plan request says neither yes nor no.
EnterFails(r) ==
    /\ pc[r] = "queued" /\ chatMu = None
    /\ \/ LoadsLocked(r) /\ UNCHANGED shared
       \/ KindOf[r] = "plan" /\ TextOf[r] = "other" /\ SetAgent(r) /\ UNCHANGED agentGw
    /\ Go(r, "done")
    /\ UNCHANGED <<chatMu, prev, sess, ghosts, bounds>>

\* withUserAgentGateway: without a user the Agent keeps what it has.
SwapGateway(r) ==
    /\ pc[r] = "ready"
    /\ IF GatewayOf[r] = Base
       THEN UNCHANGED <<agentGw, prev>>
       ELSE agentGw' = GatewayOf[r] /\ prev' = [prev EXCEPT ![r] = agentGw]
    /\ Go(r, "begin")
    /\ UNCHANGED <<chatMu, progress, gate, approveAll, sess, ghosts, bounds>>

-----------------------------------------------------------------------------
\* The turn.

\* The first thing a turn does is to answer the plan its session holds, and to
\* end there when the answer is no.
BeginTurn(r) ==
    /\ pc[r] = "begin"
    /\ answered' = [answered EXCEPT ![r] = Plan(r)]
    /\ loaded' = [loaded EXCEPT ![r].plan = None]
    /\ Go(r, IF Plan(r) # None /\ TextOf[r] = "reject" THEN "restore" ELSE "run")
    /\ UNCHANGED <<chatMu, shared, prev, store, settled, borrowed, bounds>>

\* toolCtx.Approved, or a turn that is not interactive.
Approved(r) == \/ PreOf[r] \/ KindOf[r] = "eval"
               \/ answered[r] # None /\ TextOf[r] = "approve"

\* The model proposes writes: the plan gate holds them and ends the turn.
Hold(r) ==
    /\ pc[r] = "run" /\ gate /\ ~Approved(r)
    /\ loaded' = [loaded EXCEPT ![r].plan = r]
    /\ Go(r, "restore")
    /\ UNCHANGED <<chatMu, shared, prev, store, ghosts, bounds>>

\* Without the gate the approval function decides; a yes-to-all one belongs to
\* some other request.
RunUnapproved(r) ==
    /\ pc[r] = "run" /\ ~gate /\ approveAll /\ ~Approved(r)
    /\ borrowed' = borrowed \cup {r}
    /\ UNCHANGED <<pc, chatMu, shared, prev, sess, answered, settled, bounds>>

EndTurn(r) ==
    /\ pc[r] = "run"
    /\ Go(r, "restore")
    /\ UNCHANGED <<chatMu, shared, prev, sess, ghosts, bounds>>

\* Mutant: chatMu is kept while the user thinks.
Ask_KeepsLock(r) ==
    /\ pc[r] = "run" /\ KindOf[r] = "stream" /\ asks[r] < MaxAsks[r]
    /\ asks' = [asks EXCEPT ![r] = @ + 1]
    /\ progress' = None
    /\ Go(r, "asked")
    /\ UNCHANGED <<chatMu, agentGw, gate, approveAll, prev, sess, ghosts, fails>>

\* The ClarifyFn of a streamed turn.
Ask(r) ==
    /\ pc[r] = "run" /\ KindOf[r] = "stream" /\ asks[r] < MaxAsks[r]
    /\ asks' = [asks EXCEPT ![r] = @ + 1]
    /\ progress' = None
    /\ chatMu' = None
    /\ Go(r, "asked")
    /\ UNCHANGED <<agentGw, gate, approveAll, prev, sess, ghosts, fails>>

\* Mutant: the gateway is not set again.
Wake_ForeignGateway(r) ==
    /\ pc[r] = "asked" /\ chatMu = None
    /\ chatMu' = r
    /\ progress' = r
    /\ Go(r, "run")
    /\ UNCHANGED <<agentGw, gate, approveAll, prev, sess, ghosts, bounds>>

\* Answered, picked or cancelled, the turn takes chatMu and the Agent back.
Wake(r) ==
    /\ pc[r] = "asked" /\ chatMu = None
    /\ chatMu' = r
    /\ agentGw' = GatewayOf[r]
    /\ progress' = r
    /\ Go(r, "run")
    /\ UNCHANGED <<gate, approveAll, prev, sess, ghosts, bounds>>

-----------------------------------------------------------------------------
Restore(r) ==
    /\ pc[r] = "restore"
    /\ agentGw' = IF GatewayOf[r] = Base THEN agentGw ELSE prev[r]
    /\ Go(r, "save")
    /\ UNCHANGED <<chatMu, progress, gate, approveAll, prev, sess, ghosts, bounds>>

\* Mutant: the metadata of an answered plan is not deleted.
SaveSession_KeepsPlan(r) ==
    /\ store' = [store EXCEPT ![SessionOf[r]] =
                    [turns |-> loaded[r].turns \cup {r},
                     plan  |-> IF Plan(r) = None THEN @.plan ELSE Plan(r)]]
    /\ settled' = settled \cup ({answered[r]} \ {None})
    /\ UNCHANGED fails

\* SyncChatFromRuntime and Save, or a save the store refuses.
SaveSession(r) ==
    \/ /\ store' = [store EXCEPT ![SessionOf[r]] =
                       [turns |-> loaded[r].turns \cup {r}, plan |-> Plan(r)]]
       /\ settled' = settled \cup ({answered[r]} \ {None})
       /\ UNCHANGED fails
    \/ /\ fails < MaxFails
       /\ fails' = fails + 1
       /\ UNCHANGED <<store, settled>>

\* Mutant: an evaluation turn leaves its approval function on the Agent.
ResetAgent_Forgotten(r) ==
    /\ progress' = IF KindOf[r] = "stream" THEN None ELSE progress
    /\ UNCHANGED <<gate, approveAll>>

\* The deferred resets, before chatMu is given back.
ResetAgent(r) ==
    /\ progress' = IF KindOf[r] = "stream" THEN None ELSE progress
    /\ IF KindOf[r] = "eval" THEN gate' = GateConfig /\ approveAll' = FALSE
                             ELSE UNCHANGED <<gate, approveAll>>

Leave(r) ==
    /\ pc[r] = "save" /\ KindOf[r] # "completion"
    /\ SaveSession(r)
    /\ ResetAgent(r)
    /\ chatMu' = None
    /\ Go(r, "done")
    /\ UNCHANGED <<agentGw, prev, loaded, answered, borrowed, asks>>

LeaveUnlocked(r) ==
    /\ pc[r] = "save" /\ KindOf[r] = "completion"
    /\ Go(r, "done")
    /\ UNCHANGED <<chatMu, shared, prev, sess, ghosts, bounds>>

Begin(r) == ArriveLoaded(r) \/ Arrive(r) \/ ArriveUnlocked(r)
Locked(r) == Enter(r) \/ EnterFails(r) \/ SwapGateway(r)
Turn(r) == BeginTurn(r) \/ Hold(r) \/ RunUnapproved(r) \/ EndTurn(r) \/ Ask(r)
End(r) == Restore(r) \/ Leave(r) \/ LeaveUnlocked(r)

\* What the server does for a request of its own accord.
Serve(r) == Locked(r) \/ Turn(r) \/ End(r)
Next == \E r \in Request : Begin(r) \/ Serve(r) \/ Wake(r)

Spec == Init /\ [][Next]_vars

\* The server works on; clients need not come and users need not answer.
FairSpec == Spec /\ \A r \in Request : WF_vars(Serve(r))

-----------------------------------------------------------------------------
InTurn  == {"begin", "run"}
HasMu   == {"ready", "begin", "run", "restore", "save"}
Place   == {"new", "queued", "asked", "done"} \cup HasMu
Gateway == {Base} \cup {GatewayOf[r] : r \in Request}
Chat    == [turns : SUBSET Request, plan : Request \cup {None}]

TypeOK ==
    /\ pc \in [Request -> Place]
    /\ chatMu \in Request \cup {None}
    /\ agentGw \in Gateway /\ progress \in Request \cup {None}
    /\ gate \in BOOLEAN /\ approveAll \in BOOLEAN
    /\ prev \in [Request -> Gateway]
    /\ store \in [Session -> Chat]
    /\ loaded \in [Request -> Chat]
    /\ answered \in [Request -> Request \cup {None}]
    /\ settled \subseteq Request /\ borrowed \subseteq Request
    /\ asks \in [Request -> Nat] /\ fails \in 0..MaxFails

\* Every turn talks to the model through its own user's gateway and reports to
\* its own stream only ("serializes SetProgress wiring", "serializes per-user
\* Agent gateway swaps", handler.go).
OwnsAgent(r) ==
    /\ agentGw = GatewayOf[r]
    /\ progress = IF KindOf[r] = "stream" THEN r ELSE None

AgentIsMine == \A r \in Request : pc[r] \in InTurn => OwnsAgent(r)

\* A held plan is answered once: executed by one turn, and not at all after a
\* turn that refused or dropped it was saved ("y" executes, "n" gives up).
PlanAnsweredOnce ==
    [][\A r \in Request : answered'[r] # answered[r] => answered'[r] \notin settled]_vars

\* No turn is saved over another turn of its session.
HistoryKept ==
    [][\A s \in Session : store[s].turns \subseteq store'[s].turns]_store

\* The turns of a session take effect one at a time, when they are saved: each
\* has loaded the session as it is then but for the turn itself, and answered
\* the plan that is stored then.
Serial == INSTANCE SerialTurns WITH
    TurnId <- Request,
    turns <- [s \in Session |-> store[s].turns],
    plan  <- [s \in Session |-> store[s].plan],
    took  <- [r \in Request |-> IF r \in store[SessionOf[r]].turns THEN answered[r] ELSE None]

ImplementsSerial == Serial!Spec

\* No request that holds chatMu while it runs executes a write on another
\* request's X-Approve-Writes, nor on the approval an evaluation gives to all.
HoldersOwnApproval == \A r \in borrowed : KindOf[r] = "completion"

\* "Waiting for the user must not freeze every other chat behind chatMu"
\* (chat_stream.go): a request that came is served though others wait forever.
ServedWhileOthersAsk ==
    \A r \in Request : (pc[r] = "queued") ~> (pc[r] \in {"asked", "done"})

=============================================================================
