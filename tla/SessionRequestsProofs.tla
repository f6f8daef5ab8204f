----------------------- MODULE SessionRequestsProofs -----------------------
(***************************************************************************)
(* What chatMu is worth, for any number of requests and sessions: if every *)
(* request takes it and every request comes from a user, a turn always     *)
(* finds its own gateway and sink on the shared Agent, clarify calls or    *)
(* not; with the plan gate on, no request that holds chatMu uses an        *)
(* approval that is not its own, whatever the unlocked ones do; and what   *)
(* is loaded under chatMu is not saved over another turn, so that turns    *)
(* take effect one at a time (SerialTurns).                                *)
(***************************************************************************)
EXTENDS SessionRequests, TLAPS

\* No chatCompletions request, and user settings behind every request: without
\* either AgentIsMine is refuted by TLC.
AllLocked == \A r \in Request : KindOf[r] # "completion"
AllUsers  == \A r \in Request : GatewayOf[r] # Base

LEMMA RequestTypes ==
    /\ None \notin Request
    /\ \A r \in Request : /\ KindOf[r] \in Kind /\ SessionOf[r] \in Session
                          /\ TextOf[r] \in Text /\ PreOf[r] \in BOOLEAN
                          /\ MaxAsks[r] \in Nat
    /\ GateConfig \in BOOLEAN /\ MaxFails \in Nat
BY SessionRequestsAssumption DEF SessionRequestsAssumption

-----------------------------------------------------------------------------
THEOREM InitTypes == Init => TypeOK
<1> SUFFICES ASSUME Init PROVE TypeOK
  OBVIOUS
<1> USE RequestTypes DEF Init
<1>1. [turns |-> {}, plan |-> None] \in Chat
  BY DEF Chat
<1>2. store \in [Session -> Chat] /\ loaded \in [Request -> Chat]
  BY <1>1
<1>3. Base \in Gateway
  BY DEF Gateway
<1>4. agentGw \in Gateway /\ prev \in [Request -> Gateway]
  BY <1>3
<1>5. pc \in [Request -> Place]
  BY DEF Place
<1>6. answered \in [Request -> Request \cup {None}] /\ asks \in [Request -> Nat]
  OBVIOUS
<1>7. fails \in 0..MaxFails
  OBVIOUS
<1>8. gate \in BOOLEAN /\ approveAll \in BOOLEAN
  BY Zenon
<1>9. chatMu \in Request \cup {None} /\ progress \in Request \cup {None}
      /\ settled \subseteq Request /\ borrowed \subseteq Request
  BY Zenon
<1> QED
  BY <1>2, <1>4, <1>5, <1>6, <1>7, <1>8, <1>9, Zenon DEF TypeOK

\* Every step keeps the types.
THEOREM StepTypes == TypeOK /\ [Next]_vars => TypeOK'
<1> SUFFICES ASSUME TypeOK, [Next]_vars PROVE TypeOK'
  OBVIOUS
<1> USE RequestTypes DEF TypeOK, Go, Place, HasMu
<1>g. Base \in Gateway /\ \A r \in Request : GatewayOf[r] \in Gateway
  BY DEF Gateway
<1>0. CASE UNCHANGED vars
  BY <1>0 DEF vars, shared, sess, ghosts, bounds
<1>1. ASSUME NEW r \in Request, Begin(r) PROVE TypeOK'
  <2>1. loaded' \in [Request -> Chat]
    BY <1>1 DEF Begin, ArriveLoaded, Arrive, ArriveUnlocked, LoadSession, sess
  <2>2. pc' \in [Request -> Place]
    BY <1>1 DEF Begin, ArriveLoaded, Arrive, ArriveUnlocked
  <2> QED
    BY <1>1, <2>1, <2>2
       DEF Begin, ArriveLoaded, Arrive, ArriveUnlocked, shared, sess, ghosts, bounds
<1>2. ASSUME NEW r \in Request, Enter(r) PROVE TypeOK'
  <2>1. loaded' \in [Request -> Chat]
    BY <1>2 DEF Enter, LoadSession
  <2>2. progress' \in Request \cup {None} /\ gate' \in BOOLEAN /\ approveAll' \in BOOLEAN
    BY <1>2 DEF Enter, SetAgent
  <2> QED
    BY <1>2, <2>1, <2>2 DEF Enter, ghosts, bounds
<1>3. ASSUME NEW r \in Request, EnterFails(r) PROVE TypeOK'
  <2>2. progress' \in Request \cup {None} /\ gate' \in BOOLEAN /\ approveAll' \in BOOLEAN
    BY <1>3 DEF EnterFails, SetAgent, shared
  <2> QED
    BY <1>3, <2>2 DEF EnterFails, shared, sess, ghosts, bounds
<1>4. ASSUME NEW r \in Request, SwapGateway(r) PROVE TypeOK'
  BY <1>4, <1>g DEF SwapGateway, sess, ghosts, bounds
<1>5. ASSUME NEW r \in Request, BeginTurn(r) \/ Hold(r) PROVE TypeOK'
  <2>1. loaded' \in [Request -> Chat]
    BY <1>5 DEF BeginTurn, Hold, Chat
  <2>2. answered' \in [Request -> Request \cup {None}]
    BY <1>5 DEF BeginTurn, Hold, Plan, Chat, ghosts
  <2> QED
    BY <1>5, <2>1, <2>2 DEF BeginTurn, Hold, shared, ghosts, bounds
<1>6. ASSUME NEW r \in Request, RunUnapproved(r) \/ EndTurn(r) \/ Ask(r) PROVE TypeOK'
  <2>1. asks' \in [Request -> Nat]
    BY <1>6 DEF RunUnapproved, EndTurn, Ask, bounds
  <2> QED
    BY <1>6, <2>1 DEF RunUnapproved, EndTurn, Ask, shared, sess, ghosts, bounds
<1>7. ASSUME NEW r \in Request, Wake(r) \/ Restore(r) PROVE TypeOK'
  BY <1>7, <1>g DEF Wake, Restore, sess, ghosts, bounds
<1>8. ASSUME NEW r \in Request, Leave(r) PROVE TypeOK'
  <2>1. store' \in [Session -> Chat]
    BY <1>8 DEF Leave, SaveSession, Plan, Chat
  <2>2. settled' \subseteq Request /\ fails' \in 0..MaxFails
    BY <1>8 DEF Leave, SaveSession
  <2>3. progress' \in Request \cup {None} /\ gate' \in BOOLEAN /\ approveAll' \in BOOLEAN
    BY <1>8 DEF Leave, ResetAgent
  <2> QED
    BY <1>8, <2>1, <2>2, <2>3 DEF Leave
<1>9. ASSUME NEW r \in Request, LeaveUnlocked(r) PROVE TypeOK'
  BY <1>9 DEF LeaveUnlocked, shared, sess, ghosts, bounds
<1> QED
  BY <1>0, <1>1, <1>2, <1>3, <1>4, <1>5, <1>6, <1>7, <1>8, <1>9
     DEF Next, Serve, Locked, Turn, End

\* TypeOK: for any requests, sessions and bounds the state has its types.
THEOREM SessionTypes == Spec => []TypeOK
<1> QED
  BY InitTypes, StepTypes, PTL DEF Spec

-----------------------------------------------------------------------------
\* chatMu is held by the requests that are where one holds it and by no other;
\* nobody's sink is set while it is free, and only streams ask.
Mutex ==
    \A r \in Request : KindOf[r] # "completion" => (pc[r] \in HasMu <=> chatMu = r)
SinkOfHolder ==
    /\ chatMu = None => progress = None
    /\ \A r \in Request :
           /\ pc[r] \in HasMu => progress = IF KindOf[r] = "stream" THEN r ELSE None
           /\ pc[r] = "asked" => KindOf[r] = "stream"
GatewayOfTurn == \A r \in Request : pc[r] \in InTurn => agentGw = GatewayOf[r]

AgentInv == TypeOK /\ Mutex /\ SinkOfHolder /\ GatewayOfTurn

LEMMA AgentInvImplies == AgentInv => AgentIsMine
BY DEF AgentInv, SinkOfHolder, GatewayOfTurn, AgentIsMine, OwnsAgent, InTurn, HasMu

\* The lock excludes, whatever the unlocked requests do.
THEOREM StepMutex == TypeOK /\ Mutex /\ [Next]_vars => Mutex'
<1> SUFFICES ASSUME TypeOK, Mutex, [Next]_vars PROVE Mutex'
  OBVIOUS
<1> USE RequestTypes DEF TypeOK, Mutex, Go, Place, HasMu
<1>0. CASE UNCHANGED vars
  BY <1>0 DEF vars
<1>1. ASSUME NEW r \in Request, Begin(r) PROVE Mutex'
  BY <1>1 DEF Begin, ArriveLoaded, Arrive, ArriveUnlocked, Kind
<1>2. ASSUME NEW r \in Request, Enter(r) \/ EnterFails(r) \/ SwapGateway(r) PROVE Mutex'
  <2>1. CASE Enter(r)
    BY <2>1 DEF Enter
  <2>2. CASE EnterFails(r)
    BY <2>2 DEF EnterFails
  <2>3. CASE SwapGateway(r)
    BY <2>3 DEF SwapGateway
  <2> QED
    BY <1>2, <2>1, <2>2, <2>3
<1>3. ASSUME NEW r \in Request, Turn(r) PROVE Mutex'
  <2>1. CASE BeginTurn(r)
    BY <2>1 DEF BeginTurn
  <2>2. CASE Hold(r) \/ RunUnapproved(r) \/ EndTurn(r)
    BY <2>2 DEF Hold, RunUnapproved, EndTurn
  <2>3. CASE Ask(r)
    BY <2>3 DEF Ask
  <2> QED
    BY <1>3, <2>1, <2>2, <2>3 DEF Turn
<1>4. ASSUME NEW r \in Request, End(r) \/ Wake(r) PROVE Mutex'
  <2>1. CASE Restore(r) \/ LeaveUnlocked(r)
    BY <2>1 DEF Restore, LeaveUnlocked
  <2>2. CASE Leave(r)
    BY <2>2 DEF Leave
  <2>3. CASE Wake(r)
    BY <2>3 DEF Wake
  <2> QED
    BY <1>4, <2>1, <2>2, <2>3 DEF End
<1> QED
  BY <1>0, <1>1, <1>2, <1>3, <1>4 DEF Next, Serve, Locked

LEMMA InitAgent == Init => AgentInv
<1> SUFFICES ASSUME Init PROVE AgentInv
  OBVIOUS
<1>1. Mutex /\ SinkOfHolder /\ GatewayOfTurn
  BY RequestTypes DEF Init, Mutex, SinkOfHolder, GatewayOfTurn, HasMu, InTurn
<1> QED
  BY <1>1, InitTypes DEF AgentInv

\* Whoever moves the gateway or the sink holds chatMu, or finds it free.
LEMMA StepAgent ==
    ASSUME AllLocked, AllUsers, AgentInv, [Next]_vars
    PROVE  SinkOfHolder' /\ GatewayOfTurn'
<1> USE RequestTypes DEF AllLocked, AllUsers, AgentInv, TypeOK, Mutex, SinkOfHolder,
        GatewayOfTurn, Go, HasMu, InTurn
<1>0. CASE UNCHANGED vars
  BY <1>0 DEF vars, shared
<1>1. ASSUME NEW r \in Request, Begin(r) PROVE SinkOfHolder' /\ GatewayOfTurn'
  BY <1>1 DEF Begin, ArriveLoaded, Arrive, ArriveUnlocked, shared
<1>2. ASSUME NEW r \in Request, Enter(r) PROVE SinkOfHolder' /\ GatewayOfTurn'
  BY <1>2 DEF Enter, SetAgent, Kind
<1>3. ASSUME NEW r \in Request, EnterFails(r) PROVE SinkOfHolder' /\ GatewayOfTurn'
  BY <1>3 DEF EnterFails, SetAgent, shared
<1>4. ASSUME NEW r \in Request, SwapGateway(r) PROVE SinkOfHolder' /\ GatewayOfTurn'
  BY <1>4 DEF SwapGateway
<1>5. ASSUME NEW r \in Request, BeginTurn(r) PROVE SinkOfHolder' /\ GatewayOfTurn'
  BY <1>5 DEF BeginTurn, shared
<1>6. ASSUME NEW r \in Request, Hold(r) \/ RunUnapproved(r) \/ EndTurn(r)
      PROVE SinkOfHolder' /\ GatewayOfTurn'
  BY <1>6 DEF Hold, RunUnapproved, EndTurn, shared
<1>7. ASSUME NEW r \in Request, Ask(r) \/ Wake(r) PROVE SinkOfHolder' /\ GatewayOfTurn'
  <2>1. CASE Ask(r)
    BY <2>1 DEF Ask
  <2>2. CASE Wake(r)
    BY <2>2 DEF Wake
  <2> QED
    BY <1>7, <2>1, <2>2
<1>8. ASSUME NEW r \in Request, End(r) PROVE SinkOfHolder' /\ GatewayOfTurn'
  <2>1. CASE Restore(r)
    BY <2>1 DEF Restore
  <2>2. CASE Leave(r)
    BY <2>2 DEF Leave, ResetAgent
  <2>3. CASE LeaveUnlocked(r)
    BY <2>3 DEF LeaveUnlocked
  <2> QED
    BY <1>8, <2>1, <2>2, <2>3 DEF End
<1> QED
  BY <1>0, <1>1, <1>2, <1>3, <1>4, <1>5, <1>6, <1>7, <1>8 DEF Next, Serve, Locked, Turn

\* Every turn talks to its own user's gateway and reports to its own stream
\* only, whoever else waits for its user meanwhile.
THEOREM AgentIsOwn == ASSUME AllLocked, AllUsers PROVE Spec => []AgentIsMine
<1>1. AgentInv /\ [Next]_vars => AgentInv'
  BY StepTypes, StepMutex, StepAgent DEF AgentInv
<1> QED
  BY <1>1, InitAgent, AgentInvImplies, PTL DEF Spec

-----------------------------------------------------------------------------
\* The gate is off only while an evaluation turn holds chatMu.
GateOfEval == ~gate => chatMu # None /\ KindOf[chatMu] = "eval"

ApprovalInv == TypeOK /\ Mutex /\ GateOfEval /\ HoldersOwnApproval

\* What each step does to the gate and to the writes run unapproved.
LEMMA StepApproval ==
    ASSUME GateConfig, ApprovalInv, [Next]_vars
    PROVE  GateOfEval' /\ HoldersOwnApproval'
<1> USE RequestTypes DEF ApprovalInv, TypeOK, Mutex, GateOfEval, HoldersOwnApproval,
        Go, HasMu
<1>0. CASE UNCHANGED vars
  BY <1>0 DEF vars, shared, ghosts
<1>1. ASSUME NEW r \in Request, Begin(r) PROVE GateOfEval' /\ HoldersOwnApproval'
  BY <1>1 DEF Begin, ArriveLoaded, Arrive, ArriveUnlocked, shared, ghosts
<1>2. ASSUME NEW r \in Request, Locked(r) PROVE GateOfEval' /\ HoldersOwnApproval'
  <2>1. CASE Enter(r)
    BY <2>1 DEF Enter, SetAgent, Kind, ghosts
  <2>2. CASE EnterFails(r)
    BY <2>2 DEF EnterFails, SetAgent, shared, ghosts
  <2>3. CASE SwapGateway(r)
    BY <2>3 DEF SwapGateway, ghosts
  <2> QED
    BY <1>2, <2>1, <2>2, <2>3 DEF Locked
<1>3. ASSUME NEW r \in Request, RunUnapproved(r) PROVE GateOfEval' /\ HoldersOwnApproval'
  <2>1. KindOf[r] # "eval" /\ ~gate /\ pc[r] = "run"
    BY <1>3 DEF RunUnapproved, Approved
  <2>2. KindOf[r] = "completion"
    BY <2>1
  <2> QED
    BY <1>3, <2>2 DEF RunUnapproved
<1>4. ASSUME NEW r \in Request, BeginTurn(r) \/ Hold(r) \/ EndTurn(r)
      PROVE GateOfEval' /\ HoldersOwnApproval'
  BY <1>4 DEF BeginTurn, Hold, EndTurn, shared, ghosts
<1>5. ASSUME NEW r \in Request, Ask(r) \/ Wake(r) PROVE GateOfEval' /\ HoldersOwnApproval'
  BY <1>5 DEF Ask, Wake, ghosts
<1>6. ASSUME NEW r \in Request, End(r) PROVE GateOfEval' /\ HoldersOwnApproval'
  BY <1>6 DEF End, Restore, Leave, ResetAgent, LeaveUnlocked, shared, ghosts
<1> QED
  BY <1>0, <1>1, <1>2, <1>3, <1>4, <1>5, <1>6 DEF Next, Serve, Turn

\* With the plan gate on, a request that holds chatMu runs no write on another
\* request's X-Approve-Writes or on an evaluation's blanket approval.
THEOREM HoldersApproval == ASSUME GateConfig PROVE Spec => []HoldersOwnApproval
<1>1. Init => ApprovalInv
  BY InitTypes, RequestTypes
     DEF Init, ApprovalInv, Mutex, GateOfEval, HoldersOwnApproval, HasMu
<1>2. ApprovalInv /\ [Next]_vars => ApprovalInv'
  BY StepTypes, StepMutex, StepApproval DEF ApprovalInv
<1> QED
  BY <1>1, <1>2, PTL DEF Spec, ApprovalInv

-----------------------------------------------------------------------------
(* What a session loses and keeps.  A session is loaded and saved whole, so  *)
(* a request that holds it in its hands while another one saves is stale:    *)
(* one that loads before it queues, and one that gives chatMu away to ask.   *)

\* No other request records turns in this one's session.
Alone(r) == \A q \in Request \ {r} : SessionOf[q] = SessionOf[r] => KindOf[q] = "completion"

\* Without either, TLC refutes PlanAnsweredOnce and HistoryKept.
EarlyAlone  == \A r \in Request : LoadsLocked(r) \/ KindOf[r] = "completion" \/ Alone(r)
AskersAlone == \A r \in Request : KindOf[r] = "stream" /\ MaxAsks[r] > 0 => Alone(r)

\* Requests that have their session in their hands.
HasSession(r) ==
    /\ KindOf[r] # "completion"
    /\ pc[r] \in HasMu \cup {"asked"} \/ (pc[r] = "queued" /\ ~LoadsLocked(r))

AsksCounted ==
    \A r \in Request : /\ asks[r] <= MaxAsks[r]
                       /\ pc[r] = "asked" => KindOf[r] = "stream" /\ asks[r] > 0

\* Nobody's session is older than the stored one.
Fresh == \A r \in Request : HasSession(r) => store[SessionOf[r]].turns \subseteq loaded[r].turns

HistoryInv == TypeOK /\ Mutex /\ AsksCounted /\ Fresh

LEMMA InitHistory == Init => HistoryInv
BY InitTypes, RequestTypes
   DEF Init, HistoryInv, Mutex, AsksCounted, Fresh, HasSession, HasMu

LEMMA StepAsks == TypeOK /\ AsksCounted /\ [Next]_vars => AsksCounted'
<1> SUFFICES ASSUME TypeOK, AsksCounted, [Next]_vars PROVE AsksCounted'
  OBVIOUS
<1> USE RequestTypes DEF TypeOK, AsksCounted, Go
<1>0. CASE UNCHANGED vars
  BY <1>0 DEF vars, bounds
<1>1. ASSUME NEW r \in Request, Begin(r) \/ Locked(r) PROVE AsksCounted'
  BY <1>1 DEF Begin, ArriveLoaded, Arrive, ArriveUnlocked, Locked, Enter, EnterFails, SwapGateway,
     bounds
<1>2. ASSUME NEW r \in Request, BeginTurn(r) \/ Hold(r) \/ RunUnapproved(r) \/ EndTurn(r)
      PROVE AsksCounted'
  BY <1>2 DEF BeginTurn, Hold, RunUnapproved, EndTurn, bounds
<1>3. ASSUME NEW r \in Request, Ask(r) PROVE AsksCounted'
  BY <1>3 DEF Ask
<1>4. ASSUME NEW r \in Request, Wake(r) \/ End(r) PROVE AsksCounted'
  BY <1>4 DEF Wake, End, Restore, Leave, LeaveUnlocked, bounds
<1> QED
  BY <1>0, <1>1, <1>2, <1>3, <1>4 DEF Next, Serve, Turn

\* Two requests that record in one session do not have it at the same time.
LEMMA OneHasSession ==
    ASSUME EarlyAlone, AskersAlone, HistoryInv,
           NEW q \in Request, NEW r \in Request, SessionOf[q] = SessionOf[r],
           KindOf[q] # "completion", pc[q] \in HasMu, HasSession(r)
    PROVE  q = r
<1> SUFFICES ASSUME q # r PROVE FALSE
  OBVIOUS
<1>1. ~Alone(r)
  BY DEF Alone
<1>2. LoadsLocked(r) /\ KindOf[r] # "completion"
  BY <1>1 DEF EarlyAlone, HasSession
<1>3. pc[r] # "asked"
  BY <1>1, RequestTypes DEF AskersAlone, HistoryInv, AsksCounted, TypeOK
<1>4. pc[r] \in HasMu
  BY <1>2, <1>3 DEF HasSession
<1> QED
  BY <1>2, <1>4, RequestTypes DEF HistoryInv, Mutex, TypeOK

\* What is saved has all that was stored.
LEMMA LeaveKeeps ==
    ASSUME HistoryInv, NEW q \in Request, Leave(q), NEW s \in Session
    PROVE  /\ store[s].turns \subseteq store'[s].turns
           /\ s # SessionOf[q] => store'[s] = store[s]
<1>1. HasSession(q)
  BY DEF Leave, HasSession, HasMu
<1>2. CASE UNCHANGED store
  BY <1>2
<1>3. CASE store' = [store EXCEPT ![SessionOf[q]] =
                        [turns |-> loaded[q].turns \cup {q}, plan |-> Plan(q)]]
  BY <1>1, <1>3 DEF HistoryInv, Fresh, TypeOK
<1> QED
  BY <1>2, <1>3 DEF Leave, SaveSession

LEMMA StepFresh ==
    ASSUME EarlyAlone, AskersAlone, HistoryInv, [Next]_vars
    PROVE  Fresh' /\ \A s \in Session : store[s].turns \subseteq store'[s].turns
<1> USE RequestTypes DEF Go
<1>t. /\ pc \in [Request -> Place] /\ loaded \in [Request -> Chat] /\ store \in [Session -> Chat]
      /\ \A r \in Request : HasSession(r) => store[SessionOf[r]].turns \subseteq loaded[r].turns
  BY DEF HistoryInv, TypeOK, Fresh
<1>0. CASE UNCHANGED vars
  BY <1>0, <1>t DEF vars, sess, Fresh, HasSession
<1>1. ASSUME NEW r \in Request, Begin(r) PROVE Fresh' /\ UNCHANGED store
  BY <1>1, <1>t DEF Begin, ArriveLoaded, Arrive, ArriveUnlocked, LoadSession, sess, Fresh, HasSession,
     HasMu, LoadsLocked
<1>2. ASSUME NEW r \in Request, Locked(r) PROVE Fresh' /\ UNCHANGED store
  <2>1. CASE Enter(r)
    BY <2>1, <1>t DEF Enter, LoadSession, Fresh, HasSession, HasMu
  <2>2. CASE EnterFails(r) \/ SwapGateway(r)
    BY <2>2, <1>t DEF EnterFails, SwapGateway, sess, Fresh, HasSession, HasMu
  <2> QED
    BY <1>2, <2>1, <2>2 DEF Locked
<1>3. ASSUME NEW r \in Request, BeginTurn(r) \/ Hold(r) PROVE Fresh' /\ UNCHANGED store
  <2>1. \A q \in Request : loaded'[q].turns = loaded[q].turns
    BY <1>3, <1>t DEF BeginTurn, Hold, Chat
  <2> QED
    BY <1>3, <2>1, <1>t DEF BeginTurn, Hold, Fresh, HasSession, HasMu
<1>4. ASSUME NEW r \in Request, RunUnapproved(r) \/ EndTurn(r) \/ Ask(r) \/ Wake(r)
      PROVE Fresh' /\ UNCHANGED store
  BY <1>4, <1>t DEF RunUnapproved, EndTurn, Ask, Wake, sess, Fresh, HasSession, HasMu
<1>5. ASSUME NEW r \in Request, Restore(r) \/ LeaveUnlocked(r) PROVE Fresh' /\ UNCHANGED store
  BY <1>5, <1>t DEF Restore, LeaveUnlocked, sess, Fresh, HasSession, HasMu
<1>6. ASSUME NEW r \in Request, Leave(r)
      PROVE Fresh' /\ \A s \in Session : store[s].turns \subseteq store'[s].turns
  <2>1. pc[r] \in HasMu /\ KindOf[r] # "completion" /\ pc' = [pc EXCEPT ![r] = "done"]
        /\ UNCHANGED loaded
    BY <1>6 DEF Leave, HasMu
  <2>2. ASSUME NEW q \in Request, HasSession(q)'
        PROVE  store'[SessionOf[q]].turns \subseteq loaded'[q].turns
    <3>1. q # r /\ HasSession(q)
      BY <2>1, <2>2, <1>t DEF HasSession, HasMu
    <3>2. SessionOf[q] # SessionOf[r]
      BY <2>1, <3>1, OneHasSession
    <3> QED
      BY <1>6, <2>1, <3>1, <3>2, <1>t, LeaveKeeps
  <2>3. \A s \in Session : store[s].turns \subseteq store'[s].turns
    BY <1>6, LeaveKeeps
  <2> QED
    BY <2>2, <2>3 DEF Fresh
<1> QED
  BY <1>0, <1>1, <1>2, <1>3, <1>4, <1>5, <1>6 DEF Next, Serve, Turn, End, vars, sess

\* No turn is saved over another of its session, if the requests that share a
\* session load it under chatMu and do not give it away.
THEOREM KeepsHistory == ASSUME EarlyAlone, AskersAlone PROVE Spec => HistoryKept
<1>1. HistoryInv /\ [Next]_vars => HistoryInv'
  BY StepTypes, StepMutex, StepAsks, StepFresh DEF HistoryInv
<1>2. HistoryInv /\ [Next]_vars => \A s \in Session : store[s].turns \subseteq store'[s].turns
  BY StepFresh
<1> QED
  BY <1>1, <1>2, InitHistory, PTL DEF Spec, HistoryKept

-----------------------------------------------------------------------------
\* A plan is the request that holds it: one of the session, which is over
\* before anybody else can find its plan.
Held(p, s) == p # None => SessionOf[p] = s /\ pc[p] = "done"

PlansHeld ==
    /\ \A s \in Session : Held(store[s].plan, s)
    /\ \A r \in Request :
           /\ pc[r] \in {"new", "queued", "ready", "begin"} => Held(Plan(r), SessionOf[r])
           /\ pc[r] \in {"run", "asked"} => Plan(r) = None
           /\ pc[r] \in {"restore", "save"} => Plan(r) \in {None, r}
           /\ Held(answered[r], SessionOf[r])
           /\ LoadsLocked(r) \/ KindOf[r] = "completion" =>
                  (pc[r] \in {"new", "queued"} => Plan(r) = None)
           /\ KindOf[r] = "completion" => (pc[r] \in {"ready", "begin"} => Plan(r) = None)
    /\ \A p \in settled : pc[p] = "done"

\* No stored plan, and none a turn is about to answer, is settled.
Unsettled ==
    /\ \A s \in Session : store[s].plan \notin settled
    /\ \A r \in Request : pc[r] \in {"queued", "ready", "begin"} => Plan(r) \notin settled

PlanInv == TypeOK /\ Mutex /\ PlansHeld /\ Unsettled

LEMMA InitPlans == Init => PlanInv
<1> SUFFICES ASSUME Init PROVE PlanInv
  OBVIOUS
<1>1. PlansHeld /\ Unsettled
  BY RequestTypes DEF Init, PlansHeld, Unsettled, Held, Plan
<1> QED
  BY <1>1, InitTypes, RequestTypes DEF Init, PlanInv, Mutex, HasMu

LEMMA StepHeld == TypeOK /\ PlansHeld /\ [Next]_vars => PlansHeld'
<1> SUFFICES ASSUME TypeOK, PlansHeld, [Next]_vars PROVE PlansHeld'
  OBVIOUS
<1> USE RequestTypes DEF Go, Held, Plan
<1>t. /\ pc \in [Request -> Place] /\ loaded \in [Request -> Chat] /\ store \in [Session -> Chat]
      /\ answered \in [Request -> Request \cup {None}] /\ settled \subseteq Request
  BY DEF TypeOK
<1>0. CASE UNCHANGED vars
  BY <1>0 DEF vars, sess, ghosts, PlansHeld
<1>1. ASSUME NEW r \in Request, Begin(r) PROVE PlansHeld'
  <2>1. CASE ArriveLoaded(r)
    BY <2>1, <1>t DEF ArriveLoaded, LoadSession, ghosts, PlansHeld, LoadsLocked, Chat
  <2>2. CASE Arrive(r)
    BY <2>2, <1>t DEF Arrive, sess, ghosts, PlansHeld, LoadsLocked
  <2>3. CASE ArriveUnlocked(r)
    BY <2>3, <1>t DEF ArriveUnlocked, sess, ghosts, PlansHeld, LoadsLocked
  <2> QED
    BY <1>1, <2>1, <2>2, <2>3 DEF Begin
<1>2. ASSUME NEW r \in Request, Locked(r) PROVE PlansHeld'
  <2>1. CASE Enter(r)
    BY <2>1, <1>t DEF Enter, LoadSession, ghosts, PlansHeld, LoadsLocked, Chat
  <2>2. CASE EnterFails(r)
    BY <2>2, <1>t DEF EnterFails, sess, ghosts, PlansHeld
  <2>3. CASE SwapGateway(r)
    BY <2>3, <1>t DEF SwapGateway, sess, ghosts, PlansHeld
  <2> QED
    BY <1>2, <2>1, <2>2, <2>3 DEF Locked
<1>3. ASSUME NEW r \in Request, BeginTurn(r) PROVE PlansHeld'
  BY <1>3, <1>t DEF BeginTurn, PlansHeld, Chat
<1>4. ASSUME NEW r \in Request, Hold(r) PROVE PlansHeld'
  BY <1>4, <1>t DEF Hold, ghosts, PlansHeld, Chat
<1>5. ASSUME NEW r \in Request, RunUnapproved(r) \/ EndTurn(r) \/ Ask(r) \/ Wake(r) PROVE PlansHeld'
  <2>1. CASE RunUnapproved(r)
    BY <2>1, <1>t DEF RunUnapproved, sess, PlansHeld
  <2>2. CASE EndTurn(r)
    BY <2>2, <1>t DEF EndTurn, sess, ghosts, PlansHeld
  <2>3. CASE Ask(r)
    BY <2>3, <1>t DEF Ask, sess, ghosts, PlansHeld
  <2>4. CASE Wake(r)
    BY <2>4, <1>t DEF Wake, sess, ghosts, PlansHeld
  <2> QED
    BY <1>5, <2>1, <2>2, <2>3, <2>4
<1>6. ASSUME NEW r \in Request, Restore(r) \/ LeaveUnlocked(r) PROVE PlansHeld'
  <2>1. CASE Restore(r)
    BY <2>1, <1>t DEF Restore, sess, ghosts, PlansHeld
  <2>2. CASE LeaveUnlocked(r)
    BY <2>2, <1>t DEF LeaveUnlocked, sess, ghosts, PlansHeld
  <2> QED
    BY <1>6, <2>1, <2>2
<1>7. ASSUME NEW r \in Request, Leave(r) PROVE PlansHeld'
  <2>1. /\ pc[r] = "save" /\ pc' = [pc EXCEPT ![r] = "done"]
        /\ UNCHANGED <<loaded, answered>>
    BY <1>7 DEF Leave
  <2>2. \A p \in Request \cup {None}, s \in Session : Held(p, s) => Held(p, s)'
    BY <2>1, <1>t
  <2>3. \A s \in Session : Held(store[s].plan, s)'
    <3>1. CASE UNCHANGED store
      BY <2>2, <3>1, <1>t DEF PlansHeld, Chat
    <3>2. CASE store' = [store EXCEPT ![SessionOf[r]] =
                            [turns |-> loaded[r].turns \cup {r}, plan |-> Plan(r)]]
      BY <2>1, <2>2, <3>2, <1>t DEF PlansHeld, Chat
    <3> QED
      BY <1>7, <3>1, <3>2 DEF Leave, SaveSession
  <2>4. \A p \in settled' : pc'[p] = "done"
    BY <1>7, <2>1, <1>t DEF Leave, SaveSession, PlansHeld
  <2> QED
    BY <2>1, <2>2, <2>3, <2>4, <1>t DEF PlansHeld
<1> QED
  BY <1>0, <1>1, <1>2, <1>3, <1>4, <1>5, <1>6, <1>7 DEF Next, Serve, Turn, End

\* A save settles a plan of its own session, which it does not store again;
\* and no other request of the session has loaded that plan and not answered.
LEMMA LeaveUnsettled ==
    ASSUME EarlyAlone, PlanInv, NEW r \in Request, Leave(r)
    PROVE  Unsettled'
<1> USE RequestTypes DEF Go, Held, Plan
<1>t. /\ pc \in [Request -> Place] /\ loaded \in [Request -> Chat] /\ store \in [Session -> Chat]
      /\ answered \in [Request -> Request \cup {None}] /\ settled \subseteq Request
  BY DEF PlanInv, TypeOK
<1>1. /\ pc[r] = "save" /\ KindOf[r] # "completion" /\ pc' = [pc EXCEPT ![r] = "done"]
      /\ UNCHANGED <<loaded, answered>>
  BY DEF Leave
<1>2. answered[r] # None => SessionOf[answered[r]] = SessionOf[r] /\ pc[answered[r]] = "done"
  BY DEF PlanInv, PlansHeld
<1>3. settled' \subseteq settled \cup ({answered[r]} \ {None})
  BY DEF Leave, SaveSession
<1>4. Plan(r) \notin settled'
  BY <1>1, <1>2, <1>3, <1>t DEF PlanInv, PlansHeld
<1>5. ASSUME NEW p \in Request \cup {None}, NEW s \in Session \ {SessionOf[r]},
             Held(p, s), p \notin settled
      PROVE  p \notin settled'
  BY <1>2, <1>3, <1>5
<1>6. ASSUME NEW s \in Session PROVE store'[s].plan \notin settled'
  <2>1. CASE s # SessionOf[r]
    <3>1. store'[s] = store[s]
      BY <2>1, <1>t DEF Leave, SaveSession
    <3> QED
      BY <1>5, <2>1, <3>1, <1>t DEF PlanInv, PlansHeld, Unsettled, Chat
  <2>2. CASE s = SessionOf[r]
    <3>1. CASE UNCHANGED <<store, settled>>
      BY <3>1 DEF PlanInv, Unsettled
    <3>2. CASE store' = [store EXCEPT ![SessionOf[r]] =
                            [turns |-> loaded[r].turns \cup {r}, plan |-> Plan(r)]]
      BY <1>4, <2>2, <3>2, <1>t
    <3> QED
      BY <3>1, <3>2 DEF Leave, SaveSession
  <2> QED
    BY <2>1, <2>2
<1>7. ASSUME NEW q \in Request, pc'[q] \in {"queued", "ready", "begin"}
      PROVE  Plan(q)' \notin settled'
  <2>1. q # r /\ pc[q] \in {"queued", "ready", "begin"} /\ Plan(q)' = Plan(q)
    BY <1>1, <1>7, <1>t
  <2>2. /\ Plan(q) \in Request \cup {None} /\ Plan(q) \notin settled
        /\ Held(Plan(q), SessionOf[q])
    BY <2>1, <1>t DEF Chat, PlanInv, PlansHeld, Unsettled
  <2>3. CASE SessionOf[q] # SessionOf[r]
    BY <1>5, <2>1, <2>2, <2>3
  <2>4. CASE SessionOf[q] = SessionOf[r]
    <3>1. LoadsLocked(q) \/ KindOf[q] = "completion"
      BY <1>1, <2>1, <2>4 DEF EarlyAlone, Alone
    <3>2. pc[q] # "queued" /\ KindOf[q] # "completion" => chatMu = q /\ chatMu = r
      BY <1>1, <2>1 DEF PlanInv, Mutex, HasMu
    <3>3. Plan(q) = None
      BY <2>1, <3>1, <3>2 DEF PlanInv, PlansHeld
    <3> QED
      BY <1>3, <2>1, <3>3, <1>t
  <2> QED
    BY <2>3, <2>4
<1> QED
  BY <1>6, <1>7 DEF Unsettled

LEMMA StepUnsettled == ASSUME EarlyAlone, PlanInv, [Next]_vars PROVE Unsettled'
<1> USE RequestTypes DEF Go, Plan
<1>t. /\ pc \in [Request -> Place] /\ loaded \in [Request -> Chat] /\ store \in [Session -> Chat]
      /\ settled \subseteq Request
      /\ \A s \in Session : store[s].plan \notin settled
      /\ \A r \in Request : pc[r] \in {"queued", "ready", "begin"} => loaded[r].plan \notin settled
      /\ \A r \in Request : pc[r] = "new" /\ KindOf[r] # "plan" /\ KindOf[r] # "flow"
                               => loaded[r].plan = None
  BY DEF PlanInv, TypeOK, Unsettled, PlansHeld, LoadsLocked, Kind
<1>0. CASE UNCHANGED vars
  BY <1>0, <1>t DEF vars, sess, ghosts, Unsettled
<1>1. ASSUME NEW r \in Request, Begin(r) PROVE Unsettled'
  <2>1. CASE ArriveLoaded(r)
    BY <2>1, <1>t DEF ArriveLoaded, LoadSession, ghosts, Unsettled
  <2>2. CASE Arrive(r) \/ ArriveUnlocked(r)
    BY <2>2, <1>t DEF Arrive, ArriveUnlocked, sess, ghosts, Unsettled
  <2> QED
    BY <1>1, <2>1, <2>2 DEF Begin
<1>2. ASSUME NEW r \in Request, Locked(r) PROVE Unsettled'
  <2>1. CASE Enter(r)
    BY <2>1, <1>t DEF Enter, LoadSession, ghosts, Unsettled
  <2>2. CASE EnterFails(r) \/ SwapGateway(r)
    BY <2>2, <1>t DEF EnterFails, SwapGateway, sess, ghosts, Unsettled
  <2> QED
    BY <1>2, <2>1, <2>2 DEF Locked
<1>3. ASSUME NEW r \in Request, BeginTurn(r) \/ Hold(r) PROVE Unsettled'
  <2>1. \A q \in Request \ {r} : loaded'[q] = loaded[q] /\ pc'[q] = pc[q]
    BY <1>3, <1>t DEF BeginTurn, Hold
  <2>2. pc'[r] \in {"restore", "run"} /\ UNCHANGED <<store, settled>>
    BY <1>3, <1>t DEF BeginTurn, Hold, ghosts
  <2> QED
    BY <2>1, <2>2, <1>t DEF Unsettled
<1>4. ASSUME NEW r \in Request, RunUnapproved(r) \/ EndTurn(r) \/ Ask(r) \/ Wake(r) PROVE Unsettled'
  BY <1>4, <1>t DEF RunUnapproved, EndTurn, Ask, Wake, sess, ghosts, Unsettled
<1>5. ASSUME NEW r \in Request, End(r) PROVE Unsettled'
  <2>1. CASE Restore(r) \/ LeaveUnlocked(r)
    BY <2>1, <1>t DEF Restore, LeaveUnlocked, sess, ghosts, Unsettled
  <2> QED
    BY <1>5, <2>1, LeaveUnsettled DEF End
<1> QED
  BY <1>0, <1>1, <1>2, <1>3, <1>4, <1>5 DEF Next, Serve, Turn

\* A turn that answers a plan answers one that nobody has settled.
LEMMA AnswersUnsettled ==
    ASSUME PlanInv, [Next]_vars, NEW r \in Request, answered'[r] # answered[r]
    PROVE  answered'[r] \notin settled
<1> USE RequestTypes
<1>t. answered \in [Request -> Request \cup {None}]
  BY DEF PlanInv, TypeOK
<1>1. BeginTurn(r)
  BY <1>t DEF vars, ghosts, Next, Serve, Begin, ArriveLoaded, Arrive, ArriveUnlocked, Locked, Enter,
     EnterFails, SwapGateway, Turn, BeginTurn, Hold, RunUnapproved, EndTurn, Ask, Wake, End, Restore,
     Leave, LeaveUnlocked
<1>2. pc[r] = "begin" /\ answered'[r] = Plan(r)
  BY <1>1, <1>t DEF BeginTurn
<1> QED
  BY <1>2 DEF PlanInv, Unsettled

\* A held plan is executed by one turn, and by none after its refusal was
\* saved, if the requests that share a session load it under chatMu; clarify
\* calls, saves the store refuses and unlocked requests change nothing of it.
THEOREM PlansOnce == ASSUME EarlyAlone PROVE Spec => PlanAnsweredOnce
<1>1. PlanInv /\ [Next]_vars => PlanInv'
  BY StepTypes, StepMutex, StepHeld, StepUnsettled DEF PlanInv
<1>2. PlanInv /\ [Next]_vars
        => \A r \in Request : answered'[r] # answered[r] => answered'[r] \notin settled
  BY AnswersUnsettled
<1> QED
  BY <1>1, <1>2, InitPlans, PTL DEF Spec, PlanAnsweredOnce
-----------------------------------------------------------------------------
(* The turns of a session take effect one at a time: SerialTurns.          *)

\* A session in hand is the stored one: its turns always, its plan until the
\* turn answers it, and from then on what the turn answered.
InHand ==
    \A r \in Request : HasSession(r) =>
        LET s == SessionOf[r] IN
        /\ loaded[r].turns = store[s].turns
        /\ pc[r] \in {"queued", "ready", "begin"} => Plan(r) = store[s].plan
        /\ pc[r] \in {"run", "asked", "restore", "save"} => answered[r] = store[s].plan

\* A recorded turn is one of the session's, and over.
TurnsOver ==
    \A s \in Session : \A r \in store[s].turns : SessionOf[r] = s /\ pc[r] = "done"

SerialInv == HistoryInv /\ PlansHeld /\ InHand /\ TurnsOver

LEMMA InitSerial == Init => SerialInv /\ Serial!Init
<1> SUFFICES ASSUME Init PROVE SerialInv /\ Serial!Init
  OBVIOUS
<1>1. InHand /\ TurnsOver
  BY RequestTypes DEF Init, InHand, TurnsOver, HasSession, HasMu
<1>2. Serial!Init
  BY RequestTypes DEF Init, Serial!Init
<1> QED
  BY <1>1, <1>2, InitHistory, InitPlans DEF SerialInv, PlanInv

\* A save records the turn in the session as it is stored, with no plan or its
\* own, or changes nothing.
LEMMA LeaveRecords ==
    ASSUME SerialInv, NEW r \in Request, Leave(r)
    PROVE  /\ HasSession(r) /\ pc[r] = "save" /\ pc' = [pc EXCEPT ![r] = "done"]
           /\ UNCHANGED <<loaded, answered>>
           /\ answered[r] = store[SessionOf[r]].plan
           /\ \/ UNCHANGED store
              \/ \E p \in {None, r} :
                     store' = [store EXCEPT ![SessionOf[r]] =
                                  [turns |-> store[SessionOf[r]].turns \cup {r}, plan |-> p]]
<1>1. /\ HasSession(r) /\ pc[r] = "save" /\ pc' = [pc EXCEPT ![r] = "done"]
      /\ UNCHANGED <<loaded, answered>>
  BY DEF Leave, HasSession, HasMu, Go
<1>2. loaded[r].turns = store[SessionOf[r]].turns /\ answered[r] = store[SessionOf[r]].plan
  BY <1>1 DEF SerialInv, InHand
<1>3. Plan(r) \in {None, r}
  BY <1>1 DEF SerialInv, PlansHeld
<1>4. UNCHANGED store \/ store' = [store EXCEPT ![SessionOf[r]] =
                            [turns |-> loaded[r].turns \cup {r}, plan |-> Plan(r)]]
  BY DEF Leave, SaveSession
<1> QED
  BY <1>1, <1>2, <1>3, <1>4

LEMMA StepInHand == ASSUME EarlyAlone, AskersAlone, SerialInv, [Next]_vars PROVE InHand'
<1> USE RequestTypes DEF Go, Plan
<1>t. /\ pc \in [Request -> Place] /\ loaded \in [Request -> Chat] /\ store \in [Session -> Chat]
      /\ answered \in [Request -> Request \cup {None}]
      /\ \A r \in Request : HasSession(r) =>
             /\ loaded[r].turns = store[SessionOf[r]].turns
             /\ pc[r] \in {"queued", "ready", "begin"} => loaded[r].plan = store[SessionOf[r]].plan
             /\ pc[r] \in {"run", "asked", "restore", "save"}
                    => answered[r] = store[SessionOf[r]].plan
  BY DEF SerialInv, HistoryInv, TypeOK, InHand
<1>0. CASE UNCHANGED vars
  BY <1>0, <1>t DEF vars, sess, ghosts, InHand, HasSession
<1>1. ASSUME NEW r \in Request, Begin(r) PROVE InHand'
  <2>1. CASE ArriveLoaded(r)
    BY <2>1, <1>t DEF ArriveLoaded, LoadSession, ghosts, InHand, HasSession, HasMu
  <2>2. CASE Arrive(r) \/ ArriveUnlocked(r)
    BY <2>2, <1>t DEF Arrive, ArriveUnlocked, sess, ghosts, InHand, HasSession, HasMu, LoadsLocked
  <2> QED
    BY <1>1, <2>1, <2>2 DEF Begin
<1>2. ASSUME NEW r \in Request, Locked(r) PROVE InHand'
  <2>1. CASE Enter(r)
    BY <2>1, <1>t DEF Enter, LoadSession, ghosts, InHand, HasSession, HasMu
  <2>2. CASE EnterFails(r) \/ SwapGateway(r)
    BY <2>2, <1>t DEF EnterFails, SwapGateway, sess, ghosts, InHand, HasSession, HasMu
  <2> QED
    BY <1>2, <2>1, <2>2 DEF Locked
<1>3. ASSUME NEW r \in Request, BeginTurn(r) \/ Hold(r) PROVE InHand'
  <2>1. /\ \A q \in Request : loaded'[q].turns = loaded[q].turns
        /\ \A q \in Request \ {r} : /\ loaded'[q] = loaded[q] /\ pc'[q] = pc[q]
                                    /\ answered'[q] = answered[q]
        /\ UNCHANGED store /\ pc'[r] \in {"run", "restore"}
    BY <1>3, <1>t DEF BeginTurn, Hold, Chat, ghosts
  <2>2. HasSession(r)' => HasSession(r)
    BY <1>3, <1>t DEF BeginTurn, Hold, HasSession, HasMu
  <2>3. HasSession(r) => answered'[r] = store[SessionOf[r]].plan
    BY <1>3, <1>t DEF BeginTurn, Hold, ghosts
  <2> QED
    BY <2>1, <2>2, <2>3, <1>t DEF InHand, HasSession
<1>4. ASSUME NEW r \in Request, RunUnapproved(r) \/ EndTurn(r) \/ Ask(r) \/ Wake(r)
      PROVE  InHand'
  BY <1>4, <1>t DEF RunUnapproved, EndTurn, Ask, Wake, sess, ghosts, InHand, HasSession, HasMu
<1>5. ASSUME NEW r \in Request, Restore(r) \/ LeaveUnlocked(r) PROVE InHand'
  BY <1>5, <1>t DEF Restore, LeaveUnlocked, sess, ghosts, InHand, HasSession, HasMu
<1>6. ASSUME NEW r \in Request, Leave(r) PROVE InHand'
  <2>1. /\ pc[r] = "save" /\ pc' = [pc EXCEPT ![r] = "done"]
        /\ UNCHANGED <<loaded, answered>> /\ HasSession(r)
        /\ \A s \in Session : s # SessionOf[r] => store'[s] = store[s]
    BY <1>6, <1>t, LeaveRecords
  <2>2. ASSUME NEW q \in Request, HasSession(q)'
        PROVE  HasSession(q) /\ pc'[q] = pc[q] /\ store'[SessionOf[q]] = store[SessionOf[q]]
    <3>1. q # r /\ HasSession(q) /\ pc'[q] = pc[q]
      BY <2>1, <2>2, <1>t DEF HasSession, HasMu
    <3>2. SessionOf[q] # SessionOf[r]
      BY <2>1, <3>1, OneHasSession DEF HasSession, HasMu, SerialInv
    <3> QED
      BY <2>1, <3>1, <3>2
  <2> QED
    BY <2>1, <2>2, <1>t DEF InHand
<1> QED
  BY <1>0, <1>1, <1>2, <1>3, <1>4, <1>5, <1>6 DEF Next, Serve, Turn, End

\* Of all steps only saves change a stored session.
LEMMA OnlyLeaveStores ==
    ASSUME NEW r \in Request, Begin(r) \/ Serve(r) \/ Wake(r), ~Leave(r)
    PROVE  UNCHANGED store
BY DEF sess, Serve, Begin, ArriveLoaded, Arrive, ArriveUnlocked, Locked, Enter, EnterFails,
   SwapGateway, Turn, BeginTurn, Hold, RunUnapproved, EndTurn, Ask, Wake, End, Restore, LeaveUnlocked

\* A request that is over does nothing any more.
LEMMA DoneIsDone ==
    ASSUME TypeOK, [Next]_vars, NEW q \in Request, pc[q] = "done"
    PROVE  pc'[q] = "done" /\ answered'[q] = answered[q]
<1>1. CASE UNCHANGED vars
  BY <1>1 DEF vars, ghosts
<1>2. ASSUME NEW r \in Request, Begin(r) \/ Serve(r) \/ Wake(r)
      PROVE  pc'[q] = "done" /\ answered'[q] = answered[q]
  BY <1>2 DEF TypeOK, Go, ghosts, Serve, Begin, ArriveLoaded, Arrive, ArriveUnlocked, Locked, Enter,
     EnterFails, SwapGateway, Turn, BeginTurn, Hold, RunUnapproved, EndTurn, Ask, Wake, End, Restore,
     Leave, LeaveUnlocked
<1> QED
  BY <1>1, <1>2 DEF Next

LEMMA StepTurnsOver == ASSUME SerialInv, [Next]_vars PROVE TurnsOver'
<1>t. /\ TypeOK /\ store \in [Session -> Chat] /\ pc \in [Request -> Place]
      /\ \A s \in Session : \A q \in store[s].turns :
             q \in Request /\ SessionOf[q] = s /\ pc'[q] = "done"
  BY DoneIsDone DEF SerialInv, HistoryInv, TypeOK, TurnsOver, Chat
<1>1. CASE UNCHANGED store
  BY <1>1, <1>t DEF TurnsOver
<1>2. ASSUME NEW r \in Request, Leave(r) PROVE TurnsOver'
  <2>1. /\ pc' = [pc EXCEPT ![r] = "done"]
        /\ \/ UNCHANGED store
           \/ \E p \in {None, r} :
                  store' = [store EXCEPT ![SessionOf[r]] =
                               [turns |-> store[SessionOf[r]].turns \cup {r}, plan |-> p]]
    BY <1>2, LeaveRecords
  <2>2. pc'[r] = "done" /\ SessionOf[r] \in Session
    BY <2>1, <1>t, RequestTypes
  <2>3. \A s \in Session : \A q \in store'[s].turns :
            q \in store[s].turns \/ (q = r /\ s = SessionOf[r])
    BY <2>1, <2>2, <1>t
  <2> QED
    BY <2>2, <2>3, <1>t DEF TurnsOver
<1> QED
  BY <1>1, <1>2, OnlyLeaveStores DEF Next, vars, sess

\* A save is the abstract turn: it joins the history that is stored then, and has
\* answered the plan that is stored then.  Nothing else is to be seen there.
LEMMA StepSerial == ASSUME SerialInv, [Next]_vars PROVE [Serial!Next]_(Serial!vars)
<1> USE RequestTypes
<1>t. /\ TypeOK /\ store \in [Session -> Chat]
      /\ \A q \in Request : q \in store[SessionOf[q]].turns
             => q # None /\ answered'[q] = answered[q]
  BY DoneIsDone DEF SerialInv, HistoryInv, TypeOK, TurnsOver
<1> DEFINE Took(q) == IF q \in store[SessionOf[q]].turns THEN answered[q] ELSE None
           TookNext(q) == IF q \in store'[SessionOf[q]].turns THEN answered'[q] ELSE None
<1>1. CASE UNCHANGED store
  <2>1. \A q \in Request : TookNext(q) = Took(q)
    BY <1>1, <1>t
  <2> QED
    BY <1>1, <2>1 DEF Serial!vars
<1>2. ASSUME NEW r \in Request, Leave(r), store' # store PROVE Serial!Next
  <2> DEFINE s == SessionOf[r]
  <2>1. PICK p \in {None, r} :
            store' = [store EXCEPT ![s] = [turns |-> store[s].turns \cup {r}, plan |-> p]]
    BY <1>2, LeaveRecords
  <2>2. s \in Session /\ answered[r] = store[s].plan /\ UNCHANGED answered /\ pc[r] = "save"
    BY <1>2, LeaveRecords
  <2>3. r \notin store[s].turns
    BY <2>2 DEF SerialInv, TurnsOver
  <2>4. [z \in Session |-> store'[z].turns]
            = [[z \in Session |-> store[z].turns] EXCEPT ![s] = @ \cup {r}]
    BY <2>1, <2>2, <1>t
  <2>5. [z \in Session |-> store'[z].plan]
            = [[z \in Session |-> store[z].plan] EXCEPT ![s] = p]
    BY <2>1, <2>2, <1>t
  <2>6. TookNext(r) = store[s].plan /\ \A q \in Request \ {r} : TookNext(q) = Took(q)
    BY <2>1, <2>2, <1>t
  <2>7. [q \in Request |-> TookNext(q)]
            = [[q \in Request |-> Took(q)] EXCEPT ![r] = [z \in Session |-> store[z].plan][s]]
    BY <2>2, <2>6
  <2> QED
    BY <2>2, <2>3, <2>4, <2>5, <2>7 DEF Serial!Next, Serial!TakeEffect
<1> QED
  BY <1>1, <1>2, OnlyLeaveStores DEF Next, vars, sess

\* If the requests that share a session load it under chatMu and do not give it
\* away, their turns take effect one at a time, each on the session as the last
\* one left it, and whatever unlocked requests and refused saves do meanwhile.
THEOREM SessionsAreSerial == ASSUME EarlyAlone, AskersAlone PROVE Spec => ImplementsSerial
<1>1. SerialInv /\ [Next]_vars => SerialInv'
  BY StepTypes, StepMutex, StepAsks, StepFresh, StepHeld, StepInHand, StepTurnsOver
     DEF SerialInv, HistoryInv
<1>2. SerialInv /\ [Next]_vars => [Serial!Next]_(Serial!vars)
  BY StepSerial
<1> QED
  BY <1>1, <1>2, InitSerial, PTL DEF Spec, ImplementsSerial, Serial!Spec

\* The abstract turns keep their plans apart.
LEMMA StepPlansOfTurns ==
    ASSUME Serial!PlansOfTurns, Serial!AnsweredByOne, [Serial!Next]_(Serial!vars)
    PROVE  Serial!PlansOfTurns' /\ Serial!AnsweredByOne'
<1> DEFINE Took(q) == IF q \in store[SessionOf[q]].turns THEN answered[q] ELSE None
           TookNext(q) == IF q \in store'[SessionOf[q]].turns THEN answered'[q] ELSE None
<1>a. /\ \A s \in Session : \A t \in store[s].turns : SessionOf[t] = s
      /\ \A s \in Session : store[s].plan # None =>
             store[s].plan \in store[s].turns /\ \A t \in Request : Took(t) # store[s].plan
      /\ \A t \in Request : Took(t) # None =>
             SessionOf[Took(t)] \in Session /\ Took(t) \in store[SessionOf[Took(t)]].turns
      /\ \A q, r \in Request : Took(q) = Took(r) /\ Took(q) # None => q = r
  BY DEF Serial!PlansOfTurns, Serial!AnsweredByOne
<1>b. SUFFICES /\ \A s \in Session : \A t \in store'[s].turns : SessionOf[t] = s
               /\ \A s \in Session : store'[s].plan # None =>
                      /\ store'[s].plan \in store'[s].turns
                      /\ \A t \in Request : TookNext(t) # store'[s].plan
               /\ \A t \in Request : TookNext(t) # None =>
                      /\ SessionOf[TookNext(t)] \in Session
                      /\ TookNext(t) \in store'[SessionOf[TookNext(t)]].turns
               /\ \A q, r \in Request : TookNext(q) = TookNext(r) /\ TookNext(q) # None => q = r
  BY DEF Serial!PlansOfTurns, Serial!AnsweredByOne
<1>1. CASE UNCHANGED Serial!vars
  <2>1. \A s \in Session : store'[s].turns = store[s].turns /\ store'[s].plan = store[s].plan
    BY <1>1 DEF Serial!vars
  <2>2. \A t \in Request : TookNext(t) = Took(t)
    BY <1>1 DEF Serial!vars
  <2> HIDE DEF Took, TookNext
  <2> QED
    BY <1>a, <2>1, <2>2
<1>2. ASSUME NEW t \in Request, Serial!TakeEffect(t)
      PROVE  /\ \A s \in Session : \A r \in store'[s].turns : SessionOf[r] = s
             /\ \A s \in Session : store'[s].plan # None =>
                    /\ store'[s].plan \in store'[s].turns
                    /\ \A r \in Request : TookNext(r) # store'[s].plan
             /\ \A r \in Request : TookNext(r) # None =>
                    /\ SessionOf[TookNext(r)] \in Session
                    /\ TookNext(r) \in store'[SessionOf[TookNext(r)]].turns
             /\ \A q, r \in Request : TookNext(q) = TookNext(r) /\ TookNext(q) # None => q = r
  <2>1. SessionOf[t] \in Session /\ t # None
    BY RequestTypes
  <2>2. /\ t \notin store[SessionOf[t]].turns
        /\ \A s \in Session : store'[s].turns =
               IF s = SessionOf[t] THEN store[s].turns \cup {t} ELSE store[s].turns
    BY <1>2, <2>1 DEF Serial!TakeEffect
  <2>3. \A r \in Request : TookNext(r) = IF r = t THEN store[SessionOf[t]].plan ELSE Took(r)
    BY <1>2, <2>1 DEF Serial!TakeEffect
  <2>4. \A s \in Session : store'[s].plan = IF s = SessionOf[t] THEN store'[s].plan ELSE store[s].plan
    BY <1>2, <2>1 DEF Serial!TakeEffect
  <2>5. store'[SessionOf[t]].plan \in {None, t}
    BY <1>2, <2>1 DEF Serial!TakeEffect
  <2> HIDE DEF Took, TookNext
  <2>6. \A r \in Request : Took(r) # t
    BY <1>a, <2>1, <2>2
  <2>7. ASSUME NEW s \in Session, NEW r \in store'[s].turns PROVE SessionOf[r] = s
    <3>1. r \in store[s].turns \/ (r = t /\ s = SessionOf[t])
      BY <2>2
    <3> QED
      BY <1>a, <3>1
  <2>8. ASSUME NEW s \in Session, store'[s].plan # None
        PROVE  /\ store'[s].plan \in store'[s].turns
               /\ \A r \in Request : TookNext(r) # store'[s].plan
    <3>1. CASE s = SessionOf[t]
      <4>1. store'[s].plan = t
        BY <2>5, <2>8, <3>1
      <4>2. t \in store'[s].turns
        BY <2>2, <3>1
      <4>3. store[s].plan # t
        BY <1>a, <2>1, <2>2, <3>1
      <4> QED
        BY <2>3, <2>6, <3>1, <4>1, <4>2, <4>3
    <3>2. CASE s # SessionOf[t]
      <4>1. store'[s].plan = store[s].plan /\ store'[s].turns = store[s].turns
        BY <2>2, <2>4, <3>2
      <4>2. store[s].plan \in store[s].turns /\ SessionOf[store[s].plan] = s
        BY <1>a, <2>8, <4>1
      <4>3. store[SessionOf[t]].plan # store[s].plan
        BY <1>a, <2>1, <2>8, <3>2, <4>1, <4>2
      <4>4. \A r \in Request : Took(r) # store[s].plan
        BY <1>a, <2>8, <4>1
      <4> QED
        BY <2>3, <4>1, <4>2, <4>3, <4>4
    <3> QED
      BY <3>1, <3>2
  <2>9. ASSUME NEW r \in Request, TookNext(r) # None
        PROVE  /\ SessionOf[TookNext(r)] \in Session
               /\ TookNext(r) \in store'[SessionOf[TookNext(r)]].turns
    <3>1. \E s \in Session : TookNext(r) \in store[s].turns
      <4>1. CASE r = t
        BY <1>a, <2>1, <2>3, <2>9, <4>1
      <4>2. CASE r # t
        BY <1>a, <2>3, <2>9, <4>2
      <4> QED
        BY <4>1, <4>2
    <3>2. PICK s \in Session : TookNext(r) \in store[s].turns
      BY <3>1
    <3>3. SessionOf[TookNext(r)] = s
      BY <1>a, <3>2
    <3> QED
      BY <2>2, <3>2, <3>3
  <2>10. ASSUME NEW q \in Request, NEW r \in Request,
                TookNext(q) = TookNext(r), TookNext(q) # None
         PROVE  q = r
    <3>1. store[SessionOf[t]].plan # None =>
              \A z \in Request : Took(z) # store[SessionOf[t]].plan
      BY <1>a, <2>1
    <3> QED
      BY <1>a, <2>3, <2>10, <3>1
  <2> QED
    BY <2>7, <2>8, <2>9, <2>10
<1> QED
  BY <1>1, <1>2 DEF Serial!Next

\* Of the turns that were saved no two have answered the same plan: what the
\* serial turns promise is so of the requests.
THEOREM SavedAnswersOnce ==
    ASSUME EarlyAlone, AskersAlone PROVE Spec => []Serial!AnsweredByOne
<1>1. Serial!Init => Serial!PlansOfTurns /\ Serial!AnsweredByOne
  BY DEF Serial!Init, Serial!PlansOfTurns, Serial!AnsweredByOne
<1>2. Serial!Spec => []Serial!AnsweredByOne
  BY <1>1, StepPlansOfTurns, PTL DEF Serial!Spec
<1> QED
  BY <1>2, SessionsAreSerial, PTL DEF ImplementsSerial
=============================================================================
