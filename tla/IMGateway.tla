----------------------------- MODULE IMGateway -----------------------------
(***************************************************************************)
(* The instant-messaging gateway: internal/gateway/runner.go and its       *)
(* clarify hub.  Every inbound event runs handleInbound in a goroutine of  *)
(* its own (the WebSocket client delivers events concurrently): it drops   *)
(* duplicates, takes the lock of its chat, hands the text to a clarify     *)
(* call that waits for it, or runs an agent turn under the lock of the one *)
(* shared Agent.  A turn that asks the user gives the chat lock back while *)
(* it waits.  Replies, sessions' contents and progress are not modelled.   *)
(***************************************************************************)
EXTENDS Integers, Sequences

CONSTANTS
    Handler,    \* the inbound events, one goroutine each
    Message,    \* message ids; a redelivered event repeats one
    Key,        \* session keys: platform, chat and user
    None,       \* no handler
    MessageOf,  \* [Handler -> Message]
    KeyOf,      \* [Handler -> Key]
    DedupSize,  \* dedupCache.max, 4096
    MaxAsks     \* bound: questions a turn asks

ASSUME IMGatewayAssumption ==
    /\ None \notin Handler
    /\ MessageOf \in [Handler -> Message]
    /\ KeyOf \in [Handler -> Key]
    /\ DedupSize \in Nat \ {0}
    /\ MaxAsks \in Nat

VARIABLES
    pc,         \* where each handler stands
    seen,       \* dedupCache.order, oldest first
    chatLock,   \* Runner.chatMu: the handler holding each key's mutex
    agentLock,  \* Runner.agentMu: the handler holding it
    waiter,     \* ClarifyHub.waiters: the handler waiting under each key
    answer,     \* the channel of each handler's wait: who answered it
    asks,       \* questions each turn has asked
    store,      \* the turns in each key's stored session
    loaded,     \* the turns in the session a handler loaded
    accepted    \* history: the message ids TryAdd let through, in order

locks == <<chatLock, agentLock>>
hub   == <<waiter, answer>>
sess  == <<store, loaded>>
dedup == <<seen, accepted>>
vars  == <<pc, dedup, locks, hub, asks, sess>>

Go(h, place) == pc' = [pc EXCEPT ![h] = place]

Lock(h)   == chatLock' = [chatLock EXCEPT ![KeyOf[h]] = h]
Unlock(h) == chatLock' = [chatLock EXCEPT ![KeyOf[h]] = None]

-----------------------------------------------------------------------------
Init ==
    /\ pc = [h \in Handler |-> "new"]
    /\ seen = << >> /\ accepted = << >>
    /\ chatLock = [k \in Key |-> None]
    /\ agentLock = None
    /\ waiter = [k \in Key |-> None]
    /\ answer = [h \in Handler |-> None]
    /\ asks = [h \in Handler |-> 0]
    /\ store = [k \in Key |-> {}]
    /\ loaded = [h \in Handler |-> {}]

Remembered(m) == \E i \in 1..Len(seen) : seen[i] = m

\* Mutant: one id too few is kept.
TryAdd_ShortMemory(m) ==
    /\ ~Remembered(m)
    /\ seen' = LET s == Append(seen, m)
               IN  IF Len(s) >= DedupSize THEN SubSeq(s, 2, Len(s)) ELSE s
    /\ accepted' = Append(accepted, m)

\* TryAdd: a new id is recorded, the oldest leaves a full cache.
TryAdd(m) ==
    /\ ~Remembered(m)
    /\ seen' = LET s == Append(seen, m)
               IN  IF Len(s) > DedupSize THEN SubSeq(s, 2, Len(s)) ELSE s
    /\ accepted' = Append(accepted, m)

Duplicate(h) ==
    /\ pc[h] = "new" /\ Remembered(MessageOf[h])
    /\ Go(h, "done")
    /\ UNCHANGED <<dedup, locks, hub, asks, sess>>

\* A new message; one of a foreign user or without text goes no further.
Accept(h) ==
    /\ pc[h] = "new" /\ TryAdd(MessageOf[h])
    /\ Go(h, "lock") \/ Go(h, "done")
    /\ UNCHANGED <<locks, hub, asks, sess>>

LockChat(h) ==
    /\ pc[h] = "lock" /\ chatLock[KeyOf[h]] = None
    /\ Lock(h)
    /\ Go(h, "deliver")
    /\ UNCHANGED <<dedup, agentLock, hub, asks, sess>>

\* A clarify call of this key waits: the text is its answer, nothing else.
Deliver(h) ==
    /\ pc[h] = "deliver" /\ waiter[KeyOf[h]] # None
    /\ answer' = [answer EXCEPT ![waiter[KeyOf[h]]] = h]
    /\ waiter' = [waiter EXCEPT ![KeyOf[h]] = None]
    /\ Unlock(h)
    /\ Go(h, "done")
    /\ UNCHANGED <<dedup, agentLock, asks, sess>>

\* Otherwise the text begins a turn: its session is loaded.
Load(h) ==
    /\ pc[h] = "deliver" /\ waiter[KeyOf[h]] = None
    /\ loaded' = [loaded EXCEPT ![h] = store[KeyOf[h]]]
    /\ Go(h, "agent")
    /\ UNCHANGED <<dedup, locks, hub, asks, store>>

LoadFails(h) ==
    /\ pc[h] = "deliver" /\ waiter[KeyOf[h]] = None
    /\ Unlock(h)
    /\ Go(h, "done")
    /\ UNCHANGED <<dedup, agentLock, hub, asks, sess>>

LockAgent(h) ==
    /\ pc[h] = "agent" /\ agentLock = None
    /\ agentLock' = h
    /\ Go(h, "run")
    /\ UNCHANGED <<dedup, chatLock, hub, asks, sess>>

-----------------------------------------------------------------------------
\* The clarify call of a running turn (waitIMClarifyReply).  After a "none of
\* these" reply the turn asks again.

\* Mutant: the chat lock is kept during the wait.
Ask_KeepsLock(h) ==
    /\ pc[h] = "run" /\ asks[h] < MaxAsks
    /\ asks' = [asks EXCEPT ![h] = @ + 1]
    /\ Go(h, "asked")
    /\ UNCHANGED <<dedup, locks, hub, sess>>

Ask(h) ==
    /\ pc[h] = "run" /\ asks[h] < MaxAsks
    /\ asks' = [asks EXCEPT ![h] = @ + 1]
    /\ Unlock(h)
    /\ Go(h, "asked")
    /\ UNCHANGED <<dedup, agentLock, hub, sess>>

Register(h) ==
    /\ pc[h] = "asked"
    /\ waiter' = [waiter EXCEPT ![KeyOf[h]] = h]
    /\ answer' = [answer EXCEPT ![h] = None]
    /\ Go(h, "wait")
    /\ UNCHANGED <<dedup, locks, asks, sess>>

Receive(h) ==
    /\ pc[h] = "wait" /\ answer[h] # None
    /\ Go(h, "relock")
    /\ UNCHANGED <<dedup, locks, hub, asks, sess>>

\* The tool's ten minutes pass, or the gateway stops; an answer that came in
\* the meantime loses the race.
TimeOut(h) ==
    /\ pc[h] = "wait"
    /\ Go(h, "timeout")
    /\ UNCHANGED <<dedup, locks, hub, asks, sess>>

\* Mutant: the waiter is left in the hub.
Forget_LeavesWaiter(h) ==
    /\ pc[h] = "timeout"
    /\ Go(h, "relock")
    /\ UNCHANGED <<dedup, locks, hub, asks, sess>>

Forget(h) ==
    /\ pc[h] = "timeout"
    /\ waiter' = [waiter EXCEPT ![KeyOf[h]] = None]
    /\ Go(h, "relock")
    /\ UNCHANGED <<dedup, locks, answer, asks, sess>>

\* Mutant: the turn goes on without its chat's lock.
Relock_Skipped(h) ==
    /\ pc[h] = "relock"
    /\ Go(h, "run")
    /\ UNCHANGED <<dedup, locks, hub, asks, sess>>

Relock(h) ==
    /\ pc[h] = "relock" /\ chatLock[KeyOf[h]] = None
    /\ Lock(h)
    /\ Go(h, "run")
    /\ UNCHANGED <<dedup, agentLock, hub, asks, sess>>

-----------------------------------------------------------------------------
\* The turn is over: its session is saved (a failed save is only logged) and
\* the Agent released; the reply goes out under the chat's lock.
EndTurn(h) ==
    /\ pc[h] = "run"
    /\ \/ store' = [store EXCEPT ![KeyOf[h]] = loaded[h] \cup {h}]
       \/ UNCHANGED store
    /\ agentLock' = None
    /\ Go(h, "reply")
    /\ UNCHANGED <<dedup, chatLock, hub, asks, loaded>>

\* Mutant: the chat's lock survives a failed reply.
Reply_KeepsLock(h) ==
    /\ pc[h] = "reply"
    /\ Unlock(h) \/ UNCHANGED chatLock
    /\ Go(h, "done")
    /\ UNCHANGED <<dedup, agentLock, hub, asks, sess>>

Reply(h) ==
    /\ pc[h] = "reply"
    /\ Unlock(h)
    /\ Go(h, "done")
    /\ UNCHANGED <<dedup, agentLock, hub, asks, sess>>

Inbound(h) == \/ Duplicate(h) \/ Accept(h) \/ LockChat(h) \/ Deliver(h)
              \/ Load(h) \/ LoadFails(h) \/ LockAgent(h)
Clarify(h) == \/ Ask(h) \/ Register(h) \/ Receive(h) \/ TimeOut(h)
              \/ Forget(h) \/ Relock(h)
Finish(h)  == EndTurn(h) \/ Reply(h)

HandlerStep(h) == Inbound(h) \/ Clarify(h) \/ Finish(h)
Next == \E h \in Handler : HandlerStep(h)

Spec == Init /\ [][Next]_vars

\* Goroutines run and the clarify timer fires.  A handler takes finitely many
\* steps, so nothing need be assumed of the mutexes.
Fairness == \A h \in Handler : WF_vars(HandlerStep(h))
FairSpec == Spec /\ Fairness

-----------------------------------------------------------------------------
Waiting  == {"asked", "wait", "timeout", "relock"}   \* inside the clarify call
HasAgent == {"run"} \cup Waiting
HasChat  == {"deliver", "agent", "run", "reply"}
HasTurn  == {"agent"} \cup HasAgent
Place    == {"new", "lock", "done"} \cup HasChat \cup Waiting

TypeOK ==
    /\ pc \in [Handler -> Place]
    /\ seen \in Seq(Message) /\ Len(seen) <= DedupSize
    /\ accepted \in Seq(Message)
    /\ chatLock \in [Key -> Handler \cup {None}]
    /\ agentLock \in Handler \cup {None}
    /\ waiter \in [Key -> Handler \cup {None}]
    /\ answer \in [Handler -> Handler \cup {None}]
    /\ asks \in [Handler -> 0..MaxAsks]
    /\ store \in [Key -> SUBSET Handler]
    /\ loaded \in [Handler -> SUBSET Handler]

\* A turn never saves over a turn of its chat it had not loaded, although the
\* chat's lock is open while it waits for the user.
HistoryKept == [][\A k \in Key : store[k] \subseteq store'[k]]_store

\* The turns of a chat take effect one at a time, when they are saved.  Plans
\* are part of a session's contents and not followed here.
Serial == INSTANCE SerialTurns WITH
    TurnId    <- Handler,
    Session   <- Key,
    SessionOf <- KeyOf,
    turns     <- store,
    plan      <- [k \in Key |-> None],
    took      <- [h \in Handler |-> None]

ImplementsSerial == Serial!Spec

\* Who is registered in the hub is in its Wait and not yet answered: no message
\* goes to a clarify call that is over.
WaiterIsLive ==
    \A k \in Key : waiter[k] # None =>
        /\ KeyOf[waiter[k]] = k
        /\ pc[waiter[k]] \in {"wait", "timeout"}
        /\ answer[waiter[k]] = None

\* A message id passes the cache twice only after DedupSize others passed.
DedupWindow ==
    \A i, j \in 1..Len(accepted) :
        i < j /\ accepted[i] = accepted[j] => j - i > DedupSize

\* The one way the gateway can be stuck: a clarify call wants its chat's lock
\* back, which the next message of the chat took to wait for the Agent.
Wedge ==
    \E h, g \in Handler :
        /\ pc[h] = "relock" /\ agentLock = h
        /\ pc[g] = "agent" /\ chatLock[KeyOf[h]] = g

-----------------------------------------------------------------------------
\* The inductive invariant behind the theorems of IMGatewayProofs.

LocksHeld ==
    \A h \in Handler :
        /\ pc[h] \in HasChat => chatLock[KeyOf[h]] = h
        /\ pc[h] \in HasAgent => agentLock = h

\* The session of a turn not yet saved is the stored one.
LoadedIsStored ==
    \A h \in Handler : pc[h] \in HasTurn => loaded[h] = store[KeyOf[h]]

GatewayInv == TypeOK /\ LocksHeld /\ LoadedIsStored /\ WaiterIsLive

\* At most one turn at a time is in Agent.Run, and while a chat's turn is not
\* waiting for its user no other handler of the chat is past the chat's lock.
OneTurn ==
    \A h, g \in Handler : h # g =>
        /\ ~(pc[h] \in HasAgent /\ pc[g] \in HasAgent)
        /\ KeyOf[h] = KeyOf[g] => ~(pc[h] \in HasChat /\ pc[g] \in HasChat)

-----------------------------------------------------------------------------
\* "Wait blocks until DeliverAnswer or ctx is cancelled" (clarify_hub.go): once
\* the wait is over the turn goes on.
ClarifyReturns ==
    \A h \in Handler : (pc[h] = "relock") ~> (pc[h] = "run")

\* Every inbound event is dealt with, clarify waits included, unless the gateway
\* is stuck in that one way.
AllHandled == \A h \in Handler : <>(pc[h] = "done" \/ Wedge)
=============================================================================
