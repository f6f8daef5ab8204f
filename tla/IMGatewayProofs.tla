-------------------------- MODULE IMGatewayProofs --------------------------
(***************************************************************************)
(* What the gateway keeps for any number of chats, messages and handlers:  *)
(* its types, one turn at a time, live clarify waiters, and no turn saved  *)
(* over another although the chat's lock is open during a clarify call, so *)
(* that turns take effect one at a time (SerialTurns); of the tenants'     *)
(* gateway the same, and that turns and connections stay with their        *)
(* owners.                                                                 *)
(***************************************************************************)
EXTENDS TenantGateway, SequenceTheorems, TLAPS

LEMMA KeyTypes == \A h \in Handler : KeyOf[h] \in Key /\ MessageOf[h] \in Message
BY IMGatewayAssumption DEF IMGatewayAssumption

\* What TryAdd makes of the cache.
LEMMA TryAddTypes ==
    ASSUME NEW m \in Message, seen \in Seq(Message), Len(seen) <= DedupSize,
           accepted \in Seq(Message), TryAdd(m)
    PROVE  seen' \in Seq(Message) /\ Len(seen') <= DedupSize
           /\ accepted' \in Seq(Message)
<1> DEFINE s == Append(seen, m)
<1>1. s \in Seq(Message) /\ Len(s) = Len(seen) + 1
  OBVIOUS
<1>2. DedupSize \in Nat /\ Len(seen) \in Nat
  BY IMGatewayAssumption DEF IMGatewayAssumption
<1>3. SubSeq(s, 2, Len(s)) \in Seq(Message) /\ Len(SubSeq(s, 2, Len(s))) = Len(seen)
  BY <1>1, <1>2
<1>4. seen' = IF Len(s) > DedupSize THEN SubSeq(s, 2, Len(s)) ELSE s
  BY DEF TryAdd
<1>5. seen' \in Seq(Message) /\ Len(seen') <= DedupSize
  <2> HIDE DEF s
  <2> QED
    BY <1>1, <1>2, <1>3, <1>4
<1> QED
  BY <1>5 DEF TryAdd

THEOREM InitGateway == Init => GatewayInv
<1> SUFFICES ASSUME Init PROVE GatewayInv
  OBVIOUS
<1>1. seen \in Seq(Message) /\ Len(seen) <= DedupSize /\ accepted \in Seq(Message)
  BY IMGatewayAssumption DEF Init, IMGatewayAssumption
<1>2. asks \in [Handler -> 0..MaxAsks]
  BY IMGatewayAssumption DEF Init, IMGatewayAssumption
<1>3. TypeOK
  BY <1>1, <1>2 DEF Init, TypeOK, Place
<1> QED
  BY <1>3, KeyTypes
     DEF Init, GatewayInv, LocksHeld, LoadedIsStored, WaiterIsLive, HasChat,
         HasAgent, HasTurn, Waiting

\* Every step keeps the types.
THEOREM GatewayType == TypeOK /\ [Next]_vars => TypeOK'
<1> SUFFICES ASSUME TypeOK, [Next]_vars PROVE TypeOK'
  OBVIOUS
<1> USE KeyTypes DEF TypeOK, Go, Lock, Unlock, Place, HasChat, Waiting
<1>1. ASSUME NEW h \in Handler, Inbound(h) PROVE TypeOK'
  <2>1. CASE Duplicate(h) \/ LockAgent(h)
    BY <2>1 DEF Duplicate, LockAgent, dedup, locks, hub, sess
  <2>5. CASE LockChat(h) \/ LoadFails(h)
    <3>1. chatLock' \in [Key -> Handler \cup {None}]
      BY <2>5 DEF LockChat, LoadFails
    <3> QED
      BY <2>5, <3>1 DEF LockChat, LoadFails, dedup, hub, sess
  <2>2. CASE Accept(h)
    <3>1. TryAdd(MessageOf[h])
      BY <2>2 DEF Accept
    <3>2. seen' \in Seq(Message) /\ Len(seen') <= DedupSize /\ accepted' \in Seq(Message)
      BY <3>1, TryAddTypes
    <3> QED
      BY <2>2, <3>2 DEF Accept, locks, hub, sess
  <2>3. CASE Deliver(h)
    BY <2>3 DEF Deliver, dedup, sess
  <2>4. CASE Load(h)
    BY <2>4 DEF Load, dedup, locks, hub
  <2> QED
    BY <1>1, <2>1, <2>2, <2>3, <2>4, <2>5 DEF Inbound
<1>2. ASSUME NEW h \in Handler, Clarify(h) PROVE TypeOK'
  <2>1. CASE Ask(h)
    <3>1. asks' \in [Handler -> 0..MaxAsks]
      BY <2>1, IMGatewayAssumption DEF Ask, IMGatewayAssumption
    <3> QED
      BY <2>1, <3>1 DEF Ask, dedup, hub, sess
  <2>2. CASE Register(h)
    BY <2>2 DEF Register, dedup, locks, sess
  <2>3. CASE Receive(h) \/ TimeOut(h)
    BY <2>3 DEF Receive, TimeOut, dedup, locks, hub, sess
  <2>4. CASE Forget(h)
    BY <2>4 DEF Forget, dedup, locks, sess
  <2>5. CASE Relock(h)
    BY <2>5 DEF Relock, dedup, hub, sess
  <2> QED
    BY <1>2, <2>1, <2>2, <2>3, <2>4, <2>5 DEF Clarify
<1>3. ASSUME NEW h \in Handler, Finish(h) PROVE TypeOK'
  <2>1. CASE EndTurn(h)
    <3>1. store' \in [Key -> SUBSET Handler]
      <4>1. loaded[h] \cup {h} \subseteq Handler
        OBVIOUS
      <4> QED
        BY <2>1, <4>1 DEF EndTurn
    <3> QED
      BY <2>1, <3>1 DEF EndTurn, dedup, hub
  <2>2. CASE Reply(h)
    BY <2>2 DEF Reply, dedup, hub, sess
  <2> QED
    BY <1>3, <2>1, <2>2 DEF Finish
<1>4. CASE UNCHANGED vars
  BY <1>4 DEF vars, dedup, locks, hub, sess
<1> QED
  BY <1>1, <1>2, <1>3, <1>4 DEF Next, HandlerStep

\* A handler outside the hub's wait that leaves the hub alone leaves its waiters
\* alone.
LEMMA WaitersUntouched ==
    ASSUME TypeOK, WaiterIsLive, UNCHANGED hub,
           NEW h \in Handler, pc[h] \notin {"wait", "timeout"},
           \A g \in Handler \ {h} : pc'[g] = pc[g]
    PROVE  WaiterIsLive'
<1> SUFFICES ASSUME NEW k \in Key, waiter[k] # None
             PROVE  /\ KeyOf[waiter[k]] = k
                    /\ pc'[waiter[k]] \in {"wait", "timeout"}
                    /\ answer[waiter[k]] = None
  BY DEF WaiterIsLive, hub
<1>1. waiter[k] \in Handler /\ pc[waiter[k]] \in {"wait", "timeout"}
  BY DEF TypeOK, WaiterIsLive
<1> QED
  BY <1>1 DEF WaiterIsLive

\* Every step keeps the locks, the loaded sessions and the waiters in order.
THEOREM GatewayStep == GatewayInv /\ [Next]_vars => GatewayInv'
<1> SUFFICES ASSUME TypeOK, LocksHeld, LoadedIsStored, WaiterIsLive, [Next]_vars
             PROVE  LocksHeld' /\ LoadedIsStored' /\ WaiterIsLive'
  BY GatewayType DEF GatewayInv
<1> USE KeyTypes, IMGatewayAssumption
    DEF TypeOK, Go, Lock, Unlock, HasChat, HasAgent, HasTurn, Waiting,
        IMGatewayAssumption
<1>1. ASSUME NEW h \in Handler, Inbound(h)
      PROVE  LocksHeld' /\ LoadedIsStored' /\ WaiterIsLive'
  <2>1. LocksHeld'
    BY <1>1 DEF LocksHeld, Inbound, Duplicate, Accept, LockChat, Deliver, Load,
                LoadFails, LockAgent, locks
  <2>2. LoadedIsStored'
    BY <1>1 DEF LoadedIsStored, Inbound, Duplicate, Accept, LockChat, Deliver,
                Load, LoadFails, LockAgent, sess
  <2>3. WaiterIsLive'
    <3>1. CASE Deliver(h)
      BY <3>1 DEF WaiterIsLive, Deliver
    <3>2. CASE \/ Duplicate(h) \/ Accept(h) \/ LockChat(h) \/ Load(h)
               \/ LoadFails(h) \/ LockAgent(h)
      <4>1. UNCHANGED hub /\ pc[h] \notin {"wait", "timeout"}
            /\ \A g \in Handler \ {h} : pc'[g] = pc[g]
        BY <3>2 DEF Duplicate, Accept, LockChat, Load, LoadFails, LockAgent
      <4> QED
        BY <4>1, WaitersUntouched
    <3> QED
      BY <1>1, <3>1, <3>2 DEF Inbound
  <2> QED
    BY <2>1, <2>2, <2>3
<1>2. ASSUME NEW h \in Handler, Clarify(h)
      PROVE  LocksHeld' /\ LoadedIsStored' /\ WaiterIsLive'
  <2>1. LocksHeld'
    <3>1. CASE Ask(h)
      BY <3>1 DEF LocksHeld, Ask
    <3>2. CASE Relock(h)
      BY <3>2 DEF LocksHeld, Relock
    <3>3. CASE Register(h) \/ Receive(h) \/ TimeOut(h) \/ Forget(h)
      BY <3>3 DEF LocksHeld, Register, Receive, TimeOut, Forget, locks
    <3> QED
      BY <1>2, <3>1, <3>2, <3>3 DEF Clarify
  <2>2. LoadedIsStored'
    BY <1>2 DEF LoadedIsStored, Clarify, Ask, Register, Receive, TimeOut, Forget,
                Relock, sess
  <2>3. WaiterIsLive'
    <3>1. CASE Ask(h) \/ Relock(h)
      <4>1. UNCHANGED hub /\ pc[h] \notin {"wait", "timeout"}
            /\ \A g \in Handler \ {h} : pc'[g] = pc[g]
        BY <3>1 DEF Ask, Relock
      <4> QED
        BY <4>1, WaitersUntouched
    <3>2. CASE Register(h)
      BY <3>2 DEF WaiterIsLive, Register
    <3>3. CASE Receive(h)
      <4>1. \A k \in Key : waiter[k] # h
        BY <3>3 DEF Receive, WaiterIsLive
      <4>2. UNCHANGED hub /\ \A g \in Handler \ {h} : pc'[g] = pc[g]
        BY <3>3 DEF Receive
      <4> QED
        BY <4>1, <4>2 DEF WaiterIsLive, hub
    <3>5. CASE TimeOut(h)
      <4>1. UNCHANGED hub /\ pc'[h] = "timeout"
            /\ \A g \in Handler \ {h} : pc'[g] = pc[g]
        BY <3>5 DEF TimeOut
      <4>2. SUFFICES ASSUME NEW k \in Key, waiter[k] # None
                     PROVE  /\ KeyOf[waiter[k]] = k
                            /\ pc'[waiter[k]] \in {"wait", "timeout"}
                            /\ answer[waiter[k]] = None
        BY <4>1 DEF WaiterIsLive, hub
      <4>3. waiter[k] \in Handler
        BY <4>2
      <4> QED
        BY <4>1, <4>2, <4>3 DEF WaiterIsLive
    <3>4. CASE Forget(h)
      BY <3>4 DEF WaiterIsLive, Forget
    <3> QED
      BY <1>2, <3>1, <3>2, <3>3, <3>4, <3>5 DEF Clarify
  <2> QED
    BY <2>1, <2>2, <2>3
<1>3. ASSUME NEW h \in Handler, Finish(h)
      PROVE  LocksHeld' /\ LoadedIsStored' /\ WaiterIsLive'
  <2>1. LocksHeld'
    <3>1. CASE EndTurn(h)
      BY <3>1 DEF LocksHeld, EndTurn
    <3>2. CASE Reply(h)
      BY <3>2 DEF LocksHeld, Reply
    <3> QED
      BY <1>3, <3>1, <3>2 DEF Finish
  <2>2. LoadedIsStored'
    <3>1. CASE EndTurn(h)
      <4>1. \A g \in Handler : g # h /\ pc[g] \in HasTurn => KeyOf[g] # KeyOf[h]
        BY <3>1 DEF LocksHeld, EndTurn
      <4> QED
        BY <3>1, <4>1 DEF LoadedIsStored, EndTurn
    <3>2. CASE Reply(h)
      BY <3>2 DEF LoadedIsStored, Reply, sess
    <3> QED
      BY <1>3, <3>1, <3>2 DEF Finish
  <2>3. WaiterIsLive'
    <3>1. UNCHANGED hub /\ pc[h] \notin {"wait", "timeout"}
          /\ \A g \in Handler \ {h} : pc'[g] = pc[g]
      BY <1>3 DEF Finish, EndTurn, Reply
    <3> QED
      BY <3>1, WaitersUntouched
  <2> QED
    BY <2>1, <2>2, <2>3
<1>4. CASE UNCHANGED vars
  BY <1>4 DEF vars, locks, hub, sess, LocksHeld, LoadedIsStored, WaiterIsLive
<1> QED
  BY <1>1, <1>2, <1>3, <1>4 DEF Next, HandlerStep

\* The inductive invariant is one.
THEOREM GatewayInvariant == Spec => []GatewayInv
BY InitGateway, GatewayStep, PTL DEF Spec

-----------------------------------------------------------------------------
\* One turn in the Agent, one handler past a chat's lock: the gateway's promise
\* to serialise per chat and across chats, but for the wait of a clarify call.
THEOREM Serialised == Spec => []OneTurn
<1>1. GatewayInv => OneTurn
  BY DEF GatewayInv, LocksHeld, OneTurn
<1> QED
  BY <1>1, GatewayInvariant, PTL

\* No message is ever handed to a clarify call that is over.
THEOREM WaitersLive == Spec => []WaiterIsLive
<1>1. GatewayInv => WaiterIsLive
  BY DEF GatewayInv
<1> QED
  BY <1>1, GatewayInvariant, PTL

\* No turn is saved over another of its chat.
THEOREM HistoryIsKept == Spec => HistoryKept
<1>1. GatewayInv /\ [Next]_vars => [\A k \in Key : store[k] \subseteq store'[k]]_store
  <2> SUFFICES ASSUME GatewayInv, Next
               PROVE  store' = store \/ \A k \in Key : store[k] \subseteq store'[k]
    BY DEF vars, sess
  <2>1. PICK h \in Handler : HandlerStep(h)
    BY DEF Next
  <2>2. CASE EndTurn(h)
    <3>1. loaded[h] = store[KeyOf[h]] /\ KeyOf[h] \in Key
      BY <2>2, KeyTypes DEF EndTurn, GatewayInv, LoadedIsStored, HasTurn, HasAgent
    <3>2. store' = store \/ store' = [store EXCEPT ![KeyOf[h]] = store[KeyOf[h]] \cup {h}]
      BY <2>2, <3>1 DEF EndTurn
    <3> QED
      BY <3>2 DEF GatewayInv, TypeOK
  <2>3. CASE Inbound(h) \/ Clarify(h) \/ Reply(h)
    BY <2>3 DEF Inbound, Duplicate, Accept, LockChat, Deliver, Load, LoadFails,
                LockAgent, Clarify, Ask, Register, Receive, TimeOut, Forget,
                Relock, Reply, sess
  <2> QED
    BY <2>1, <2>2, <2>3 DEF HandlerStep, Finish
<1> QED
  BY <1>1, GatewayInvariant, PTL DEF Spec, HistoryKept

-----------------------------------------------------------------------------
\* A saved turn is one of the chat's, and over.
SavedIsOver ==
    \A k \in Key : \A h \in store[k] : KeyOf[h] = k /\ pc[h] \in {"reply", "done"}

\* Every step keeps the saved turns saved and over.
LEMMA StepSaved == GatewayInv /\ SavedIsOver /\ [Next]_vars => SavedIsOver'
<1> SUFFICES ASSUME GatewayInv, SavedIsOver, [Next]_vars PROVE SavedIsOver'
  OBVIOUS
<1>t. /\ pc \in [Handler -> Place] /\ store \in [Key -> SUBSET Handler]
      /\ \A h \in Handler : pc[h] \in HasTurn => loaded[h] = store[KeyOf[h]]
  BY DEF GatewayInv, TypeOK, LoadedIsStored
<1> USE <1>t, KeyTypes DEF Go, SavedIsOver
<1>0. CASE UNCHANGED vars
  BY <1>0 DEF vars, sess
<1>1. ASSUME NEW h \in Handler, Inbound(h) PROVE SavedIsOver'
  BY <1>1 DEF Inbound, Duplicate, Accept, LockChat, Deliver, Load, LoadFails, LockAgent, sess
<1>2. ASSUME NEW h \in Handler, Clarify(h) PROVE SavedIsOver'
  BY <1>2 DEF Clarify, Ask, Register, Receive, TimeOut, Forget, Relock, sess
<1>3. ASSUME NEW h \in Handler, EndTurn(h) PROVE SavedIsOver'
  <2>1. loaded[h] = store[KeyOf[h]]
    BY <1>3 DEF EndTurn, HasTurn, HasAgent
  <2>2. store' = store \/ store' = [store EXCEPT ![KeyOf[h]] = store[KeyOf[h]] \cup {h}]
    BY <1>3, <2>1 DEF EndTurn
  <2>3. pc' = [pc EXCEPT ![h] = "reply"]
    BY <1>3 DEF EndTurn
  <2> QED
    BY <2>2, <2>3
<1>4. ASSUME NEW h \in Handler, Reply(h) PROVE SavedIsOver'
  BY <1>4 DEF Reply, sess
<1> QED
  BY <1>0, <1>1, <1>2, <1>3, <1>4 DEF Next, HandlerStep, Finish

\* Only the end of a turn changes a stored session, and it is the abstract turn:
\* the turn joins the chat's history as it is then, once.
LEMMA StepSerial == GatewayInv /\ SavedIsOver /\ [Next]_vars => [Serial!Next]_(Serial!vars)
<1> SUFFICES ASSUME GatewayInv, SavedIsOver, Next, store' # store
             PROVE  Serial!Next
  BY DEF vars, sess, Serial!vars
<1>1. PICK h \in Handler : HandlerStep(h)
  BY DEF Next
<1>2. EndTurn(h)
  BY <1>1 DEF HandlerStep, Inbound, Duplicate, Accept, LockChat, Deliver, Load, LoadFails,
     LockAgent, Clarify, Ask, Register, Receive, TimeOut, Forget, Relock, Finish, Reply, sess
<1>3. loaded[h] = store[KeyOf[h]] /\ pc[h] = "run" /\ KeyOf[h] \in Key
  BY <1>2, KeyTypes DEF EndTurn, GatewayInv, LoadedIsStored, HasTurn, HasAgent
<1>4. store' = [store EXCEPT ![KeyOf[h]] = store[KeyOf[h]] \cup {h}]
  BY <1>2, <1>3 DEF EndTurn
<1>5. h \notin store[KeyOf[h]]
  BY <1>3 DEF SavedIsOver
<1>6. [k \in Key |-> None] = [[k \in Key |-> None] EXCEPT ![KeyOf[h]] = None]
  BY <1>3
<1>7. [g \in Handler |-> None] = [[g \in Handler |-> None] EXCEPT ![h] = [k \in Key |-> None][KeyOf[h]]]
  BY <1>3
<1> QED
  BY <1>4, <1>5, <1>6, <1>7 DEF Serial!Next, Serial!TakeEffect

\* However messages arrive and clarify calls open a chat's lock, the turns of a
\* chat take effect one at a time, each on the session as the last one left it.
THEOREM GatewayIsSerial == Spec => ImplementsSerial
<1>1. Init => SavedIsOver /\ Serial!Init
  BY DEF Init, SavedIsOver, Serial!Init
<1> QED
  BY <1>1, StepSaved, StepSerial, GatewayInvariant, PTL DEF Spec, ImplementsSerial, Serial!Spec

-----------------------------------------------------------------------------
\* The cache is the end of the history: the whole of it until the cache is
\* full, its last DedupSize ids from then on.
CacheIsEnd ==
    /\ Len(seen) <= Len(accepted)
    /\ Len(seen) < DedupSize => Len(accepted) = Len(seen)
    /\ \A i \in 1..Len(seen) : seen[i] = accepted[Len(accepted) - Len(seen) + i]

CacheInv == TypeOK /\ CacheIsEnd /\ DedupWindow

\* A new id goes to the end of both, and the cache drops its oldest one.
LEMMA TryAddEnd ==
    ASSUME CacheInv, NEW m \in Message, TryAdd(m)
    PROVE  CacheIsEnd'
<1> DEFINE n == Len(accepted)
           l == Len(seen)
           s == Append(seen, m)
<1>1. n \in Nat /\ l \in Nat /\ l <= n /\ l <= DedupSize /\ DedupSize \in Nat \ {0}
  BY IMGatewayAssumption DEF CacheInv, CacheIsEnd, TypeOK, IMGatewayAssumption
<1>2. /\ seen \in Seq(Message) /\ accepted \in Seq(Message)
      /\ l < DedupSize => n = l
      /\ \A i \in 1..l : seen[i] = accepted[n - l + i]
  BY DEF CacheInv, CacheIsEnd, TypeOK
<1>3. /\ Len(accepted') = n + 1 /\ accepted'[n + 1] = m
      /\ \A i \in 1..n : accepted'[i] = accepted[i]
  BY <1>2, AppendProperties DEF TryAdd
<1>4. s \in Seq(Message) /\ Len(s) = l + 1 /\ s[l + 1] = m /\ \A i \in 1..l : s[i] = seen[i]
  BY <1>2, AppendProperties
<1>5. \A i \in 1..(l + 1) : s[i] = accepted'[n - l + i]
  <2> SUFFICES ASSUME NEW i \in 1..(l + 1) PROVE s[i] = accepted'[n - l + i]
    OBVIOUS
  <2>1. CASE i = l + 1
    <3>1. n - l + i = n + 1  BY <2>1, <1>1
    <3> QED  BY <2>1, <3>1, <1>3, <1>4
  <2>2. CASE i \in 1..l
    <3>1. n - l + i \in 1..n  BY <2>2, <1>1
    <3> QED  BY <2>2, <3>1, <1>2, <1>3, <1>4
  <2> QED  BY <2>1, <2>2, <1>1
<1>6. CASE l + 1 > DedupSize
  <2>1. l = DedupSize  BY <1>1, <1>6
  <2>2. seen' = SubSeq(s, 2, l + 1)  BY <1>4, <1>6 DEF TryAdd
  <2>3. Len(seen') = l /\ \A i \in 1..l : seen'[i] = s[i + 1]
    <3> HIDE DEF s, l
    <3>1. \A i \in 2..(l + 1) : s[i] \in Message  BY <1>1, <1>4
    <3> QED  BY <1>1, <2>1, <2>2, <3>1, SubSeqProperties
  <2>4. \A i \in 1..l : seen'[i] = accepted'[(n + 1) - l + i]
    <3> SUFFICES ASSUME NEW i \in 1..l PROVE seen'[i] = accepted'[(n + 1) - l + i]
      OBVIOUS
    <3>1. i + 1 \in 1..(l + 1) /\ n - l + (i + 1) = (n + 1) - l + i  BY <1>1
    <3> QED  BY <1>5, <2>3, <3>1
  <2> QED  BY <1>1, <1>3, <2>1, <2>3, <2>4 DEF CacheIsEnd
<1>7. CASE l + 1 <= DedupSize
  <2>1. seen' = s /\ n = l  BY <1>1, <1>2, <1>4, <1>7 DEF TryAdd
  <2>2. Len(seen') = l + 1 /\ \A i \in 1..(l + 1) : seen'[i] = accepted'[(n + 1) - (l + 1) + i]
    BY <1>4, <1>5, <2>1
  <2> QED  BY <1>1, <1>3, <2>1, <2>2 DEF CacheIsEnd
<1> QED  BY <1>1, <1>6, <1>7

\* An id that is not in the cache was last accepted before the ids in it.
LEMMA TryAddWindow ==
    ASSUME CacheInv, NEW m \in Message, TryAdd(m)
    PROVE  DedupWindow'
<1> DEFINE n == Len(accepted)
           l == Len(seen)
<1>1. n \in Nat /\ l \in Nat /\ l <= n /\ l <= DedupSize /\ DedupSize \in Nat \ {0}
  BY IMGatewayAssumption DEF CacheInv, CacheIsEnd, TypeOK, IMGatewayAssumption
<1>2. /\ Len(accepted') = n + 1 /\ accepted'[n + 1] = m
      /\ \A i \in 1..n : accepted'[i] = accepted[i]
  BY AppendProperties DEF TryAdd, CacheInv, TypeOK
<1>3. SUFFICES ASSUME NEW i \in 1..(n + 1), NEW j \in 1..(n + 1), i < j, accepted'[i] = accepted'[j]
               PROVE  j - i > DedupSize
  BY <1>2 DEF DedupWindow
<1>4. CASE j \in 1..n
  BY <1>1, <1>2, <1>3, <1>4 DEF CacheInv, DedupWindow
<1>5. CASE j = n + 1
  <2>1. i \in 1..n /\ accepted[i] = m  BY <1>1, <1>2, <1>3, <1>5
  <2>2. i <= n - l
    <3> SUFFICES ASSUME i > n - l PROVE FALSE  BY <1>1
    <3> DEFINE k == i - (n - l)
    <3>1. k \in 1..l /\ n - l + k = i  BY <1>1, <2>1
    <3>2. seen[k] = m  BY <2>1, <3>1 DEF CacheInv, CacheIsEnd
    <3> QED  BY <3>1, <3>2 DEF TryAdd, Remembered
  <2>3. l = DedupSize
    BY <1>1, <2>1, <2>2 DEF CacheInv, CacheIsEnd
  <2> QED  BY <1>1, <1>5, <2>1, <2>2, <2>3
<1> QED  BY <1>1, <1>3, <1>4, <1>5

\* A message id passes the cache twice only after DedupSize others have passed
\* it, however often and in what order events are delivered again.
THEOREM DedupHolds == Spec => []DedupWindow
<1>1. Init => CacheInv
  BY InitGateway, IMGatewayAssumption
     DEF Init, GatewayInv, CacheInv, CacheIsEnd, DedupWindow, IMGatewayAssumption
<1>2. CacheInv /\ [Next]_vars => CacheInv'
  <2> SUFFICES ASSUME CacheInv, [Next]_vars PROVE CacheIsEnd' /\ DedupWindow'
    BY GatewayType DEF CacheInv
  <2>1. CASE UNCHANGED dedup
    BY <2>1 DEF dedup, CacheInv, CacheIsEnd, DedupWindow
  <2>2. ASSUME NEW h \in Handler, Accept(h) PROVE CacheIsEnd' /\ DedupWindow'
    BY <2>2, KeyTypes, TryAddEnd, TryAddWindow DEF Accept
  <2>3. ASSUME NEW h \in Handler, HandlerStep(h), ~Accept(h) PROVE UNCHANGED dedup
    BY <2>3 DEF HandlerStep, Inbound, Duplicate, LockChat, Deliver, Load, LoadFails, LockAgent,
       Clarify, Ask, Register, Receive, TimeOut, Forget, Relock, Finish, EndTurn, Reply
  <2> QED  BY <2>1, <2>2, <2>3 DEF Next, vars
<1>3. CacheInv => DedupWindow  BY DEF CacheInv
<1> QED  BY <1>1, <1>2, <1>3, PTL DEF Spec

-----------------------------------------------------------------------------
(* The gateway of many tenants. *)

\* Each step of the tenants' gateway is a step of IMGateway's handlers or none.
LEMMA TenantStepIsStep == [TenantNext]_tenantVars => [Next]_vars
<1> SUFFICES ASSUME [TenantNext]_tenantVars PROVE Next \/ UNCHANGED vars
  OBVIOUS
<1>1. CASE UNCHANGED tenantVars
  BY <1>1 DEF tenantVars
<1>2. CASE Loop \/ Signal
  BY <1>2 DEF Loop, Signal, List, Sync, StopAll
<1>3. ASSUME NEW u \in User, Change(u) PROVE UNCHANGED vars
  BY <1>3 DEF Change
<1>4. ASSUME NEW c \in Conn, Connect(c) \/ Fail(c) PROVE UNCHANGED vars
  BY <1>4 DEF Connect, Dial, Hangup, Fail
<1>5. ASSUME NEW h \in Handler, Arrive(h) PROVE UNCHANGED vars
  BY <1>5 DEF Arrive
<1>6. ASSUME NEW h \in Handler, Handle(h) PROVE Next
  <2>1. HandlerStep(h)
    BY <1>6 DEF Handle, Elsewhere, TakeAgent, LeaveAgent, HandlerStep, Inbound,
                Finish
  <2> QED
    BY <2>1 DEF Next
<1> QED
  BY <1>1, <1>2, <1>3, <1>4, <1>5, <1>6 DEF TenantNext

\* The tenants' gateway is the gateway: all tenants together are served one turn
\* at a time, no message goes to a clarify call that is over, and no turn is
\* saved over another.
THEOREM TenantsShareGateway == TenantSpec => Spec
<1>1. TenantInit => Init
  BY DEF TenantInit
<1> QED
  BY <1>1, TenantStepIsStep, PTL DEF TenantSpec, Spec

\* The turns of a chat take effect one at a time, whoever else's run meanwhile.
THEOREM TenantsAreSerial == TenantSpec => ImplementsSerial
BY TenantsShareGateway, GatewayIsSerial

LEMMA TenantGatewayInv == TenantSpec => []GatewayInv
BY TenantsShareGateway, GatewayInvariant, PTL

LEMMA ConnIsPair ==
    \A c \in Conn : /\ UserOf(c) \in User /\ c[2] \in Nat \ {0}
                    /\ c = <<UserOf(c), c[2]>>
BY TenantAssumption DEF TenantAssumption, Conn, MaxStarts, UserOf

LEMMA InitTenant == TenantInit => TenantInv
<1> SUFFICES ASSUME TenantInit PROVE TenantInv
  OBVIOUS
<1>1. TenantTypeOK
  BY TenantAssumption DEF TenantInit, TenantTypeOK, TenantAssumption
<1>2. Numbered /\ LiveIsInTable
  BY DEF TenantInit, Numbered, LiveIsInTable
<1>3. OwnersModel /\ SwapsFromBase
  BY DEF TenantInit, Init, OwnersModel, SwapsFromBase, HasAgent, Waiting
<1> QED
  BY <1>1, <1>2, <1>3 DEF TenantInv

LEMMA InputType ==
    ASSUME inputs \in 0..MaxInputs, Input
    PROVE  inputs' \in 0..MaxInputs
BY TenantAssumption DEF Input, TenantAssumption

\* Every step keeps the tenants' types.
LEMMA TenantType == TenantTypeOK /\ [TenantNext]_tenantVars => TenantTypeOK'
<1> SUFFICES ASSUME TenantTypeOK, [TenantNext]_tenantVars PROVE TenantTypeOK'
  OBVIOUS
<1> USE TenantAssumption DEF TenantTypeOK, TenantAssumption
<1>1. CASE UNCHANGED tenantVars
  BY <1>1 DEF tenantVars, conns, model
<1>2. CASE List
  <2>1. list' \in [User -> Cred \cup {Off}]
    BY <1>2 DEF List
  <2>2. inputs' \in 0..MaxInputs
    BY <1>2, InputType DEF List
  <2> QED
    BY <1>2, <2>1, <2>2 DEF List, conns, model
<1>3. CASE Sync
  <2>1. list \in [User -> Cred \cup {Off}]
    BY <1>3 DEF Sync
  <2>2. table' \in [User -> Nat] /\ made' \in [User -> Nat]
    BY <1>3 DEF Sync
  <2>3. at' \in [Conn -> {"unused", "connecting", "started", "ended"}]
    BY <1>3 DEF Sync
  <2>4. credOf' \in [Conn -> Cred \cup {Off}]
    <3>1. \A c \in Conn : list[UserOf(c)] \in Cred \cup {Off}
      BY <2>1, ConnIsPair
    <3> QED
      BY <1>3, <3>1 DEF Sync
  <2>5. cancelled' \subseteq User \X Nat /\ open' \subseteq Conn
    BY <1>3 DEF Sync, Stop, Disconnect, Current
  <2> QED
    BY <1>3, <2>2, <2>3, <2>4, <2>5 DEF Sync, model
<1>4. CASE Signal
  <2>1. Conn \subseteq User \X Nat
    BY DEF Conn, MaxStarts
  <2> QED
    BY <1>4, <2>1 DEF Signal, model
<1>5. CASE StopAll
  <2>1. cancelled' \subseteq User \X Nat /\ open' \subseteq Conn
    BY <1>5 DEF StopAll, Stop, Disconnect, Current
  <2> QED
    BY <1>5, <2>1 DEF StopAll, model
<1>6. ASSUME NEW u \in User, Change(u) PROVE TenantTypeOK'
  <2>1. inputs' \in 0..MaxInputs
    BY <1>6, InputType DEF Change
  <2>2. want' \in [User -> Cred \cup {Off}]
    BY <1>6 DEF Change
  <2> QED
    BY <1>6, <2>1, <2>2 DEF Change, conns, model
<1>7. ASSUME NEW c \in Conn, Connect(c) PROVE TenantTypeOK'
  BY <1>7 DEF Connect, Dial, Hangup, model
<1>8. ASSUME NEW c \in Conn, Fail(c) PROVE TenantTypeOK'
  <2>1. inputs' \in 0..MaxInputs
    BY <1>8, InputType DEF Fail
  <2> QED
    BY <1>8, <2>1 DEF Fail, model
<1>9. ASSUME NEW h \in Handler, Arrive(h) PROVE TenantTypeOK'
  <2>1. inputs' \in 0..MaxInputs
    BY <1>9, InputType DEF Arrive
  <2> QED
    BY <1>9, <2>1 DEF Arrive, conns, model
<1>10. ASSUME NEW h \in Handler, Handle(h) PROVE TenantTypeOK'
  <2>1. CASE Elsewhere(h)
    BY <2>1 DEF Elsewhere, conns, model
  <2>2. CASE TakeAgent(h)
    BY <2>2 DEF TakeAgent, conns, model
  <2>3. CASE LeaveAgent(h)
    <3>1. agentGw' \in User \cup {Base}
      BY <2>3 DEF LeaveAgent
    <3> QED
      BY <2>3, <3>1 DEF LeaveAgent, conns
  <2> QED
    BY <1>10, <2>1, <2>2, <2>3 DEF Handle
<1> QED
  BY <1>1, <1>2, <1>3, <1>4, <1>5, <1>6, <1>7, <1>8, <1>9, <1>10
     DEF TenantNext, Loop

\* Every step numbers connections as they are made.
LEMMA TenantNumbers ==
    TenantTypeOK /\ Numbered /\ [TenantNext]_tenantVars => Numbered'
<1> SUFFICES ASSUME TenantTypeOK, Numbered, [TenantNext]_tenantVars,
                    NEW c \in Conn, at'[c] # "unused"
             PROVE  c[2] <= made'[UserOf(c)]
  BY DEF Numbered, UserOf
<1> USE ConnIsPair DEF TenantTypeOK, Numbered
<1>1. CASE Sync
  <2>1. made'[UserOf(c)] >= made[UserOf(c)]
    BY <1>1 DEF Sync
  <2>2. at'[c] = at[c] \/ c[2] <= made'[UserOf(c)]
    BY <1>1 DEF Sync, UserOf
  <2>3. made[UserOf(c)] \in Nat /\ made'[UserOf(c)] \in Nat /\ c[2] \in Nat
    BY <1>1 DEF Sync
  <2>4. CASE at'[c] = at[c]
    <3>1. c[2] <= made[UserOf(c)]
      BY <2>4
    <3> QED
      BY <2>1, <2>3, <3>1
  <2> QED
    BY <2>2, <2>4
<1>2. CASE Dial(c) \/ Hangup(c) \/ Fail(c)
  BY <1>2 DEF Dial, Hangup, Fail
<1>3. CASE UNCHANGED made /\ at'[c] = at[c]
  BY <1>3
<1>4. UNCHANGED tenantVars \/ List \/ Signal \/ StopAll
      \/ (\E u \in User : Change(u)) \/ (\E h \in Handler : Arrive(h) \/ Handle(h))
      => UNCHANGED made /\ at'[c] = at[c]
  BY DEF tenantVars, conns, List, Signal, StopAll, Change, Arrive, Handle, Elsewhere,
         TakeAgent, LeaveAgent
<1>5. ASSUME NEW d \in Conn, d # c, Dial(d) \/ Hangup(d) \/ Fail(d)
      PROVE  UNCHANGED made /\ at'[c] = at[c]
  BY <1>5 DEF Dial, Hangup, Fail
<1> QED
  BY <1>1, <1>2, <1>3, <1>4, <1>5 DEF TenantNext, Loop, Connect

\* Every step keeps the live connections in the table.
LEMMA TenantLive ==
    TenantTypeOK /\ Numbered /\ LiveIsInTable /\ [TenantNext]_tenantVars
    => LiveIsInTable'
<1> SUFFICES ASSUME TenantTypeOK, Numbered, LiveIsInTable, [TenantNext]_tenantVars,
                    NEW c \in Conn
             PROVE  /\ at'[c] \in {"connecting", "started"} /\ c \notin cancelled'
                          => c[2] = table'[UserOf(c)]
                    /\ c \in open' => at'[c] = "started"
  BY ConnIsPair DEF LiveIsInTable, InTable, Current, UserOf
<1> USE ConnIsPair DEF TenantTypeOK
<1> DEFINE u == UserOf(c)
<1>0. /\ at[c] \in {"connecting", "started"} /\ c \notin cancelled => c[2] = table[u]
      /\ c \in open => at[c] = "started"
  BY DEF LiveIsInTable, InTable, Current, UserOf
<1>1. CASE Sync
  <2>1. CASE u \in {v \in User : (table[v] = 0 \/ Outdated(v)) /\ list[v] # Off}
             /\ c[2] = made[u] + 1
    <3>1. at[c] = "unused"
      BY <2>1 DEF Numbered
    <3>2. c \notin open
      BY <3>1, <1>0
    <3>3. table'[u] = c[2]
      BY <1>1, <2>1 DEF Sync
    <3>4. c \notin open'
      BY <1>1, <3>2 DEF Sync, Stop, Disconnect
    <3> QED
      BY <3>3, <3>4
  <2>2. CASE ~(u \in {v \in User : (table[v] = 0 \/ Outdated(v)) /\ list[v] # Off}
               /\ c[2] = made[u] + 1)
    <3>1. at'[c] = at[c]
      BY <1>1, <2>2 DEF Sync, UserOf
    <3>2. c \in open' => c \in open
      BY <1>1 DEF Sync, Stop, Disconnect
    <3>3. ASSUME at[c] \in {"connecting", "started"}, c \notin cancelled'
          PROVE  table'[u] = c[2]
      <4>1. c \notin cancelled
        BY <1>1, <3>3 DEF Sync, Stop, Disconnect
      <4>2. table[u] = c[2] /\ table[u] # 0
        BY <1>0, <3>3, <4>1
      <4>3. c = Current(u)
        BY <4>2 DEF Current
      <4>4. ~Outdated(u)
        BY <1>1, <3>3, <4>3 DEF Sync, Stop, Disconnect
      <4> QED
        BY <1>1, <4>2, <4>4 DEF Sync
    <3> QED
      BY <1>0, <3>1, <3>2, <3>3
  <2> QED
    BY <2>1, <2>2
<1>2. CASE Signal
  BY <1>2, <1>0 DEF Signal
<1>3. CASE StopAll
  <2>1. ASSUME at[c] \in {"connecting", "started"} PROVE c \in cancelled'
    <3>1. CASE c \in cancelled
      BY <3>1, <1>3 DEF StopAll, Stop, Disconnect
    <3>2. CASE c \notin cancelled
      <4>1. table[u] = c[2] /\ table[u] # 0
        BY <1>0, <2>1, <3>2
      <4>2. c = Current(u)
        BY <4>1 DEF Current
      <4> QED
        BY <1>3, <4>1, <4>2 DEF StopAll, Stop, Disconnect
    <3> QED
      BY <3>1, <3>2
  <2> QED
    BY <1>3, <1>0, <2>1 DEF StopAll, Stop, Disconnect
<1>4. ASSUME NEW d \in Conn, Connect(d) \/ Fail(d)
      PROVE  /\ at'[c] \in {"connecting", "started"} /\ c \notin cancelled'
                   => c[2] = table'[UserOf(c)]
             /\ c \in open' => at'[c] = "started"
  BY <1>0, <1>4 DEF Connect, Dial, Hangup, Fail
<1>5. UNCHANGED tenantVars \/ List
      \/ (\E v \in User : Change(v)) \/ (\E h \in Handler : Arrive(h) \/ Handle(h))
      => UNCHANGED conns
  BY DEF tenantVars, List, Change, Arrive, Handle, Elsewhere, TakeAgent, LeaveAgent
<1>6. CASE UNCHANGED conns
  BY <1>0, <1>6 DEF conns
<1> QED
  BY <1>1, <1>2, <1>3, <1>4, <1>5, <1>6 DEF TenantNext, Loop

\* Every step but a handler's with the Agent leaves the Agent's gateway alone.
LEMMA GatewayUntouched ==
    ASSUME UNCHANGED <<agentLock, model>>, OwnersModel, SwapsFromBase,
           \A h \in Handler : pc'[h] \in HasAgent => pc[h] \in HasAgent
    PROVE  OwnersModel' /\ SwapsFromBase'
BY DEF OwnersModel, SwapsFromBase, model

\* Every step leaves the Agent with its owner's gateway or its own.
LEMMA TenantModel ==
    GatewayInv /\ TenantTypeOK /\ OwnersModel /\ SwapsFromBase
    /\ [TenantNext]_tenantVars => OwnersModel' /\ SwapsFromBase'
<1> SUFFICES ASSUME GatewayInv, TenantTypeOK, OwnersModel, SwapsFromBase,
                    [TenantNext]_tenantVars
             PROVE  OwnersModel' /\ SwapsFromBase'
  OBVIOUS
<1>0. TypeOK /\ LocksHeld
  BY DEF GatewayInv
<1>1. CASE UNCHANGED <<vars, model>>
  BY <1>1, GatewayUntouched DEF vars, locks
<1>2. UNCHANGED tenantVars \/ Loop \/ Signal \/ (\E u \in User : Change(u))
      \/ (\E c \in Conn : Connect(c) \/ Fail(c)) \/ (\E h \in Handler : Arrive(h))
      => UNCHANGED <<vars, model>>
  BY DEF tenantVars, Loop, List, Sync, StopAll, Signal, Change, Connect, Dial, Hangup,
         Fail, Arrive
<1>3. ASSUME NEW h \in Handler, Elsewhere(h) PROVE OwnersModel' /\ SwapsFromBase'
  <2>1. UNCHANGED <<agentLock, model>>
    BY <1>3 DEF Elsewhere, Duplicate, Accept, LockChat, Deliver, Load, LoadFails,
                Clarify, Ask, Register, Receive, TimeOut, Forget, Relock, Reply, locks
  <2>2. \A g \in Handler : pc'[g] \in HasAgent => pc[g] \in HasAgent
    BY <1>0, <1>3
       DEF Elsewhere, Duplicate, Accept, LockChat, Deliver, Load, LoadFails,
                Clarify, Ask, Register, Receive, TimeOut, Forget, Relock, Reply, Go,
                TypeOK, HasAgent, Waiting
  <2> QED
    BY <2>1, <2>2, GatewayUntouched
<1>4. ASSUME NEW h \in Handler, TakeAgent(h) PROVE OwnersModel' /\ SwapsFromBase'
  <2>1. /\ agentLock = None /\ agentLock' = h /\ h # None
        /\ pc'[h] = "run"
        /\ \A g \in Handler \ {h} : pc'[g] = pc[g]
    BY <1>0, <1>4, IMGatewayAssumption
       DEF TakeAgent, LockAgent, Go, TypeOK, IMGatewayAssumption
  <2>2. agentGw = Base
    BY <2>1 DEF OwnersModel
  <2>3. \A g \in Handler \ {h} : pc'[g] \notin HasAgent
    BY <1>0, <2>1, IMGatewayAssumption DEF LocksHeld, IMGatewayAssumption
  <2>4. \/ agentGw' = OwnerOf[h] /\ prevGw' = [prevGw EXCEPT ![h] = Base]
        \/ agentGw' = Base /\ prevGw' = prevGw
    BY <1>4, <2>2 DEF TakeAgent, model
  <2>5. OwnersModel'
    BY <2>1, <2>3, <2>4 DEF OwnersModel
  <2>6. Base # None
    BY TenantAssumption DEF TenantAssumption
  <2> QED
    BY <2>1, <2>3, <2>4, <2>5, <2>6 DEF SwapsFromBase, TenantTypeOK
<1>5. ASSUME NEW h \in Handler, LeaveAgent(h) PROVE OwnersModel' /\ SwapsFromBase'
  <2>1. /\ pc[h] \in HasAgent /\ pc'[h] \notin HasAgent
        /\ \A g \in Handler \ {h} : pc'[g] = pc[g]
    BY <1>0, <1>5 DEF LeaveAgent, EndTurn, Go, TypeOK, HasAgent, Waiting
  <2>2. agentGw' = Base
    BY <1>5, <2>1 DEF LeaveAgent, SwapsFromBase
  <2>3. \A g \in Handler : pc'[g] \notin HasAgent
    <3>1. agentLock = h
      BY <1>0, <2>1 DEF LocksHeld
    <3>2. \A g \in Handler \ {h} : pc[g] \notin HasAgent
      BY <1>0, <3>1 DEF LocksHeld
    <3> QED
      BY <2>1, <3>2
  <2>4. \A g \in Handler : prevGw'[g] \in {None, Base}
    BY <1>5 DEF LeaveAgent, SwapsFromBase, TenantTypeOK
  <2> QED
    BY <2>2, <2>3, <2>4 DEF OwnersModel, SwapsFromBase
<1> QED
  BY <1>1, <1>2, <1>3, <1>4, <1>5 DEF TenantNext, Handle

LEMMA TenantInvariant == TenantSpec => []TenantInv
<1>1. GatewayInv /\ TenantInv /\ [TenantNext]_tenantVars => TenantInv'
  BY TenantType, TenantNumbers, TenantLive, TenantModel DEF TenantInv
<1> QED
  BY <1>1, InitTenant, TenantGatewayInv, PTL DEF TenantSpec

\* Whatever the users, their credentials and the order of syncs, stops and dials:
\* the table holds the one connection of a user that will stay.
THEOREM OneConnection == TenantSpec => []LiveIsInTable
<1>1. TenantInv => LiveIsInTable
  BY DEF TenantInv
<1> QED
  BY <1>1, TenantInvariant, PTL

\* For any number of tenants, events and questions to their users: a turn runs on
\* its owner's model gateway or the Agent's own, and the next one finds that again.
THEOREM OwnersGateway == TenantSpec => []OwnersModel
<1>1. TenantInv => OwnersModel
  BY DEF TenantInv
<1> QED
  BY <1>1, TenantInvariant, PTL
=============================================================================
