------------------------- MODULE ClarifyQueueProofs -------------------------
(***************************************************************************)
(* Safety of the clarify queue for any number of questions, turns and      *)
(* requests.  The invariant follows an answer on its way: a waiter is in   *)
(* the queue or taken by one sender, the sender's answer is then in the    *)
(* waiter's channel, in its caller's, and in what the call returns.        *)
(***************************************************************************)
EXTENDS ClarifyQueue, TLAPS

\* Where a sender is: before it took a waiter, or after it sent its answer.
Untaken(s) == IF s \in Calls THEN caller[s] \in {"idle", "waiting"} ELSE post[s] \in {"new", "looked"}
Sent(s)    == IF s \in Calls THEN caller[s] \in {"picked", "returned"} ELSE post[s] = "ok"

\* A waiter is registered once, and has nothing to take before and after.
WaiterStates ==
    \A c \in Calls :
        /\ caller[c] = "idle" => waiter[c] = "none"
        /\ c \in queue => waiter[c] \in {"waits", "leaving"}
        /\ done[c] # None => waiter[c] = "over"

\* A sender takes one waiter, which is in the queue no more and nobody else's.
TakenOnce ==
    \A s \in Senders :
        /\ Untaken(s) => hit[s] = None
        /\ Sending(s) => hit[s] # None
        /\ hit[s] # None =>
              /\ hit[s] \notin queue
              /\ waiter[hit[s]] \notin {"none", "begin"}
              /\ \A r \in Senders : hit[r] = hit[s] => r = s

\* Until a sender has sent, its waiter has no answer; what is in the channels
\* was sent by the one who took the waiter.
Route ==
    /\ \A c \in Calls : ch[c] # None => hit[ch[c]] = c /\ Sent(ch[c])
    /\ \A c \in Calls : done[c] \in Senders => hit[done[c]] = c /\ Sent(done[c])

\* A waiter leaves only a call that is cancelled or has returned.
LeaveHasCause ==
    \A c \in Calls : waiter[c] = "leaving" \/ done[c] = Gone => Ended(c)

IInv == /\ TypeOK /\ WaiterStates /\ TakenOnce /\ Route /\ LeaveHasCause
        /\ UsersAnswer /\ UnansweredHasCause

LEMMA OldestType == Oldest \in queue \union {None} /\ (Heads # {} => Oldest \in queue)
BY DEF Oldest, Heads

LEMMA InitInv == Init => IInv
BY NamesAssumption DEF Init, IInv, TypeOK, WaiterStates, TakenOnce, Route, LeaveHasCause, UsersAnswer,
   UnansweredHasCause, Untaken, Sent, Sending, Senders, Ended

LEMMA TypeStep == TypeOK /\ [Next]_vars => TypeOK'
<1> SUFFICES ASSUME TypeOK, [Next]_vars PROVE TypeOK'
  OBVIOUS
<1> USE NamesAssumption, OldestType
<1>1. ASSUME NEW c \in Calls, GoWaiter(c)  PROVE TypeOK'
  BY <1>1 DEF TypeOK, GoWaiter, Register, Receive, SeeEnd, Leave, postVars, Senders
<1>2. ASSUME NEW c \in Calls, GoCaller(c)  PROVE TypeOK'
  <2>1. CASE ReturnDone(c) \/ ReturnCancelled(c) \/ TimeoutOpen(c) \/ ReturnPicked(c)
    BY <2>1 DEF TypeOK, ReturnDone, ReturnCancelled, TimeoutOpen, ReturnPicked, Return, Answered,
       postVars, Senders
  <2>2. CASE Timeout(c)
    BY <2>2 DEF TypeOK, Timeout, Take, postVars, Senders
  <2>3. CASE SendPick(c)
    BY <2>3 DEF TypeOK, SendPick, Send, postVars, Senders
  <2> QED  BY <1>2, <2>1, <2>2, <2>3 DEF GoCaller
<1>3. ASSUME NEW c \in Calls, Ask(c) \/ Cancel(c)  PROVE TypeOK'
  BY <1>3 DEF TypeOK, Ask, Cancel, postVars
<1>4. ASSUME NEW p \in Posts, Look(p) \/ GoPost(p)  PROVE TypeOK'
  BY <1>4 DEF TypeOK, Look, GoPost, Post, SendPost, Take, Send, callVars, Senders
<1>5. CASE UNCHANGED vars \/ Quiet
  BY <1>5 DEF TypeOK, vars, Quiet
<1> QED  BY <1>1, <1>2, <1>3, <1>4, <1>5 DEF Next

\* Steps that touch neither the queue nor a channel.
LEMMA ReturnStep ==
    ASSUME IInv, TypeOK', NEW c \in Calls,
           ReturnDone(c) \/ ReturnCancelled(c) \/ TimeoutOpen(c) \/ ReturnPicked(c)
    PROVE  IInv'
<1> USE NamesAssumption DEF Senders
<1>1. PICK by \in Senders \union {None} :
         /\ Return(c, by)
         /\ caller[c] \in {"waiting", "picked"}
         /\ by \in Posts => by = done[c] /\ by \notin skips
         /\ by = None => c \in Open \union cancelled \/ done[c] \in skips
  <2>1. CASE ReturnDone(c)
    <3>1. done[c] = Gone => c \in cancelled  BY <2>1 DEF IInv, LeaveHasCause, Ended, ReturnDone
    <3>2. CASE Answered(c)
      BY <2>1, <3>2 DEF ReturnDone, Answered, IInv, TypeOK
    <3>3. CASE ~Answered(c)
      BY <2>1, <3>1, <3>3 DEF ReturnDone, Answered, IInv, TypeOK
    <3> QED  BY <3>2, <3>3
  <2>2. CASE ReturnCancelled(c) \/ TimeoutOpen(c)
    BY <2>2 DEF ReturnCancelled, TimeoutOpen
  <2>3. CASE ReturnPicked(c)
    <3>1. CASE done[c] # None /\ Return(c, IF Answered(c) THEN done[c] ELSE c)
      <4>1. CASE Answered(c)  BY <2>3, <3>1, <4>1 DEF ReturnPicked, Answered, IInv, TypeOK
      <4>2. CASE ~Answered(c)  BY <2>3, <3>1, <4>2 DEF ReturnPicked
      <4> QED  BY <4>1, <4>2
    <3>2. CASE Return(c, c)  BY <2>3, <3>2 DEF ReturnPicked
    <3> QED  BY <2>3, <3>1, <3>2 DEF ReturnPicked
  <2> QED  BY <2>1, <2>2, <2>3
<1>2. /\ caller' = [caller EXCEPT ![c] = "returned"]
      /\ answer' = [answer EXCEPT ![c] = by]
      /\ UNCHANGED <<waiter, queue, ch, done, cancelled, post, skips, hit>>
  BY <1>1 DEF Return, postVars
<1>3. \A s \in Senders : /\ Untaken(s)' => Untaken(s)
                         /\ Sending(s)' => Sending(s)
                         /\ Sent(s) => Sent(s)'
  BY <1>1, <1>2 DEF Untaken, Sending, Sent, IInv, TypeOK
<1>4. WaiterStates'  BY <1>1, <1>2 DEF IInv, TypeOK, WaiterStates
<1>5. TakenOnce'  BY <1>2, <1>3 DEF IInv, TakenOnce, Untaken, Sending
<1>6. Route'
  <2>1. \A d \in Calls : ch[d] # None => ch[d] \in Senders  BY DEF IInv, TypeOK
  <2> QED  BY <1>2, <1>3, <2>1 DEF IInv, Route, Sent
<1>7. LeaveHasCause'  BY <1>2 DEF IInv, TypeOK, LeaveHasCause, Ended
<1>8. UsersAnswer'
  <2>1. by \in Posts => hit[by] = c /\ post[by] = "ok"
    BY <1>1 DEF IInv, Route, Sent
  <2> QED  BY <1>1, <1>2, <2>1 DEF IInv, TypeOK, UsersAnswer
<1>9. UnansweredHasCause'  BY <1>1, <1>2 DEF IInv, TypeOK, UnansweredHasCause
<1> QED  BY <1>4, <1>5, <1>6, <1>7, <1>8, <1>9 DEF IInv

LEMMA RegisterStep ==
    ASSUME IInv, TypeOK', NEW c \in Calls, Register(c)
    PROVE  IInv'
<1> USE NamesAssumption DEF Senders
<1>1. /\ waiter[c] = "begin" /\ waiter' = [waiter EXCEPT ![c] = "waits"]
      /\ queue' = queue \union {c}
      /\ UNCHANGED <<caller, ch, done, cancelled, post, skips, hit, answer>>
  BY DEF Register, postVars
<1>2. WaiterStates'  BY <1>1 DEF IInv, TypeOK, WaiterStates
<1>3. TakenOnce'  BY <1>1 DEF IInv, TypeOK, TakenOnce, Untaken, Sending
<1>4. Route'  BY <1>1 DEF IInv, Route, Sent
<1>5. LeaveHasCause'  BY <1>1 DEF IInv, TypeOK, LeaveHasCause, Ended
<1>6. UsersAnswer' /\ UnansweredHasCause'  BY <1>1 DEF IInv, UsersAnswer, UnansweredHasCause
<1> QED  BY <1>2, <1>3, <1>4, <1>5, <1>6 DEF IInv

LEMMA ReceiveStep ==
    ASSUME IInv, TypeOK', NEW c \in Calls, Receive(c)
    PROVE  IInv'
<1> USE NamesAssumption DEF Senders
<1>1. /\ waiter[c] = "waits" /\ waiter' = [waiter EXCEPT ![c] = "over"]
      /\ ch[c] # None /\ ch' = [ch EXCEPT ![c] = None]
      /\ done' = [done EXCEPT ![c] = ch[c]]
      /\ UNCHANGED <<caller, queue, cancelled, post, skips, hit, answer>>
  BY DEF Receive, postVars
<1>2. /\ ch[c] \in Senders /\ hit[ch[c]] = c /\ Sent(ch[c])
      /\ done[c] = None /\ c \notin queue
  BY <1>1 DEF IInv, TypeOK, Route, WaiterStates, TakenOnce
<1>3. WaiterStates'  BY <1>1, <1>2 DEF IInv, TypeOK, WaiterStates
<1>4. TakenOnce'  BY <1>1 DEF IInv, TypeOK, TakenOnce, Untaken, Sending
<1>5. Route'
  <2>1. \A d \in Calls : ch[d] # None => ch[d] \in Senders  BY DEF IInv, TypeOK
  <2> QED  BY <1>1, <1>2, <2>1 DEF IInv, TypeOK, Route, Sent
<1>6. LeaveHasCause'
  <2>1. ch[c] # Gone  BY <1>2
  <2> QED  BY <1>1, <2>1 DEF IInv, TypeOK, LeaveHasCause, Ended
<1>7. UsersAnswer'  BY <1>1 DEF IInv, UsersAnswer
<1>8. UnansweredHasCause'
  <2>1. \A p \in skips : p # None  BY DEF IInv, TypeOK
  <2> QED  BY <1>1, <1>2, <2>1 DEF IInv, TypeOK, UnansweredHasCause
<1> QED  BY <1>3, <1>4, <1>5, <1>6, <1>7, <1>8 DEF IInv

LEMMA SeeEndStep ==
    ASSUME IInv, TypeOK', NEW c \in Calls, SeeEnd(c)
    PROVE  IInv'
<1> USE NamesAssumption DEF Senders
<1>1. /\ waiter[c] = "waits" /\ waiter' = [waiter EXCEPT ![c] = "leaving"] /\ Ended(c)
      /\ UNCHANGED <<caller, queue, ch, done, cancelled, post, skips, hit, answer>>
  BY DEF SeeEnd, postVars
<1>2. WaiterStates'  BY <1>1 DEF IInv, TypeOK, WaiterStates
<1>3. TakenOnce'  BY <1>1 DEF IInv, TypeOK, TakenOnce, Untaken, Sending
<1>4. Route'  BY <1>1 DEF IInv, Route, Sent
<1>5. LeaveHasCause'  BY <1>1 DEF IInv, TypeOK, LeaveHasCause, Ended
<1>6. UsersAnswer' /\ UnansweredHasCause'  BY <1>1 DEF IInv, UsersAnswer, UnansweredHasCause
<1> QED  BY <1>2, <1>3, <1>4, <1>5, <1>6 DEF IInv

LEMMA LeaveStep ==
    ASSUME IInv, TypeOK', NEW c \in Calls, Leave(c)
    PROVE  IInv'
<1> USE NamesAssumption DEF Senders
<1>1. /\ waiter[c] = "leaving" /\ waiter' = [waiter EXCEPT ![c] = "over"]
      /\ queue' = queue \ {c} /\ done' = [done EXCEPT ![c] = Gone]
      /\ UNCHANGED <<caller, ch, cancelled, post, skips, hit, answer>>
  BY DEF Leave, postVars
<1>2. WaiterStates'  BY <1>1 DEF IInv, TypeOK, WaiterStates
<1>3. TakenOnce'  BY <1>1 DEF IInv, TypeOK, TakenOnce, Untaken, Sending
<1>4. Route'  BY <1>1 DEF IInv, TypeOK, Route, Sent
<1>5. LeaveHasCause'  BY <1>1 DEF IInv, TypeOK, LeaveHasCause, Ended
<1>6. UsersAnswer'  BY <1>1 DEF IInv, UsersAnswer
<1>7. UnansweredHasCause'
  <2>1. done[c] \notin skips  BY <1>1 DEF IInv, TypeOK, WaiterStates
  <2> QED  BY <1>1, <2>1 DEF IInv, TypeOK, UnansweredHasCause
<1> QED  BY <1>2, <1>3, <1>4, <1>5, <1>6, <1>7 DEF IInv

LEMMA AskStep ==
    ASSUME IInv, TypeOK', NEW c \in Calls, Ask(c)
    PROVE  IInv'
<1> USE NamesAssumption DEF Senders
<1>1. /\ caller[c] = "idle" /\ caller' = [caller EXCEPT ![c] = "waiting"]
      /\ waiter' = [waiter EXCEPT ![c] = "begin"]
      /\ UNCHANGED <<queue, ch, done, cancelled, post, skips, hit, answer>>
  BY DEF Ask, postVars
<1>2. waiter[c] = "none" /\ c \notin queue /\ done[c] = None
  BY <1>1 DEF IInv, WaiterStates
<1>3. WaiterStates'  BY <1>1, <1>2 DEF IInv, TypeOK, WaiterStates
<1>4. TakenOnce'  BY <1>1, <1>2 DEF IInv, TypeOK, TakenOnce, Untaken, Sending
<1>5. Route'  BY <1>1 DEF IInv, TypeOK, Route, Sent
<1>6. LeaveHasCause'  BY <1>1, <1>2 DEF IInv, TypeOK, LeaveHasCause, Ended
<1>7. UsersAnswer' /\ UnansweredHasCause'
  BY <1>1 DEF IInv, TypeOK, UsersAnswer, UnansweredHasCause
<1> QED  BY <1>3, <1>4, <1>5, <1>6, <1>7 DEF IInv

LEMMA CancelStep ==
    ASSUME IInv, TypeOK', NEW c \in Calls, Cancel(c)
    PROVE  IInv'
<1>1. /\ cancelled' = cancelled \union {c}
      /\ UNCHANGED <<caller, waiter, queue, ch, done, post, skips, hit, answer>>
  BY DEF Cancel, postVars
<1>2. WaiterStates' /\ TakenOnce' /\ Route' /\ UsersAnswer'
  BY <1>1 DEF IInv, WaiterStates, TakenOnce, Untaken, Sending, Route, Sent, UsersAnswer
<1>3. LeaveHasCause' /\ UnansweredHasCause'
  BY <1>1 DEF IInv, LeaveHasCause, Ended, UnansweredHasCause
<1> QED  BY <1>2, <1>3 DEF IInv

\* A sender takes the oldest waiter, or none.
LEMMA TakeStep ==
    ASSUME IInv, TypeOK', NEW s \in Senders, Untaken(s), Take(s),
           \/ /\ s \in Calls
              /\ caller' = [caller EXCEPT ![s] = IF Oldest = None THEN "picked" ELSE "sending"]
              /\ caller[s] = "waiting" /\ UNCHANGED post
           \/ /\ s \in Posts
              /\ post' = [post EXCEPT ![s] = IF Oldest = None THEN "refused" ELSE "sending"]
              /\ UNCHANGED caller,
           UNCHANGED <<waiter, ch, done, cancelled, skips, answer>>
    PROVE  IInv'
<1> USE NamesAssumption, OldestType DEF Senders
<1>1. /\ hit' = [hit EXCEPT ![s] = Oldest] /\ queue' = queue \ {Oldest}
      /\ hit[s] = None
  BY DEF Take, IInv, TakenOnce
<1>2. Oldest \in queue \/ Oldest = None
  OBVIOUS
<1>3. ~Sent(s) /\ ~Untaken(s)' /\ (Sending(s)' => Oldest # None)
  BY DEF Untaken, Sending, Sent, IInv, TypeOK
<1>4. WaiterStates'
  BY <1>1 DEF IInv, TypeOK, WaiterStates
<1>5. TakenOnce'
  <2> SUFFICES ASSUME NEW r \in Senders
               PROVE  /\ Untaken(r)' => hit'[r] = None
                      /\ Sending(r)' => hit'[r] # None
                      /\ hit'[r] # None =>
                            /\ hit'[r] \notin queue' /\ waiter[hit'[r]] \notin {"none", "begin"}
                            /\ \A q \in Senders : hit'[q] = hit'[r] => q = r
    BY DEF TakenOnce
  <2>1. hit'[s] = Oldest /\ \A q \in Senders \ {s} : hit'[q] = hit[q]
    BY <1>1 DEF IInv, TypeOK
  <2>2. Oldest # None => /\ waiter[Oldest] \notin {"none", "begin"}
                         /\ \A q \in Senders : hit[q] # Oldest
    BY <1>2 DEF IInv, TypeOK, WaiterStates, TakenOnce
  <2>3. CASE r = s  BY <1>1, <1>3, <2>1, <2>2, <2>3
  <2>4. CASE r # s
    <3>1. /\ Untaken(r)' => hit[r] = None
          /\ Sending(r)' => hit[r] # None
      <4>1. (Untaken(r)' => Untaken(r)) /\ (Sending(r)' => Sending(r))
        BY <2>4 DEF Untaken, Sending, IInv, TypeOK
      <4>2. (Untaken(r) => hit[r] = None) /\ (Sending(r) => hit[r] # None)
        BY DEF IInv, TakenOnce
      <4> QED  BY <4>1, <4>2
    <3>2. hit[r] # None => hit[r] \notin queue /\ waiter[hit[r]] \notin {"none", "begin"}
                           /\ \A q \in Senders : hit[q] = hit[r] => q = r
      BY DEF IInv, TakenOnce
    <3> QED  BY <1>1, <2>1, <2>2, <2>4, <3>1, <3>2
  <2> QED  BY <2>3, <2>4
<1>6. Route'
  <2>1. \A d \in Calls : ch[d] # None => ch[d] \in Senders  BY DEF IInv, TypeOK
  <2>2. \A d \in Calls : /\ ch[d] # None => ch[d] # s
                         /\ done[d] \in Senders => done[d] # s
    BY <1>1 DEF IInv, Route
  <2> QED  BY <1>1, <2>1, <2>2 DEF IInv, TypeOK, Route, Sent
<1>7. LeaveHasCause'
  BY DEF IInv, TypeOK, LeaveHasCause, Ended
<1>8. UsersAnswer'
  <2>1. \A d \in Calls : answer[d] \in Posts => answer[d] # s
    BY <1>1 DEF IInv, UsersAnswer
  <2> QED  BY <1>1, <2>1 DEF IInv, TypeOK, UsersAnswer
<1>9. UnansweredHasCause'
  BY DEF IInv, TypeOK, UnansweredHasCause
<1> QED  BY <1>4, <1>5, <1>6, <1>7, <1>8, <1>9 DEF IInv

\* A sender that has taken a waiter sends to it.
LEMMA SendStep ==
    ASSUME IInv, TypeOK', NEW s \in Senders, Sending(s), Send(s),
           \/ /\ s \in Calls
              /\ caller' = [caller EXCEPT ![s] = "picked"]
              /\ UNCHANGED post
           \/ /\ s \in Posts
              /\ post' = [post EXCEPT ![s] = "ok"]
              /\ UNCHANGED caller,
           UNCHANGED <<waiter, queue, done, cancelled, skips, answer, hit>>
    PROVE  IInv'
<1> USE NamesAssumption DEF Senders
<1>1. ch' = [ch EXCEPT ![hit[s]] = s] /\ hit[s] \in Calls
  BY DEF Send, IInv, TakenOnce, TypeOK
<1>2. Sent(s)'
  BY DEF Sending, Sent, IInv, TypeOK
<1>3. WaiterStates'
  BY DEF IInv, TypeOK, WaiterStates, Sending
<1>4. TakenOnce'
  BY DEF IInv, TypeOK, TakenOnce, Untaken, Sending
<1>5. Route'
  <2>1. \A d \in Calls : ch[d] # None => ch[d] \in Senders  BY DEF IInv, TypeOK
  <2>2. \A d \in Calls : ch'[d] = IF d = hit[s] THEN s ELSE ch[d]
    BY <1>1 DEF IInv, TypeOK
  <2>3. ASSUME NEW d \in Calls, ch'[d] # None  PROVE (hit[ch[d]] = d /\ Sent(ch[d]))'
    <3>1. CASE d = hit[s]  BY <1>2, <2>2, <3>1 DEF Sent
    <3>2. CASE d # hit[s]
      BY <2>1, <2>2, <2>3, <3>2 DEF IInv, TypeOK, Route, Sent
    <3> QED  BY <3>1, <3>2
  <2>4. ASSUME NEW d \in Calls, done[d] \in Senders  PROVE hit[done[d]] = d /\ Sent(done[d])'
    BY <2>4 DEF IInv, TypeOK, Route, Sent
  <2> QED  BY <2>3, <2>4 DEF Route, Sent
<1>6. LeaveHasCause'
  BY DEF IInv, TypeOK, LeaveHasCause, Ended, Sending
<1>7. UsersAnswer'
  BY DEF IInv, TypeOK, UsersAnswer
<1>8. UnansweredHasCause'
  BY DEF IInv, TypeOK, UnansweredHasCause
<1> QED  BY <1>3, <1>4, <1>5, <1>6, <1>7, <1>8 DEF IInv

LEMMA LookStep ==
    ASSUME IInv, TypeOK', NEW p \in Posts, Look(p)
    PROVE  IInv'
<1> USE NamesAssumption DEF Senders
<1>1. /\ post[p] = "new" /\ post' = [post EXCEPT ![p] = "looked"]
      /\ skips \subseteq skips' /\ skips' \subseteq skips \union {p}
      /\ UNCHANGED <<caller, waiter, queue, ch, done, cancelled, hit, answer>>
  BY DEF Look, callVars
<1>2. WaiterStates' /\ LeaveHasCause'
  BY <1>1 DEF IInv, WaiterStates, LeaveHasCause, Ended
<1>3. TakenOnce'  BY <1>1 DEF IInv, TypeOK, TakenOnce, Untaken, Sending
<1>4. Route'  BY <1>1 DEF IInv, TypeOK, Route, Sent
<1>5. UsersAnswer'  BY <1>1 DEF IInv, TypeOK, UsersAnswer
<1>6. UnansweredHasCause'  BY <1>1 DEF IInv, UnansweredHasCause
<1> QED  BY <1>2, <1>3, <1>4, <1>5, <1>6 DEF IInv

LEMMA InvStep == IInv /\ [Next]_vars => IInv'
<1> SUFFICES ASSUME IInv, [Next]_vars PROVE IInv'
  OBVIOUS
<1> USE DEF Senders
<1>1. TypeOK'  BY TypeStep DEF IInv
<1>2. ASSUME NEW c \in Calls, GoWaiter(c)  PROVE IInv'
  BY <1>1, <1>2, RegisterStep, ReceiveStep, SeeEndStep, LeaveStep DEF GoWaiter
<1>3. ASSUME NEW c \in Calls, GoCaller(c)  PROVE IInv'
  <2>1. CASE ReturnDone(c) \/ ReturnCancelled(c) \/ TimeoutOpen(c) \/ ReturnPicked(c)
    BY <1>1, <2>1, ReturnStep
  <2>2. CASE Timeout(c)
    BY <1>1, <2>2, TakeStep DEF Timeout, Untaken, postVars
  <2>3. CASE SendPick(c)
    BY <1>1, <2>3, SendStep DEF SendPick, Sending, postVars
  <2> QED  BY <1>3, <2>1, <2>2, <2>3 DEF GoCaller
<1>4. ASSUME NEW p \in Posts, Look(p) \/ GoPost(p)  PROVE IInv'
  <2>1. p \notin Calls  BY NamesAssumption DEF NamesAssumption
  <2>2. CASE Look(p)  BY <1>1, <2>2, LookStep
  <2>3. CASE Post(p)
    BY <1>1, <2>1, <2>3, TakeStep DEF Post, Untaken, callVars
  <2>4. CASE SendPost(p)
    BY <1>1, <2>1, <2>4, SendStep DEF SendPost, Sending, callVars
  <2> QED  BY <1>4, <2>2, <2>3, <2>4 DEF GoPost
<1>5. CASE UNCHANGED vars \/ Quiet
  BY <1>5 DEF vars, Quiet, IInv, TypeOK, WaiterStates, TakenOnce, Route, LeaveHasCause, UsersAnswer,
     UnansweredHasCause, Untaken, Sending, Sent, Ended
<1> QED  BY <1>1, <1>2, <1>3, <1>4, <1>5, AskStep, CancelStep DEF Next

LEMMA Invariance == Spec => []IInv
BY InitInv, InvStep, PTL DEF Spec

-----------------------------------------------------------------------------
\* Every step keeps the types.
THEOREM QueueTypes == Spec => []TypeOK
BY Invariance, PTL DEF IInv

\* A sender that has taken a waiter has it for itself, and the waiter has no
\* answer yet: the send, outside the lock and without a way out, never blocks.
LEMMA SendIsFree == IInv => AnswerNeverBlocks
<1> SUFFICES ASSUME IInv, NEW s \in Senders, Sending(s)
             PROVE  /\ ch[hit[s]] = None /\ done[hit[s]] \notin Senders
                    /\ \A r \in Senders \ {s} : hit[r] # hit[s]
  BY DEF AnswerNeverBlocks
<1>1. hit[s] \in Calls /\ \A r \in Senders : hit[r] = hit[s] => r = s
  BY DEF IInv, TypeOK, TakenOnce
<1>2. ~Sent(s)  BY DEF Sending, Sent
<1>3. ch[hit[s]] # None => ch[hit[s]] \in Senders  BY <1>1 DEF IInv, TypeOK
<1>4. ch[hit[s]] = None /\ done[hit[s]] \notin Senders
  BY <1>1, <1>2, <1>3 DEF IInv, Route
<1> QED  BY <1>1, <1>4

THEOREM NeverBlocks == Spec => []AnswerNeverBlocks
BY Invariance, SendIsFree, PTL

\* A user's answer reaches the one call whose waiter its request has taken.
THEOREM AnswersArrive == Spec => []UsersAnswer
BY Invariance, PTL DEF IInv

\* A question with choices is unanswered only when it was cancelled or skipped.
THEOREM UnansweredOnlyFor == Spec => []UnansweredHasCause
BY Invariance, PTL DEF IInv

-----------------------------------------------------------------------------
(* Who is answered first.  The queue keeps the order of registration, so a  *)
(* call that was the oldest stays it while it is in the queue; one that is  *)
(* there no more was taken by a sender or has removed itself.               *)

\* The calls are numbered in the order they entered the queue.
Numbered ==
    /\ \A c \in Calls : no[c] <= registered /\ (no[c] = 0 <=> waiter[c] \in {"none", "begin"})
    /\ \A c, d \in Calls : no[c] = no[d] /\ no[c] # 0 => c = d

\* A call that was in the queue and is no more was taken, or has ended.
Departed == \A c \in Calls : no[c] # 0 => c \in queue \union Taken \/ Ended(c)

\* The question a request was matched with was the oldest, and stays it.
SeenOldest ==
    \A p \in Posts : seen[p] # None =>
        /\ no[seen[p]] # 0
        /\ seen[p] \in queue => \A e \in queue : no[seen[p]] <= no[e]

Order == Numbered /\ Departed /\ SeenOldest /\ OldestFirst

LEMMA InitOrder == Init => Order
BY NamesAssumption DEF Init, Order, Numbered, Departed, SeenOldest, OldestFirst, Senders

\* The oldest question is older than every other one in the queue.
LEMMA OldestIsOldest ==
    ASSUME Oldest # None
    PROVE  Oldest \in queue /\ \A d \in queue : no[Oldest] <= no[d]
BY DEF Oldest, Heads

\* Steps that append no call and take none: calls leave only on their own.
LEMMA OrderFrame ==
    ASSUME IInv, Order, UNCHANGED <<no, registered, hit, seen>>, queue' \subseteq queue,
           \A c \in Calls : /\ c \in queue \ queue' => Ended(c)'
                            /\ Ended(c) => Ended(c)'
                            /\ waiter'[c] \in {"none", "begin"} <=> waiter[c] \in {"none", "begin"}
    PROVE  Order'
<1>1. Numbered'  BY DEF Order, Numbered
<1>2. Taken' = Taken  BY DEF Taken
<1>3. Departed'  BY <1>2 DEF Order, Departed
<1>4. SeenOldest'  BY DEF Order, SeenOldest
<1>5. OldestFirst'
  <2>1. \A p \in Posts : seen[p] # None => seen[p] \in Calls  BY DEF IInv, TypeOK
  <2> QED  BY <1>2, <2>1 DEF Order, OldestFirst
<1> QED  BY <1>1, <1>3, <1>4, <1>5 DEF Order

\* A call that registers is younger than all that have.
LEMMA OrderRegister ==
    ASSUME IInv, Order, NEW c \in Calls, Register(c)
    PROVE  Order'
<1>1. /\ waiter[c] = "begin" /\ waiter' = [waiter EXCEPT ![c] = "waits"]
      /\ queue' = queue \union {c} /\ registered' = registered + 1
      /\ no' = [no EXCEPT ![c] = registered + 1]
      /\ UNCHANGED <<caller, cancelled, hit, seen>>
  BY DEF Register, postVars
<1>2. /\ no \in [Calls -> Nat] /\ registered \in Nat /\ queue \subseteq Calls
      /\ waiter \in [Calls -> {"none", "begin", "waits", "leaving", "over"}]
      /\ hit \in [Senders -> Calls \union {None}] /\ seen \in [Posts -> Calls \union {None}]
  BY DEF IInv, TypeOK
<1>3. no[c] = 0 /\ \A d \in Calls : no[d] <= registered
  BY <1>1 DEF Order, Numbered
<1>4. \A s \in Senders : hit[s] # None => hit[s] # c /\ hit[s] \in Calls
  BY <1>1, <1>2 DEF IInv, TakenOnce
<1>5. Taken' = Taken /\ \A d \in Calls : Ended(d)' <=> Ended(d)
  BY <1>1 DEF Taken, Ended
<1>6. Numbered'  BY <1>1, <1>2, <1>3 DEF Order, Numbered
<1>7. Departed'  BY <1>1, <1>2, <1>5 DEF Order, Departed
<1>8. SeenOldest'  BY <1>1, <1>2, <1>3 DEF Order, SeenOldest
<1>9. OldestFirst'
  <2>1. ASSUME NEW p \in Posts, hit[p] # None, seen[p] \notin {None, hit[p]}
        PROVE  seen[p] \in {hit[s] : s \in Senders \ {p}} \/ Ended(seen[p])'
    BY <1>1, <1>2, <2>1 DEF Order, OldestFirst, Ended
  <2>2. ASSUME NEW d \in Calls, hit[d] \notin {None, d}
        PROVE  no'[d] = 0 \/ no'[hit[d]] < no'[d] \/ d \in Taken \/ Ended(d)
    BY <1>1, <1>2, <1>3, <1>4, <2>2 DEF Order, OldestFirst, Senders
  <2> QED  BY <1>1, <1>5, <2>1, <2>2 DEF OldestFirst
<1> QED  BY <1>6, <1>7, <1>8, <1>9 DEF Order

\* A sender takes the oldest: not the question it was asked for, then, only
\* if that one is younger or in the queue no more.
LEMMA OrderTake ==
    ASSUME IInv, Order, NEW s \in Senders, Untaken(s), Take(s),
           UNCHANGED <<no, registered, waiter, cancelled, seen>>,
           \A d \in Calls : caller'[d] = "returned" <=> caller[d] = "returned"
    PROVE  Order'
<1> USE NamesAssumption DEF NamesAssumption
<1>1. /\ hit' = [hit EXCEPT ![s] = Oldest] /\ queue' = queue \ {Oldest}
      /\ hit[s] = None
  BY DEF Take, IInv, TakenOnce
<1>2. /\ no \in [Calls -> Nat] /\ queue \subseteq Calls
      /\ hit \in [Senders -> Calls \union {None}] /\ seen \in [Posts -> Calls \union {None}]
  BY DEF IInv, TypeOK
<1>3. hit'[s] = Oldest /\ \A r \in Senders \ {s} : hit'[r] = hit[r]
  BY <1>1, <1>2
<1>4. \A d \in Calls : d \in Taken => d \in Taken'
  BY <1>1, <1>3, <1>2 DEF Taken, Senders
<1>5. Oldest # None => Oldest \in Taken'
  BY <1>3 DEF Taken
<1>6. Numbered'  BY DEF Order, Numbered
<1>7. Departed'
  <2>1. ASSUME NEW c \in Calls, no[c] # 0  PROVE c \in queue' \union Taken' \/ Ended(c)
    <3>1. c \in queue \union Taken \/ Ended(c)  BY <2>1 DEF Order, Departed
    <3>2. c \in queue => c \in queue' \union Taken'  BY <1>1, <1>5 DEF Senders
    <3> QED  BY <1>4, <3>1, <3>2
  <2> QED  BY <2>1 DEF Departed, Ended
<1>8. SeenOldest'  BY <1>1 DEF Order, SeenOldest
<1>9. ASSUME NEW p \in Posts, hit'[p] # None, seen[p] \notin {None, hit'[p]}
      PROVE  seen[p] \in {hit'[r] : r \in Senders \ {p}} \/ Ended(seen[p])
  <2>1. p \in Senders /\ seen[p] \in Calls  BY <1>2, <1>9 DEF Senders
  <2>2. CASE p = s
    <3>1. seen[p] \notin queue
      <4>1. SUFFICES ASSUME seen[p] \in queue PROVE FALSE  OBVIOUS
      <4>2. Oldest \in queue /\ no[Oldest] <= no[seen[p]] /\ no[seen[p]] <= no[Oldest]
        BY <1>3, <1>9, <2>2, <4>1, OldestIsOldest DEF Order, SeenOldest
      <4>3. no[seen[p]] # 0 /\ no[Oldest] = no[seen[p]]
        BY <1>2, <1>9, <2>1, <4>2 DEF Order, SeenOldest
      <4> QED  BY <1>2, <1>3, <1>9, <2>1, <2>2, <4>2, <4>3 DEF Order, Numbered
    <3>2. seen[p] \in Taken \/ Ended(seen[p])
      BY <1>9, <2>1, <3>1 DEF Order, Departed, SeenOldest
    <3>3. ASSUME seen[p] \in Taken PROVE seen[p] \in {hit'[r] : r \in Senders \ {p}}
      BY <1>1, <1>3, <1>9, <2>2, <3>3 DEF Taken
    <3> QED  BY <3>2, <3>3
  <2>3. CASE p # s
    <3>1. seen[p] \in {hit[r] : r \in Senders \ {p}} \/ Ended(seen[p])
      BY <1>3, <1>9, <2>1, <2>3 DEF Order, OldestFirst
    <3> QED  BY <1>1, <1>3, <1>9, <3>1
  <2> QED  BY <2>2, <2>3
<1>10. ASSUME NEW c \in Calls, hit'[c] \notin {None, c}
       PROVE  no[c] = 0 \/ no[hit'[c]] < no[c] \/ c \in Taken' \/ Ended(c)
  <2>1. c \in Senders  BY DEF Senders
  <2>2. CASE c = s
    <3>1. CASE c \in queue
      <4>1. Oldest \in queue /\ no[Oldest] <= no[c]
        BY <1>3, <1>10, <2>2, <3>1, OldestIsOldest
      <4>2. no[c] = 0 \/ no[Oldest] # no[c]
        BY <1>2, <1>3, <1>10, <2>2, <4>1 DEF Order, Numbered
      <4> QED  BY <1>2, <1>3, <2>2, <4>1, <4>2
    <3>2. CASE c \notin queue
      BY <1>4, <3>2 DEF Order, Departed
    <3> QED  BY <3>1, <3>2
  <2>3. CASE c # s
    BY <1>3, <1>4, <1>10, <2>1, <2>3 DEF Order, OldestFirst
  <2> QED  BY <2>2, <2>3
<1>11. OldestFirst'  BY <1>2, <1>9, <1>10 DEF OldestFirst, Ended
<1> QED  BY <1>6, <1>7, <1>8, <1>11 DEF Order

\* A request is matched with the oldest question of the moment.
LEMMA OrderLook ==
    ASSUME IInv, Order, NEW p \in Posts, Look(p)
    PROVE  Order'
<1> USE NamesAssumption DEF NamesAssumption
<1>1. /\ seen' \in {seen, [seen EXCEPT ![p] = Oldest]}
      /\ post[p] = "new"
      /\ UNCHANGED <<no, registered, queue, waiter, caller, cancelled, hit>>
  BY DEF Look, callVars
<1>2. seen \in [Posts -> Calls \union {None}] /\ queue \subseteq Calls  BY DEF IInv, TypeOK
<1>3. hit[p] = None
  BY <1>1 DEF IInv, TakenOnce, Untaken, Senders
<1>4. Numbered' /\ Departed'
  BY <1>1 DEF Order, Numbered, Departed, Taken, Ended
<1>5. SeenOldest'
  <2>1. Oldest # None => no[Oldest] # 0
    BY <1>2, OldestIsOldest DEF Order, Numbered, IInv, WaiterStates
  <2> QED  BY <1>1, <1>2, <2>1, OldestIsOldest DEF Order, SeenOldest
<1>6. OldestFirst'
  BY <1>1, <1>2, <1>3 DEF Order, OldestFirst, Taken, Ended
<1> QED  BY <1>4, <1>5, <1>6 DEF Order

LEMMA OrderStep == IInv /\ Order /\ [Next]_vars => Order'
<1> SUFFICES ASSUME IInv, Order, [Next]_vars PROVE Order'
  OBVIOUS
<1>1. ASSUME NEW c \in Calls, GoWaiter(c)  PROVE Order'
  <2>1. CASE Register(c)  BY <2>1, OrderRegister
  <2>2. CASE Receive(c) \/ SeeEnd(c)
    BY <2>2, OrderFrame DEF Receive, SeeEnd, postVars, Ended, IInv, TypeOK
  <2>3. CASE Leave(c)
    <3>1. Ended(c)  BY <2>3 DEF Leave, IInv, LeaveHasCause
    <3> QED  BY <2>3, <3>1, OrderFrame DEF Leave, postVars, Ended, IInv, TypeOK
  <2> QED  BY <1>1, <2>1, <2>2, <2>3 DEF GoWaiter
<1>2. ASSUME NEW c \in Calls, GoCaller(c)  PROVE Order'
  <2>1. CASE ReturnDone(c) \/ ReturnCancelled(c) \/ TimeoutOpen(c) \/ ReturnPicked(c)
    <3>1. PICK by : Return(c, by)
      BY <2>1 DEF ReturnDone, ReturnCancelled, TimeoutOpen, ReturnPicked
    <3> QED  BY <3>1, OrderFrame DEF Return, postVars, Ended, IInv, TypeOK
  <2>2. CASE Timeout(c)
    BY <2>2, OrderTake DEF Timeout, postVars, Untaken, Senders, Ended, IInv, TypeOK
  <2>3. CASE SendPick(c)
    BY <2>3, OrderFrame DEF SendPick, postVars, Ended, IInv, TypeOK
  <2> QED  BY <1>2, <2>1, <2>2, <2>3 DEF GoCaller
<1>3. ASSUME NEW c \in Calls, Ask(c) \/ Cancel(c)  PROVE Order'
  <2>1. CASE Ask(c)
    <3>1. waiter[c] = "none"  BY <2>1 DEF Ask, IInv, WaiterStates
    <3> QED  BY <2>1, <3>1, OrderFrame DEF Ask, postVars, Ended, IInv, TypeOK
  <2>2. CASE Cancel(c)
    BY <2>2, OrderFrame DEF Cancel, postVars, Ended, IInv, TypeOK
  <2> QED  BY <1>3, <2>1, <2>2
<1>4. ASSUME NEW p \in Posts, Look(p) \/ GoPost(p)  PROVE Order'
  <2>1. CASE Look(p)  BY <2>1, OrderLook
  <2>2. CASE Post(p)
    <3>1. p \in Senders /\ p \notin Calls  BY NamesAssumption DEF NamesAssumption, Senders
    <3> QED  BY <2>2, <3>1, OrderTake DEF Post, callVars, Untaken, Ended
  <2>3. CASE SendPost(p)
    BY <2>3, OrderFrame DEF SendPost, callVars, Ended
  <2> QED  BY <1>4, <2>1, <2>2, <2>3 DEF GoPost
<1>5. CASE UNCHANGED vars \/ Quiet
  BY <1>5, OrderFrame DEF vars, Quiet, Ended
<1> QED  BY <1>1, <1>2, <1>3, <1>4, <1>5 DEF Next

\* Answers go to the oldest question: to another one than the answer was
\* matched with, or the timer was for, only with one of the causes listed.
THEOREM OldestIsAnswered == Spec => []OldestFirst
<1>1. Init => IInv /\ Order  BY InitInv, InitOrder
<1>2. (IInv /\ Order) /\ [Next]_vars => (IInv /\ Order)'  BY InvStep, OrderStep
<1>3. Order => OldestFirst  BY DEF Order
<1> QED  BY <1>1, <1>2, <1>3, PTL DEF Spec
=============================================================================
