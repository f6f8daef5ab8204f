----------------------------- MODULE ClarifyQueue ---------------------------
(***************************************************************************)
(* The questions of one chat session: clarify calls wait in the hub        *)
(* (internal/runtimeapi/clarify_hub.go) until a request answers the oldest *)
(* one or their own timer does (waitClarifyWithAutoPick), and leave the    *)
(* hub when their context ends.  A call is two goroutines: the caller,     *)
(* with the timer, and the one that waits in the hub.  A call is asked by  *)
(* a turn of the session; turns of several requests, and a waiter whose    *)
(* caller has gone, can be in the hub together.                            *)
(***************************************************************************)
EXTENDS Naturals

CONSTANTS
    Calls,   \* clarify calls
    Open,    \* those without choices, which nothing can be picked for
    Before,  \* call -> the call its turn has asked before it, or None
    Posts,   \* requests to /v1/chat/clarify
    None,    \* no call, no answer
    Gone     \* the empty answer of a waiter whose context has ended

Senders == Calls \union Posts

ASSUME NamesAssumption == /\ Open \subseteq Calls
                          /\ Before \in [Calls -> Calls \union {None}]
                          /\ Calls \cap Posts = {}
                          /\ None \notin Senders /\ Gone \notin Senders /\ None # Gone

VARIABLES
    caller,      \* call -> where waitClarifyWithAutoPick is
    waiter,      \* call -> where WaitWithRecommend is
    queue,       \* ClarifyHub.waiters of the session
    no,          \* call -> when it was appended to the queue, which keeps that order
    registered,  \* calls appended so far
    ch,          \* call -> content of its waiter's channel: who has answered
    done,        \* call -> content of its caller's channel
    cancelled,   \* calls whose turn was cancelled
    post,        \* post -> where chatClarify is
    skips,       \* posts that skip the question
    seen,        \* post -> the call whose choices its answer was matched with
    hit,         \* sender -> the waiter Answer has taken from the queue
    answer       \* call -> whose answer it has returned, None without one

callVars == <<caller, waiter, no, registered, done, cancelled, answer>>
postVars == <<post, skips, seen>>
vars     == <<caller, waiter, queue, no, registered, ch, done, cancelled, post, skips, seen,
              hit, answer>>

Init ==
    /\ caller = [c \in Calls |-> "idle"] /\ waiter = [c \in Calls |-> "none"]
    /\ queue = {} /\ no = [c \in Calls |-> 0] /\ registered = 0
    /\ ch = [c \in Calls |-> None] /\ done = [c \in Calls |-> None]
    /\ cancelled = {}
    /\ post = [p \in Posts |-> "new"] /\ skips = {}
    /\ seen = [p \in Posts |-> None]
    /\ hit = [s \in Senders |-> None]
    /\ answer = [c \in Calls |-> None]

\* The waiter's context: the turn's, which the caller ends when it returns.
Ended(c) == c \in cancelled \/ caller[c] = "returned"

\* Mutant: the newest question is answered first.
Heads_Newest == {c \in queue : \A d \in queue : no[c] >= no[d]}

\* The head of the queue.
Heads  == {c \in queue : \A d \in queue : no[c] <= no[d]}
Oldest == IF Heads = {} THEN None ELSE CHOOSE c \in Heads : TRUE

-----------------------------------------------------------------------------
(* The waiter: WaitWithRecommend, in a goroutine of its own.               *)

Register(c) ==
    /\ waiter[c] = "begin"
    /\ waiter' = [waiter EXCEPT ![c] = "waits"]
    /\ queue' = queue \union {c}
    /\ registered' = registered + 1
    /\ no' = [no EXCEPT ![c] = registered + 1]
    /\ UNCHANGED <<caller, ch, done, cancelled, postVars, hit, answer>>

\* An answer is there ...
Receive(c) ==
    /\ waiter[c] = "waits" /\ ch[c] # None
    /\ waiter' = [waiter EXCEPT ![c] = "over"]
    /\ ch' = [ch EXCEPT ![c] = None]
    /\ done' = [done EXCEPT ![c] = ch[c]]
    /\ UNCHANGED <<caller, queue, no, registered, cancelled, postVars, hit, answer>>

\* ... or the context has ended (select takes either when both hold): the
\* waiter removes itself, unless an answer has taken it off before.
SeeEnd(c) ==
    /\ waiter[c] = "waits" /\ Ended(c)
    /\ waiter' = [waiter EXCEPT ![c] = "leaving"]
    /\ UNCHANGED <<caller, queue, no, registered, ch, done, cancelled, postVars, hit, answer>>

Leave(c) ==
    /\ waiter[c] = "leaving"
    /\ waiter' = [waiter EXCEPT ![c] = "over"]
    /\ queue' = queue \ {c}
    /\ done' = [done EXCEPT ![c] = Gone]
    /\ UNCHANGED <<caller, no, registered, ch, cancelled, postVars, hit, answer>>

-----------------------------------------------------------------------------
(* Answer, of a post or of a timer: the oldest waiter is taken off under    *)
(* the lock, and gets the answer after it, in a channel that holds one.     *)

\* Mutant: the waiter stays in the queue until it leaves by itself.
Take_Peeks(s) ==
    /\ hit' = [hit EXCEPT ![s] = Oldest]
    /\ UNCHANGED queue

Take(s) ==
    /\ hit' = [hit EXCEPT ![s] = Oldest]
    /\ queue' = queue \ {Oldest}

Send(s) ==
    /\ ch[hit[s]] = None
    /\ ch' = [ch EXCEPT ![hit[s]] = s]

-----------------------------------------------------------------------------
(* The caller: waitClarifyWithAutoPick.                                    *)

Return(c, by) ==
    /\ caller' = [caller EXCEPT ![c] = "returned"]
    /\ answer' = [answer EXCEPT ![c] = by]
    /\ UNCHANGED <<waiter, queue, no, registered, ch, done, cancelled, postVars, hit>>

\* A turn asks one question after the other, none once it is cancelled.
Ask(c) ==
    /\ caller[c] = "idle"
    /\ Before[c] # None => caller[Before[c]] = "returned" /\ Before[c] \notin cancelled
    /\ caller' = [caller EXCEPT ![c] = "waiting"]
    /\ waiter' = [waiter EXCEPT ![c] = "begin"]
    /\ UNCHANGED <<queue, no, registered, ch, done, cancelled, postVars, hit, answer>>

Cancel(c) ==
    /\ caller[c] \notin {"idle", "returned"} /\ c \notin cancelled
    /\ cancelled' = cancelled \union {c}
    /\ UNCHANGED <<caller, waiter, queue, no, registered, ch, done, postVars, hit, answer>>

Answered(c) == done[c] \notin skips \union {None, Gone}

ReturnDone(c) ==
    /\ caller[c] = "waiting" /\ done[c] # None
    /\ Return(c, IF Answered(c) THEN done[c] ELSE None)

ReturnCancelled(c) ==
    /\ caller[c] = "waiting" /\ c \in cancelled
    /\ Return(c, None)

\* The timer: without choices the call ends unanswered.
TimeoutOpen(c) ==
    /\ caller[c] = "waiting" /\ c \in Open
    /\ Return(c, None)

\* With choices one is picked and submitted as an answer to the session ...
Timeout(c) ==
    /\ caller[c] = "waiting" /\ c \notin Open
    /\ Take(c)
    /\ caller' = [caller EXCEPT ![c] = IF Oldest = None THEN "picked" ELSE "sending"]
    /\ UNCHANGED <<waiter, no, registered, ch, done, cancelled, postVars, answer>>

SendPick(c) ==
    /\ caller[c] = "sending"
    /\ Send(c)
    /\ caller' = [caller EXCEPT ![c] = "picked"]
    /\ UNCHANGED <<waiter, queue, no, registered, done, cancelled, postVars, hit, answer>>

\* Mutant: it waits for its waiter without a limit.
ReturnPicked_NoGrace(c) ==
    /\ caller[c] = "picked"
    /\ \/ done[c] # None /\ Return(c, IF Answered(c) THEN done[c] ELSE c)
       \/ c \in cancelled /\ Return(c, c)

\* Mutant: it answers only if its waiter was answered.
ReturnPicked_NotOurs(c) ==
    /\ caller[c] = "picked"
    /\ \/ done[c] # None /\ Return(c, IF Answered(c) THEN done[c] ELSE c)
       \/ Return(c, IF hit[c] = c THEN c ELSE None)

\* ... and is the call's own answer if nothing came for its waiter until the
\* turn is cancelled or the grace time is over.
ReturnPicked(c) ==
    /\ caller[c] = "picked"
    /\ \/ done[c] # None /\ Return(c, IF Answered(c) THEN done[c] ELSE c)
       \/ Return(c, c)

-----------------------------------------------------------------------------
(* A request: chatClarify.                                                 *)

\* An answer is matched with the choices of the oldest question.
Look(p) ==
    /\ post[p] = "new"
    /\ post' = [post EXCEPT ![p] = "looked"]
    /\ \/ seen' = [seen EXCEPT ![p] = Oldest] /\ UNCHANGED skips
       \/ skips' = skips \union {p} /\ UNCHANGED seen
    /\ UNCHANGED <<callVars, queue, ch, hit>>

\* It answers the question that is the oldest now; without one it is refused.
Post(p) ==
    /\ post[p] = "looked"
    /\ Take(p)
    /\ post' = [post EXCEPT ![p] = IF Oldest = None THEN "refused" ELSE "sending"]
    /\ UNCHANGED <<callVars, ch, skips, seen>>

\* Mutant: the waiter that was looked at gets the answer.
SendPost_Seen(p) ==
    LET d == IF seen[p] = None THEN hit[p] ELSE seen[p] IN
    /\ post[p] = "sending"
    /\ ch[d] = None
    /\ ch' = [ch EXCEPT ![d] = p]
    /\ post' = [post EXCEPT ![p] = "ok"]
    /\ UNCHANGED <<callVars, queue, skips, seen, hit>>

SendPost(p) ==
    /\ post[p] = "sending"
    /\ Send(p)
    /\ post' = [post EXCEPT ![p] = "ok"]
    /\ UNCHANGED <<callVars, queue, skips, seen, hit>>

-----------------------------------------------------------------------------
GoWaiter(c) == Register(c) \/ Receive(c) \/ SeeEnd(c) \/ Leave(c)
GoCaller(c) == ReturnDone(c) \/ ReturnCancelled(c) \/ TimeoutOpen(c) \/ Timeout(c)
                 \/ SendPick(c) \/ ReturnPicked(c)
GoPost(p)   == Post(p) \/ SendPost(p)

Quiet == /\ \A c \in Calls : caller[c] = "returned" => waiter[c] = "over"
         /\ \A c \in Calls : caller[c] = "idle" => Before[c] \in cancelled
         /\ \A c \in Calls : caller[c] \in {"idle", "returned"}
         /\ \A p \in Posts : post[p] \in {"ok", "refused"}
         /\ UNCHANGED vars

Next == \/ \E c \in Calls : Ask(c) \/ Cancel(c) \/ GoWaiter(c) \/ GoCaller(c)
        \/ \E p \in Posts : Look(p) \/ GoPost(p)
        \/ Quiet

\* Goroutines and timers go on; nobody has to answer, ask or cancel.
Spec == /\ Init /\ [][Next]_vars
        /\ \A c \in Calls : WF_vars(GoWaiter(c)) /\ WF_vars(GoCaller(c))
        /\ \A p \in Posts : WF_vars(GoPost(p))

-----------------------------------------------------------------------------
TypeOK ==
    /\ caller \in [Calls -> {"idle", "waiting", "sending", "picked", "returned"}]
    /\ waiter \in [Calls -> {"none", "begin", "waits", "leaving", "over"}]
    /\ queue \subseteq Calls /\ cancelled \subseteq Calls /\ skips \subseteq Posts
    /\ no \in [Calls -> Nat] /\ registered \in Nat
    /\ ch \in [Calls -> Senders \union {None}]
    /\ done \in [Calls -> Senders \union {None, Gone}]
    /\ post \in [Posts -> {"new", "looked", "sending", "ok", "refused"}]
    /\ seen \in [Posts -> Calls \union {None}]
    /\ hit \in [Senders -> Calls \union {None}]
    /\ answer \in [Calls -> Senders \union {None}]

Sending(s) == IF s \in Calls THEN caller[s] = "sending" ELSE post[s] = "sending"

\* Answer sends after it has given the lock back and without a way out, from
\* a request's handler or from a turn.  It never blocks there: whatever posts,
\* timers and leaving waiters do, a waiter that was taken off is another
\* sender's to nobody and its channel is empty.
AnswerNeverBlocks ==
    \A s \in Senders : Sending(s) =>
        /\ ch[hit[s]] = None /\ done[hit[s]] \notin Senders
        /\ \A r \in Senders \ {s} : hit[r] # hit[s]

\* A call returns a user's answer only if that request was told so, if it
\* took this call's waiter, and if it is not a skip: no answer reaches two
\* calls, and no refused one reaches any.
UsersAnswer ==
    \A c \in Calls : answer[c] \in Posts =>
        post[answer[c]] = "ok" /\ hit[answer[c]] = c /\ answer[c] \notin skips

\* A question with choices ends without an answer only if the turn was
\* cancelled or a user skipped it, although a timer's answer may go to
\* another question or come when its own waiter was taken off.
UnansweredHasCause ==
    \A c \in Calls : caller[c] = "returned" /\ answer[c] = None =>
        c \in Open \union cancelled \/ done[c] \in skips

Taken == {hit[s] : s \in Senders}

\* A post whose answer was matched with one question and goes to another does
\* so because that one was answered or its call has ended in between; an
\* automatic pick that goes to another question because that one is older, or
\* because its own was answered, has ended, or is not in the hub yet.
OldestFirst ==
    /\ \A p \in Posts : hit[p] # None /\ seen[p] \notin {None, hit[p]} =>
          seen[p] \in {hit[s] : s \in Senders \ {p}} \/ Ended(seen[p])
    /\ \A c \in Calls : hit[c] \notin {None, c} =>
          no[c] = 0 \/ no[hit[c]] < no[c] \/ c \in Taken \/ Ended(c)

\* Every call returns, without any user, and whoever takes off its waiter.
CallsReturn == <>[](\A c \in Calls : caller[c] \in {"idle", "returned"})
=============================================================================
