---------------------------- MODULE SerialTurns -----------------------------
(***************************************************************************)
(* What the front ends promise about stored chat sessions, without the     *)
(* requests, locks and copies that keep the promise: turns take effect one *)
(* at a time, each on the session as the one before it left it.  A turn    *)
(* joins the history, answers the plan that was held, and leaves no plan   *)
(* or one of its own.                                                      *)
(***************************************************************************)
CONSTANTS TurnId, Session, None,
          SessionOf       \* [TurnId -> Session]

VARIABLES
    turns,   \* session -> the turns that took effect
    plan,    \* session -> the turn whose plan it holds, or None
    took     \* turn -> the plan it answered, or None

vars == <<turns, plan, took>>

Init ==
    /\ turns = [s \in Session |-> {}]
    /\ plan = [s \in Session |-> None]
    /\ took = [t \in TurnId |-> None]

TakeEffect(t) ==
    LET s == SessionOf[t] IN
    /\ t \notin turns[s]
    /\ turns' = [turns EXCEPT ![s] = @ \cup {t}]
    /\ took' = [took EXCEPT ![t] = plan[s]]
    /\ \E p \in {None, t} : plan' = [plan EXCEPT ![s] = p]

Next == \E t \in TurnId : TakeEffect(t)

Spec == Init /\ [][Next]_vars

-----------------------------------------------------------------------------
\* No plan is answered by two turns that took effect.
AnsweredByOne == \A q, r \in TurnId : took[q] = took[r] /\ took[q] # None => q = r

\* A plan is a turn that took effect, and one that a session still holds was not
\* answered: what makes AnsweredByOne inductive.
PlansOfTurns ==
    /\ \A s \in Session : \A t \in turns[s] : SessionOf[t] = s
    /\ \A s \in Session : plan[s] # None =>
           plan[s] \in turns[s] /\ \A t \in TurnId : took[t] # plan[s]
    /\ \A t \in TurnId : took[t] # None =>
           SessionOf[took[t]] \in Session /\ took[t] \in turns[SessionOf[took[t]]]
=============================================================================
