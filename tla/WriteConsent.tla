---------------------------- MODULE WriteConsent ----------------------------
(***************************************************************************)
(* What the plan gate promises about one chat session, without the loop    *)
(* that keeps the promise: a mutating tool call ("write") runs only if its *)
(* user confirmed it, or while the turn holds a standing grant.            *)
(***************************************************************************)
CONSTANT Call           \* every tool call the model could ever propose

VARIABLES
    asked,       \* the writes waiting for the user's confirmation
    durable,     \* what `asked` falls back to when the process loses the turn
    consented,   \* the writes the user ever confirmed by name
    grant,       \* the turn may run any write (pre-approved, or a confirmed turn)
    ran          \* the writes that ran

vars == <<asked, durable, consented, grant, ran>>

Init ==
    /\ asked = {} /\ durable = {} /\ consented = {} /\ ran = {}
    /\ grant = FALSE

\* Propose writes; nothing runs.
Ask ==
    /\ ~grant
    /\ asked' \subseteq Call
    /\ UNCHANGED <<durable, consented, grant, ran>>

\* The user says yes: the asked writes are confirmed and the turn is granted.
Confirm ==
    /\ asked # {}
    /\ consented' = consented \cup asked
    /\ grant' = TRUE
    /\ asked' = {}
    /\ UNCHANGED <<durable, ran>>

\* The user says no, or something else.
Drop ==
    /\ asked' = {}
    /\ UNCHANGED <<durable, consented, grant, ran>>

\* The per-call approval prompt, used when the plan gate is off.
ConfirmOne ==
    /\ \E c \in consented' :
           consented' = consented \cup {c} /\ ran' = ran \cup {c}
    /\ UNCHANGED <<asked, durable, grant>>

Run ==
    /\ \E c \in ran' : (grant \/ c \in consented) /\ ran' = ran \cup {c}
    /\ UNCHANGED <<asked, durable, consented, grant>>

\* A turn begins: its request decides the grant it starts with.
BeginTurn ==
    /\ grant' \in BOOLEAN
    /\ UNCHANGED <<asked, durable, consented, ran>>

\* A turn ends and is saved, or is lost.
Settle ==
    /\ durable' \in {asked, durable}
    /\ asked' = durable'
    /\ grant' = FALSE
    /\ UNCHANGED <<consented, ran>>

Next ==
    \/ Ask
    \/ Confirm
    \/ Drop
    \/ ConfirmOne
    \/ Run
    \/ BeginTurn
    \/ Settle

Spec == Init /\ [][Next]_vars
=============================================================================
