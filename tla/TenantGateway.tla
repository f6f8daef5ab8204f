--------------------------- MODULE TenantGateway ---------------------------
(***************************************************************************)
(* The gateway as geegoo gateway runs it: internal/gateway/multitenant.    *)
(* Every user may own a bot.  A loop reads all users' credentials from the *)
(* database and starts, restarts and stops one connection per user; each   *)
(* connection is a goroutine in the adapter's Connect.  What a connection  *)
(* delivers is handled as in IMGateway, by handlers that share dedup, chat *)
(* locks, clarify hub and the one Agent among all users; a turn swaps the  *)
(* Agent's model gateway for its owner's.  The variables of IMGateway are  *)
(* those of the tenants' Runner here.                                      *)
(***************************************************************************)
EXTENDS IMGateway

CONSTANTS
    User,          \* owners of bots
    Cred,          \* credentials, as fingerprints
    Off,           \* no credentials, or disabled ones
    Base,          \* the Agent's own model gateway
    OwnerOf,       \* [Handler -> User]: whose bot an event is for
    MaxInputs      \* bound: changes of credentials, documents that could not be
                   \* decoded, connections that fail and events, together

ASSUME TenantAssumption ==
    /\ OwnerOf \in [Handler -> User]
    /\ Base \notin User /\ Off \notin Cred
    /\ None \notin User \cup {Base}
    /\ MaxInputs \in Nat

\* A user's connections, numbered; each after the first takes an input.
MaxStarts == MaxInputs + 1
Conn == User \X (1..MaxStarts)

VARIABLES
    want,       \* the database: each user's credentials
    list,       \* what ListCreds returned to the loop, None between syncs
    table,      \* Runner.tenants: the number of each user's connection, 0 none
    made,       \* how many connections each user has had
    at,         \* where each connection's Connect stands
    credOf,     \* the credentials it was made with
    cancelled,  \* connections whose runCtx is cancelled
    open,       \* connections whose WebSocket client exists and is not closed
    mode,       \* "on", "signalled" (ctx is cancelled), "stopped"
    arrived,    \* the handlers whose event was delivered
    agentGw,    \* Agent.Gateway: Base or the gateway of a user
    prevGw,     \* the gateway a turn puts back, None if it swapped none
    inputs      \* how many of them so far

conns == <<table, made, at, credOf, cancelled, open>>
model == <<agentGw, prevGw>>
tenantVars == <<vars, want, list, conns, mode, arrived, model, inputs>>

UserOf(c) == c[1]
Current(u) == <<u, table[u]>>
InTable(c) == c = Current(UserOf(c))

-----------------------------------------------------------------------------
TenantInit ==
    /\ Init
    /\ want \in [User -> Cred \cup {Off}]
    /\ list = None
    /\ table = [u \in User |-> 0]
    /\ made = [u \in User |-> 0]
    /\ at = [c \in Conn |-> "unused"]
    /\ credOf = [c \in Conn |-> Off]
    /\ cancelled = {} /\ open = {}
    /\ mode = "on"
    /\ arrived = {}
    /\ agentGw = Base
    /\ prevGw = [h \in Handler |-> None]
    /\ inputs = 0

Input == inputs < MaxInputs /\ inputs' = inputs + 1

\* A user saves, replaces, disables or deletes credentials.
Change(u) ==
    /\ Input
    /\ \E c \in (Cred \cup {Off}) \ {want[u]} : want' = [want EXCEPT ![u] = c]
    /\ UNCHANGED <<vars, list, conns, mode, arrived, model>>

-----------------------------------------------------------------------------
\* The loop: every eight seconds syncTenants.  A list that fails changes
\* nothing; a document that cannot be decoded is left out of the list.
List ==
    /\ mode = "on" /\ list = None
    /\ \/ list' = want /\ UNCHANGED inputs
       \/ \E u \in User :
            /\ want[u] # Off
            /\ Input
            /\ list' = [want EXCEPT ![u] = Off]
    /\ UNCHANGED <<vars, want, conns, mode, arrived, model>>

\* Mutant: only who left the list is stopped.
Outdated_ByUser(u) == table[u] # 0 /\ list[u] = Off

Outdated(u) == table[u] # 0 /\ list[u] # credOf[Current(u)]

\* Disconnect closes the clients it sees: it reads the field Connect sets
\* without a lock, so it may miss one that was just made.
Disconnect(S) ==
    \E found \in SUBSET {c \in S : at[c] = "started"} : open' = open \ found

\* Mutant: Disconnect is trusted with the context, which it cancels only if
\* Connect has come to its client.
Stop_WithoutCancel(S) ==
    /\ cancelled' = cancelled \cup {c \in S : at[c] = "started"}
    /\ Disconnect(S)

\* stopSlotLocked: the context is cancelled, the adapter disconnected.
Stop(S) ==
    /\ cancelled' = cancelled \cup S
    /\ Disconnect(S)

\* syncTenants under mu: outdated slots are stopped, missing ones started.  The
\* context of a new one is as cancelled as the loop's.
Sync ==
    /\ list # None
    /\ LET stopped == {u \in User : Outdated(u)}
           started == {u \in User : (table[u] = 0 \/ Outdated(u)) /\ list[u] # Off}
           fresh   == {<<u, made[u] + 1>> : u \in started}
       IN  /\ LET dead == {Current(u) : u \in stopped}
              IN  Stop(IF mode = "on" THEN dead ELSE dead \cup fresh)
           /\ table' = [u \in User |-> IF u \in started THEN made[u] + 1
                                       ELSE IF u \in stopped THEN 0 ELSE table[u]]
           /\ made' = [u \in User |-> IF u \in started THEN made[u] + 1 ELSE made[u]]
           /\ at' = [c \in Conn |-> IF c \in fresh THEN "connecting" ELSE at[c]]
           /\ credOf' = [c \in Conn |-> IF c \in fresh THEN list[UserOf(c)] ELSE credOf[c]]
    /\ list' = None
    /\ UNCHANGED <<vars, want, mode, arrived, model, inputs>>

\* The process is told to stop: the loop's context, and with it every
\* connection's, is cancelled.
Signal ==
    /\ mode = "on"
    /\ mode' = "signalled"
    /\ cancelled' = {c \in Conn : at[c] # "unused"}
    /\ UNCHANGED <<vars, want, list, table, made, at, credOf, open, arrived, model, inputs>>

StopAll ==
    /\ mode = "signalled" /\ list = None
    /\ mode' = "stopped"
    /\ Stop({Current(u) : u \in {u \in User : table[u] # 0}})
    /\ table' = [u \in User |-> 0]
    /\ UNCHANGED <<vars, want, list, made, at, credOf, arrived, model, inputs>>

-----------------------------------------------------------------------------
\* The adapter's Connect.  It looks up the bot, which takes a while, and makes
\* and starts the client even if its context is cancelled by then.
Dial(c) ==
    /\ at[c] = "connecting"
    /\ at' = [at EXCEPT ![c] = "started"]
    /\ open' = open \cup {c}
    /\ UNCHANGED <<vars, want, list, table, made, credOf, cancelled, mode, arrived, model, inputs>>

\* Connect finds its context cancelled.
Hangup(c) ==
    /\ at[c] = "started" /\ c \in cancelled
    /\ at' = [at EXCEPT ![c] = "ended"]
    /\ open' = open \ {c}
    /\ UNCHANGED <<vars, want, list, table, made, credOf, cancelled, mode, arrived, model, inputs>>

\* The client gives up.  The slot stays in the table, and nobody dials again
\* until the user's credentials change.
Fail(c) ==
    /\ at[c] = "started" /\ c \in open
    /\ Input
    /\ at' = [at EXCEPT ![c] = "ended"]
    /\ open' = open \ {c}
    /\ UNCHANGED <<vars, want, list, table, made, credOf, cancelled, mode, arrived, model>>

\* An event for the bot of OwnerOf[h].
Arrive(h) ==
    /\ h \notin arrived
    /\ \E c \in open : UserOf(c) = OwnerOf[h]
    /\ arrived' = arrived \cup {h}
    /\ Input
    /\ UNCHANGED <<vars, want, list, conns, mode, model>>

-----------------------------------------------------------------------------
\* The handlers (handleOwned), whatever became of their connection since.

\* applyOwnerFeishuGateway, under agentMu: the gateway of the owner's settings,
\* or none is swapped if there are none or none can be built.
TakeAgent(h) ==
    /\ LockAgent(h)
    /\ \/ /\ agentGw' = OwnerOf[h]
          /\ prevGw' = [prevGw EXCEPT ![h] = agentGw]
       \/ UNCHANGED model
    /\ UNCHANGED <<want, list, conns, mode, arrived, inputs>>

\* Mutant: the gateway is not put back.
LeaveAgent_NotRestored(h) ==
    /\ EndTurn(h)
    /\ prevGw' = [prevGw EXCEPT ![h] = None]
    /\ UNCHANGED <<agentGw, want, list, conns, mode, arrived, inputs>>

LeaveAgent(h) ==
    /\ EndTurn(h)
    /\ agentGw' = IF prevGw[h] = None THEN agentGw ELSE prevGw[h]
    /\ prevGw' = [prevGw EXCEPT ![h] = None]
    /\ UNCHANGED <<want, list, conns, mode, arrived, inputs>>

\* What does not touch the Agent's gateway.
Elsewhere(h) ==
    /\ h \in arrived
    /\ \/ Duplicate(h) \/ Accept(h) \/ LockChat(h) \/ Deliver(h) \/ Load(h)
       \/ LoadFails(h) \/ Clarify(h) \/ Reply(h)
    /\ UNCHANGED <<want, list, conns, mode, arrived, model, inputs>>

Handle(h) == Elsewhere(h) \/ TakeAgent(h) \/ LeaveAgent(h)
Loop      == List \/ Sync \/ StopAll
Connect(c) == Dial(c) \/ Hangup(c)

TenantNext ==
    \/ Loop \/ Signal
    \/ \E u \in User : Change(u)
    \/ \E c \in Conn : Connect(c) \/ Fail(c)
    \/ \E h \in Handler : Arrive(h) \/ Handle(h)

TenantSpec == TenantInit /\ [][TenantNext]_tenantVars

\* The loop's ticker and the connections' goroutines run; of the lists that fail
\* there are only finitely many in a row.  A connection takes two steps, so it
\* is enough that some of those due goes on.  Nothing is asked of the handlers.
TenantFairness ==
    /\ WF_tenantVars(Loop)
    /\ WF_tenantVars(\E c \in Conn : Connect(c))
TenantFairSpec == TenantSpec /\ TenantFairness

-----------------------------------------------------------------------------
TenantTypeOK ==
    /\ want \in [User -> Cred \cup {Off}]
    /\ list \in [User -> Cred \cup {Off}] \cup {None}
    /\ table \in [User -> Nat] /\ made \in [User -> Nat]
    /\ at \in [Conn -> {"unused", "connecting", "started", "ended"}]
    /\ credOf \in [Conn -> Cred \cup {Off}]
    /\ cancelled \subseteq User \X Nat /\ open \subseteq Conn
    /\ mode \in {"on", "signalled", "stopped"}
    /\ arrived \subseteq Handler
    /\ agentGw \in User \cup {Base}
    /\ prevGw \in [Handler -> User \cup {Base, None}]
    /\ inputs \in 0..MaxInputs

\* All tenants share one Agent, and a turn that waits for its user keeps it:
\* no turn runs on the model gateway, and the bill, of another tenant.
OwnersModel ==
    /\ agentLock = None => agentGw = Base
    /\ \A h \in Handler : pc[h] \in HasAgent => agentGw \in {OwnerOf[h], Base}

\* Stops race Connect, which may come to its client only after it was stopped:
\* a user's bot has at most one connection that will stay, the one in the table,
\* and what else still receives is about to find its context cancelled.
LiveIsInTable ==
    \A c \in Conn :
        /\ at[c] \in {"connecting", "started"} /\ c \notin cancelled => InTable(c)
        /\ c \in open => at[c] = "started"

\* Hot reload: whatever the loop misread in between, the table comes to agree
\* with the database, or to be empty when the process was told to stop; and what
\* was dialled with credentials since replaced or withdrawn stops receiving,
\* however the stop and the dial raced.
FollowsDatabase ==
    <>[](/\ \A u \in User :
               IF mode # "on" \/ want[u] = Off THEN table[u] = 0
               ELSE table[u] # 0 /\ credOf[Current(u)] = want[u]
         /\ \A c \in open : mode = "on" /\ credOf[c] = want[UserOf(c)])

-----------------------------------------------------------------------------
\* The inductive invariants behind the theorems about tenants.

\* Whoever swaps the Agent's gateway found Base there.
SwapsFromBase ==
    \A h \in Handler :
        /\ prevGw[h] \in {None, Base}
        /\ pc[h] \in HasAgent /\ prevGw[h] = None => agentGw = Base

\* Connections are numbered as they are made.
Numbered == \A c \in Conn : at[c] # "unused" => c[2] <= made[UserOf(c)]

TenantInv == TenantTypeOK /\ Numbered /\ LiveIsInTable
             /\ OwnersModel /\ SwapsFromBase
=============================================================================
