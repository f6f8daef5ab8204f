------------------------- MODULE MCSessionRequests -------------------------
(***************************************************************************)
(* SessionRequests on small instances: the requests are named by their     *)
(* role, and every function below gives each role its part.                *)
(***************************************************************************)
EXTENDS SessionRequests, FiniteSets

CONSTANTS
    ask1, ask2, ask3,    \* streamed turns that say something else
    yes, no,             \* streamed turns that answer a plan
    approve1, approve2, neither,  \* plan requests
    flow, complete, eval,
    g1, g2, s1, s2, s3

MCKind == [r \in Request |->
    CASE r \in {ask1, ask2, ask3, yes, no} -> "stream"
      [] r \in {approve1, approve2, neither} -> "plan"
      [] r = flow -> "flow" [] r = complete -> "completion" [] r = eval -> "eval"]
MCText == [r \in Request |->
    CASE r \in {yes, approve1, approve2} -> "approve"
      [] r = no -> "reject"
      [] OTHER -> "other"]
MCPre == [r \in Request |-> r = ask3]

\* Some requests come without a user.
MCGateway == [r \in Request |->
    CASE r \in {ask1, approve1, no, flow} -> g1 [] r \in {ask2, yes} -> g2 [] OTHER -> Base]
\* Every request comes from a user.
MCUsers == [r \in Request |-> IF r \in {ask1, no} THEN g1 ELSE g2]

MCNever  == [r \in Request |-> 0]
MCOnce   == [r \in Request |-> IF r \in {ask1, ask2} THEN 1 ELSE 0]

MCOneSession == [r \in Request |-> s1]
MCSessions == [r \in Request |->
    CASE r = ask1 -> s1 [] r = ask2 -> s2 [] OTHER -> s3]
============================================================================
