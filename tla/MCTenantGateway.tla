-------------------------- MODULE MCTenantGateway --------------------------
(***************************************************************************)
(* TenantGateway on a small instance: two users and an event for each bot. *)
(***************************************************************************)
EXTENDS TenantGateway

CONSTANTS h1, h2, m1, m2, k1, k2, u1, u2, c1, c2

MCMessageOf == [h \in Handler |-> IF h = h1 THEN m1 ELSE m2]
MCKeyOf     == [h \in Handler |-> IF h = h1 THEN k1 ELSE k2]
MCOwnerOf   == [h \in Handler |-> IF h = h1 THEN u1 ELSE u2]

=============================================================================
