---------------------------- MODULE MCIMGateway ----------------------------
(***************************************************************************)
(* IMGateway on small instances.  In MCMessageOf the last event redelivers *)
(* the first one's message.                                                *)
(***************************************************************************)
EXTENDS IMGateway

CONSTANTS h1, h2, h3, h4, m1, m2, m3, k1, k2

MCMessageOf == [h \in Handler |-> CASE h = h1 -> m1 [] h = h2 -> m2
                                    [] h = h3 -> m3 [] h = h4 -> m1]

\* Two chats, one of them with a second message and the redelivery.
MCTwoChats == [h \in Handler |-> IF h = h3 THEN k2 ELSE k1]

=============================================================================
