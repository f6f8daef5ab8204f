--------------------------- MODULE ModelRequests ---------------------------
(***************************************************************************)
(* What the agent loop sends to the model: the turn's history (TurnLoop),  *)
(* as the compressor leaves it (Compression) and SanitizeMessages orders   *)
(* it (ChatHistory).                                                       *)
(***************************************************************************)
EXTENDS TurnLoop, Compression

CONSTANTS
    ProtectFirst,  \* what ProtectFirstN may be, without the system prompt
    ProtectLast    \* what ProtectLastN may be

\* EffectiveCompression takes positive numbers only; the tool registry is finite.
ASSUME ModelRequestsAssumption ==
    /\ ProtectFirst \subseteq Nat
    /\ ProtectLast \subseteq Nat \ {0}
    /\ IsFiniteSet(Reads \cup Writes)

\* "SanitizeMessages enforces provider-friendly OpenAI chat ordering: merge
\* consecutive user/assistant messages; keep tool sequences intact"
\* (internal/llm/messages.go): what goes to the model is well formed, compacted
\* or not, wherever the cut falls and however many messages are protected, and
\* so it is when the compacted history is compacted again.
RequestWellFormed ==
    pc = "llm" =>
        \A first \in ProtectFirst, last \in ProtectLast :
            \A h \in Compactions(Split(msgs), first, last) :
                \A g \in Compactions(h, first, last) : WellFormed(Sanitize(g))
=============================================================================
