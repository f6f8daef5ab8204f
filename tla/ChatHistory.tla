---------------------------- MODULE ChatHistory ----------------------------
(***************************************************************************)
(* The request sent to the model: the session's history after              *)
(* SanitizeMessages, and what a chat-completion provider requires of it.   *)
(* Entries are those of TurnLoop.                                          *)
(***************************************************************************)
EXTENDS Naturals, Sequences, SequencesExt

\* Mutant: nothing is merged.
AddSanitized_Appends(out, m) == Append(out, m)

\* SanitizeMessages: merge m into the last message when both are the user's or
\* both the assistant's, unless the last one carries tool calls.
AddSanitized(out, m) ==
    IF out = << >> \/ m.role = "tool" \/ m.role # Last(out).role
       \/ (m.role = "assistant" /\ Last(out).calls # {})
    THEN Append(out, m)
    ELSE Front(out) \o <<[m EXCEPT !.calls = @ \cup Last(out).calls]>>

Sanitize(h) == FoldLeft(AddSanitized, << >>, h)

\* The tool messages that directly follow position i.
Answers(h, i) ==
    {j \in (i+1)..Len(h) : \A k \in (i+1)..j : h[k].role = "tool"}

\* Every assistant message with tool calls is directly followed by the answers
\* to exactly those calls, every tool message is such an answer, and no two user
\* or plain assistant messages are adjacent.
WellFormed(h) ==
    /\ \A i \in 1..Len(h) : h[i].role = "assistant" =>
           UNION {h[j].calls : j \in Answers(h, i)} = h[i].calls
    /\ \A j \in 1..Len(h) : h[j].role = "tool" =>
           \E i \in 1..(j-1) : h[i].role = "assistant" /\ j \in Answers(h, i)
    /\ \A i \in 1..(Len(h)-1) :
           h[i].role = h[i+1].role => h[i].role = "tool" \/ h[i].calls # {}
=============================================================================
