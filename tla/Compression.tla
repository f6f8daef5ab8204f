---------------------------- MODULE Compression ----------------------------
(***************************************************************************)
(* What a compaction (internal/prompt/compressor.go) makes of a history:   *)
(* the first messages, a summary of the middle, the last messages, and the *)
(* repair of the tool calls the cut separated from their results.  The     *)
(* token estimates, which choose the cut, are any.  The system prompt, the *)
(* first protected message of the code, is left out as it is in TurnLoop.  *)
(***************************************************************************)
EXTENDS ChatHistory, FiniteSets

\* The tool messages of a set of calls, one message per call.
Each(S) ==
    LET cs == SetToSeq(S) IN [k \in 1..Len(cs) |-> [role |-> "tool", calls |-> {cs[k]}]]

\* appendToolResults writes one message per call; TurnLoop keeps one per batch.
Split(h) ==
    FlattenSeq([i \in 1..Len(h) |->
        IF h[i].role = "tool" THEN Each(h[i].calls) ELSE <<h[i]>>])

\* alignBoundaryBackward: a tail that begins among the results of a message
\* begins with that message instead.
Align(h, cut) ==
    IF cut \notin 1..(Len(h)-1) THEN cut
    ELSE LET before == {i \in 1..(cut+1) : i = 1 \/ h[i].role # "tool"}
             i == CHOOSE i \in before : \A k \in before : k <= i
         IN  IF h[i].role = "assistant" /\ h[i].calls # {} THEN i - 1 ELSE cut

\* determineCut, with a tail of at least `last` messages, for any token counts.
Cuts(h, first, last) ==
    LET above(c) == IF c < first THEN first ELSE c
    IN  {above(Align(h, above(c))) : c \in 0..(Len(h) - last)}

\* Mutant: calls that lost their results get none.
Repair_DropsOnly(h) ==
    LET need == UNION {h[i].calls : i \in {k \in 1..Len(h) : h[k].role # "tool"}}
    IN  SelectSeq(h, LAMBDA m : m.role # "tool" \/ m.calls \subseteq need)

\* sanitizeToolPairs: results without their call go, calls without their result
\* get a placeholder each.
Repair(h) ==
    LET Of(tool) == UNION {h[i].calls : i \in {k \in 1..Len(h) : (h[k].role = "tool") = tool}}
        mended(m) ==
            IF m.role = "tool" THEN IF m.calls \subseteq Of(FALSE) THEN <<m>> ELSE << >>
            ELSE <<m>> \o Each(m.calls \ Of(TRUE))
    IN  FlattenSeq([i \in 1..Len(h) |-> mended(h[i])])

\* compressAt: the summary is the user's unless the head ends with the user.
Compact(h, first, cut) ==
    LET by == IF first > 0 /\ h[first].role = "user" THEN "assistant" ELSE "user"
    IN  Repair(SubSeq(h, 1, first) \o <<[role |-> by, calls |-> {}]>> \o SubSeq(h, cut+1, Len(h)))

\* The histories a compaction may leave; below the size limit, or with nothing
\* between head and tail, the history stays as it is.
Compactions(h, first, last) ==
    {h} \cup IF Len(h) < first + last + 1 THEN {}
             ELSE {Compact(h, first, c) : c \in {d \in Cuts(h, first, last) : d > first}}
=============================================================================
