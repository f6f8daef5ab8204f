------------------------- MODULE JobSchedulerProofs -------------------------
(* The scheduler's safety, for any jobs, users, ticks, retries and crashes. *)
EXTENDS JobScheduler, TLAPS

USE BoundAssumption DEF BoundAssumption, Executing, Recording, Waiting, Verdicts

\* A chain is a job and the number of one of its ticks.
LEMMA ChainParts ==
    ASSUME NEW c \in Chain
    PROVE  c[1] \in Jobs /\ c[2] \in 1..MaxTicks[c[1]] /\ c = <<c[1], c[2]>>
BY DEF Chain

\* A tick below the bound names a chain.
LEMMA TickChain ==
    ASSUME NEW j \in Jobs, ticks[j] \in Nat, ticks[j] < MaxTicks[j]
    PROVE  /\ <<j, ticks[j] + 1>> \in Chain
           /\ ticks[j] + 1 \in Nat /\ ticks[j] + 1 <= MaxTicks[j]
<1>1. MaxTicks[j] \in Nat  OBVIOUS
<1>2. ticks[j] + 1 \in 1..MaxTicks[j]  BY <1>1
<1> QED  BY <1>1, <1>2 DEF Chain

-----------------------------------------------------------------------------
(* Types.                                                                  *)

LEMMA InitType == Init => TypeOK
<1> SUFFICES ASSUME Init PROVE TypeOK
  OBVIOUS
<1>1. retryCounts \in [Jobs -> 0..MaxRetries] /\ crashes \in 0..MaxCrashes
  BY DEF Init
<1>2. ticks \in [Jobs -> Nat] /\ \A j \in Jobs : ticks[j] <= MaxTicks[j]
  BY DEF Init
<1>3. /\ file \in [ok : BOOLEAN, last : [Jobs -> Verdicts \union {"none"}]]
      /\ latest \in [Jobs -> Verdicts \union {"none"}]
      /\ loaded \in [Chain -> [Jobs -> Verdicts \union {"none"}]]
      /\ unrecorded \subseteq Jobs
  BY DEF Init, NoneRead
<1> QED  BY <1>1, <1>2, <1>3 DEF Init, TypeOK

LEMMA TickType ==
    ASSUME TypeOK, NEW j \in Jobs, Tick(j)
    PROVE  TypeOK'
<1>1. <<j, ticks[j] + 1>> \in Chain /\ ticks[j] + 1 \in Nat /\ ticks[j] + 1 <= MaxTicks[j]
  BY TickChain DEF TypeOK, Tick
<1>2. ticks' \in [Jobs -> Nat] /\ \A k \in Jobs : ticks'[k] <= MaxTicks[k]
  BY <1>1 DEF TypeOK, Tick
<1>3. retryCounts' \in [Jobs -> 0..MaxRetries] /\ accepted' \in [Jobs -> Nat]
  <2>1. \/ UNCHANGED <<retryCounts, accepted>>
        \/ /\ retryCounts' = [retryCounts EXCEPT ![j] = 0]
           /\ accepted' = [accepted EXCEPT ![j] = @ + 1]
    <3>1. CASE j \in running  BY <3>1, Zenon DEF Tick
    <3>2. CASE j \notin running  BY <3>2, Zenon DEF Tick
    <3> QED  BY <3>1, <3>2
  <2>2. 0 \in 0..MaxRetries /\ accepted[j] + 1 \in Nat  BY DEF TypeOK
  <2>3. CASE UNCHANGED <<retryCounts, accepted>>  BY <2>3 DEF TypeOK
  <2>4. CASE /\ retryCounts' = [retryCounts EXCEPT ![j] = 0]
             /\ accepted' = [accepted EXCEPT ![j] = @ + 1]
    BY <2>2, <2>4 DEF TypeOK
  <2> QED  BY <2>1, <2>3, <2>4
<1>4. running' \subseteq Jobs  BY DEF TypeOK, Tick
<1>5. /\ pc' \in [Chain -> Executing \union Waiting \union {"none", "skipped", "done", "lost"}]
      /\ guarded' \in [Chain -> BOOLEAN]
  BY <1>1 DEF TypeOK, Tick
<1> QED  BY <1>2, <1>3, <1>4, <1>5 DEF TypeOK, Tick

LEMMA ExecuteType ==
    ASSUME TypeOK, NEW c \in Chain, Execute(c)
    PROVE  TypeOK'
<1>1. /\ pc' \in [Chain -> Executing \union Waiting \union {"none", "skipped", "done", "lost"}]
      /\ loaded' \in [Chain -> [Jobs -> Verdicts \union {"none"}]]
      /\ raced' \in BOOLEAN
  BY DEF TypeOK, Execute, LoadJobs
<1>2. verdict' \in [Chain -> Verdicts \union {"none"}]  BY DEF TypeOK, Execute, Verdicts
<1>3. latest' \in [Jobs -> Verdicts \union {"none"}]
  <2> DEFINE updated == [j \in Jobs |-> IF j \in Matching(c[1]) THEN verdict'[c] ELSE latest[j]]
  <2>1. updated \in [Jobs -> Verdicts \union {"none"}]
    <3> HIDE DEF Matching
    <3> QED  BY <1>2 DEF TypeOK
  <2>2. latest' = NoneRead \/ latest' = updated  BY DEF Execute
  <2> HIDE DEF updated
  <2> QED  BY <2>1, <2>2 DEF NoneRead
<1>4. unrecorded' \subseteq Jobs  BY DEF TypeOK, Execute, Matching
<1> QED  BY <1>1, <1>2, <1>3, <1>4 DEF TypeOK, Execute

LEMMA DecideType ==
    ASSUME TypeOK, NEW c \in Chain, Decide(c)
    PROVE  TypeOK'
<1>1. c[1] \in Jobs  BY ChainParts
<1>2. retryCounts' \in [Jobs -> 0..MaxRetries] /\ retries' \in [Jobs -> Nat]
  <2>1. \/ UNCHANGED <<retryCounts, retries>>
        \/ /\ retryCounts[c[1]] < MaxRetries
           /\ retryCounts' = [retryCounts EXCEPT ![c[1]] = @ + 1]
           /\ retries' = [retries EXCEPT ![c[1]] = @ + 1]
    BY DEF Decide
  <2>2. retryCounts[c[1]] \in 0..MaxRetries /\ retries[c[1]] \in Nat
    BY <1>1 DEF TypeOK
  <2>3. CASE UNCHANGED <<retryCounts, retries>>  BY <2>3 DEF TypeOK
  <2>4. CASE /\ retryCounts[c[1]] < MaxRetries
             /\ retryCounts' = [retryCounts EXCEPT ![c[1]] = @ + 1]
             /\ retries' = [retries EXCEPT ![c[1]] = @ + 1]
    <3>1. retryCounts[c[1]] + 1 \in 0..MaxRetries /\ retries[c[1]] + 1 \in Nat
      BY <2>2, <2>4
    <3> QED  BY <2>4, <3>1 DEF TypeOK
  <2> QED  BY <2>1, <2>3, <2>4
<1>3. pc' \in [Chain -> Executing \union Waiting \union {"none", "skipped", "done", "lost"}]
  <2>1. \E x \in {"deferred", "done", "retry"} : pc' = [pc EXCEPT ![c] = x]
    BY DEF Decide
  <2> QED  BY <2>1 DEF TypeOK
<1>4. running' \subseteq Jobs /\ guarded' \in [Chain -> BOOLEAN]
  BY DEF TypeOK, Decide, Return
<1>5. verdict' \in [Chain -> Verdicts \union {"none"}]  BY DEF TypeOK, Decide
<1> QED  BY <1>2, <1>3, <1>4, <1>5 DEF TypeOK, Decide

LEMMA TruncatedType == Truncated \in [ok : BOOLEAN, last : [Jobs -> Verdicts \union {"none"}]]
<1>1. NoneRead \in [Jobs -> Verdicts \union {"none"}]  BY DEF NoneRead
<1> QED  BY <1>1 DEF Truncated

LEMMA TruncateType ==
    ASSUME TypeOK, NEW c \in Chain, Truncate(c)
    PROVE  TypeOK'
<1>1. file' \in [ok : BOOLEAN, last : [Jobs -> Verdicts \union {"none"}]]
  BY TruncatedType DEF TypeOK, Truncate
<1>2. overlaid' \in [Chain -> BOOLEAN]  BY DEF TypeOK, Truncate
<1>3. loaded' \in [Chain -> [Jobs -> Verdicts \union {"none"}]]
  <2>1. loaded' = loaded \/ loaded' = [loaded EXCEPT ![c] = NoneRead]  BY DEF Truncate
  <2>2. NoneRead \in [Jobs -> Verdicts \union {"none"}]  BY DEF NoneRead
  <2> QED  BY <2>1, <2>2 DEF TypeOK
<1>4. pc' \in [Chain -> Executing \union Waiting \union {"none", "skipped", "done", "lost"}]
  <2>1. \E x \in {"write", "decide"} : pc' = [pc EXCEPT ![c] = x]  BY DEF Truncate
  <2> QED  BY <2>1 DEF TypeOK
<1> QED  BY <1>1, <1>2, <1>3, <1>4 DEF TypeOK, Truncate

LEMMA WriteType ==
    ASSUME TypeOK, NEW c \in Chain, Write(c)
    PROVE  TypeOK'
<1> DEFINE new == [j \in Jobs |-> IF j \in Matching(c[1]) THEN verdict[c] ELSE loaded[c][j]]
           Last == [Jobs -> Verdicts \union {"none"}]
<1>1. file' \in [ok : BOOLEAN, last : Last]
  <2>1. new \in Last /\ NoneRead \in Last
    <3>1. loaded[c] \in Last /\ verdict[c] \in Verdicts \union {"none"}
      BY DEF TypeOK
    <3> HIDE DEF Matching
    <3> QED  BY <3>1 DEF NoneRead
  <2>2. file' = [ok |-> TRUE, last |-> new] \/ file' = file \/ file' = Truncated
    BY DEF Write
  <2>3. file \in [ok : BOOLEAN, last : Last]  BY DEF TypeOK
  <2>4. CASE file' = [ok |-> TRUE, last |-> new]
    <3> HIDE DEF new, Last
    <3> QED  BY <2>1, <2>4
  <2> QED  BY <2>2, <2>3, <2>4, TruncatedType
<1>2. /\ overlaid' \in [Chain -> BOOLEAN] /\ unrecorded' \subseteq Jobs
      /\ loaded' \in [Chain -> [Jobs -> Verdicts \union {"none"}]]
      /\ pc' \in [Chain -> Executing \union Waiting \union {"none", "skipped", "done", "lost"}]
  BY DEF TypeOK, Write, NoneRead
<1> QED  BY <1>1, <1>2 DEF TypeOK, Write

LEMMA CrashType == ASSUME TypeOK, Crash PROVE TypeOK'
<1>1. crashes' \in 0..MaxCrashes /\ retryCounts' \in [Jobs -> 0..MaxRetries]
  BY DEF TypeOK, Crash
<1>2. /\ pc' \in [Chain -> Executing \union Waiting \union {"none", "skipped", "done", "lost"}]
      /\ verdict' \in [Chain -> Verdicts \union {"none"}]
      /\ loaded' \in [Chain -> [Jobs -> Verdicts \union {"none"}]]
  BY DEF TypeOK, Crash, NoneRead
<1> QED  BY <1>1, <1>2 DEF TypeOK, Crash

LEMMA NextType == TypeOK /\ [Next]_vars => TypeOK'
<1> SUFFICES ASSUME TypeOK, [Next]_vars PROVE TypeOK'
  OBVIOUS
<1>1. CASE Start  BY <1>1 DEF TypeOK, Start, chainVars
<1>2. CASE SynthesisReady  BY <1>2 DEF TypeOK, SynthesisReady, chainVars
<1>3. CASE Crash  BY <1>3, CrashType
<1>4. ASSUME NEW j \in Jobs, Tick(j) PROVE TypeOK'  BY <1>4, TickType
<1>5. ASSUME NEW c \in Chain, Go(c) PROVE TypeOK'
  <2>1. CASE Execute(c)  BY <2>1, ExecuteType
  <2>2. CASE Truncate(c)  BY <2>2, TruncateType
  <2>3. CASE Write(c)  BY <2>3, WriteType
  <2>4. CASE Decide(c)  BY <2>4, DecideType
  <2> QED  BY <1>5, <2>1, <2>2, <2>3, <2>4 DEF Go
<1>6. CASE UNCHANGED vars  BY <1>6 DEF TypeOK, vars, chainVars
<1> QED  BY <1>1, <1>2, <1>3, <1>4, <1>5, <1>6 DEF Next, Quiet

\* Every reachable state of the scheduler has its types; a job's retry count
\* never passes the limit.
THEOREM SchedulerTypes == Spec => []TypeOK
BY InitType, NextType, PTL DEF Spec

-----------------------------------------------------------------------------
(* The running set and the retry budget.  The next tick resets a count that *)
(* earlier chains still read, so the budget alone is not inductive: while a *)
(* chain of j is alive, what the count still allows is part of it.          *)

Live(c) == pc[c] \in Executing \union Waiting

FreshTicks == \A c \in Chain : c[2] > ticks[c[1]] => pc[c] = "none"

Budget ==
    \A j \in Jobs : (\E c \in Chain : c[1] = j /\ Live(c)) =>
        retries[j] + MaxRetries <= MaxRetries * accepted[j] + retryCounts[j]

SafeInv == TicksExclusive /\ FreshTicks /\ Budget /\ RetryBudget

LEMMA InitSafe == Init => SafeInv
<1> SUFFICES ASSUME Init PROVE SafeInv
  OBVIOUS
<1>1. TicksExclusive /\ FreshTicks
  BY DEF Init, TicksExclusive, FreshTicks
<1>2. Budget  BY DEF Init, Budget, Live
<1>3. RetryBudget
  <2>1. MaxRetries * 0 = 0  OBVIOUS
  <2>2. \A j \in Jobs : retries[j] = 0 /\ accepted[j] = 0  BY DEF Init
  <2> SUFFICES ASSUME NEW j \in Jobs PROVE retries[j] <= MaxRetries * accepted[j]
    BY DEF RetryBudget
  <2>3. MaxRetries * accepted[j] = 0  BY <2>1, <2>2, Zenon
  <2> QED  BY <2>2, <2>3
<1> QED  BY <1>1, <1>2, <1>3 DEF SafeInv

\* A tick of j begins a fresh chain; that of a running job is skipped.
LEMMA TickSafe ==
    ASSUME TypeOK, SafeInv, NEW j \in Jobs, Tick(j)
    PROVE  SafeInv'
<1> DEFINE n == <<j, ticks[j] + 1>>
<1>1. n \in Chain /\ n[1] = j /\ n[2] = ticks[j] + 1
  BY TickChain DEF TypeOK, Tick
<1>2. pc[n] = "none" /\ ~guarded[n]
  <2>1. ticks[j] \in Nat /\ n[2] > ticks[n[1]]  BY <1>1 DEF TypeOK
  <2>2. pc[n] = "none"  BY <1>1, <2>1 DEF SafeInv, FreshTicks
  <2> QED  BY <1>1, <2>2 DEF SafeInv, TicksExclusive, TypeOK
<1> HIDE DEF n
<1>3. FreshTicks'
  <2> SUFFICES ASSUME NEW c \in Chain, c[2] > ticks'[c[1]] PROVE pc'[c] = "none"
    BY DEF FreshTicks
  <2>1. c[1] \in Jobs /\ c[2] \in Nat  BY ChainParts
  <2>2. c # n /\ c[2] > ticks[c[1]]  BY <1>1, <2>1 DEF TypeOK, Tick
  <2>3. pc'[c] = pc[c]  BY <2>2 DEF TypeOK, Tick, n
  <2> QED  BY <2>2, <2>3 DEF SafeInv, FreshTicks
<1>4. CASE /\ j \in running
           /\ pc' = [pc EXCEPT ![n] = "skipped"]
           /\ UNCHANGED <<running, retryCounts, guarded, accepted, retries>>
  <2>1. TicksExclusive'
    BY <1>1, <1>2, <1>4 DEF SafeInv, TicksExclusive, TypeOK
  <2>2. Budget'  BY <1>1, <1>4 DEF SafeInv, Budget, Live, TypeOK
  <2>3. RetryBudget'  BY <1>4 DEF SafeInv, RetryBudget
  <2> QED  BY <1>3, <2>1, <2>2, <2>3 DEF SafeInv
<1>5. CASE /\ j \notin running
           /\ running' = running \union {j}
           /\ retryCounts' = [retryCounts EXCEPT ![j] = 0]
           /\ accepted' = [accepted EXCEPT ![j] = @ + 1]
           /\ pc' = [pc EXCEPT ![n] = "exec"]
           /\ guarded' = [guarded EXCEPT ![n] = TRUE]
           /\ retries' = retries
  <2>1. TicksExclusive'
    <3>1. \A c \in Chain : c[1] = j => ~guarded[c]
      BY <1>5 DEF SafeInv, TicksExclusive
    <3>2. \A c \in Chain : guarded'[c] <=> c = n \/ guarded[c]
      BY <1>1, <1>5 DEF TypeOK
    <3>3. \A c, d \in Chain : guarded'[c] /\ guarded'[d] /\ c[1] = d[1] => c = d
      BY <1>1, <3>1, <3>2 DEF SafeInv, TicksExclusive
    <3>4. \A k \in Jobs : k \in running' <=> \E c \in Chain : c[1] = k /\ guarded'[c]
      BY <1>1, <1>5, <3>2 DEF SafeInv, TicksExclusive
    <3>5. \A c \in Chain : guarded'[c] => pc'[c] \in Executing
      BY <1>1, <1>5, <3>2 DEF SafeInv, TicksExclusive, TypeOK
    <3> QED  BY <3>3, <3>4, <3>5 DEF TicksExclusive
  <2>2. /\ retries[j] \in Nat /\ accepted[j] \in Nat
        /\ MaxRetries * (accepted[j] + 1) = MaxRetries * accepted[j] + MaxRetries
        /\ MaxRetries * accepted[j] \in Nat
    BY DEF TypeOK
  <2>3. /\ retries'[j] + MaxRetries <= MaxRetries * accepted'[j] + retryCounts'[j]
        /\ retries'[j] <= MaxRetries * accepted'[j]
    BY <1>5, <2>2 DEF SafeInv, RetryBudget, TypeOK
  <2>4. \A k \in Jobs \ {j} : retryCounts'[k] = retryCounts[k] /\ accepted'[k] = accepted[k]
    BY <1>5 DEF TypeOK
  <2>5. \A c \in Chain : c[1] # j => Live(c)' = Live(c)
    BY <1>1, <1>5 DEF Live, TypeOK
  <2>6. Budget'
    BY <1>5, <2>3, <2>4, <2>5 DEF SafeInv, Budget
  <2>7. RetryBudget'
    BY <1>5, <2>3, <2>4 DEF SafeInv, RetryBudget
  <2> QED  BY <1>3, <2>1, <2>6, <2>7 DEF SafeInv
<1> QED  BY <1>4, <1>5 DEF Tick, n

\* A step of a living chain that keeps it executing changes none of this.
LEMMA StepSafe ==
    ASSUME TypeOK, SafeInv, NEW c \in Chain, NEW x \in Executing,
           Live(c), pc' = [pc EXCEPT ![c] = x],
           UNCHANGED <<running, retryCounts, ticks, guarded, accepted, retries>>
    PROVE  SafeInv'
<1>1. \A d \in Chain : Live(d)' = Live(d)  BY DEF Live, TypeOK
<1>2. TicksExclusive'  BY DEF SafeInv, TicksExclusive, TypeOK
<1>3. FreshTicks'  BY DEF SafeInv, FreshTicks, Live, TypeOK
<1>4. Budget'  BY <1>1 DEF SafeInv, Budget
<1>5. RetryBudget'  BY DEF SafeInv, RetryBudget
<1> QED  BY <1>2, <1>3, <1>4, <1>5 DEF SafeInv

\* A chain that returns leaves the running set if it was the tick itself; a
\* retry it arms was still in the count.
LEMMA DecideSafe ==
    ASSUME TypeOK, SafeInv, NEW c \in Chain, Decide(c)
    PROVE  SafeInv'
<1> DEFINE j == c[1]
<1>0. j \in Jobs /\ Live(c) /\ ticks' = ticks /\ accepted' = accepted
  BY ChainParts DEF Decide, Live
<1>1. PICK x \in Waiting \union {"done"} : pc' = [pc EXCEPT ![c] = x]
  BY DEF Decide
<1>2. /\ guarded' = [guarded EXCEPT ![c] = FALSE]
      /\ running' = IF guarded[c] THEN running \ {j} ELSE running
  BY DEF Decide, Return
<1>3. TicksExclusive'
  <2>1. \A d \in Chain : guarded'[d] <=> d # c /\ guarded[d]
    BY <1>2 DEF TypeOK
  <2>2. \A d, e \in Chain : guarded'[d] /\ guarded'[e] /\ d[1] = e[1] => d = e
    BY <2>1 DEF SafeInv, TicksExclusive
  <2>3. \A k \in Jobs : k \in running' <=> \E d \in Chain : d[1] = k /\ guarded'[d]
    BY <1>2, <2>1 DEF SafeInv, TicksExclusive
  <2>4. \A d \in Chain : guarded'[d] => pc'[d] \in Executing
    BY <1>1, <2>1 DEF SafeInv, TicksExclusive, TypeOK
  <2> QED  BY <2>2, <2>3, <2>4 DEF TicksExclusive
<1>4. FreshTicks'
  BY <1>0, <1>1 DEF SafeInv, FreshTicks, Live, TypeOK
<1>5. retries[j] + MaxRetries <= MaxRetries * accepted[j] + retryCounts[j]
  BY <1>0 DEF SafeInv, Budget
<1>6. \A d \in Chain : Live(d)' => Live(d)
  BY <1>0, <1>1 DEF Live, TypeOK
<1>7. /\ retries[j] \in Nat /\ accepted[j] \in Nat /\ retryCounts[j] \in 0..MaxRetries
      /\ MaxRetries * accepted[j] \in Nat
  BY <1>0 DEF TypeOK
<1>8. CASE UNCHANGED <<retryCounts, retries>>
  <2>1. Budget'  BY <1>0, <1>6, <1>8 DEF SafeInv, Budget
  <2>2. RetryBudget'  BY <1>0, <1>8 DEF SafeInv, RetryBudget
  <2> QED  BY <1>3, <1>4, <2>1, <2>2 DEF SafeInv
<1>9. CASE /\ retryCounts[j] < MaxRetries
           /\ retryCounts' = [retryCounts EXCEPT ![j] = @ + 1]
           /\ retries' = [retries EXCEPT ![j] = @ + 1]
  <2>1. retryCounts'[j] = retryCounts[j] + 1 /\ retries'[j] = retries[j] + 1
    BY <1>0, <1>9 DEF TypeOK
  <2>2. \A k \in Jobs \ {j} : retryCounts'[k] = retryCounts[k] /\ retries'[k] = retries[k]
    BY <1>9 DEF TypeOK
  <2>3. /\ retries'[j] + MaxRetries <= MaxRetries * accepted[j] + retryCounts'[j]
        /\ retries'[j] <= MaxRetries * accepted[j]
    BY <1>5, <1>7, <1>9, <2>1
  <2>4. Budget'
    BY <1>0, <1>6, <2>2, <2>3 DEF SafeInv, Budget
  <2>5. RetryBudget'
    BY <1>0, <2>2, <2>3 DEF SafeInv, RetryBudget
  <2> QED  BY <1>3, <1>4, <2>4, <2>5 DEF SafeInv
<1> QED  BY <1>8, <1>9 DEF Decide

LEMMA NextSafe == TypeOK /\ SafeInv /\ [Next]_vars => SafeInv'
<1> SUFFICES ASSUME TypeOK, SafeInv, [Next]_vars PROVE SafeInv'
  OBVIOUS
<1>1. ASSUME UNCHANGED <<running, retryCounts, ticks, pc, guarded, accepted, retries>>
      PROVE  SafeInv'
  <2>1. TicksExclusive'  BY <1>1 DEF SafeInv, TicksExclusive
  <2>2. FreshTicks' /\ Budget' /\ RetryBudget'
    BY <1>1 DEF SafeInv, FreshTicks, Budget, Live, RetryBudget
  <2> QED  BY <2>1, <2>2 DEF SafeInv
<1>2. CASE Start  BY <1>1, <1>2 DEF Start, chainVars
<1>3. CASE SynthesisReady  BY <1>1, <1>3 DEF SynthesisReady, chainVars
<1>4. CASE Crash
  <2>1. \A c \in Chain : ~guarded'[c] /\ ~Live(c)' /\ (pc[c] = "none" => pc'[c] = "none")
    BY <1>4 DEF Crash, Live, TypeOK
  <2>2. TicksExclusive'  BY <1>4, <2>1 DEF Crash, TicksExclusive
  <2>3. FreshTicks' /\ Budget' /\ RetryBudget'
    BY <1>4, <2>1 DEF Crash, SafeInv, FreshTicks, Budget, RetryBudget
  <2> QED  BY <2>2, <2>3 DEF SafeInv
<1>5. ASSUME NEW j \in Jobs, Tick(j) PROVE SafeInv'  BY <1>5, TickSafe
<1>6. ASSUME NEW c \in Chain, Go(c) PROVE SafeInv'
  <2>1. CASE Execute(c)
    <3>1. \E x \in Executing : pc' = [pc EXCEPT ![c] = x]  BY <2>1 DEF Execute, LoadJobs
    <3> QED  BY <2>1, <3>1, StepSafe DEF Execute, Live
  <2>2. CASE Truncate(c)
    <3>1. \E x \in Executing : pc' = [pc EXCEPT ![c] = x]  BY <2>2 DEF Truncate
    <3> QED  BY <2>2, <3>1, StepSafe DEF Truncate, Live
  <2>3. CASE Write(c)  BY <2>3, StepSafe DEF Write, Live
  <2>4. CASE Decide(c)  BY <2>4, DecideSafe
  <2> QED  BY <1>6, <2>1, <2>2, <2>3, <2>4 DEF Go
<1>7. CASE UNCHANGED vars  BY <1>1, <1>7 DEF vars, chainVars
<1> QED  BY <1>2, <1>3, <1>4, <1>5, <1>6, <1>7 DEF Next, Quiet

\* Two ticks of one job never execute at the same time, and the running set
\* is exactly the jobs whose tick executes: no entry is left behind.
THEOREM TicksExclude == Spec => []TicksExclusive
<1>1. SafeInv => TicksExclusive  BY DEF SafeInv
<1> QED  BY <1>1, InitType, NextType, InitSafe, NextSafe, PTL DEF Spec

\* However chains of retries overlap with ticks that reset their count, and
\* with crashes, a job is retried at most MaxRetries times per tick.
THEOREM RetriesBounded == Spec => []RetryBudget
<1>1. SafeInv => RetryBudget  BY DEF SafeInv
<1> QED  BY <1>1, InitType, NextType, InitSafe, NextSafe, PTL DEF Spec

-----------------------------------------------------------------------------
(* The job file.  As long as no two records have overlapped, the one record *)
(* in progress is of jobs that count as unrecorded until it succeeds, and    *)
(* has read the latest verdict of every job that does not.                   *)

FileInv ==
    ~raced =>
        /\ \A c, d \in Chain : pc[c] \in Recording /\ pc[d] \in Recording => c = d
        /\ \A c \in Chain : pc[c] \in Recording =>
              /\ Matching(c[1]) \subseteq unrecorded
              /\ \A j \in Matching(c[1]) : latest[j] = verdict[c]
              /\ \A j \in Jobs \ unrecorded : loaded[c][j] = latest[j]
        /\ \A c \in Chain : pc[c] = "write" => ~overlaid[c]
        /\ file.ok => \A j \in Jobs \ unrecorded : file.last[j] = latest[j]
        /\ ~file.ok => unrecorded # {}

LEMMA OwnMatch == \A c \in Chain : c[1] \in Matching(c[1])
BY ChainParts DEF Matching

\* A record begins: if others are in progress they overlap, otherwise its jobs
\* are the unrecorded ones from now on, and it has read the others' verdicts.
LEMMA ExecuteFile ==
    ASSUME TypeOK, FileInv, NEW c \in Chain, Execute(c)
    PROVE  FileInv'
<1>1. SUFFICES ASSUME ~raced' PROVE FileInv'
  BY DEF FileInv
<1>2. ~raced /\ \A d \in Chain : pc[d] \notin Recording
  BY <1>1 DEF Execute, LoadJobs, TypeOK
<1>3. /\ latest' = [j \in Jobs |-> IF j \in Matching(c[1]) THEN verdict'[c] ELSE latest[j]]
      /\ unrecorded' = unrecorded \union Matching(c[1])
      /\ file' = file
  BY <1>1 DEF Execute
<1>4. \A j \in Jobs \ unrecorded' : j \in Jobs \ unrecorded /\ latest'[j] = latest[j]
  BY <1>3
<1>5. \A j \in Matching(c[1]) : latest'[j] = verdict'[c]
  BY <1>3 DEF Matching
<1>6. unrecorded' # {}  BY <1>3, OwnMatch
<1>7. file'.ok => \A j \in Jobs \ unrecorded' : file'.last[j] = latest'[j]
  BY <1>2, <1>3, <1>4 DEF FileInv
<1>8. CASE pc' = [pc EXCEPT ![c] = "decide"]
  <2>1. \A d \in Chain : pc'[d] \notin Recording  BY <1>2, <1>8 DEF TypeOK
  <2> QED  BY <1>6, <1>7, <2>1 DEF FileInv
<1>9. CASE /\ file.ok /\ pc' = [pc EXCEPT ![c] = "truncate"]
           /\ loaded' = [loaded EXCEPT ![c] = file.last]
  <2>1. \A d \in Chain : pc'[d] \in Recording => d = c  BY <1>2, <1>9 DEF TypeOK
  <2>2. pc'[c] = "truncate" /\ loaded'[c] = file'.last  BY <1>3, <1>9 DEF TypeOK
  <2>3. \A d \in Chain : pc'[d] # "write"  BY <2>1, <2>2
  <2>4. Matching(c[1]) \subseteq unrecorded'  BY <1>3
  <2>5. \A j \in Jobs \ unrecorded' : loaded'[c][j] = latest'[j]
    BY <1>3, <1>7, <1>9, <2>2
  <2> QED  BY <1>5, <1>6, <1>7, <2>1, <2>3, <2>4, <2>5 DEF FileInv
<1> QED  BY <1>8, <1>9 DEF Execute, LoadJobs

LEMMA TruncateFile ==
    ASSUME TypeOK, FileInv, NEW c \in Chain, Truncate(c)
    PROVE  FileInv'
<1>1. SUFFICES ASSUME ~raced' PROVE FileInv'
  BY DEF FileInv
<1>2. /\ ~raced /\ pc[c] = "truncate" /\ UNCHANGED <<verdict, latest, unrecorded>>
  BY <1>1 DEF Truncate
<1>3. \A d \in Chain : pc[d] \in Recording => d = c
  BY <1>2 DEF FileInv
<1>4. unrecorded # {}  BY <1>2, OwnMatch DEF FileInv
<1>5. CASE /\ pc' = [pc EXCEPT ![c] = "write"] /\ file' = Truncated
           /\ overlaid' = [overlaid EXCEPT ![c] = FALSE] /\ loaded' = loaded
  <2>1. \A d \in Chain : pc'[d] \in Recording => d = c  BY <1>3, <1>5 DEF TypeOK
  <2>2. ~overlaid'[c] /\ ~file'.ok  BY <1>5 DEF TypeOK, Truncated
  <2>3. /\ Matching(c[1]) \subseteq unrecorded
        /\ \A j \in Matching(c[1]) : latest[j] = verdict[c]
        /\ \A j \in Jobs \ unrecorded : loaded[c][j] = latest[j]
    BY <1>2 DEF FileInv
  <2> QED  BY <1>2, <1>4, <1>5, <2>1, <2>2, <2>3 DEF FileInv
<1>6. CASE pc' = [pc EXCEPT ![c] = "decide"] /\ UNCHANGED file
  <2>1. \A d \in Chain : pc'[d] \notin Recording  BY <1>3, <1>6 DEF TypeOK
  <2> QED  BY <1>2, <1>4, <1>6, <2>1 DEF FileInv
<1> QED  BY <1>5, <1>6 DEF Truncate

\* A write that succeeds records its jobs; one that fails leaves the file
\* truncated, as nobody else has filled it.
LEMMA WriteFile ==
    ASSUME TypeOK, FileInv, NEW c \in Chain, Write(c)
    PROVE  FileInv'
<1>1. SUFFICES ASSUME ~raced' PROVE FileInv'
  BY DEF FileInv
<1>2. ~raced /\ pc[c] = "write" /\ ~overlaid[c] /\ UNCHANGED latest
  BY <1>1 DEF Write, FileInv
<1>3. /\ \A j \in Matching(c[1]) : latest[j] = verdict[c]
      /\ \A j \in Jobs \ unrecorded : loaded[c][j] = latest[j]
      /\ \A d \in Chain : pc[d] \in Recording => d = c
      /\ unrecorded # {}
  BY <1>2, OwnMatch DEF FileInv
<1>4. \A d \in Chain : pc'[d] \notin Recording
  <2>1. pc' = [pc EXCEPT ![c] = "decide"]  BY DEF Write
  <2> QED  BY <1>3, <2>1 DEF TypeOK
<1> DEFINE new == [j \in Jobs |-> IF j \in Matching(c[1]) THEN verdict[c] ELSE loaded[c][j]]
<1>5. CASE file' = [ok |-> TRUE, last |-> new] /\ unrecorded' = unrecorded \ Matching(c[1])
  <2>1. file'.ok /\ file'.last = new  BY <1>5
  <2>2. \A j \in Jobs \ unrecorded' : new[j] = latest'[j]  BY <1>2, <1>3, <1>5
  <2> HIDE DEF new
  <2> QED  BY <1>4, <2>1, <2>2 DEF FileInv
<1>6. CASE UNCHANGED <<file, unrecorded>>
  BY <1>2, <1>3, <1>4, <1>6 DEF FileInv
<1> QED  BY <1>2, <1>5, <1>6 DEF Write

LEMMA NextFile == TypeOK /\ SafeInv /\ FileInv /\ [Next]_vars => FileInv'
<1> SUFFICES ASSUME TypeOK, SafeInv, FileInv, [Next]_vars PROVE FileInv'
  OBVIOUS
<1>1. ASSUME UNCHANGED <<pc, verdict, loaded, overlaid, file, latest, unrecorded, raced>>
      PROVE  FileInv'
  BY <1>1 DEF FileInv
<1>2. CASE Start  BY <1>1, <1>2 DEF Start, chainVars
<1>3. CASE SynthesisReady  BY <1>1, <1>3 DEF SynthesisReady, chainVars
<1>4. CASE Crash
  <2>1. \A c \in Chain : pc'[c] \notin Recording
    BY <1>4 DEF Crash, TypeOK
  <2> QED  BY <1>4, <2>1 DEF Crash, FileInv
<1>5. ASSUME NEW j \in Jobs, Tick(j) PROVE FileInv'
  <2>1. PICK x \in {"skipped", "exec"} : pc' = [pc EXCEPT ![<<j, ticks[j] + 1>>] = x]
    BY <1>5 DEF Tick
  <2>2. UNCHANGED <<verdict, loaded, overlaid, file, latest, unrecorded, raced>>
    BY <1>5 DEF Tick
  <2>3. <<j, ticks[j] + 1>> \in Chain /\ pc[<<j, ticks[j] + 1>>] = "none"
    <3>1. <<j, ticks[j] + 1>> \in Chain /\ ticks[j] \in Nat
      BY <1>5, TickChain DEF Tick, TypeOK
    <3> QED  BY <3>1 DEF SafeInv, FreshTicks
  <2>4. \A c \in Chain : pc[c] \in Recording \/ pc'[c] \in Recording => pc'[c] = pc[c]
    BY <2>1, <2>3 DEF TypeOK
  <2> QED  BY <2>2, <2>4 DEF FileInv
<1>6. ASSUME NEW c \in Chain, Go(c) PROVE FileInv'
  <2>1. CASE Execute(c)  BY <2>1, ExecuteFile
  <2>2. CASE Truncate(c)  BY <2>2, TruncateFile
  <2>3. CASE Write(c)  BY <2>3, WriteFile
  <2>4. CASE Decide(c)
    <3>1. PICK x \in Waiting \union {"done"} : pc' = [pc EXCEPT ![c] = x]
      BY <2>4 DEF Decide
    <3>2. /\ pc[c] = "decide" /\ verdict' = [verdict EXCEPT ![c] = "none"]
          /\ UNCHANGED <<loaded, overlaid, file, latest, unrecorded, raced>>
      BY <2>4 DEF Decide
    <3>3. \A d \in Chain : pc'[d] \in Recording \/ pc[d] \in Recording =>
             pc'[d] = pc[d] /\ verdict'[d] = verdict[d]
      BY <3>1, <3>2 DEF TypeOK
    <3> QED  BY <3>2, <3>3 DEF FileInv
  <2> QED  BY <1>6, <2>1, <2>2, <2>3, <2>4 DEF Go
<1>7. CASE UNCHANGED vars  BY <1>1, <1>7 DEF vars, chainVars
<1> QED  BY <1>2, <1>3, <1>4, <1>5, <1>6, <1>7 DEF Next, Quiet

\* As long as no two records have overlapped, the job file shows the verdict of
\* every job's latest run, but for jobs whose latest record is in progress,
\* failed or died; and cannot be read only while there is such a job.  Reads,
\* opens and writes of the file may fail at any time.
THEOREM FileHonest == Spec => []HonestFile
<1>1. Init => FileInv  BY DEF Init, FileInv
<1>2. FileInv => HonestFile  BY DEF FileInv, HonestFile
<1> QED  BY <1>1, <1>2, InitType, NextType, InitSafe, NextSafe, NextFile, PTL DEF Spec
=============================================================================
