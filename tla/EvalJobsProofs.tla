--------------------------- MODULE EvalJobsProofs ---------------------------
(* The verdicts of evaluation jobs, for any jobs, cases, database errors,  *)
(* cancel requests and crashes.                                            *)
EXTENDS EvalJobs, TLAPS

USE EvalAssumption DEF EvalAssumption, Set, Fails, tables, local, failed

Statuses == Final \union {"none", "pending", "running"}

-----------------------------------------------------------------------------
(* Types.                                                                  *)

LEMMA InitType == Init => TypeOK
<1> SUFFICES ASSUME Init PROVE TypeOK
  OBVIOUS
<1> QED  BY DEF Init, TypeOK, Cases, InFlight, Final

\* One more failed statement stays within the bound.
LEMMA FailsType ==
    ASSUME TypeOK, NEW j \in Jobs, Fails(j)
    PROVE  dbErr' \subseteq Jobs /\ errors' \in 0..MaxErrors
BY DEF TypeOK

LEMMA PatchType ==
    ASSUME TypeOK, NEW j \in Jobs, NEW c \in Cases,
           NEW s \in Statuses, Patch(j, c, s)
    PROVE  /\ item' \in [Jobs -> [Cases -> Statuses]]
           /\ dbErr' \subseteq Jobs /\ errors' \in 0..MaxErrors
<1>1. item \in [Jobs -> [Cases -> Statuses]] /\ dbErr \subseteq Jobs /\ errors \in 0..MaxErrors
  BY DEF TypeOK, Statuses
<1>2. CASE item' = [item EXCEPT ![j][c] = s] /\ UNCHANGED failed
  <2>1. [item[j] EXCEPT ![c] = s] \in [Cases -> Statuses]
    BY <1>1
  <2>2. item' = [item EXCEPT ![j] = [item[j] EXCEPT ![c] = s]]
    BY <1>2, <1>1
  <2> QED  BY <1>1, <1>2, <2>1, <2>2
<1>3. CASE Fails(j) /\ UNCHANGED item
  BY <1>1, <1>3, FailsType
<1> QED  BY <1>2, <1>3 DEF Patch

LEMMA CreateType ==
    ASSUME TypeOK, NEW j \in Jobs, Create(j)
    PROVE  TypeOK'
<1>1. item' \in [Jobs -> [Cases -> Statuses]] /\ row' \in [Jobs -> Final \union {"none", "queued", "running"}]
  <2>1. item \in [Jobs -> [Cases -> Statuses]] /\ row \in [Jobs -> Final \union {"none", "queued", "running"}]
    BY DEF TypeOK, Statuses
  <2>2. [row EXCEPT ![j] = "queued"] \in [Jobs -> Final \union {"none", "queued", "running"}]
    BY <2>1
  <2>3. \A f \in [Cases -> Statuses] : [item EXCEPT ![j] = f] \in [Jobs -> [Cases -> Statuses]]
    BY <2>1
  <2>4. [c \in Cases |-> "pending"] \in [Cases -> Statuses]
    BY DEF Statuses
  <2>5. \A k \in 0..(N-1) : [c \in Cases |-> IF c <= k THEN "pending" ELSE "none"] \in [Cases -> Statuses]
    BY DEF Statuses
  <2> QED  BY <2>1, <2>2, <2>3, <2>4, <2>5 DEF Create
<1>2. dbErr' \subseteq Jobs /\ errors' \in 0..MaxErrors
  BY FailsType DEF Create, TypeOK
<1>3. pc' \in [Jobs -> InFlight \union {"new", "refused", "ended", "lost"}]
  BY DEF Create, TypeOK, InFlight
<1> QED  BY <1>1, <1>2, <1>3 DEF Create, TypeOK, Statuses

LEMMA WorkType ==
    ASSUME TypeOK, NEW j \in Jobs, Work(j)
    PROVE  TypeOK'
<1>1. CASE Register(j)  BY <1>1 DEF TypeOK, Register, InFlight
<1>2. CASE Lock(j)  BY <1>2 DEF TypeOK, Lock, InFlight, Final
<1>3. CASE MarkRunning(j)
  <2>1. dbErr' \subseteq Jobs /\ errors' \in 0..MaxErrors
    BY <1>3, FailsType DEF MarkRunning, TypeOK
  <2> QED  BY <1>3, <2>1 DEF TypeOK, MarkRunning, InFlight
<1>4. CASE ListItems(j)
  <2>1. dbErr' \subseteq Jobs /\ errors' \in 0..MaxErrors
    BY <1>4, FailsType DEF ListItems, TypeOK
  <2> QED  BY <1>4, <2>1 DEF TypeOK, ListItems, InFlight
<1>5. CASE SkipCase(j)
  <2>1. PICK c \in Cases : Patch(j, c, "cancelled") /\ list' = [list EXCEPT ![j] = list[j] \ {c}]
    BY <1>5 DEF SkipCase
  <2>2. "cancelled" \in Statuses  BY DEF Statuses, Final
  <2>3. /\ item' \in [Jobs -> [Cases -> Statuses]]
        /\ dbErr' \subseteq Jobs /\ errors' \in 0..MaxErrors
    BY <2>1, <2>2, PatchType
  <2>4. list' \in [Jobs -> SUBSET Cases]  BY <2>1 DEF TypeOK
  <2>5. bad' \in [Jobs -> Nat]  BY <1>5 DEF TypeOK, SkipCase
  <2> HIDE DEF Set
  <2> QED  BY <1>5, <2>3, <2>4, <2>5 DEF TypeOK, SkipCase, Statuses
<1>6. CASE BeginCase(j)
  <2>1. PICK c \in Cases : Patch(j, c, "running")
    BY <1>6 DEF BeginCase
  <2>2. "running" \in Statuses  BY DEF Statuses
  <2>3. /\ item' \in [Jobs -> [Cases -> Statuses]]
        /\ dbErr' \subseteq Jobs /\ errors' \in 0..MaxErrors
    BY <2>1, <2>2, PatchType
  <2> QED  BY <1>6, <2>3 DEF TypeOK, BeginCase, Statuses, InFlight
<1>7. CASE EndCase(j)
  <2>1. PICK c \in Cases, s \in {"pass", "fail", "error"} :
            /\ Patch(j, c, s) /\ list' = [list EXCEPT ![j] = list[j] \ {c}]
            /\ bad' = [bad EXCEPT ![j] = IF s = "pass" THEN bad[j] ELSE bad[j] + 1]
    BY <1>7 DEF EndCase
  <2>2. s \in Statuses  BY DEF Statuses, Final
  <2>3. /\ item' \in [Jobs -> [Cases -> Statuses]]
        /\ dbErr' \subseteq Jobs /\ errors' \in 0..MaxErrors
    BY <2>1, <2>2, PatchType
  <2>4. list' \in [Jobs -> SUBSET Cases]  BY <2>1 DEF TypeOK
  <2>5. bad' \in [Jobs -> Nat]  BY <2>1 DEF TypeOK
  <2>6. pc' \in [Jobs -> InFlight \union {"new", "refused", "ended", "lost"}]
    BY <1>7 DEF TypeOK, EndCase, InFlight
  <2>7. UNCHANGED <<row, verdict, ctx, cancelFn, mutex, wanted, missed, cancels, crashes>>
    BY <1>7 DEF EndCase
  <2> QED  BY <2>3, <2>4, <2>5, <2>6, <2>7 DEF TypeOK, Statuses
<1>8. CASE Conclude(j)  BY <1>8 DEF TypeOK, Conclude, InFlight, Final
<1>9. CASE Record(j)
  <2>1. dbErr' \subseteq Jobs /\ errors' \in 0..MaxErrors
    BY <1>9, FailsType DEF Record, TypeOK
  <2>2. CASE row' = [row EXCEPT ![j] = verdict[j]]
    BY <1>9, <2>1, <2>2 DEF TypeOK, Record, InFlight
  <2>3. CASE UNCHANGED row
    BY <1>9, <2>1, <2>3 DEF TypeOK, Record, InFlight
  <2> QED  BY <1>9, <2>2, <2>3 DEF Record
<1>10. CASE Leave(j)  BY <1>10 DEF TypeOK, Leave, Forget, InFlight
<1> QED  BY <1>1, <1>2, <1>3, <1>4, <1>5, <1>6, <1>7, <1>8, <1>9, <1>10 DEF Work

LEMMA NextType == TypeOK /\ [Next]_vars => TypeOK'
<1> SUFFICES ASSUME TypeOK, [Next]_vars PROVE TypeOK'
  OBVIOUS
<1>1. ASSUME NEW j \in Jobs, CancelJob(j) PROVE TypeOK'
  BY <1>1 DEF TypeOK, CancelJob
<1>2. ASSUME NEW j \in Jobs, CancelRow(j) PROVE TypeOK'
  <2>1. dbErr' \subseteq Jobs /\ errors' \in 0..MaxErrors
    BY <1>2, FailsType DEF CancelRow, TypeOK
  <2>2. row' \in [Jobs -> Final \union {"none", "queued", "running"}]
    BY <1>2 DEF CancelRow, TypeOK, Final
  <2>3. wanted' \in [Jobs -> Nat]
    BY <1>2 DEF CancelRow, TypeOK
  <2> QED  BY <1>2, <2>1, <2>2, <2>3 DEF TypeOK, CancelRow
<1>3. CASE Crash  BY <1>3 DEF TypeOK, Crash, Forget, InFlight
<1>4. CASE UNCHANGED vars  BY <1>4 DEF TypeOK, vars
<1> QED  BY <1>1, <1>2, <1>3, <1>4, CreateType, WorkType DEF Next, Settled

\* For any jobs, cases and bounds the variables stay in their types.
THEOREM JobTypes == Spec => []TypeOK
BY InitType, NextType, PTL DEF Spec

-----------------------------------------------------------------------------
(* What a job records agrees with its cases: Good is inductive with TypeOK, *)
(* and speaks of one job at a time.                                        *)

\* A step that leaves a job's variables alone, or only notes a failure, keeps
\* what is said of it.
LEMMA Untouched ==
    ASSUME NEW k \in Jobs, Good(k), dbErr \subseteq dbErr',
           pc'[k] = pc[k], row'[k] = row[k], item'[k] = item[k], list'[k] = list[k],
           bad'[k] = bad[k], verdict'[k] = verdict[k], ctx'[k] = ctx[k]
    PROVE  Good(k)'
BY DEF Good, AllPassed, SomeFailed, Finished

\* A job does nothing to another one.
LEMMA OthersKept ==
    ASSUME TypeOK, NEW j \in Jobs, NEW k \in Jobs \ {j}, Good(k), Create(j) \/ Work(j)
    PROVE  Good(k)'
<1>1. /\ pc'[k] = pc[k] /\ row'[k] = row[k] /\ list'[k] = list[k]
      /\ bad'[k] = bad[k] /\ verdict'[k] = verdict[k] /\ ctx'[k] = ctx[k]
  BY DEF TypeOK, Create, Work, Register, Lock, MarkRunning, ListItems, SkipCase, BeginCase,
         EndCase, Conclude, Record, Leave, Forget
<1>2. item'[k] = item[k]
  BY DEF TypeOK, Create, Work, Register, Lock, MarkRunning, ListItems, SkipCase, BeginCase,
         EndCase, Conclude, Record, Leave, Forget, Patch
<1>3. dbErr \subseteq dbErr'
  BY DEF TypeOK, Create, Work, Register, Lock, MarkRunning, ListItems, SkipCase, BeginCase,
         EndCase, Conclude, Record, Leave, Forget, Patch
<1> QED  BY <1>1, <1>2, <1>3, Untouched

\* Its own steps keep what is said of it.
LEMMA OwnKept ==
    ASSUME TypeOK, NEW j \in Jobs, Good(j), Create(j) \/ Work(j)
    PROVE  Good(j)'
<1>1. CASE Create(j)
  BY <1>1 DEF TypeOK, Create, Good, AllPassed, SomeFailed, Finished
<1>2. CASE Register(j)
  BY <1>2 DEF TypeOK, Register, Good, AllPassed, SomeFailed, Finished
<1>3. CASE Lock(j)
  BY <1>3 DEF TypeOK, Lock, Good, AllPassed, SomeFailed, Finished
<1>4. CASE MarkRunning(j)
  BY <1>4 DEF TypeOK, MarkRunning, Good, AllPassed, SomeFailed, Finished
<1>5. CASE ListItems(j)
  BY <1>5 DEF TypeOK, ListItems, Good, AllPassed, SomeFailed, Finished
<1>6. CASE SkipCase(j)
  BY <1>6 DEF TypeOK, SkipCase, Patch, Good, AllPassed, SomeFailed, Finished
<1>7. CASE BeginCase(j)
  BY <1>7 DEF TypeOK, BeginCase, Patch, Current, Good, AllPassed, SomeFailed, Finished
<1>8. CASE EndCase(j)
  BY <1>8 DEF TypeOK, EndCase, Patch, Current, Good, AllPassed, SomeFailed, Finished
<1>9. CASE Conclude(j)
  <2>1. /\ Cases \ list[j] = Cases /\ bad[j] \in Nat
        /\ UNCHANGED <<row, item, bad, list, ctx, dbErr>>
        /\ pc'[j] = "closing" /\ pc[j] = "cases"
        /\ verdict'[j] = IF ctx[j] = "done" THEN "cancelled" ELSE IF bad[j] > 0 THEN "fail" ELSE "pass"
    BY <1>9 DEF TypeOK, Conclude
  <2>2. ctx[j] = "live" \/ verdict'[j] \notin {"pass", "fail"} \/ ctx[j] = "none"
    BY <2>1 DEF TypeOK
  <2>3. QED
    BY <2>1, <2>2 DEF Good, AllPassed, SomeFailed, Finished
<1>10. CASE Record(j)
  BY <1>10 DEF TypeOK, Record, Good, AllPassed, SomeFailed, Finished
<1>11. CASE Leave(j)
  BY <1>11 DEF TypeOK, Leave, Forget, Good, AllPassed, SomeFailed, Finished
<1> QED  BY <1>1, <1>2, <1>3, <1>4, <1>5, <1>6, <1>7, <1>8, <1>9, <1>10, <1>11 DEF Work

LEMMA NextGood == TypeOK /\ (\A j \in Jobs : Good(j)) /\ [Next]_vars => (\A j \in Jobs : Good(j))'
<1> SUFFICES ASSUME TypeOK, \A j \in Jobs : Good(j), [Next]_vars, NEW k \in Jobs PROVE Good(k)'
  OBVIOUS
<1>1. ASSUME NEW j \in Jobs, Create(j) \/ Work(j) PROVE Good(k)'
  BY <1>1, OthersKept, OwnKept
<1>2. ASSUME NEW j \in Jobs, CancelJob(j) PROVE Good(k)'
  BY <1>2 DEF TypeOK, CancelJob, Good, AllPassed, SomeFailed, Finished
<1>3. ASSUME NEW j \in Jobs, CancelRow(j) PROVE Good(k)'
  BY <1>3 DEF TypeOK, CancelRow, Good, AllPassed, SomeFailed, Finished
<1>4. CASE Crash
  BY <1>4 DEF TypeOK, Crash, Forget, InFlight, Good, AllPassed, SomeFailed, Finished
<1>5. CASE UNCHANGED vars
  BY <1>5, Untouched DEF vars
<1> QED  BY <1>1, <1>2, <1>3, <1>4, <1>5 DEF Next, Settled

LEMMA InitGood == Init => \A j \in Jobs : Good(j)
BY DEF Init, Good, AllPassed, SomeFailed, Finished

\* Unless a statement failed, a recorded "pass" or "fail" is what the cases
\* say, for any number of jobs and cases and whoever cancels when.
THEOREM VerdictsAgree == Spec => []VerdictAgrees
<1>1. (\A j \in Jobs : Good(j)) => VerdictAgrees  BY DEF Good, VerdictAgrees
<1> QED  BY <1>1, InitType, NextType, InitGood, NextGood, PTL DEF Spec

-----------------------------------------------------------------------------
(* A cancel request settles the job: a request and the goroutine know of     *)
(* each other by the table of cancel functions, or the request was missed.   *)

\* From its start to its verdict a job whose row is cancelled, or is about to
\* be, has a context that says so, unless the request came before it.
Settling(j) ==
    /\ row[j] # "error" /\ verdict[j] # "error"
    /\ pc[j] = "new" => row[j] = "none" /\ wanted[j] = 0
    /\ pc[j] \in {"new", "begin"} => ctx[j] = "none"
    /\ pc[j] \in InFlight \ {"begin"} <=> j \in cancelFn
    /\ pc[j] \in InFlight \ {"closing", "leaving"} /\ ctx[j] # "done" =>
          (wanted[j] > 0 \/ row[j] = "cancelled" => j \in missed)
    /\ pc[j] = "closing" => verdict[j] # "none"

CancelInv == EvalInv /\ \A j \in Jobs : Settling(j)

LEMMA InitSettling == Init => \A j \in Jobs : Settling(j)
BY DEF Init, Settling, InFlight

\* The goroutine's own steps.
LEMMA WorkSettling ==
    ASSUME TypeOK, NEW j \in Jobs, NEW k \in Jobs, Settling(j), Settling(k), Work(j)
    PROVE  Settling(k)'
<1> USE DEF TypeOK, Settling, InFlight
<1>1. CASE Register(j)  BY <1>1 DEF Register
<1>2. CASE Lock(j)  BY <1>2 DEF Lock
<1>3. CASE MarkRunning(j)  BY <1>3 DEF MarkRunning
<1>4. CASE ListItems(j)  BY <1>4 DEF ListItems
<1>5. CASE SkipCase(j)  BY <1>5 DEF SkipCase
<1>6. CASE BeginCase(j)  BY <1>6 DEF BeginCase
<1>7. CASE EndCase(j)  BY <1>7 DEF EndCase
<1>8. CASE Conclude(j)  BY <1>8 DEF Conclude
<1>9. CASE Record(j)  BY <1>9 DEF Record
<1>10. CASE Leave(j)  BY <1>10 DEF Leave, Forget
<1> QED  BY <1>1, <1>2, <1>3, <1>4, <1>5, <1>6, <1>7, <1>8, <1>9, <1>10 DEF Work

LEMMA NextSettling == TypeOK /\ (\A j \in Jobs : Settling(j)) /\ [Next]_vars => (\A j \in Jobs : Settling(j))'
<1> SUFFICES ASSUME TypeOK, \A j \in Jobs : Settling(j), [Next]_vars, NEW k \in Jobs
             PROVE  Settling(k)'
  OBVIOUS
<1>1. ASSUME NEW j \in Jobs, Create(j) PROVE Settling(k)'
  BY <1>1 DEF TypeOK, Settling, InFlight, Create
<1>2. ASSUME NEW j \in Jobs, Work(j) PROVE Settling(k)'
  BY <1>2, WorkSettling
<1>3. ASSUME NEW j \in Jobs, CancelJob(j) PROVE Settling(k)'
  <2>1. CASE j \in cancelFn
    <3>1. /\ pc[j] # "new" /\ ctx' = [ctx EXCEPT ![j] = "done"]
          /\ wanted' = [wanted EXCEPT ![j] = wanted[j] + 1]
          /\ UNCHANGED <<pc, row, verdict, missed, cancelFn>>
      BY <1>3, <2>1 DEF CancelJob, Settling
    <3>2. pc[j] # "begin"
      BY <2>1 DEF Settling
    <3> QED  BY <3>1, <3>2 DEF TypeOK, Settling, InFlight
  <2>2. CASE j \notin cancelFn
    <3>1. /\ pc[j] \notin InFlight \ {"begin"} /\ pc[j] # "new"
          /\ missed' = IF pc[j] = "begin" THEN missed \union {j} ELSE missed
          /\ wanted' = [wanted EXCEPT ![j] = wanted[j] + 1]
          /\ UNCHANGED <<pc, row, verdict, ctx, cancelFn>>
      BY <1>3, <2>2 DEF CancelJob, Settling
    <3> QED  BY <3>1 DEF TypeOK, Settling, InFlight
  <2> QED  BY <2>1, <2>2
<1>4. ASSUME NEW j \in Jobs, CancelRow(j) PROVE Settling(k)'
  BY <1>4 DEF TypeOK, Settling, InFlight, CancelRow
<1>5. CASE Crash
  BY <1>5 DEF TypeOK, Settling, InFlight, Crash, Forget
<1>6. CASE UNCHANGED vars
  BY <1>6 DEF vars, Settling
<1> QED  BY <1>1, <1>2, <1>3, <1>4, <1>5, <1>6 DEF Next, Settled

LEMMA CancelStep == CancelInv /\ [Next]_vars => CancelInv'
BY NextType, NextGood, NextSettling DEF CancelInv, EvalInv

\* What one step may do to a job that is cancelled, or recorded.
Held(j) ==
    /\ ctx[j] = "done" /\ pc[j] = "cases" => pc'[j] # "running"
    /\ ctx[j] = "done" /\ verdict[j] = "none" => verdict'[j] \in {"none", "cancelled"}
    /\ row[j] \in Final /\ row'[j] # row[j] =>
          row[j] = "cancelled" /\ (j \in missed \/ verdict[j] # "none")

LEMMA WorkHeld ==
    ASSUME CancelInv, NEW j \in Jobs, NEW k \in Jobs, Work(j)
    PROVE  Held(k)
<1> USE DEF Held, TypeOK
<1>t. TypeOK /\ Good(j) /\ Settling(j)
  BY DEF CancelInv, EvalInv
<1>1. CASE Register(j) \/ ListItems(j) \/ SkipCase(j) \/ EndCase(j)
  BY <1>t, <1>1 DEF Register, ListItems, SkipCase, EndCase
<1>2. CASE Lock(j)  BY <1>t, <1>2 DEF Lock
<1>3. CASE MarkRunning(j)
  <2>1. row[j] \in Final /\ ctx[j] = "live" => row[j] = "cancelled" /\ j \in missed
    BY <1>t, <1>3 DEF MarkRunning, Final, Good, Settling, InFlight
  <2> QED  BY <1>t, <1>3, <2>1 DEF MarkRunning
<1>4. CASE BeginCase(j)  BY <1>t, <1>4 DEF BeginCase
<1>5. CASE Conclude(j)  BY <1>t, <1>5 DEF Conclude
<1>6. CASE Record(j)
  <2>1. verdict[j] # "none" /\ row[j] \notin {"pass", "fail", "error"}
    BY <1>t, <1>6 DEF Record, Good, Settling
  <2> QED  BY <1>t, <1>6, <2>1 DEF Record, Final
<1>7. CASE Leave(j)  BY <1>t, <1>7 DEF Leave, Forget
<1> QED  BY <1>1, <1>2, <1>3, <1>4, <1>5, <1>6, <1>7 DEF Work

LEMMA StepHeld == ASSUME CancelInv, [Next]_vars, NEW k \in Jobs PROVE Held(k)
<1> USE DEF Held
<1>t. TypeOK /\ \A j \in Jobs : Settling(j)
  BY DEF CancelInv, EvalInv
<1>1. ASSUME NEW j \in Jobs, Create(j) PROVE Held(k)
  BY <1>t, <1>1 DEF TypeOK, Create, Settling, Final
<1>2. ASSUME NEW j \in Jobs, Work(j) PROVE Held(k)
  BY <1>2, WorkHeld
<1>3. ASSUME NEW j \in Jobs, CancelJob(j) \/ CancelRow(j) PROVE Held(k)
  BY <1>t, <1>3 DEF TypeOK, CancelJob, CancelRow, Final
<1>4. CASE Crash
  BY <1>t, <1>4 DEF TypeOK, Crash, Forget, InFlight
<1>5. CASE UNCHANGED vars
  BY <1>5 DEF vars
<1> QED  BY <1>1, <1>2, <1>3, <1>4, <1>5 DEF Next, Settled

\* A cancelled job begins no case and is recorded as cancelled, and a recorded
\* status changes only if a request cancelled the row behind the goroutine's
\* back: whatever fails, dies, or is cancelled how often.
THEOREM Cancelled == Spec => CancelHolds
<1>1. Init => CancelInv  BY InitType, InitGood, InitSettling DEF CancelInv, EvalInv
<1>2. CancelInv /\ [Next]_vars => \A j \in Jobs : Held(j)  BY StepHeld
<1>3. (\A j \in Jobs : Held(j)) =>
         \A j \in Jobs :
            /\ ctx[j] = "done" /\ pc[j] = "cases" => pc'[j] # "running"
            /\ ctx[j] = "done" /\ verdict[j] = "none" => verdict'[j] \in {"none", "cancelled"}
            /\ row[j] \in Final /\ row'[j] # row[j] =>
                  row[j] = "cancelled" /\ (j \in missed \/ verdict[j] # "none")
  BY DEF Held
<1> QED  BY <1>1, <1>2, <1>3, CancelStep, PTL DEF Spec, CancelHolds
=============================================================================
