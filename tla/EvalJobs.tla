------------------------------ MODULE EvalJobs ------------------------------
(***************************************************************************)
(* Evaluation jobs (internal/runtimeapi/dashboard_eval_auto.go and         *)
(* dashboard_eval_job_run.go): a request writes a job and its items to the *)
(* database and starts a goroutine; the goroutines run one at a time, case *)
(* by case; cancel requests come at any moment.  The database row, the     *)
(* goroutine's context and the in-memory table of cancel functions are     *)
(* three records of one job, written by two actors.  Database errors are   *)
(* ignored by the code; the process may die, and with it every goroutine.  *)
(* The chat turn of a case is a request of SessionRequests.                *)
(***************************************************************************)
EXTENDS Naturals, FiniteSets

CONSTANTS
    Jobs,
    N,          \* cases of a job
    MaxErrors,  \* bound: statements that fail
    MaxCancels, \* bound: cancel requests
    MaxCrashes  \* bound: deaths of the process

ASSUME EvalAssumption == /\ N \in Nat \ {0} /\ MaxErrors \in Nat
                         /\ MaxCancels \in Nat /\ MaxCrashes \in Nat

VARIABLES
    pc,        \* the job's goroutine, before it the request that creates it
    row,       \* agent_eval_jobs.status
    item,      \* agent_eval_job_items.status of the job's cases
    list,      \* the cases the goroutine read from the database
    bad,       \* failed in the goroutine's count
    verdict,   \* the status it is about to record
    ctx,       \* its context: "none" before it exists, "live" or "done"
    cancelFn,  \* the jobs with an entry in evalJobCtl.cancel
    mutex,     \* evalJobRunMu: the jobs that hold it
    wanted,    \* cancel requests that are past cancelEvalJob
    missed,    \* jobs for which a cancel request came before the cancel function
    dbErr,     \* a statement for the job failed
    errors, cancels, crashes

tables == <<row, item>>
local  == <<list, bad, verdict>>
failed == <<dbErr, errors>>
vars == <<pc, tables, local, ctx, cancelFn, mutex, wanted, missed, failed, cancels, crashes>>

Cases    == 1..N
Final    == {"pass", "fail", "cancelled", "error"}
InFlight == {"begin", "waiting", "locked", "listing", "cases", "running", "closing", "leaving"}

Set(f, x, v) == [f EXCEPT ![x] = v]

\* A statement for job j fails: errors, with no one told.
Fails(j) == errors < MaxErrors /\ errors' = errors + 1 /\ dbErr' = dbErr \union {j}

\* The locals of the goroutines of the jobs in S are gone.
Forget(S) ==
    /\ list' = [j \in Jobs |-> IF j \in S THEN {} ELSE list[j]]
    /\ bad' = [j \in Jobs |-> IF j \in S THEN 0 ELSE bad[j]]
    /\ verdict' = [j \in Jobs |-> IF j \in S THEN "none" ELSE verdict[j]]
    /\ missed' = missed \ S

Init ==
    /\ pc = [j \in Jobs |-> "new"]
    /\ row = [j \in Jobs |-> "none"]
    /\ item = [j \in Jobs |-> [c \in Cases |-> "none"]]
    /\ list = [j \in Jobs |-> {}]
    /\ bad = [j \in Jobs |-> 0]
    /\ verdict = [j \in Jobs |-> "none"]
    /\ ctx = [j \in Jobs |-> "none"]
    /\ cancelFn = {} /\ mutex = {}
    /\ wanted = [j \in Jobs |-> 0]
    /\ missed = {} /\ dbErr = {}
    /\ errors = 0 /\ cancels = 0 /\ crashes = 0

-----------------------------------------------------------------------------
(* The request that creates a job (evalJobCreate).                         *)

\* The row and the items are inserted one by one; an error ends the request
\* and leaves what is there.
Create(j) ==
    /\ pc[j] = "new"
    /\ \/ /\ row' = Set(row, j, "queued")
          /\ item' = Set(item, j, [c \in Cases |-> "pending"])
          /\ pc' = Set(pc, j, "begin") /\ UNCHANGED failed
       \/ /\ Fails(j)
          /\ \/ UNCHANGED tables
             \/ \E k \in 0..(N-1) :
                   /\ row' = Set(row, j, "queued")
                   /\ item' = Set(item, j, [c \in Cases |-> IF c <= k THEN "pending" ELSE "none"])
          /\ pc' = Set(pc, j, "refused")
    /\ UNCHANGED <<local, ctx, cancelFn, mutex, wanted, missed, cancels, crashes>>

-----------------------------------------------------------------------------
(* The goroutine (runEvalJob).                                             *)

\* The context is made and its cancel function registered.
Register(j) ==
    /\ pc[j] = "begin"
    /\ ctx' = Set(ctx, j, "live")
    /\ cancelFn' = cancelFn \union {j}
    /\ pc' = Set(pc, j, "waiting")
    /\ UNCHANGED <<tables, local, mutex, wanted, missed, failed, cancels, crashes>>

\* evalJobRunMu; a job cancelled while it waited only records that.
Lock(j) ==
    /\ pc[j] = "waiting" /\ mutex = {}
    /\ mutex' = {j}
    /\ IF ctx[j] = "done"
       THEN verdict' = Set(verdict, j, "cancelled") /\ pc' = Set(pc, j, "closing")
       ELSE pc' = Set(pc, j, "locked") /\ UNCHANGED verdict
    /\ UNCHANGED <<tables, list, bad, ctx, cancelFn, wanted, missed, failed, cancels, crashes>>

\* The row says "running"; with a context that is done the statement fails.
MarkRunning(j) ==
    /\ pc[j] = "locked"
    /\ \/ /\ ctx[j] = "live" /\ row' = Set(row, j, "running") /\ UNCHANGED failed
       \/ /\ ctx[j] = "done" /\ UNCHANGED <<row, failed>>
       \/ /\ Fails(j) /\ UNCHANGED row
    /\ pc' = Set(pc, j, "listing")
    /\ UNCHANGED <<item, local, ctx, cancelFn, mutex, wanted, missed, cancels, crashes>>

\* listEvalJobItemIDs: a context that is done gives no items, an error none or
\* only some of them.
ListItems(j) ==
    /\ pc[j] = "listing"
    /\ \/ /\ ctx[j] = "live" /\ list' = Set(list, j, Cases) /\ UNCHANGED failed
       \/ /\ ctx[j] = "done" /\ list' = Set(list, j, {}) /\ UNCHANGED failed
       \/ /\ Fails(j) /\ \E S \in SUBSET Cases : list' = Set(list, j, S)
    /\ pc' = Set(pc, j, "cases")
    /\ UNCHANGED <<tables, bad, verdict, ctx, cancelFn, mutex, wanted, missed, cancels, crashes>>

\* The case in turn: the first that is left.
Current(j, c) == c \in list[j] /\ \A d \in list[j] : c <= d

\* patchEvalJobItem: written, or not.
Patch(j, c, s) ==
    \/ item' = [item EXCEPT ![j][c] = s] /\ UNCHANGED failed
    \/ Fails(j) /\ UNCHANGED item

\* The context is done before the case: it is marked and counts as failed.
SkipCase(j) ==
    /\ pc[j] = "cases" /\ ctx[j] = "done"
    /\ \E c \in Cases : /\ Current(j, c) /\ Patch(j, c, "cancelled")
                       /\ list' = Set(list, j, list[j] \ {c})
    /\ bad' = Set(bad, j, bad[j] + 1)
    /\ UNCHANGED <<pc, row, verdict, ctx, cancelFn, mutex, wanted, missed, cancels, crashes>>

\* runEvalJobItem up to the end of its turns.
BeginCase(j) ==
    /\ pc[j] = "cases" /\ ctx[j] = "live"
    /\ \E c \in Cases : Current(j, c) /\ Patch(j, c, "running")
    /\ pc' = Set(pc, j, "running")
    /\ UNCHANGED <<row, local, ctx, cancelFn, mutex, wanted, missed, cancels, crashes>>

\* Mutant: an error is recorded and not counted.
EndCase_ErrorUncounted(j) ==
    /\ pc[j] = "running"
    /\ \E c \in Cases, s \in {"pass", "fail", "error"} :
          /\ Current(j, c) /\ Patch(j, c, s)
          /\ bad' = Set(bad, j, IF s = "fail" THEN bad[j] + 1 ELSE bad[j])
          /\ list' = Set(list, j, list[j] \ {c})
    /\ pc' = Set(pc, j, "cases")
    /\ UNCHANGED <<row, verdict, ctx, cancelFn, mutex, wanted, missed, cancels, crashes>>

\* The case is verified, or its options, a turn or the session failed.  A
\* cancelled turn ends as any failed one; a verified reply may still pass.
EndCase(j) ==
    /\ pc[j] = "running"
    /\ \E c \in Cases, s \in {"pass", "fail", "error"} :
          /\ Current(j, c) /\ Patch(j, c, s)
          /\ bad' = Set(bad, j, IF s = "pass" THEN bad[j] ELSE bad[j] + 1)
          /\ list' = Set(list, j, list[j] \ {c})
    /\ pc' = Set(pc, j, "cases")
    /\ UNCHANGED <<row, verdict, ctx, cancelFn, mutex, wanted, missed, cancels, crashes>>

Conclude(j) ==
    /\ pc[j] = "cases" /\ list[j] = {}
    /\ verdict' = Set(verdict, j, IF ctx[j] = "done" THEN "cancelled"
                                  ELSE IF bad[j] > 0 THEN "fail" ELSE "pass")
    /\ pc' = Set(pc, j, "closing")
    /\ UNCHANGED <<tables, list, bad, ctx, cancelFn, mutex, wanted, missed, failed, cancels, crashes>>

\* markEvalJob, whatever the row says by now.
Record(j) ==
    /\ pc[j] = "closing"
    /\ \/ row' = Set(row, j, verdict[j]) /\ UNCHANGED failed
       \/ Fails(j) /\ UNCHANGED row
    /\ pc' = Set(pc, j, "leaving")
    /\ UNCHANGED <<item, local, ctx, cancelFn, mutex, wanted, missed, cancels, crashes>>

\* Mutant: the lock stays taken.
Leave_Locked(j) ==
    /\ pc[j] = "leaving"
    /\ ctx' = Set(ctx, j, "done")
    /\ cancelFn' = cancelFn \ {j}
    /\ pc' = Set(pc, j, "ended") /\ Forget({j})
    /\ UNCHANGED <<tables, mutex, wanted, failed, cancels, crashes>>

\* The deferred calls: unlock, cancel, clearEvalJobCtl.
Leave(j) ==
    /\ pc[j] = "leaving"
    /\ mutex' = mutex \ {j}
    /\ ctx' = Set(ctx, j, "done")
    /\ cancelFn' = cancelFn \ {j}
    /\ pc' = Set(pc, j, "ended") /\ Forget({j})
    /\ UNCHANGED <<tables, wanted, failed, cancels, crashes>>

-----------------------------------------------------------------------------
(* Cancel requests, and the death of the process.                          *)

\* cancelEvalJob: call the cancel function if the table has one.
CancelJob(j) ==
    /\ cancels < MaxCancels /\ row[j] # "none"
    /\ cancels' = cancels + 1
    /\ wanted' = Set(wanted, j, wanted[j] + 1)
    /\ IF j \in cancelFn
       THEN ctx' = Set(ctx, j, "done") /\ UNCHANGED missed
       ELSE missed' = (IF pc[j] = "begin" THEN missed \union {j} ELSE missed) /\ UNCHANGED ctx
    /\ UNCHANGED <<pc, tables, local, cancelFn, mutex, failed, crashes>>

\* Mutant: the row is overwritten whatever it says.
CancelRow_Any(j) ==
    /\ wanted[j] > 0
    /\ wanted' = Set(wanted, j, wanted[j] - 1)
    /\ \/ row' = Set(row, j, "cancelled") /\ UNCHANGED failed
       \/ Fails(j) /\ UNCHANGED row
    /\ UNCHANGED <<pc, item, local, ctx, cancelFn, mutex, missed, cancels, crashes>>

\* ... and its row is cancelled if it is queued or running.
CancelRow(j) ==
    /\ wanted[j] > 0
    /\ wanted' = Set(wanted, j, wanted[j] - 1)
    /\ \/ /\ row' = IF row[j] \in {"queued", "running"} THEN Set(row, j, "cancelled") ELSE row
          /\ UNCHANGED failed
       \/ Fails(j) /\ UNCHANGED row
    /\ UNCHANGED <<pc, item, local, ctx, cancelFn, mutex, missed, cancels, crashes>>

\* Nothing takes up the jobs of the process that died: their goroutines, their
\* credentials and the requests in progress are gone, their rows stay.
Crash ==
    /\ crashes < MaxCrashes /\ crashes' = crashes + 1
    /\ pc' = [j \in Jobs |-> IF pc[j] \in InFlight THEN "lost" ELSE pc[j]]
    /\ ctx' = [j \in Jobs |-> IF pc[j] \in InFlight THEN "none" ELSE ctx[j]]
    /\ cancelFn' = {} /\ mutex' = {}
    /\ wanted' = [j \in Jobs |-> 0]
    /\ Forget(Jobs)
    /\ UNCHANGED <<tables, failed, cancels>>

Work(j) == \/ Register(j) \/ Lock(j) \/ MarkRunning(j) \/ ListItems(j) \/ SkipCase(j)
           \/ BeginCase(j) \/ EndCase(j) \/ Conclude(j) \/ Record(j) \/ Leave(j)

Settled == /\ \A j \in Jobs : pc[j] \in {"ended", "lost", "refused"} /\ wanted[j] = 0
           /\ UNCHANGED vars

Next == \/ \E j \in Jobs : Create(j) \/ Work(j) \/ CancelJob(j) \/ CancelRow(j)
        \/ Crash \/ Settled

Spec == Init /\ [][Next]_vars /\ \A j \in Jobs : WF_vars(Work(j)) /\ WF_vars(CancelRow(j))

-----------------------------------------------------------------------------
(* Properties.                                                             *)

\* The variables stay in their types.
TypeOK ==
    /\ pc \in [Jobs -> InFlight \union {"new", "refused", "ended", "lost"}]
    /\ row \in [Jobs -> Final \union {"none", "queued", "running"}]
    /\ item \in [Jobs -> [Cases -> Final \union {"none", "pending", "running"}]]
    /\ list \in [Jobs -> SUBSET Cases] /\ bad \in [Jobs -> Nat]
    /\ verdict \in [Jobs -> Final \union {"none"}]
    /\ ctx \in [Jobs -> {"none", "live", "done"}]
    /\ cancelFn \subseteq Jobs /\ mutex \subseteq Jobs
    /\ wanted \in [Jobs -> Nat]
    /\ missed \subseteq Jobs /\ dbErr \subseteq Jobs
    /\ errors \in 0..MaxErrors /\ cancels \in 0..MaxCancels /\ crashes \in 0..MaxCrashes

Finished(j, c) == item[j][c] \in {"pass", "fail", "error", "cancelled"}
AllPassed(j)   == \A c \in Cases : item[j][c] = "pass"
SomeFailed(j)  == /\ \A c \in Cases : Finished(j, c)
                  /\ \E c \in Cases : item[j][c] # "pass"

\* Unless a statement failed, a job recorded as "pass" has passed every case,
\* and one recorded as "fail" has run every case and failed one.  The status
\* comes from the goroutine's count and its context, the cases from the
\* database, and cancel requests change both meanwhile (dashboard_eval_job_run.go:103-124).
VerdictAgrees ==
    \A j \in Jobs \ dbErr :
        /\ row[j] = "pass" => AllPassed(j)
        /\ row[j] = "fail" => SomeFailed(j)

\* A cancel request that reaches the goroutine before its verdict settles the
\* job: it begins no further case and is recorded as cancelled.  A recorded
\* status changes only if the request put "cancelled" there while the goroutine
\* could not know: before the cancel function was registered, or after the
\* verdict (dashboard_eval_auto.go:473-482, dashboard_eval_job_run.go:91-124).
CancelHolds ==
    [][\A j \in Jobs :
          /\ ctx[j] = "done" /\ pc[j] = "cases" => pc'[j] # "running"
          /\ ctx[j] = "done" /\ verdict[j] = "none" => verdict'[j] \in {"none", "cancelled"}
          /\ row[j] \in Final /\ row'[j] # row[j] =>
                row[j] = "cancelled" /\ (j \in missed \/ verdict[j] # "none")]_vars

\* Every job that was started ends, cancelled or not, whoever waits for whom,
\* and gives its entry in the table of cancel functions back, unless the
\* process dies.
JobsEnd == \A j \in Jobs : (pc[j] \in InFlight) ~> (pc[j] \in {"ended", "lost"} /\ j \notin cancelFn)

-----------------------------------------------------------------------------
\* The inductive invariant behind the theorems of EvalJobsProofs, job by job.

Good(j) ==
    /\ row[j] \in {"pass", "fail"} => pc[j] \in {"leaving", "ended", "lost"}
    /\ pc[j] \in {"waiting", "locked", "listing", "cases", "running"} => ctx[j] # "none"
    /\ pc[j] \in {"new", "begin", "waiting", "locked", "listing"} => bad[j] = 0
    /\ j \notin dbErr =>
          /\ row[j] = "pass" => AllPassed(j)
          /\ row[j] = "fail" => SomeFailed(j)
          \* until someone cancels, the count tells of the cases off the list
          /\ pc[j] \in {"cases", "running"} /\ ctx[j] = "live" =>
                /\ \A c \in Cases \ list[j] : Finished(j, c) /\ (bad[j] = 0 => item[j][c] = "pass")
                /\ bad[j] > 0 => \E c \in Cases \ list[j] : item[j][c] # "pass"
          /\ pc[j] = "closing" =>
                /\ verdict[j] = "pass" => AllPassed(j)
                /\ verdict[j] = "fail" => SomeFailed(j)

EvalInv == TypeOK /\ \A j \in Jobs : Good(j)
=============================================================================
