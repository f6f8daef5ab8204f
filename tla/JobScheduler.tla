---------------------------- MODULE JobScheduler ----------------------------
(***************************************************************************)
(* The cron scheduler of report jobs (internal/scheduler/scheduler.go) and *)
(* the job file every run's verdict is recorded in (internal/jobstore).    *)
(* A cron tick that is not skipped starts a chain of executions: the tick  *)
(* itself, then retries and deferrals fired by timers, one at a time.      *)
(* Chains of one job, and of jobs due at the same minute, run beside each  *)
(* other.  A record loads, changes and writes the whole file without a     *)
(* lock, and a write truncates the file before it fills it.  A record that  *)
(* fails is dropped: the file keeps the older verdict, or, when its write   *)
(* fails half way, cannot be read by any later record or start.             *)
(***************************************************************************)
EXTENDS Naturals

CONSTANTS
    Jobs,            \* names of the enabled jobs
    SkillMarket,     \* job -> its skill and market
    NeedsSynthesis,  \* jobs that wait for the synthesis model
    MaxRetries,      \* Runner.maxRetries
    FileFails,       \* a read, an open or a write of the job file may fail
    MaxTicks,        \* bound: job -> its cron ticks
    MaxCrashes       \* bound: crashes of the process

ASSUME JobsAssumption == NeedsSynthesis \subseteq Jobs
ASSUME BoundAssumption == /\ MaxRetries \in Nat /\ MaxCrashes \in Nat
                          /\ MaxTicks \in [Jobs -> Nat] /\ FileFails \in BOOLEAN

VARIABLES
    up,          \* the scheduler has started
    ready,       \* SynthesisReady
    running,     \* Runner.running
    retryCounts, \* Runner.retryCounts
    ticks,       \* cron ticks of a job so far
    pc,          \* where a chain is
    guarded,     \* the chain's execution is the tick itself, inside runJob
    verdict,     \* verdict of the execution in progress
    loaded,      \* what the record in progress has read
    overlaid,    \* another writer filled the file after this one truncated it
    file,        \* jobs.json: [ok, last], last verdict of each job
    accepted,    \* ticks of a job that were not skipped
    retries,     \* retries of a job so far
    latest,      \* verdict of a job's latest run, until records overlap
    unrecorded,  \* jobs whose latest verdict is not recorded, or not yet
    raced,       \* two records have overlapped
    crashes

chainVars == <<pc, guarded, verdict, loaded, overlaid>>
vars == <<up, ready, running, retryCounts, ticks, pc, guarded, verdict, loaded, overlaid,
          file, accepted, retries, latest, unrecorded, raced, crashes>>

\* A chain is named by the tick that began it.
Chain     == UNION {{j} \X (1..MaxTicks[j]) : j \in Jobs}
Executing == {"exec", "truncate", "write", "decide"}
Recording == {"truncate", "write"}
Waiting   == {"retry", "deferred"}
\* "failed" stands for recoverable, terminal, unknown and error, which take
\* the same path.
Verdicts  == {"pass", "failed", "deferred"}

\* The jobs a verdict of job j is recorded for.
Matching(j) == {k \in Jobs : SkillMarket[k] = SkillMarket[j]}
NoneRead    == [j \in Jobs |-> "none"]

\* A file that is truncated and not, or not readably, filled.
Truncated == [ok |-> FALSE, last |-> NoneRead]

Init ==
    /\ up = FALSE /\ ready = FALSE /\ running = {}
    /\ retryCounts = [j \in Jobs |-> 0]
    /\ ticks = [j \in Jobs |-> 0]
    /\ pc = [c \in Chain |-> "none"]
    /\ guarded = [c \in Chain |-> FALSE]
    /\ verdict = [c \in Chain |-> "none"]
    /\ loaded = [c \in Chain |-> NoneRead]
    /\ overlaid = [c \in Chain |-> FALSE]
    /\ file = [ok |-> TRUE, last |-> NoneRead]
    /\ accepted = [j \in Jobs |-> 0]
    /\ retries = [j \in Jobs |-> 0]
    /\ latest = NoneRead /\ unrecorded = {}
    /\ raced = FALSE
    /\ crashes = 0

-----------------------------------------------------------------------------
(* The scheduler.                                                          *)

\* Start reads the jobs and registers them; a file it cannot parse ends it.
\* (Writing back defaults and migrations comes before the first tick.)
Start ==
    /\ ~up /\ file.ok
    /\ up' = TRUE
    /\ UNCHANGED <<ready, running, retryCounts, ticks, chainVars, file, accepted, retries,
                   latest, unrecorded, raced, crashes>>

\* runJob: a tick is skipped while an earlier tick of the job still runs;
\* otherwise the job's retry count starts again.
Tick(j) ==
    /\ up /\ ticks[j] < MaxTicks[j]
    /\ ticks' = [ticks EXCEPT ![j] = @ + 1]
    /\ LET c == <<j, ticks[j] + 1>> IN
       \/ /\ j \in running
          /\ pc' = [pc EXCEPT ![c] = "skipped"]
          /\ UNCHANGED <<running, retryCounts, guarded, accepted>>
       \/ /\ j \notin running
          /\ running' = running \union {j}
          /\ retryCounts' = [retryCounts EXCEPT ![j] = 0]
          /\ accepted' = [accepted EXCEPT ![j] = @ + 1]
          /\ pc' = [pc EXCEPT ![c] = "exec"]
          /\ guarded' = [guarded EXCEPT ![c] = TRUE]
    /\ UNCHANGED <<up, ready, verdict, loaded, overlaid, file, retries,
                   latest, unrecorded, raced, crashes>>

\* Mutant: the list read at the start is used.
LoadJobs_Once(c) ==
    /\ raced' = (raced \/ \E d \in Chain : pc[d] \in Recording)
    /\ \/ /\ file.ok
          /\ loaded' = [loaded EXCEPT ![c] = NoneRead]
          /\ pc' = [pc EXCEPT ![c] = "truncate"]
       \/ /\ ~file.ok \/ FileFails
          /\ pc' = [pc EXCEPT ![c] = "decide"]
          /\ UNCHANGED loaded

\* LoadJobs of a record.  A file that cannot be read or parsed ends the record;
\* its error is dropped.
LoadJobs(c) ==
    /\ raced' = (raced \/ \E d \in Chain : pc[d] \in Recording)
    /\ \/ /\ file.ok
          /\ loaded' = [loaded EXCEPT ![c] = file.last]
          /\ pc' = [pc EXCEPT ![c] = "truncate"]
       \/ /\ ~file.ok \/ FileFails
          /\ pc' = [pc EXCEPT ![c] = "decide"]
          /\ UNCHANGED loaded

\* executeAndMaybeRetry, called by runJob or by a timer (30 minutes, an hour,
\* or five minutes after a deferral; the timer does not call runJob): deferred,
\* or the skill runs for every user in turn and the result is that of the
\* last one.  The verdict is recorded (by the run and once more, with the
\* same values, by the scheduler; one record here).
Execute(c) ==
    /\ pc[c] \in {"exec"} \union Waiting
    /\ \/ /\ c[1] \in NeedsSynthesis /\ ~ready
          /\ verdict' = [verdict EXCEPT ![c] = "deferred"]
       \/ /\ c[1] \in NeedsSynthesis => ready
          /\ \E v \in {"pass", "failed"} : verdict' = [verdict EXCEPT ![c] = v]
    /\ LoadJobs(c)
    /\ latest' = IF raced' THEN NoneRead
                 ELSE [j \in Jobs |-> IF j \in Matching(c[1]) THEN verdict'[c] ELSE latest[j]]
    /\ unrecorded' = IF raced' THEN {} ELSE unrecorded \union Matching(c[1])
    /\ UNCHANGED <<up, ready, running, retryCounts, ticks, guarded, overlaid, file, accepted,
                   retries, crashes>>

\* The function returns; runJob, if it called it, leaves the running set.
Return(c) ==
    /\ running' = IF guarded[c] THEN running \ {c[1]} ELSE running
    /\ guarded' = [guarded EXCEPT ![c] = FALSE]

\* Mutant: a retry is not counted.
Decide_Uncounted(c) ==
    LET j == c[1] IN
    /\ pc[c] = "decide"
    /\ Return(c)
    /\ verdict' = [verdict EXCEPT ![c] = "none"]
    /\ \/ /\ verdict[c] = "deferred"
          /\ pc' = [pc EXCEPT ![c] = "deferred"]
          /\ UNCHANGED <<retryCounts, retries>>
       \/ /\ verdict[c] = "pass"
          /\ pc' = [pc EXCEPT ![c] = "done"]
          /\ UNCHANGED <<retryCounts, retries>>
       \/ /\ verdict[c] = "failed"
          /\ IF retryCounts[j] < MaxRetries
             THEN /\ UNCHANGED retryCounts
                  /\ retries' = [retries EXCEPT ![j] = @ + 1]
                  /\ pc' = [pc EXCEPT ![c] = "retry"]
             ELSE /\ pc' = [pc EXCEPT ![c] = "done"]
                  /\ UNCHANGED <<retryCounts, retries>>
    /\ UNCHANGED <<up, ready, ticks, loaded, overlaid, file, accepted,
                   latest, unrecorded, raced, crashes>>

\* Mutant: a used-up job is put off like a deferred one.
Decide_Rearms(c) ==
    LET j == c[1] IN
    /\ pc[c] = "decide"
    /\ Return(c)
    /\ verdict' = [verdict EXCEPT ![c] = "none"]
    /\ \/ /\ verdict[c] = "deferred"
          /\ pc' = [pc EXCEPT ![c] = "deferred"]
          /\ UNCHANGED <<retryCounts, retries>>
       \/ /\ verdict[c] = "pass"
          /\ pc' = [pc EXCEPT ![c] = "done"]
          /\ UNCHANGED <<retryCounts, retries>>
       \/ /\ verdict[c] = "failed"
          /\ IF retryCounts[j] < MaxRetries
             THEN /\ retryCounts' = [retryCounts EXCEPT ![j] = @ + 1]
                  /\ retries' = [retries EXCEPT ![j] = @ + 1]
                  /\ pc' = [pc EXCEPT ![c] = "retry"]
             ELSE /\ pc' = [pc EXCEPT ![c] = "deferred"]
                  /\ UNCHANGED <<retryCounts, retries>>
    /\ UNCHANGED <<up, ready, ticks, loaded, overlaid, file, accepted,
                   latest, unrecorded, raced, crashes>>

\* The rest of executeAndMaybeRetry: done after a pass or when the retries
\* are used up (the user is notified), otherwise a timer.
Decide(c) ==
    LET j == c[1] IN
    /\ pc[c] = "decide"
    /\ Return(c)
    /\ verdict' = [verdict EXCEPT ![c] = "none"]
    /\ \/ /\ verdict[c] = "deferred"
          /\ pc' = [pc EXCEPT ![c] = "deferred"]
          /\ UNCHANGED <<retryCounts, retries>>
       \/ /\ verdict[c] = "pass"
          /\ pc' = [pc EXCEPT ![c] = "done"]
          /\ UNCHANGED <<retryCounts, retries>>
       \/ /\ verdict[c] = "failed"
          /\ IF retryCounts[j] < MaxRetries
             THEN /\ retryCounts' = [retryCounts EXCEPT ![j] = @ + 1]
                  /\ retries' = [retries EXCEPT ![j] = @ + 1]
                  /\ pc' = [pc EXCEPT ![c] = "retry"]
             ELSE /\ pc' = [pc EXCEPT ![c] = "done"]
                  /\ UNCHANGED <<retryCounts, retries>>
    /\ UNCHANGED <<up, ready, ticks, loaded, overlaid, file, accepted,
                   latest, unrecorded, raced, crashes>>

SynthesisReady ==
    /\ ~ready /\ ready' = TRUE
    /\ UNCHANGED <<up, running, retryCounts, ticks, chainVars, file, accepted, retries,
                   latest, unrecorded, raced, crashes>>

-----------------------------------------------------------------------------
(* The rest of RecordSkillVerdict: SaveJobs.                               *)

\* SaveJobs: os.WriteFile opens the file with O_TRUNC, or fails to: the record
\* ends there and its error is dropped ...
Truncate(c) ==
    /\ pc[c] = "truncate"
    /\ \/ /\ pc' = [pc EXCEPT ![c] = "write"]
          /\ file' = Truncated
          /\ overlaid' = [overlaid EXCEPT ![c] = FALSE]
          /\ UNCHANGED loaded
       \/ /\ FileFails
          /\ pc' = [pc EXCEPT ![c] = "decide"]
          /\ loaded' = [loaded EXCEPT ![c] = NoneRead]
          /\ UNCHANGED <<file, overlaid>>
    /\ UNCHANGED <<up, ready, running, retryCounts, ticks, guarded, verdict,
                   accepted, retries, latest, unrecorded, raced, crashes>>

\* ... and fills it.  A write that fails leaves the file unreadable, or what
\* another writer has filled meanwhile; over that, a shorter content leaves a
\* tail of the longer one.
Write(c) ==
    LET new == [j \in Jobs |-> IF j \in Matching(c[1]) THEN verdict[c] ELSE loaded[c][j]] IN
    /\ pc[c] = "write"
    /\ \/ /\ file' = [ok |-> TRUE, last |-> new]
          /\ unrecorded' = unrecorded \ Matching(c[1])
       \/ /\ \/ FileFails /\ UNCHANGED file
             \/ overlaid[c] /\ file' = Truncated
          /\ UNCHANGED unrecorded
    /\ overlaid' = [d \in Chain |-> IF d # c /\ pc[d] = "write" THEN TRUE ELSE FALSE]
    /\ loaded' = [loaded EXCEPT ![c] = NoneRead]
    /\ pc' = [pc EXCEPT ![c] = "decide"]
    /\ UNCHANGED <<up, ready, running, retryCounts, ticks, guarded, verdict,
                   accepted, retries, latest, raced, crashes>>

-----------------------------------------------------------------------------
\* The process dies: executions and timers are gone, the file stays.
Crash ==
    /\ up /\ crashes < MaxCrashes
    /\ crashes' = crashes + 1
    /\ up' = FALSE /\ running' = {}
    /\ retryCounts' = [j \in Jobs |-> 0]
    /\ pc' = [c \in Chain |-> IF pc[c] \in Executing \union Waiting THEN "lost" ELSE pc[c]]
    /\ guarded' = [c \in Chain |-> FALSE]
    /\ verdict' = [c \in Chain |-> "none"]
    /\ loaded' = [c \in Chain |-> NoneRead]
    /\ overlaid' = [c \in Chain |-> FALSE]
    /\ UNCHANGED <<ready, ticks, file, accepted, retries, latest, unrecorded, raced>>

Go(c) == Execute(c) \/ Truncate(c) \/ Write(c) \/ Decide(c)

Quiet == /\ \A c \in Chain : pc[c] \notin Executing \union Waiting
         /\ UNCHANGED vars

Next == \/ Start \/ SynthesisReady \/ Crash
        \/ \E j \in Jobs : Tick(j)
        \/ \E c \in Chain : Go(c)
        \/ Quiet

\* Goroutines and timers go on; the synthesis model gets ready at some time.
Spec == /\ Init /\ [][Next]_vars
        /\ \A c \in Chain : WF_vars(Go(c))
        /\ WF_vars(SynthesisReady)

-----------------------------------------------------------------------------
TypeOK ==
    /\ up \in BOOLEAN /\ ready \in BOOLEAN /\ raced \in BOOLEAN
    /\ running \subseteq Jobs
    /\ retryCounts \in [Jobs -> 0..MaxRetries]
    /\ ticks \in [Jobs -> Nat] /\ \A j \in Jobs : ticks[j] <= MaxTicks[j]
    /\ pc \in [Chain -> Executing \union Waiting \union {"none", "skipped", "done", "lost"}]
    /\ guarded \in [Chain -> BOOLEAN]
    /\ verdict \in [Chain -> Verdicts \union {"none"}]
    /\ loaded \in [Chain -> [Jobs -> Verdicts \union {"none"}]]
    /\ overlaid \in [Chain -> BOOLEAN]
    /\ file \in [ok : BOOLEAN, last : [Jobs -> Verdicts \union {"none"}]]
    /\ accepted \in [Jobs -> Nat] /\ retries \in [Jobs -> Nat]
    /\ latest \in [Jobs -> Verdicts \union {"none"}]
    /\ unrecorded \subseteq Jobs
    /\ crashes \in 0..MaxCrashes

\* However retries of several ticks and of ticks before a crash overlap, and
\* although the next tick resets the count earlier chains still read, a job
\* is retried at most MaxRetries times for every tick that was not skipped.
RetryBudget == \A j \in Jobs : retries[j] <= MaxRetries * accepted[j]

\* The running set is what it is for: two ticks of one job never execute at
\* the same time, and a job that is in the set has a tick that will leave it.
TicksExclusive ==
    /\ \A c, d \in Chain : guarded[c] /\ guarded[d] /\ c[1] = d[1] => c = d
    /\ \A j \in Jobs : j \in running <=> \E c \in Chain : c[1] = j /\ guarded[c]
    /\ \A c \in Chain : guarded[c] => pc[c] \in Executing

\* As long as no two records have overlapped, the job file shows, for every
\* job, the verdict of its latest run, unless the record of just that run is
\* still in progress, failed or died with the process: a record that fails
\* takes no other job's verdict along, as long as the file can be read, and the
\* next one that succeeds makes up for it.  And the file cannot be read only
\* while there is such a job.
HonestFile ==
    ~raced => /\ file.ok => \A j \in Jobs \ unrecorded : file.last[j] = latest[j]
              /\ ~file.ok => unrecorded # {}

\* All chains end: each passes, uses up its job's retries or dies with the
\* process, whatever the runs return and however often other ticks reset the
\* job's count.  No retry keeps another one going.
ChainsEnd == <>[](\A c \in Chain : pc[c] \notin Executing \union Waiting)
=============================================================================
