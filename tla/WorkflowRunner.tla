--------------------------- MODULE WorkflowRunner ---------------------------
(***************************************************************************)
(* Deterministic report workflows (internal/workflow/runner.go), the       *)
(* working state they keep (internal/memory/working.go), their             *)
(* checkpoints and resume (internal/app/app.go), and the supervisor's      *)
(* verdict.  A session is one run of a skill: phase A, then the steps of   *)
(* every stock.  Each step dispatches a tool, applies its result to the    *)
(* working state and saves it, saves a checkpoint, and only then notes     *)
(* its key as complete.  The process may die between any two of these,     *)
(* and an operator may resume the session; sessions of one skill may       *)
(* overlap.  A save truncates its file and fills it (internal/infra/       *)
(* state.go): one that fails, or that the process dies in, may leave a     *)
(* file that cannot be read.  The report service is external: a call may   *)
(* be carried out and its answer lost.                                     *)
(***************************************************************************)
EXTENDS Naturals, Sequences

CONSTANTS
    Sessions,    \* session ids, each used for one run
    Codes,       \* stock codes
    Bots,        \* the report service's list of stocks, in order
    Prior,       \* stocks that may have a report from an earlier session
    PhaseA,      \* tools of the steps of phase A
    PerStock,    \* tools of the steps of every stock
    Optional,    \* tools whose failure a run survives (optionalStep)
    Backfill,    \* the run is for another report date than today
    ChecksPhase, \* the skill's acceptance checks look at the phase (intraday_stock's do not)
    Overlap,     \* sessions may run beside each other
    SavesFail,   \* saving the working state or a checkpoint may fail
    MaxCrashes   \* bound: crashes of the process, and resumes of each session

\* "A" stands for the keys of phase A, which no stock's key ("code/step") equals.
ASSUME BotsAssumption == Bots \in Seq(Codes) /\ Prior \subseteq Codes /\ "A" \notin Codes
ASSUME StepsAssumption == /\ PhaseA \in Seq(STRING) /\ Len(PhaseA) > 0
                          /\ PerStock \in Seq(STRING)
                          /\ \A i \in DOMAIN PhaseA :
                               PhaseA[i] \notin {"list_today_reports", "create_report"}
                          /\ \A i \in DOMAIN PerStock :
                               PerStock[i] \notin {"check_trading_day", "get_report_bot_codes"}
                          /\ Optional \subseteq STRING \ {"create_report", "list_today_reports"}
ASSUME FaultAssumption == /\ Backfill \in BOOLEAN /\ ChecksPhase \in BOOLEAN
                          /\ Overlap \in BOOLEAN /\ SavesFail \in BOOLEAN /\ MaxCrashes \in Nat

VARIABLES
    pc,         \* where a session's goroutine is
    at,         \* <<0, i>>: step i of phase A; <<b, i>>: step i of stock number b
    mem,        \* the PreMarketWorking of the run; of one that died, as it was then
    disk,       \* the working state as last saved to the end
    torn,       \* a save of the working state broke off: the file cannot be read
    cp,         \* status of the latest checkpoint; "unreadable" if its save broke off
    ans,        \* the tool's answer, until it has been applied
    cancelled,  \* the context of the run is cancelled
    unsaved,    \* a save with news failed, its error ignored
    verdict,    \* the supervisor's verdict on a fresh run
    result,     \* the status the run, or the resume, returned
    resumes,    \* resumes of a session
    crashes,    \* crashes so far
    reports,    \* reports of a stock the service holds
    created,    \* creates carried out for a session and stock
    lost,       \* ... of which the session has no record
    checked     \* the idempotency check of session and stock has found no report

persistent == <<disk, torn, cp, unsaved>>
service    == <<reports, created, lost, checked>>
vars == <<pc, at, mem, disk, torn, cp, ans, cancelled, unsaved, verdict, result,
          resumes, crashes, reports, created, lost, checked>>

Statuses == {"absent", "pending", "collecting", "reported", "skipped", "failed"}
Settled  == {"reported", "skipped", "failed"}
Running  == {"ready", "called", "applied", "again", "calledAgain", "phaseB", "next", "finish"}
NoAnswer == [out |-> "none"]

-----------------------------------------------------------------------------
(* The working state.                                                      *)

Fresh == [keys |-> {}, day |-> "unknown", phase |-> "init", bots |-> <<>>,
          st |-> [c \in Codes |-> "absent"]]

Owner(w, b)   == IF b = 0 THEN "A" ELSE w.bots[b]
Steps(b)      == IF b = 0 THEN PhaseA ELSE PerStock
Key(w, b, i)  == <<Owner(w, b), i>>
Tool(x)       == Steps(at[x][1])[at[x][2]]
Stock(x)      == mem[x].bots[at[x][1]]
InStock(x)    == at[x][1] > 0
Listed(w)     == {w.bots[b] : b \in DOMAIN w.bots}

\* Steps from i on that are not complete: only these are processed.
Todo(w, b, i) == {j \in i..Len(Steps(b)) : Key(w, b, j) \notin w.keys}
First(S)      == CHOOSE i \in S : \A j \in S : i <= j

\* markStepComplete.  The key reaches the disk with the next save.
Marked(w, b, i) == [w EXCEPT !.keys = @ \union {Key(w, b, i)}]
Failed(w, c)    == [w EXCEPT !.st[c] = "failed"]

\* What a tool may answer: the call succeeds, fails in a way worth one more
\* try, or fails for good.  A create that fails may have been carried out.
Answers(x) ==
    CASE Tool(x) = "check_trading_day" ->
             [out : {"ok"}, data : {"yes", "no"}] \union [out : {"err", "fatal"}, data : {"none"}]
      [] Tool(x) = "get_report_bot_codes" ->
             [out : {"ok"}, data : {"bots", "none"}] \union [out : {"err", "fatal"}, data : {"none"}]
      [] Tool(x) = "list_today_reports" ->
             [out : {"ok"}, data : {IF reports[Stock(x)] > 0 THEN "reported" ELSE "none"}]
                 \union [out : {"err", "fatal"}, data : {"none"}]
      [] Tool(x) = "get_stock_daily_reports" ->
             [out : {"ok"}, data : {"found", "missing"}] \union [out : {"err", "fatal"}, data : {"none"}]
      [] Tool(x) = "create_report" ->
             [out : {"ok"}, data : {"done"}] \union [out : {"err", "fatal"}, data : {"done", "none"}]
      [] OTHER -> [out : {"ok", "err", "fatal"}, data : {"none"}]

\* Mutants of Effect: the check finds a report and does not skip the stock; a
\* created report is not noted.
Effect_IgnoresReported(w, tool, b, a) ==
    CASE tool = "check_trading_day" /\ a.out = "ok" ->
             [w EXCEPT !.day = a.data, !.phase = IF a.data = "yes" THEN "phase_a" ELSE "done"]
      [] tool = "get_report_bot_codes" ->
             LET got == IF a.out = "ok" /\ a.data = "bots" THEN Bots ELSE <<>>
             IN  [w EXCEPT !.bots = got,
                           !.st = [c \in Codes |-> IF \E j \in DOMAIN got : got[j] = c
                                                   THEN "pending" ELSE "absent"]]
      [] tool = "list_today_reports" /\ a.out = "ok" /\ a.data = "reported" ->
             [w EXCEPT !.st[w.bots[b]] = @]
      [] tool = "create_report" /\ a.out = "ok" ->
             [w EXCEPT !.st[w.bots[b]] = "reported"]
      [] OTHER -> w

Effect_CreateUnrecorded(w, tool, b, a) ==
    CASE tool = "check_trading_day" /\ a.out = "ok" ->
             [w EXCEPT !.day = a.data, !.phase = IF a.data = "yes" THEN "phase_a" ELSE "done"]
      [] tool = "get_report_bot_codes" ->
             LET got == IF a.out = "ok" /\ a.data = "bots" THEN Bots ELSE <<>>
             IN  [w EXCEPT !.bots = got,
                           !.st = [c \in Codes |-> IF \E j \in DOMAIN got : got[j] = c
                                                   THEN "pending" ELSE "absent"]]
      [] tool = "list_today_reports" /\ a.out = "ok" /\ a.data = "reported" ->
             [w EXCEPT !.st[w.bots[b]] = "skipped"]
      [] tool = "create_report" /\ a.out = "ok" ->
             [w EXCEPT !.st[w.bots[b]] = @]
      [] OTHER -> w

\* WorkingStore.Apply: what an answer changes.  A failed list of bots empties
\* the list all the same; the other failures change nothing.
Effect(w, tool, b, a) ==
    CASE tool = "check_trading_day" /\ a.out = "ok" ->
             [w EXCEPT !.day = a.data, !.phase = IF a.data = "yes" THEN "phase_a" ELSE "done"]
      [] tool = "get_report_bot_codes" ->
             LET got == IF a.out = "ok" /\ a.data = "bots" THEN Bots ELSE <<>>
             IN  [w EXCEPT !.bots = got,
                           !.st = [c \in Codes |-> IF \E j \in DOMAIN got : got[j] = c
                                                   THEN "pending" ELSE "absent"]]
      [] tool = "list_today_reports" /\ a.out = "ok" /\ a.data = "reported" ->
             [w EXCEPT !.st[w.bots[b]] = "skipped"]
      [] tool = "create_report" /\ a.out = "ok" ->
             [w EXCEPT !.st[w.bots[b]] = "reported"]
      [] OTHER -> w

\* Engine.Verify.  The local files and report ids exist once a stock is reported.
Verdict(w) == IF ChecksPhase => w.phase = "done" THEN "pass"
              ELSE IF \E c \in Listed(w) : w.st[c] = "failed" THEN "terminal"
              ELSE "recoverable"

-----------------------------------------------------------------------------
(* Helpers of the actions.                                                 *)

Set(f, x, v) == [f EXCEPT ![x] = v]
MayRun == Overlap \/ \A y \in Sessions : pc[y] \notin Running

\* The working-state files after a save of session x that went through, and
\* after one that failed: before the file was opened, or after it was truncated.
Whole(x)  == Set(torn, x, FALSE)
Broken(x) == Set(torn, x, TRUE)
Spoilt(x) == {torn, Broken(x)}

\* ... and after a save without news whose error is ignored (the execution log's).
Resaved(x) == {Whole(x)} \union (IF SavesFail THEN Spoilt(x) ELSE {})

\* A save whose error the caller ignores, with what the files may be before it.
SaveOver(x, w, files) ==
    \/ disk' = Set(disk, x, w) /\ torn' = Whole(x) /\ UNCHANGED unsaved
    \/ /\ SavesFail /\ disk' = disk
       /\ torn' \in files \union {Broken(x)}
       /\ unsaved' = Set(unsaved, x, TRUE)

SaveMaybe(x, w) == SaveOver(x, w, {torn})

\* The run returns; Run attaches the supervisor's verdict, resume does not.
Return(x, status, w) ==
    /\ pc' = Set(pc, x, "ended")
    /\ result' = Set(result, x, status)
    /\ verdict' = IF resumes[x] = 0 THEN Set(verdict, x, Verdict(w)) ELSE verdict

\* After step i of the stock or of phase A: the next one to do, if any.
GoOn(x, w, b, i) ==
    IF Todo(w, b, i) # {}
    THEN pc' = Set(pc, x, "ready") /\ at' = Set(at, x, <<b, First(Todo(w, b, i))>>)
    ELSE pc' = Set(pc, x, IF b = 0 THEN "phaseB" ELSE "next") /\ at' = at

\* Mutant: the stock keeps its status.
FailStep_LeavesStatus(x, w, files) ==
    IF InStock(x)
    THEN /\ mem' = Set(mem, x, w)
         /\ IF w.st[Stock(x)] = "failed" THEN torn' \in files /\ UNCHANGED <<disk, unsaved>>
            ELSE SaveOver(x, w, files)
         /\ pc' = Set(pc, x, "next")
         /\ UNCHANGED <<verdict, result>>
    ELSE /\ mem' = Set(mem, x, w)
         /\ Return(x, "failed", w)
         /\ torn' \in files /\ UNCHANGED <<disk, unsaved>>

\* A step returned an error: the run fails in phase A, the stock in phase B.
\* files: what the saves before it in the same action may have left.
FailStep(x, w, files) ==
    IF InStock(x)
    THEN /\ mem' = Set(mem, x, Failed(w, Stock(x)))
         /\ IF w.st[Stock(x)] = "failed" THEN torn' \in files /\ UNCHANGED <<disk, unsaved>>
            ELSE SaveOver(x, Failed(w, Stock(x)), files)
         /\ pc' = Set(pc, x, "next")
         /\ UNCHANGED <<verdict, result>>
    ELSE /\ mem' = Set(mem, x, w)
         /\ Return(x, "failed", w)
         /\ torn' \in files /\ UNCHANGED <<disk, unsaved>>

\* The session has no record of a report it created.
Forget(x) == lost' = IF Tool(x) = "create_report" /\ ans[x].data = "done"
                     THEN [lost EXCEPT ![x][Stock(x)] = @ + 1] ELSE lost

-----------------------------------------------------------------------------
(* The run of a session.                                                   *)

Init ==
    /\ pc = [x \in Sessions |-> "new"]
    /\ at = [x \in Sessions |-> <<0, 1>>]
    /\ mem = [x \in Sessions |-> Fresh]
    /\ disk = [x \in Sessions |-> Fresh]
    /\ torn = [x \in Sessions |-> FALSE]
    /\ cp = [x \in Sessions |-> "none"]
    /\ ans = [x \in Sessions |-> NoAnswer]
    /\ cancelled = [x \in Sessions |-> FALSE]
    /\ unsaved = [x \in Sessions |-> FALSE]
    /\ verdict = [x \in Sessions |-> "none"]
    /\ result = [x \in Sessions |-> "none"]
    /\ resumes = [x \in Sessions |-> 0]
    /\ crashes = 0
    /\ \E S \in SUBSET Prior : reports = [c \in Codes |-> IF c \in S THEN 1 ELSE 0]
    /\ created = [x \in Sessions |-> [c \in Codes |-> 0]]
    /\ lost = [x \in Sessions |-> [c \in Codes |-> 0]]
    /\ checked = [x \in Sessions |-> [c \in Codes |-> FALSE]]

\* runSkillWithSteps: a new session with a new working state, saved at once.
Start(x) ==
    /\ pc[x] = "new" /\ MayRun
    /\ pc' = Set(pc, x, "ready")
    /\ UNCHANGED <<at, mem, persistent, ans, cancelled, verdict, result, resumes, crashes, service>>

\* processStep up to the dispatch: the context is looked at, the tool called.
Dispatch(x) ==
    /\ pc[x] \in {"ready", "again"} /\ ~cancelled[x]
    /\ pc' = Set(pc, x, IF pc[x] = "ready" THEN "called" ELSE "calledAgain")
    /\ \E a \in Answers(x) :
          /\ ans' = Set(ans, x, a)
          /\ IF Tool(x) = "create_report" /\ a.data = "done"
             THEN /\ reports' = [reports EXCEPT ![Stock(x)] = @ + 1]
                  /\ created' = [created EXCEPT ![x][Stock(x)] = @ + 1]
             ELSE UNCHANGED <<reports, created>>
          /\ checked' = IF Tool(x) = "list_today_reports" /\ a.out = "ok"
                        THEN [checked EXCEPT ![x][Stock(x)] = @ \/ a.data = "none"]
                        ELSE checked
    /\ UNCHANGED <<at, mem, persistent, cancelled, verdict, result, resumes, crashes, lost>>

\* The arguments cannot be built, or the context is cancelled.
StepRefused(x) ==
    /\ pc[x] \in {"ready", "again"}
    /\ \/ cancelled[x] /\ FailStep(x, mem[x], {torn})
       \/ /\ pc[x] = "ready" /\ ~cancelled[x]
          /\ IF InStock(x)
             THEN /\ mem' = Set(mem, x, Failed(mem[x], Stock(x)))
                  /\ SaveMaybe(x, Failed(mem[x], Stock(x)))
                  /\ pc' = Set(pc, x, "next")
                  /\ UNCHANGED <<verdict, result>>
             ELSE SaveMaybe(x, mem[x]) /\ Return(x, "failed", mem[x]) /\ UNCHANGED mem
    /\ UNCHANGED <<at, cp, ans, cancelled, resumes, crashes, service>>

\* Mutant: the answer is applied in memory only.
Apply_Unsaved(x) ==
    /\ pc[x] = "called"
    /\ LET w == Effect(mem[x], Tool(x), at[x][1], ans[x])
       IN  \/ /\ mem' = Set(mem, x, w) /\ UNCHANGED <<disk, torn>>
              /\ pc' = Set(pc, x, "applied")
              /\ IF ans[x].out = "ok" THEN UNCHANGED lost ELSE Forget(x)
              /\ UNCHANGED <<ans, unsaved, verdict, result>>
           \/ /\ SavesFail /\ FailStep(x, mem[x], Spoilt(x)) /\ Forget(x)
              /\ ans' = Set(ans, x, NoAnswer)
    /\ UNCHANGED <<at, cp, cancelled, resumes, crashes, reports, created, checked>>

\* Apply the first answer and save; a failed save fails the step with the
\* working state as it was before.  The execution log saves the same state
\* once more, its error ignored.
Apply(x) ==
    /\ pc[x] = "called"
    /\ LET w == Effect(mem[x], Tool(x), at[x][1], ans[x])
       IN  \/ /\ mem' = Set(mem, x, w) /\ disk' = Set(disk, x, w)
              /\ \/ torn' = Whole(x)
                 \/ SavesFail /\ Tool(x) # "write_execution_log" /\ torn' = Broken(x)
              /\ pc' = Set(pc, x, "applied")
              /\ IF ans[x].out = "ok" THEN UNCHANGED lost ELSE Forget(x)
              /\ UNCHANGED <<ans, unsaved, verdict, result>>
           \/ /\ SavesFail /\ FailStep(x, mem[x], Spoilt(x)) /\ Forget(x)
              /\ ans' = Set(ans, x, NoAnswer)
    /\ UNCHANGED <<at, cp, cancelled, resumes, crashes, reports, created, checked>>

\* The rest of processStep after the execution log: save a checkpoint, then
\* mark the key, skip an optional step (with a log and a checkpoint of its
\* own), try once more, or fail.
Conclude(x) ==
    LET b == at[x][1]
        i == at[x][2]
        done == Marked(mem[x], b, i)
        good == ans[x].out = "ok" \/ Tool(x) \in Optional
        skip == /\ InStock(x) /\ mem[x].st[Stock(x)] = "skipped"
                /\ Tool(x) = "list_today_reports"
        noPremarket == Tool(x) = "get_stock_daily_reports" /\ InStock(x) /\ ans[x].data = "missing"
        closed == b = 0 /\ Tool(x) = "check_trading_day" /\ mem[x].day = "no" /\ ~Backfill
    IN
    /\ pc[x] = "applied"
    /\ ans' = Set(ans, x, NoAnswer)
    /\ \/ /\ SavesFail
          /\ \/ cp' \in {cp, Set(cp, x, "unreadable")} /\ FailStep(x, mem[x], {torn})
             \/ /\ good /\ ans[x].out # "ok" /\ FailStep(x, mem[x], Resaved(x))
                /\ cp' \in {Set(cp, x, "running"), Set(cp, x, "unreadable")}
          /\ IF ans[x].out = "ok" THEN Forget(x) ELSE UNCHANGED lost
          /\ UNCHANGED at
       \/ /\ cp' = Set(cp, x, "running")
          /\ UNCHANGED lost
          /\ \/ /\ good /\ noPremarket
                /\ mem' = Set(mem, x, [done EXCEPT !.st[Stock(x)] = "skipped"])
                /\ SaveMaybe(x, [done EXCEPT !.st[Stock(x)] = "skipped"])
                /\ pc' = Set(pc, x, "next")
                /\ UNCHANGED <<at, verdict, result>>
             \/ /\ good /\ ~noPremarket
                /\ mem' = Set(mem, x, done) /\ UNCHANGED <<disk, unsaved, verdict, result>>
                /\ IF ans[x].out = "ok" THEN UNCHANGED torn ELSE torn' \in Resaved(x)
                /\ IF closed THEN pc' = Set(pc, x, "finish") /\ at' = at
                   ELSE IF skip THEN pc' = Set(pc, x, "next") /\ at' = at
                   ELSE GoOn(x, done, b, i + 1)
             \/ /\ ~good /\ ans[x].out = "err"
                /\ pc' = Set(pc, x, "again")
                /\ UNCHANGED <<at, mem, disk, torn, unsaved, verdict, result>>
             \/ /\ ~good /\ ans[x].out = "fatal"
                /\ FailStep(x, mem[x], {torn}) /\ UNCHANGED at
    /\ UNCHANGED <<cancelled, resumes, crashes, reports, created, checked>>

\* The second answer: applied with its save error ignored, then marked
\* without a checkpoint, or the step fails.
ConcludeAgain(x) ==
    LET b == at[x][1]
        i == at[x][2]
        w == Effect(mem[x], Tool(x), b, ans[x])
        noPremarket == Tool(x) = "get_stock_daily_reports" /\ InStock(x) /\ ans[x].data = "missing"
        closed(v) == b = 0 /\ Tool(x) = "check_trading_day" /\ v.day = "no" /\ ~Backfill
    IN
    /\ pc[x] = "calledAgain"
    /\ ans' = Set(ans, x, NoAnswer)
    /\ \E v \in {w} \union (IF SavesFail THEN {mem[x]} ELSE {}) :
          LET done == Marked(v, b, i)
              skipped == [done EXCEPT !.st[Stock(x)] = "skipped"]
              files == (IF v = w THEN {Whole(x)} ELSE {})
                       \union (IF SavesFail /\ v = mem[x] THEN Spoilt(x) ELSE {})
          IN
          /\ IF ans[x].out = "ok" /\ v = w THEN UNCHANGED lost ELSE Forget(x)
          /\ \/ /\ ans[x].out # "ok"
                /\ FailStep(x, v, files) /\ UNCHANGED at
             \/ /\ ans[x].out = "ok" /\ noPremarket
                /\ mem' = Set(mem, x, skipped) /\ SaveOver(x, skipped, files)
                /\ pc' = Set(pc, x, "next")
                /\ UNCHANGED <<at, verdict, result>>
             \/ /\ ans[x].out = "ok" /\ ~noPremarket
                /\ mem' = Set(mem, x, done)
                /\ \/ v = w /\ disk' = Set(disk, x, w) /\ torn' = Whole(x) /\ UNCHANGED unsaved
                   \/ /\ SavesFail /\ v = mem[x] /\ disk' = disk
                      /\ torn' \in Spoilt(x) /\ unsaved' = Set(unsaved, x, TRUE)
                /\ UNCHANGED <<verdict, result>>
                /\ IF closed(v) THEN pc' = Set(pc, x, "finish") /\ at' = at
                   ELSE IF InStock(x) /\ Tool(x) = "list_today_reports" /\ v.st[Stock(x)] = "skipped"
                   THEN pc' = Set(pc, x, "next") /\ at' = at
                   ELSE GoOn(x, done, b, i + 1)
    /\ UNCHANGED <<cp, cancelled, resumes, crashes, reports, created, checked>>

\* finalizePhaseA, and the decision for phase B.
BeginPhaseB(x) ==
    LET w == mem[x]
        noBots == w.day = "yes" /\ w.bots = <<>>
        runs == w.day # "no" \/ Backfill
        v == [w EXCEPT !.phase = IF PerStock # <<>> /\ runs THEN "phase_b"
                                 ELSE IF noBots THEN "done" ELSE @]
    IN
    /\ pc[x] = "phaseB"
    /\ mem' = Set(mem, x, v) /\ SaveMaybe(x, v)
    /\ IF PerStock # <<>> /\ runs
       THEN pc' = Set(pc, x, "next") /\ at' = Set(at, x, <<0, 0>>)
       ELSE pc' = Set(pc, x, "finish") /\ at' = at
    /\ UNCHANGED <<cp, ans, cancelled, verdict, result, resumes, crashes, service>>

\* The loop over the stocks: the next one neither reported nor skipped.
NextStock(x) ==
    LET w == mem[x]
        open == {b \in (at[x][1] + 1)..Len(w.bots) : w.st[w.bots[b]] \notin {"reported", "skipped"}}
        b == First(open)
        v == IF w.st[w.bots[b]] = "pending" THEN [w EXCEPT !.st[w.bots[b]] = "collecting"] ELSE w
    IN
    /\ pc[x] = "next" /\ open # {}
    /\ mem' = Set(mem, x, v) /\ SaveMaybe(x, v)
    /\ IF Todo(v, b, 1) # {}
       THEN pc' = Set(pc, x, "ready") /\ at' = Set(at, x, <<b, First(Todo(v, b, 1))>>)
       ELSE pc' = pc /\ at' = Set(at, x, <<b, 0>>)
    /\ UNCHANGED <<cp, ans, cancelled, verdict, result, resumes, crashes, service>>

\* Mutant: a failed stock counts as done.
StocksDone_Failed(x) ==
    LET w == mem[x]
        v == IF w.bots # <<>> /\ \A c \in Listed(w) : w.st[c] \in Settled
             THEN [w EXCEPT !.phase = "done"] ELSE w
    IN
    /\ pc[x] = "next"
    /\ \A b \in (at[x][1] + 1)..Len(w.bots) : w.st[w.bots[b]] \in {"reported", "skipped"}
    /\ mem' = Set(mem, x, v) /\ SaveMaybe(x, v)
    /\ pc' = Set(pc, x, "finish")
    /\ UNCHANGED <<at, cp, ans, cancelled, verdict, result, resumes, crashes, service>>

\* After the loop: phase B is done when every stock is reported or skipped.
StocksDone(x) ==
    LET w == mem[x]
        v == IF w.bots # <<>> /\ \A c \in Listed(w) : w.st[c] \in {"reported", "skipped"}
             THEN [w EXCEPT !.phase = "done"] ELSE w
    IN
    /\ pc[x] = "next"
    /\ \A b \in (at[x][1] + 1)..Len(w.bots) : w.st[w.bots[b]] \in {"reported", "skipped"}
    /\ mem' = Set(mem, x, v) /\ SaveMaybe(x, v)
    /\ pc' = Set(pc, x, "finish")
    /\ UNCHANGED <<at, cp, ans, cancelled, verdict, result, resumes, crashes, service>>

\* The last checkpoint, and the return of the run.
Finish(x) ==
    /\ pc[x] = "finish"
    /\ \/ cp' = Set(cp, x, "completed") /\ Return(x, "completed", mem[x])
       \/ /\ SavesFail /\ Return(x, "failed", mem[x])
          /\ cp' \in {cp, Set(cp, x, "unreadable")}
    /\ UNCHANGED <<at, mem, disk, torn, unsaved, ans, cancelled, resumes, crashes, service>>

-----------------------------------------------------------------------------
(* Cancellation, crashes and resume.                                       *)

Cancel(x) ==
    /\ pc[x] \in Running /\ ~cancelled[x]
    /\ cancelled' = Set(cancelled, x, TRUE)
    /\ UNCHANGED <<pc, at, mem, persistent, ans, verdict, result, resumes, crashes, service>>

\* The process dies, between two saves or in one: every action but Start,
\* Dispatch and Finish may save the working state, Conclude and Finish save a
\* checkpoint.
Crash(x) ==
    /\ pc[x] \in Running /\ crashes < MaxCrashes
    /\ crashes' = crashes + 1
    /\ pc' = Set(pc, x, "crashed")
    /\ ans' = Set(ans, x, NoAnswer)
    /\ \/ UNCHANGED <<torn, cp>>
       \/ pc[x] # "finish" /\ torn' = Broken(x) /\ UNCHANGED cp
       \/ pc[x] \in {"applied", "finish"} /\ cp' = Set(cp, x, "unreadable") /\ UNCHANGED torn
    /\ IF pc[x] \in {"called", "calledAgain"} THEN Forget(x) ELSE UNCHANGED lost
    /\ UNCHANGED <<at, mem, disk, unsaved, cancelled, verdict, result, resumes, reports, created, checked>>

\* Mutant: a working state that cannot be read is taken for a new one.
Resume_UnreadableIsNew(x) ==
    LET w == IF torn[x] THEN Fresh ELSE disk[x] IN
    /\ pc[x] \in {"crashed", "ended"} /\ resumes[x] < MaxCrashes
    /\ cp[x] \notin {"none", "unreadable"} /\ MayRun
    /\ resumes' = Set(resumes, x, resumes[x] + 1)
    /\ mem' = Set(mem, x, w)
    /\ cancelled' = Set(cancelled, x, FALSE)
    /\ IF cp[x] = "completed" \/ w.phase = "done"
       THEN /\ pc' = Set(pc, x, "ended") /\ result' = Set(result, x, "completed")
            /\ UNCHANGED at
       ELSE /\ result' = Set(result, x, "none")
            /\ IF Todo(w, 0, 1) # {}
               THEN pc' = Set(pc, x, "ready") /\ at' = Set(at, x, <<0, First(Todo(w, 0, 1))>>)
               ELSE pc' = Set(pc, x, "phaseB") /\ at' = at
    /\ UNCHANGED <<persistent, ans, verdict, crashes, service>>

\* ResumePreMarketContext: it needs a checkpoint and a working state it can
\* read, believes a checkpoint that says "completed" or a working phase
\* "done", and goes on from the saved working state.
Resume(x) ==
    LET w == disk[x] IN
    /\ pc[x] \in {"crashed", "ended"} /\ resumes[x] < MaxCrashes
    /\ cp[x] \notin {"none", "unreadable"} /\ ~torn[x] /\ MayRun
    /\ resumes' = Set(resumes, x, resumes[x] + 1)
    /\ mem' = Set(mem, x, w)
    /\ cancelled' = Set(cancelled, x, FALSE)
    /\ IF cp[x] = "completed" \/ w.phase = "done"
       THEN /\ pc' = Set(pc, x, "ended") /\ result' = Set(result, x, "completed")
            /\ UNCHANGED at
       ELSE /\ result' = Set(result, x, "none")
            /\ IF Todo(w, 0, 1) # {}
               THEN pc' = Set(pc, x, "ready") /\ at' = Set(at, x, <<0, First(Todo(w, 0, 1))>>)
               ELSE pc' = Set(pc, x, "phaseB") /\ at' = at
    /\ UNCHANGED <<persistent, ans, verdict, crashes, service>>

Step(x) ==
    \/ Start(x) \/ Dispatch(x) \/ StepRefused(x) \/ Apply(x) \/ Conclude(x) \/ ConcludeAgain(x)
    \/ BeginPhaseB(x) \/ NextStock(x) \/ StocksDone(x) \/ Finish(x)

Terminated == /\ \A x \in Sessions : pc[x] \in {"crashed", "ended"}
              /\ UNCHANGED vars

Next == \/ \E x \in Sessions : Step(x) \/ Cancel(x) \/ Crash(x) \/ Resume(x)
        \/ Terminated

Spec == Init /\ [][Next]_vars

-----------------------------------------------------------------------------
(* Properties.                                                             *)

Working == [keys : SUBSET ((Codes \union {"A"}) \X Nat), day : {"unknown", "yes", "no"},
            phase : {"init", "phase_a", "phase_b", "done"}, bots : {<<>>, Bots},
            st : [Codes -> Statuses]]

\* The variables stay in their types.
TypeOK ==
    /\ pc \in [Sessions -> Running \union {"new", "crashed", "ended"}]
    /\ mem \in [Sessions -> Working] /\ disk \in [Sessions -> Working]
    /\ torn \in [Sessions -> BOOLEAN]
    /\ cp \in [Sessions -> {"none", "running", "completed", "unreadable"}]
    /\ cancelled \in [Sessions -> BOOLEAN] /\ unsaved \in [Sessions -> BOOLEAN]
    /\ verdict \in [Sessions -> {"none", "pass", "recoverable", "terminal"}]
    /\ result \in [Sessions -> {"none", "completed", "failed"}]
    /\ resumes \in [Sessions -> 0..MaxCrashes] /\ crashes \in 0..MaxCrashes
    /\ reports \in [Codes -> Nat]
    /\ created \in [Sessions -> [Codes -> Nat]] /\ lost \in [Sessions -> [Codes -> Nat]]
    /\ checked \in [Sessions -> [Codes -> BOOLEAN]]

\* Whatever fails, a session creates a report of a stock a second time only
\* for a create it has no record of: the answer was an error, the process
\* died before the answer was saved, or that save or the checkpoint failed.
\* Completed keys and saved statuses, which live in different saves, must
\* cover each other (runner.go:294, working.go:330).
DuplicatesHaveCause ==
    \A x \in Sessions, c \in Codes : created[x][c] <= 1 + lost[x][c]

\* A session creates a report only after its own check found none, also
\* across crashes and resumes that skip the check as complete
\* (list_today_reports, runner.go:152), unless a save failed: the answer to
\* a second try of the check is applied with its error ignored (runner.go:274).
CreatedAfterCheck ==
    \A x \in Sessions, c \in Codes :
        created[x][c] > 0 => checked[x][c] \/ unsaved[x]

\* A resume loses at most one of the steps the run had completed when it
\* ended or died, and brings back none it had not completed, although a key
\* is marked after its checkpoint (runner.go:293-294) and reaches the file
\* with the next save.  A save that breaks off loses them all: its file must
\* be refused (state.go:60, app.go:1189), never taken for a new session's.
AtMostOneStepLost ==
    [][\A x \in Sessions : resumes'[x] # resumes[x] =>
          /\ mem'[x].keys \subseteq mem[x].keys
          /\ \A j, k \in mem[x].keys \ mem'[x].keys : j = k]_vars

\* A session that reports "completed" leaves no stock pending or collecting,
\* not even when it was cancelled or resumed (runner.go:112-176), unless a
\* save failed on the way.
NoStockForgotten ==
    \A x \in Sessions :
        pc[x] = "ended" /\ result[x] = "completed" /\ ~unsaved[x]
            => \A c \in Listed(mem[x]) : mem[x].st[c] \in Settled

\* A run the supervisor passes has dealt with every stock of its list: the
\* service holds the report, or the stock was skipped because a report was
\* there already or has no pre-market report to compare with
\* (supervisor.go:144, runner.go:163-175).
PassMeansDelivered ==
    \A x \in Sessions : verdict[x] = "pass" /\ resumes[x] = 0 =>
        \A c \in Listed(mem[x]) :
            \/ mem[x].st[c] = "reported" /\ reports[c] > 0
            \/ mem[x].st[c] = "skipped" /\ (reports[c] > 0 \/ checked[x][c])
=============================================================================
