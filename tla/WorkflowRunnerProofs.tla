------------------------ MODULE WorkflowRunnerProofs ------------------------
(***************************************************************************)
(* Safety of the workflow runner for any sessions, step lists, stocks,     *)
(* faults and crashes.  The types need to know where a run is: a step is   *)
(* one of its list, its stock one of the run's, and the tool's answer one  *)
(* of this tool.                                                           *)
(*                                                                         *)
(* The later theorems rest on one invariant each, all said of a session by *)
(* itself: the steps are walked in order (WalkInv); a create is on record, *)
(* in memory and on the disk, or counted as lost (CreateInv); a check has  *)
(* found no report, or the stock is skipped (CheckInv); the phase "done"   *)
(* speaks for all stocks (PhaseInv); statuses are true of the service      *)
(* (PassInv); and what the loop has passed is settled (SettleInv).  Each   *)
(* step is first reduced to its effect on its session (Moves); the other   *)
(* sessions see only that the service may hold more reports.               *)
(***************************************************************************)
EXTENDS WorkflowRunner, WellFoundedInduction, TLAPS

AtStep  == {"new", "ready", "called", "applied", "again", "calledAgain"}
Answer  == [out : {"ok", "err", "fatal"},
            data : {"yes", "no", "none", "bots", "reported", "found", "missing", "done"}]

Positions ==
    /\ at \in [Sessions -> Nat \X Nat]
    /\ \A x \in Sessions : pc[x] \in AtStep =>
          at[x][1] \in 0..Len(mem[x].bots) /\ at[x][2] \in 1..Len(Steps(at[x][1]))

AnswersFit ==
    /\ ans \in [Sessions -> Answer \union {NoAnswer}]
    /\ \A x \in Sessions : pc[x] \in {"called", "applied", "calledAgain"} =>
          /\ ans[x] \in Answer
          /\ Tool(x) = "check_trading_day" /\ ans[x].out = "ok" => ans[x].data \in {"yes", "no"}

\* The types but for the files that cannot be read, of which only Resume asks.
Types ==
    /\ pc \in [Sessions -> Running \union {"new", "crashed", "ended"}]
    /\ mem \in [Sessions -> Working] /\ disk \in [Sessions -> Working]
    /\ cp \in [Sessions -> {"none", "running", "completed", "unreadable"}]
    /\ cancelled \in [Sessions -> BOOLEAN] /\ unsaved \in [Sessions -> BOOLEAN]
    /\ verdict \in [Sessions -> {"none", "pass", "recoverable", "terminal"}]
    /\ result \in [Sessions -> {"none", "completed", "failed"}]
    /\ resumes \in [Sessions -> 0..MaxCrashes] /\ crashes \in 0..MaxCrashes
    /\ reports \in [Codes -> Nat]
    /\ created \in [Sessions -> [Codes -> Nat]] /\ lost \in [Sessions -> [Codes -> Nat]]
    /\ checked \in [Sessions -> [Codes -> BOOLEAN]]

TornOK == torn \in [Sessions -> BOOLEAN]

TInv == Types /\ Positions /\ AnswersFit

\* A save and a failing step, but for what they make of the files.
Saves(x, w) ==
    \/ disk' = Set(disk, x, w) /\ UNCHANGED unsaved
    \/ disk' = disk /\ unsaved' = Set(unsaved, x, TRUE)

Fails(x, w) ==
    IF InStock(x)
    THEN /\ mem' = Set(mem, x, Failed(w, Stock(x)))
         /\ IF w.st[Stock(x)] = "failed" THEN UNCHANGED <<disk, unsaved>>
            ELSE Saves(x, Failed(w, Stock(x)))
         /\ pc' = Set(pc, x, "next")
         /\ UNCHANGED <<verdict, result>>
    ELSE /\ mem' = Set(mem, x, w)
         /\ Return(x, "failed", w)
         /\ UNCHANGED <<disk, unsaved>>

LEMMA ButFiles ==
    /\ \A x, w, files : SaveOver(x, w, files) => Saves(x, w)
    /\ \A x, w : SaveMaybe(x, w) => Saves(x, w)
    /\ \A x, w, files : FailStep(x, w, files) => Fails(x, w)
<1>1. \A x, w, files : SaveOver(x, w, files) => Saves(x, w)  BY DEF SaveOver, Saves
<1>2. \A x, w : SaveMaybe(x, w) => Saves(x, w)  BY <1>1 DEF SaveMaybe
<1>3. ASSUME NEW x, NEW w, NEW files, FailStep(x, w, files) PROVE Fails(x, w)
  BY <1>1, <1>3 DEF FailStep, Fails
<1> QED  BY <1>1, <1>2, <1>3

-----------------------------------------------------------------------------
(* Lemmas on the operators.                                                *)

\* A set of naturals that is not empty has a first element.
LEMMA FirstIsFirst ==
    ASSUME NEW S, S \subseteq Nat, S # {}
    PROVE  First(S) \in S /\ \A k \in S : First(S) <= k
<1> DEFINE R == OpToRel(<, Nat)
<1>1. IsWellFoundedOn(R, Nat)  BY NatLessThanWellFounded
<1>2. \A x, y \in Nat : y < x => <<y, x>> \in R  BY DEF OpToRel
<1> HIDE DEF R
<1>3. PICK m \in S : \A k \in S : <<k, m>> \notin R  BY <1>1, WFMin
<1>4. \A k \in S : m <= k
  <2>1. \A k \in S : ~(k < m)  BY <1>2, <1>3
  <2> QED  BY <1>3, <2>1
<1> QED  BY <1>3, <1>4 DEF First

LEMMA StepsLen == \A b : Len(Steps(b)) \in Nat /\ \A i \in 1..Len(Steps(b)) : Steps(b)[i] \in STRING
BY StepsAssumption DEF StepsAssumption, Steps

\* Tools that only one of the two lists has.
LEMMA ToolPlace ==
    /\ \A i \in 1..Len(Steps(0)) : Steps(0)[i] \notin {"list_today_reports", "create_report"}
    /\ \A b \in Nat \ {0} : \A i \in 1..Len(Steps(b)) :
          Steps(b)[i] \notin {"check_trading_day", "get_report_bot_codes"}
BY StepsAssumption DEF StepsAssumption, Steps

LEMMA WorkingParts ==
    ASSUME NEW w \in Working
    PROVE  /\ w.keys \subseteq (Codes \union {"A"}) \X Nat
           /\ w.day \in {"unknown", "yes", "no"} /\ w.phase \in {"init", "phase_a", "phase_b", "done"}
           /\ w.bots \in Seq(Codes) /\ w.bots \in {<<>>, Bots} /\ Len(w.bots) \in Nat
           /\ w.st \in [Codes -> Statuses]
           /\ \A b \in 1..Len(w.bots) : w.bots[b] \in Codes
<1>1. w.bots \in {<<>>, Bots}  BY DEF Working
<1>2. w.bots \in Seq(Codes)
  <2>1. <<>> \in Seq(Codes)  OBVIOUS
  <2>2. Bots \in Seq(Codes)  BY BotsAssumption DEF BotsAssumption
  <2> QED  BY <1>1, <2>1, <2>2
<1>3. Len(w.bots) \in Nat /\ \A b \in 1..Len(w.bots) : w.bots[b] \in Codes  BY <1>2
<1>4. /\ w.keys \subseteq (Codes \union {"A"}) \X Nat
      /\ w.day \in {"unknown", "yes", "no"} /\ w.phase \in {"init", "phase_a", "phase_b", "done"}
      /\ w.st \in [Codes -> Statuses]
  BY DEF Working
<1> QED  BY <1>1, <1>2, <1>3, <1>4

LEMMA FreshType == Fresh \in Working
BY DEF Fresh, Working, Statuses

LEMMA FailedType ==
    ASSUME NEW w \in Working, NEW c \in Codes
    PROVE  Failed(w, c) \in Working /\ Failed(w, c).bots = w.bots /\ Failed(w, c).keys = w.keys
BY DEF Failed, Working, Statuses

LEMMA MarkedType ==
    ASSUME NEW w \in Working, NEW b \in 0..Len(w.bots), NEW i \in Nat
    PROVE  /\ Marked(w, b, i) \in Working
           /\ Marked(w, b, i).bots = w.bots /\ Marked(w, b, i).keys = w.keys \union {Key(w, b, i)}
<1>1. Key(w, b, i) \in (Codes \union {"A"}) \X Nat
  BY WorkingParts DEF Key, Owner
<1> QED  BY <1>1 DEF Marked, Working

LEMMA StatusType ==
    ASSUME NEW w \in Working, NEW c \in Codes, NEW s \in Statuses
    PROVE  /\ [w EXCEPT !.st[c] = s] \in Working
           /\ [w EXCEPT !.st[c] = s].bots = w.bots /\ [w EXCEPT !.st[c] = s].keys = w.keys
BY DEF Working

LEMMA PhaseType ==
    ASSUME NEW w \in Working, NEW p \in {"init", "phase_a", "phase_b", "done"}
    PROVE  [w EXCEPT !.phase = p] \in Working
BY DEF Working

LEMMA EffectType ==
    ASSUME NEW w \in Working, NEW b \in 0..Len(w.bots), NEW i \in 1..Len(Steps(b)), NEW a \in Answer,
           Steps(b)[i] = "check_trading_day" /\ a.out = "ok" => a.data \in {"yes", "no"}
    PROVE  /\ Effect(w, Steps(b)[i], b, a) \in Working
           /\ Effect(w, Steps(b)[i], b, a).keys = w.keys
           /\ b # 0 => Effect(w, Steps(b)[i], b, a).bots = w.bots
<1> DEFINE t == Steps(b)[i]
<1>1. CASE t = "check_trading_day" /\ a.out = "ok"
  BY <1>1, ToolPlace, WorkingParts DEF Effect, Working
<1>2. CASE t = "get_report_bot_codes"
  <2> DEFINE got == IF a.out = "ok" /\ a.data = "bots" THEN Bots ELSE <<>>
             st  == [c \in Codes |-> IF \E j \in DOMAIN got : got[j] = c
                                     THEN "pending" ELSE "absent"]
  <2>1. got \in {<<>>, Bots} /\ st \in [Codes -> Statuses]  BY DEF Statuses
  <2>2. Effect(w, t, b, a) = [w EXCEPT !.bots = got, !.st = st]  BY <1>2 DEF Effect
  <2>3. b = 0
    <3>1. b \in Nat  BY WorkingParts
    <3> QED  BY <1>2, <3>1, ToolPlace
  <2> HIDE DEF got, st
  <2> QED  BY <2>1, <2>2, <2>3 DEF Working
<1>3. CASE t = "list_today_reports" /\ a.out = "ok" /\ a.data = "reported"
  <2>1. w.bots[b] \in Codes  BY <1>3, ToolPlace, WorkingParts
  <2> QED  BY <1>3, <2>1, StatusType DEF Effect, Statuses
<1>4. CASE t = "create_report" /\ a.out = "ok"
  <2>1. w.bots[b] \in Codes  BY <1>4, ToolPlace, WorkingParts
  <2> QED  BY <1>4, <2>1, StatusType DEF Effect, Statuses
<1>5. CASE ~(\/ t = "check_trading_day" /\ a.out = "ok"
             \/ t = "get_report_bot_codes"
             \/ t = "list_today_reports" /\ a.out = "ok" /\ a.data = "reported"
             \/ t = "create_report" /\ a.out = "ok")
  BY <1>5 DEF Effect
<1> QED  BY <1>1, <1>2, <1>3, <1>4, <1>5

-----------------------------------------------------------------------------
(* Lemmas on the helpers of the actions.                                   *)

\* A stock's step has a stock, and only a stock's step creates a report.
LEMMA StepPlace ==
    ASSUME TInv, NEW x \in Sessions, pc[x] \in AtStep
    PROVE  /\ at[x][1] \in 0..Len(mem[x].bots) /\ at[x][2] \in 1..Len(Steps(at[x][1]))
           /\ at[x][1] \in Nat /\ at[x][2] \in Nat
           /\ InStock(x) => Stock(x) \in Codes
           /\ Tool(x) \in {"create_report", "list_today_reports"} => InStock(x)
<1>1. mem[x] \in Working  BY DEF TInv, Types
<1>2. at[x] \in Nat \X Nat /\ at[x][1] \in 0..Len(mem[x].bots)
      /\ at[x][2] \in 1..Len(Steps(at[x][1]))
  BY DEF TInv, Positions
<1>3. InStock(x) => Stock(x) \in Codes
  BY <1>1, <1>2, WorkingParts DEF InStock, Stock
<1>4. Tool(x) \in {"create_report", "list_today_reports"} => InStock(x)
  BY <1>2, ToolPlace DEF Tool, InStock
<1> QED  BY <1>2, <1>3, <1>4

LEMMA SaveType ==
    ASSUME Types, NEW x \in Sessions, NEW w \in Working, Saves(x, w)
    PROVE  disk' \in [Sessions -> Working] /\ unsaved' \in [Sessions -> BOOLEAN]
BY DEF Types, Saves, Set

LEMMA ReturnType ==
    ASSUME Types, NEW x \in Sessions, NEW s \in {"completed", "failed"}, NEW w, Return(x, s, w)
    PROVE  /\ pc' = [pc EXCEPT ![x] = "ended"]
           /\ result' \in [Sessions -> {"none", "completed", "failed"}]
           /\ verdict' \in [Sessions -> {"none", "pass", "recoverable", "terminal"}]
<1>1. Verdict(w) \in {"none", "pass", "recoverable", "terminal"}  BY DEF Verdict
<1> QED  BY <1>1 DEF Types, Return, Set

LEMMA FailType ==
    ASSUME Types, NEW x \in Sessions, NEW w \in Working, InStock(x) => Stock(x) \in Codes,
           Fails(x, w)
    PROVE  /\ pc' \in {[pc EXCEPT ![x] = "next"], [pc EXCEPT ![x] = "ended"]}
           /\ \E v \in Working : mem' = [mem EXCEPT ![x] = v] /\ v.keys = w.keys
           /\ disk' \in [Sessions -> Working] /\ unsaved' \in [Sessions -> BOOLEAN]
           /\ result' \in [Sessions -> {"none", "completed", "failed"}]
           /\ verdict' \in [Sessions -> {"none", "pass", "recoverable", "terminal"}]
<1>1. CASE InStock(x)
  <2>1. Failed(w, Stock(x)) \in Working /\ Failed(w, Stock(x)).keys = w.keys
    BY <1>1, FailedType
  <2>2. disk' \in [Sessions -> Working] /\ unsaved' \in [Sessions -> BOOLEAN]
    <3>1. CASE w.st[Stock(x)] = "failed"  BY <1>1, <3>1 DEF Fails, Types
    <3>2. CASE w.st[Stock(x)] # "failed"  BY <1>1, <2>1, <3>2, SaveType DEF Fails
    <3> QED  BY <3>1, <3>2
  <2>3. /\ mem' = [mem EXCEPT ![x] = Failed(w, Stock(x))]
        /\ pc' = [pc EXCEPT ![x] = "next"] /\ verdict' = verdict /\ result' = result
    BY <1>1 DEF Fails, Set
  <2> QED  BY <2>1, <2>2, <2>3 DEF Types
<1>2. CASE ~InStock(x)
  <2>1. mem' = [mem EXCEPT ![x] = w] /\ Return(x, "failed", w) /\ disk' = disk /\ unsaved' = unsaved
    BY <1>2 DEF Fails, Set
  <2> QED  BY <2>1, ReturnType DEF Types
<1> QED  BY <1>1, <1>2

LEMMA ForgetType ==
    ASSUME Types, NEW x \in Sessions, Tool(x) = "create_report" => Stock(x) \in Codes,
           Forget(x) \/ UNCHANGED lost
    PROVE  lost' \in [Sessions -> [Codes -> Nat]]
<1>1. lost \in [Sessions -> [Codes -> Nat]]  BY DEF Types
<1>2. CASE Tool(x) = "create_report" /\ Forget(x)
  <2> DEFINE c == Stock(x)
  <2>1. c \in Codes  BY <1>2
  <2>2. lost[x] \in [Codes -> Nat] /\ lost[x][c] + 1 \in Nat  BY <1>1, <2>1
  <2>3. lost' \in {lost, [lost EXCEPT ![x] = [lost[x] EXCEPT ![c] = lost[x][c] + 1]]}
    BY <1>2 DEF Forget
  <2> HIDE DEF c
  <2> QED  BY <1>1, <2>1, <2>2, <2>3
<1>3. CASE lost' = lost  BY <1>1, <1>3
<1> QED  BY <1>2, <1>3 DEF Forget

\* Going on lands on a later step of the same list, or leaves the list.
Lands(x, b, i) ==
    \/ /\ pc' = [pc EXCEPT ![x] = "ready"]
       /\ \E j \in i..Len(Steps(b)) : at' = [at EXCEPT ![x] = <<b, j>>]
    \/ pc' \in {[pc EXCEPT ![x] = "phaseB"], [pc EXCEPT ![x] = "next"]} /\ at' = at

LEMMA GoOnType ==
    ASSUME Types, Positions, NEW x \in Sessions, NEW w, NEW b \in Nat, NEW i \in Nat, GoOn(x, w, b, i)
    PROVE  Lands(x, b, i)
<1>1. CASE Todo(w, b, i) = {}
  BY <1>1 DEF GoOn, Set, Lands
<1>2. CASE Todo(w, b, i) # {}
  <2>1. Len(Steps(b)) \in Nat  BY StepsLen
  <2>2. Todo(w, b, i) \subseteq Nat /\ Todo(w, b, i) \subseteq i..Len(Steps(b))
    BY <2>1 DEF Todo
  <2>3. First(Todo(w, b, i)) \in i..Len(Steps(b))  BY <1>2, <2>2, FirstIsFirst
  <2>4. pc' = [pc EXCEPT ![x] = "ready"] /\ at' = [at EXCEPT ![x] = <<b, First(Todo(w, b, i))>>]
    BY <1>2 DEF GoOn, Set
  <2> QED  BY <2>3, <2>4 DEF Lands
<1> QED  BY <1>1, <1>2

\* What a step of one session leaves of the other sessions.
Alone(x) == \A y \in Sessions \ {x} : /\ pc'[y] = pc[y] /\ at'[y] = at[y]
                                       /\ mem'[y] = mem[y] /\ ans'[y] = ans[y]

LEMMA Frame ==
    ASSUME TInv, NEW x \in Sessions, Alone(x),
           at' \in [Sessions -> Nat \X Nat],
           ans' \in [Sessions -> Answer \union {NoAnswer}],
           pc'[x] \in AtStep => /\ at'[x][1] \in 0..Len(mem'[x].bots)
                                /\ at'[x][2] \in 1..Len(Steps(at'[x][1])),
           pc'[x] \in {"called", "applied", "calledAgain"} =>
                 /\ ans'[x] \in Answer
                 /\ Steps(at'[x][1])[at'[x][2]] = "check_trading_day" /\ ans'[x].out = "ok"
                        => ans'[x].data \in {"yes", "no"}
    PROVE  Positions' /\ AnswersFit'
<1>1. Positions'
  <2> SUFFICES ASSUME NEW y \in Sessions, pc'[y] \in AtStep
               PROVE  at'[y][1] \in 0..Len(mem'[y].bots) /\ at'[y][2] \in 1..Len(Steps(at'[y][1]))
    BY DEF Positions
  <2>1. CASE y = x  BY <2>1
  <2>2. CASE y # x  BY <2>2 DEF Alone, TInv, Positions
  <2> QED  BY <2>1, <2>2
<1>2. AnswersFit'
  <2> SUFFICES ASSUME NEW y \in Sessions, pc'[y] \in {"called", "applied", "calledAgain"}
               PROVE  /\ ans'[y] \in Answer
                      /\ Steps(at'[y][1])[at'[y][2]] = "check_trading_day" /\ ans'[y].out = "ok"
                            => ans'[y].data \in {"yes", "no"}
    BY DEF AnswersFit, Tool
  <2>1. CASE y = x  BY <2>1
  <2>2. CASE y # x  BY <2>2 DEF Alone, TInv, AnswersFit, Tool
  <2> QED  BY <2>1, <2>2
<1> QED  BY <1>1, <1>2

-----------------------------------------------------------------------------
(* Every step keeps the types.                                             *)

LEMMA StartKeeps == ASSUME TInv, NEW x \in Sessions, Start(x) PROVE TInv'
<1>1. pc' = [pc EXCEPT ![x] = "ready"] /\ at' = at /\ mem' = mem /\ ans' = ans /\ pc[x] = "new"
  BY DEF Start, Set
<1>2. Types'
  BY <1>1 DEF TInv, Types, Start, persistent, service, Running
<1>3. at[x][1] \in 0..Len(mem[x].bots) /\ at[x][2] \in 1..Len(Steps(at[x][1]))
  BY <1>1, StepPlace DEF AtStep
<1>4. Alone(x) /\ pc'[x] = "ready"  BY <1>1 DEF Alone, TInv, Types
<1>5. at' \in [Sessions -> Nat \X Nat] /\ ans' \in [Sessions -> Answer \union {NoAnswer}]
  BY <1>1 DEF TInv, Positions, AnswersFit
<1> QED  BY <1>1, <1>2, <1>3, <1>4, <1>5, Frame DEF TInv

LEMMA DispatchKeeps == ASSUME TInv, NEW x \in Sessions, Dispatch(x) PROVE TInv'
<1>1. PICK a \in Answers(x) :
          /\ ans' = [ans EXCEPT ![x] = a]
          /\ IF Tool(x) = "create_report" /\ a.data = "done"
             THEN /\ reports' = [reports EXCEPT ![Stock(x)] = @ + 1]
                  /\ created' = [created EXCEPT ![x][Stock(x)] = @ + 1]
             ELSE UNCHANGED <<reports, created>>
          /\ checked' = IF Tool(x) = "list_today_reports" /\ a.out = "ok"
                        THEN [checked EXCEPT ![x][Stock(x)] = @ \/ a.data = "none"]
                        ELSE checked
  BY DEF Dispatch, Set
<1>2. /\ pc[x] \in AtStep /\ pc' \in {[pc EXCEPT ![x] = "called"], [pc EXCEPT ![x] = "calledAgain"]}
      /\ at' = at /\ mem' = mem
  BY DEF Dispatch, Set, AtStep
<1>3. /\ at[x][1] \in 0..Len(mem[x].bots) /\ at[x][2] \in 1..Len(Steps(at[x][1]))
      /\ Tool(x) \in {"create_report", "list_today_reports"} => Stock(x) \in Codes
  BY <1>2, StepPlace
<1>4. a \in Answer /\ (Tool(x) = "check_trading_day" /\ a.out = "ok" => a.data \in {"yes", "no"})
  BY <1>1 DEF Answers, Answer
<1>5. reports' \in [Codes -> Nat] /\ created' \in [Sessions -> [Codes -> Nat]]
  <2>1. reports \in [Codes -> Nat] /\ created \in [Sessions -> [Codes -> Nat]]  BY DEF TInv, Types
  <2>2. CASE Tool(x) = "create_report" /\ a.data = "done"
    <3> DEFINE c == Stock(x)
    <3>1. c \in Codes  BY <1>3, <2>2
    <3>2. /\ reports' = [reports EXCEPT ![c] = reports[c] + 1]
          /\ created' = [created EXCEPT ![x] = [created[x] EXCEPT ![c] = created[x][c] + 1]]
      BY <1>1, <2>2
    <3> HIDE DEF c
    <3>3. reports[c] + 1 \in Nat /\ created[x] \in [Codes -> Nat] /\ created[x][c] + 1 \in Nat
      BY <2>1, <3>1
    <3> QED  BY <2>1, <3>1, <3>2, <3>3
  <2> QED  BY <1>1, <2>1, <2>2
<1>6. checked' \in [Sessions -> [Codes -> BOOLEAN]]
  <2>1. checked \in [Sessions -> [Codes -> BOOLEAN]]  BY DEF TInv, Types
  <2>2. CASE Tool(x) = "list_today_reports" /\ a.out = "ok"
    <3> DEFINE c == Stock(x)
               v == checked[x][c] \/ a.data = "none"
    <3>1. c \in Codes /\ v \in BOOLEAN  BY <1>3, <2>2
    <3>2. checked' = [checked EXCEPT ![x] = [checked[x] EXCEPT ![c] = v]]  BY <1>1, <2>2
    <3> HIDE DEF c, v
    <3>3. checked[x] \in [Codes -> BOOLEAN]  BY <2>1
    <3> QED  BY <2>1, <3>1, <3>2, <3>3
  <2> QED  BY <1>1, <2>1, <2>2
<1>7. Types'
  BY <1>2, <1>5, <1>6 DEF TInv, Types, Dispatch, persistent, Running
<1>8. /\ Alone(x) /\ ans'[x] = a /\ at' \in [Sessions -> Nat \X Nat]
      /\ ans' \in [Sessions -> Answer \union {NoAnswer}]
  BY <1>1, <1>2, <1>4 DEF Alone, TInv, Types, Positions, AnswersFit
<1> QED  BY <1>2, <1>3, <1>4, <1>7, <1>8, Frame DEF TInv, Tool

\* Steps that leave a session outside of a step keep what is known of steps.
LEMMA Outside ==
    ASSUME TInv, NEW x \in Sessions, Types', NEW v,
           pc' \in {[pc EXCEPT ![x] = p] : p \in {"next", "ended", "finish", "phaseB", "crashed"}},
           mem' = [mem EXCEPT ![x] = v], at' = at,
           ans' \in {ans, [ans EXCEPT ![x] = NoAnswer]}
    PROVE  TInv'
<1>1. Alone(x) /\ pc'[x] \notin AtStep  BY DEF Alone, TInv, Types, AtStep, AnswersFit
<1>2. at' \in [Sessions -> Nat \X Nat] /\ ans' \in [Sessions -> Answer \union {NoAnswer}]
  BY DEF TInv, Positions, AnswersFit
<1>3. pc'[x] \notin {"called", "applied", "calledAgain"}  BY <1>1 DEF AtStep
<1> QED  BY <1>1, <1>2, <1>3, Frame DEF TInv

LEMMA FailKeeps ==
    ASSUME TInv, NEW x \in Sessions, pc[x] \in AtStep, NEW w \in Working, Fails(x, w),
           UNCHANGED <<at, cancelled, resumes, crashes, reports, created, checked>>,
           cp' \in [Sessions -> {"none", "running", "completed", "unreadable"}],
           lost' \in [Sessions -> [Codes -> Nat]],
           ans' \in {ans, [ans EXCEPT ![x] = NoAnswer]}
    PROVE  TInv'
<1>1. InStock(x) => Stock(x) \in Codes  BY StepPlace
<1>2. Types  BY DEF TInv
<1>3. PICK v \in Working : mem' = [mem EXCEPT ![x] = v]  BY <1>1, <1>2, FailType
<1>4. /\ pc' \in {[pc EXCEPT ![x] = "next"], [pc EXCEPT ![x] = "ended"]}
      /\ disk' \in [Sessions -> Working] /\ unsaved' \in [Sessions -> BOOLEAN]
      /\ result' \in [Sessions -> {"none", "completed", "failed"}]
      /\ verdict' \in [Sessions -> {"none", "pass", "recoverable", "terminal"}]
  BY <1>1, <1>2, FailType
<1>5. Types'  BY <1>2, <1>3, <1>4 DEF Types, Running
<1> QED  BY <1>3, <1>4, <1>5, Outside

LEMMA StepRefusedKeeps == ASSUME TInv, NEW x \in Sessions, StepRefused(x) PROVE TInv'
<1>1. /\ pc[x] \in AtStep /\ mem[x] \in Working
      /\ UNCHANGED <<at, cp, ans, cancelled, resumes, crashes, reports, created, lost, checked>>
  BY DEF StepRefused, service, AtStep, TInv, Types
<1>2. InStock(x) => Stock(x) \in Codes  BY <1>1, StepPlace
<1>3. CASE Fails(x, mem[x])
  BY <1>1, <1>3, FailKeeps DEF TInv, Types
<1>4. CASE InStock(x) /\ ~Fails(x, mem[x])
  <2>1. /\ mem' = [mem EXCEPT ![x] = Failed(mem[x], Stock(x))] /\ Saves(x, Failed(mem[x], Stock(x)))
        /\ pc' = [pc EXCEPT ![x] = "next"] /\ UNCHANGED <<verdict, result>>
    BY <1>4, ButFiles DEF StepRefused, Set
  <2>2. Failed(mem[x], Stock(x)) \in Working  BY <1>1, <1>2, <1>4, FailedType
  <2>3. Types'  BY <1>1, <2>1, <2>2, SaveType DEF TInv, Types, Running
  <2> QED  BY <1>1, <2>1, <2>3, Outside
<1>5. CASE ~InStock(x) /\ ~Fails(x, mem[x])
  <2>1. Saves(x, mem[x]) /\ Return(x, "failed", mem[x]) /\ mem' = mem
    BY <1>5, ButFiles DEF StepRefused
  <2>2. Types'  BY <1>1, <2>1, SaveType, ReturnType DEF TInv, Types, Running
  <2>3. mem' = [mem EXCEPT ![x] = mem[x]] /\ pc' = [pc EXCEPT ![x] = "ended"]
    BY <2>1, ReturnType DEF TInv, Types
  <2> QED  BY <1>1, <2>2, <2>3, Outside
<1> QED  BY <1>3, <1>4, <1>5

LEMMA ApplyKeeps == ASSUME TInv, NEW x \in Sessions, Apply(x) PROVE TInv'
<1> DEFINE w == Effect(mem[x], Tool(x), at[x][1], ans[x])
<1>1. /\ pc[x] \in AtStep /\ pc[x] = "called" /\ mem[x] \in Working
      /\ UNCHANGED <<at, cp, cancelled, resumes, crashes, reports, created, checked>>
      /\ \/ /\ mem' = [mem EXCEPT ![x] = w] /\ disk' = [disk EXCEPT ![x] = w]
            /\ pc' = [pc EXCEPT ![x] = "applied"] /\ UNCHANGED <<ans, unsaved, verdict, result>>
         \/ /\ Fails(x, mem[x]) /\ ans' = [ans EXCEPT ![x] = NoAnswer]
      /\ Forget(x) \/ UNCHANGED lost
  BY ButFiles DEF Apply, AtStep, TInv, Types, Set
<1>2. /\ at[x][1] \in 0..Len(mem[x].bots) /\ at[x][2] \in 1..Len(Steps(at[x][1]))
      /\ Tool(x) = "create_report" => Stock(x) \in Codes
  BY <1>1, StepPlace
<1>3. /\ ans[x] \in Answer
      /\ Tool(x) = "check_trading_day" /\ ans[x].out = "ok" => ans[x].data \in {"yes", "no"}
  BY <1>1 DEF TInv, AnswersFit
<1>4. w \in Working /\ (at[x][1] # 0 => w.bots = mem[x].bots)
  BY <1>1, <1>2, <1>3, EffectType DEF Tool
<1>5. lost' \in [Sessions -> [Codes -> Nat]]  BY <1>1, <1>2, ForgetType DEF TInv
<1> HIDE DEF w
<1>6. CASE mem' = [mem EXCEPT ![x] = w] /\ pc' = [pc EXCEPT ![x] = "applied"]
           /\ disk' = [disk EXCEPT ![x] = w] /\ UNCHANGED <<ans, unsaved, verdict, result>>
  <2>1. Types'  BY <1>1, <1>4, <1>5, <1>6 DEF TInv, Types, Running
  <2>2. Alone(x) /\ mem'[x] = w  BY <1>1, <1>6 DEF Alone, TInv, Types
  <2>3. at' \in [Sessions -> Nat \X Nat] /\ ans' \in [Sessions -> Answer \union {NoAnswer}]
    BY <1>1, <1>6 DEF TInv, Positions, AnswersFit
  <2>4. w.bots \in Seq(Codes)  BY <1>4, WorkingParts
  <2>5. at'[x][1] \in 0..Len(mem'[x].bots)  BY <1>1, <1>2, <1>4, <2>2, <2>4
  <2> QED  BY <1>1, <1>2, <1>3, <1>6, <2>1, <2>2, <2>3, <2>5, Frame DEF TInv, Tool
<1>7. CASE Fails(x, mem[x]) /\ ans' = [ans EXCEPT ![x] = NoAnswer]
  <2>1. cp' \in [Sessions -> {"none", "running", "completed", "unreadable"}]  BY <1>1 DEF TInv, Types
  <2> QED  BY <1>1, <1>5, <1>7, <2>1, FailKeeps
<1> QED  BY <1>1, <1>6, <1>7

\* A step of phase A or of a stock is done, and the run goes on.
LEMMA GoOnKeeps ==
    ASSUME TInv, NEW x \in Sessions, NEW w \in Working, NEW b \in Nat, NEW i \in Nat \ {0},
           b \in 0..Len(w.bots), Types', GoOn(x, w, b, i),
           mem' = [mem EXCEPT ![x] = w], ans' = [ans EXCEPT ![x] = NoAnswer]
    PROVE  TInv'
<1>1. CASE pc' = [pc EXCEPT ![x] = "ready"] /\ \E j \in i..Len(Steps(b)) : at' = [at EXCEPT ![x] = <<b, j>>]
  <2>1. PICK j \in i..Len(Steps(b)) : at' = [at EXCEPT ![x] = <<b, j>>]  BY <1>1
  <2>2. Len(Steps(b)) \in Nat /\ j \in 1..Len(Steps(b)) /\ j \in Nat  BY StepsLen
  <2>3. at' \in [Sessions -> Nat \X Nat] /\ at'[x] = <<b, j>>  BY <2>1, <2>2 DEF TInv, Positions
  <2>4. ans' \in [Sessions -> Answer \union {NoAnswer}]  BY DEF TInv, AnswersFit
  <2>5. Alone(x) /\ mem'[x] = w /\ pc'[x] = "ready"
    BY <1>1, <2>1 DEF Alone, TInv, Types, Positions, AnswersFit
  <2> QED  BY <2>2, <2>3, <2>4, <2>5, Frame DEF TInv
<1>2. CASE pc' \in {[pc EXCEPT ![x] = "phaseB"], [pc EXCEPT ![x] = "next"]} /\ at' = at
  BY <1>2, Outside
<1>3. Types /\ Positions /\ i \in Nat  BY DEF TInv
<1>4. Lands(x, b, i)  BY <1>3, GoOnType
<1> QED  BY <1>1, <1>2, <1>4 DEF Lands

LEMMA ConcludeKeeps == ASSUME TInv, NEW x \in Sessions, Conclude(x) PROVE TInv'
<1> DEFINE b == at[x][1]
           i == at[x][2]
           done == Marked(mem[x], b, i)
           skipped == [done EXCEPT !.st[Stock(x)] = "skipped"]
<1>1. /\ pc[x] \in AtStep /\ pc[x] = "applied" /\ mem[x] \in Working
      /\ ans' = [ans EXCEPT ![x] = NoAnswer]
      /\ UNCHANGED <<cancelled, resumes, crashes, reports, created, checked>>
      /\ Forget(x) \/ UNCHANGED lost
      /\ cp' \in {cp, [cp EXCEPT ![x] = "running"], [cp EXCEPT ![x] = "unreadable"]}
  BY ButFiles DEF Conclude, AtStep, TInv, Types, Set
<1>2. \/ Fails(x, mem[x]) /\ at' = at
      \/ /\ InStock(x) /\ mem' = [mem EXCEPT ![x] = skipped] /\ Saves(x, skipped)
         /\ pc' = [pc EXCEPT ![x] = "next"] /\ UNCHANGED <<at, verdict, result>>
      \/ /\ mem' = [mem EXCEPT ![x] = done] /\ UNCHANGED <<disk, unsaved, verdict, result>>
         /\ \/ pc' \in {[pc EXCEPT ![x] = "finish"], [pc EXCEPT ![x] = "next"]} /\ at' = at
            \/ GoOn(x, done, b, i + 1)
      \/ /\ pc' = [pc EXCEPT ![x] = "again"]
         /\ UNCHANGED <<at, mem, disk, unsaved, verdict, result>>
  BY ButFiles DEF Conclude, Set
<1>3. /\ b \in 0..Len(mem[x].bots) /\ i \in 1..Len(Steps(b)) /\ b \in Nat /\ i \in Nat
      /\ Tool(x) = "create_report" => Stock(x) \in Codes
      /\ InStock(x) => Stock(x) \in Codes
  BY <1>1, StepPlace
<1>4. done \in Working /\ done.bots = mem[x].bots  BY <1>1, <1>3, MarkedType
<1>5. cp' \in [Sessions -> {"none", "running", "completed", "unreadable"}]  BY <1>1 DEF TInv, Types
<1>6. lost' \in [Sessions -> [Codes -> Nat]]  BY <1>1, <1>3, ForgetType DEF TInv
<1>7. CASE Fails(x, mem[x]) /\ at' = at
  BY <1>1, <1>5, <1>6, <1>7, FailKeeps
<1>8. CASE /\ InStock(x) /\ mem' = [mem EXCEPT ![x] = skipped] /\ Saves(x, skipped)
           /\ pc' = [pc EXCEPT ![x] = "next"] /\ UNCHANGED <<at, verdict, result>>
  <2>1. skipped \in Working  BY <1>3, <1>4, <1>8, StatusType DEF Statuses
  <2> HIDE DEF skipped
  <2>2. Types'  BY <1>1, <1>5, <1>6, <1>8, <2>1, SaveType DEF TInv, Types, Running
  <2> QED  BY <1>1, <1>8, <2>2, Outside
<1>9. CASE /\ mem' = [mem EXCEPT ![x] = done] /\ UNCHANGED <<disk, unsaved, verdict, result>>
           /\ \/ pc' \in {[pc EXCEPT ![x] = "finish"], [pc EXCEPT ![x] = "next"]} /\ at' = at
              \/ GoOn(x, done, b, i + 1)
  <2>1. i + 1 \in Nat \ {0} /\ b \in 0..Len(done.bots)  BY <1>3, <1>4
  <2>2. pc' \in {[pc EXCEPT ![x] = p] : p \in {"finish", "next", "ready", "phaseB"}}
    BY <1>9 DEF GoOn, Set
  <2> HIDE DEF done, b, i
  <2>6. pc' \in [Sessions -> Running \union {"new", "crashed", "ended"}]
    BY <2>2 DEF TInv, Types, Running
  <2>7. mem' \in [Sessions -> Working]  BY <1>4, <1>9 DEF TInv, Types
  <2>3. Types'  BY <1>1, <1>5, <1>6, <1>9, <2>6, <2>7 DEF TInv, Types
  <2>4. CASE GoOn(x, done, b, i + 1)  BY <1>1, <1>3, <1>4, <1>9, <2>1, <2>3, <2>4, GoOnKeeps
  <2>5. CASE at' = at /\ pc' \in {[pc EXCEPT ![x] = "finish"], [pc EXCEPT ![x] = "next"]}
    BY <1>1, <1>9, <2>3, <2>5, Outside
  <2> QED  BY <1>9, <2>4, <2>5
<1>10. CASE /\ pc' = [pc EXCEPT ![x] = "again"]
            /\ UNCHANGED <<at, mem, disk, unsaved, verdict, result>>
  <2>1. Types'  BY <1>1, <1>5, <1>6, <1>10 DEF TInv, Types, Running
  <2>2. Alone(x) /\ pc'[x] = "again"  BY <1>1, <1>10 DEF Alone, TInv, Types, AnswersFit
  <2>3. at' \in [Sessions -> Nat \X Nat] /\ ans' \in [Sessions -> Answer \union {NoAnswer}]
    BY <1>1, <1>10 DEF TInv, Positions, AnswersFit
  <2> QED  BY <1>3, <1>10, <2>1, <2>2, <2>3, Frame DEF TInv
<1> QED  BY <1>2, <1>7, <1>8, <1>9, <1>10

LEMMA ConcludeAgainKeeps == ASSUME TInv, NEW x \in Sessions, ConcludeAgain(x) PROVE TInv'
<1> DEFINE b == at[x][1]
           i == at[x][2]
           w == Effect(mem[x], Tool(x), b, ans[x])
           done(v) == Marked(v, b, i)
           skipped(v) == [done(v) EXCEPT !.st[Stock(x)] = "skipped"]
<1>1. /\ pc[x] \in AtStep /\ pc[x] = "calledAgain" /\ mem[x] \in Working
      /\ ans' = [ans EXCEPT ![x] = NoAnswer]
      /\ UNCHANGED <<cp, cancelled, resumes, crashes, reports, created, checked>>
  BY DEF ConcludeAgain, AtStep, TInv, Types, Set
<1>2. PICK v \in {w, mem[x]} :
      /\ Forget(x) \/ UNCHANGED lost
      /\ \/ Fails(x, v) /\ at' = at
         \/ /\ InStock(x) /\ mem' = [mem EXCEPT ![x] = skipped(v)] /\ Saves(x, skipped(v))
            /\ pc' = [pc EXCEPT ![x] = "next"] /\ UNCHANGED <<at, verdict, result>>
         \/ /\ mem' = [mem EXCEPT ![x] = done(v)] /\ UNCHANGED <<verdict, result>>
            /\ \/ disk' = [disk EXCEPT ![x] = w] /\ UNCHANGED unsaved
               \/ disk' = disk /\ unsaved' = [unsaved EXCEPT ![x] = TRUE]
            /\ \/ pc' \in {[pc EXCEPT ![x] = "finish"], [pc EXCEPT ![x] = "next"]} /\ at' = at
               \/ GoOn(x, done(v), b, i + 1)
  BY ButFiles DEF ConcludeAgain, Set
<1>3. /\ b \in 0..Len(mem[x].bots) /\ i \in 1..Len(Steps(b)) /\ b \in Nat /\ i \in Nat
      /\ Tool(x) = "create_report" => Stock(x) \in Codes
      /\ InStock(x) => Stock(x) \in Codes
  BY <1>1, StepPlace
<1>4. /\ ans[x] \in Answer
      /\ Tool(x) = "check_trading_day" /\ ans[x].out = "ok" => ans[x].data \in {"yes", "no"}
  BY <1>1 DEF TInv, AnswersFit
<1>5. w \in Working /\ (b # 0 => w.bots = mem[x].bots)
  BY <1>1, <1>3, <1>4, EffectType DEF Tool
<1>6. v \in Working /\ b \in 0..Len(v.bots)
  <2>1. v \in Working /\ (b # 0 => v.bots = mem[x].bots)  BY <1>1, <1>2, <1>5
  <2>2. Len(v.bots) \in Nat  BY <2>1, WorkingParts
  <2> QED  BY <1>3, <2>1, <2>2
<1>7. done(v) \in Working /\ done(v).bots = v.bots  BY <1>3, <1>6, MarkedType
<1>8. cp' \in [Sessions -> {"none", "running", "completed", "unreadable"}]  BY <1>1 DEF TInv, Types
<1>9. lost' \in [Sessions -> [Codes -> Nat]]  BY <1>2, <1>3, ForgetType DEF TInv
<1>10. CASE Fails(x, v) /\ at' = at
  BY <1>1, <1>6, <1>8, <1>9, <1>10, FailKeeps
<1>11. CASE /\ InStock(x) /\ mem' = [mem EXCEPT ![x] = skipped(v)] /\ Saves(x, skipped(v))
            /\ pc' = [pc EXCEPT ![x] = "next"] /\ UNCHANGED <<at, verdict, result>>
  <2> DEFINE sv == skipped(v)
  <2>1. sv \in Working  BY <1>3, <1>7, <1>11, StatusType DEF Statuses
  <2>2. mem' = [mem EXCEPT ![x] = sv] /\ Saves(x, sv)  BY <1>11
  <2> HIDE DEF sv
  <2>4. disk' \in [Sessions -> Working] /\ unsaved' \in [Sessions -> BOOLEAN]
    BY <2>1, <2>2, SaveType DEF TInv
  <2>6. pc' = [pc EXCEPT ![x] = "next"] /\ UNCHANGED <<at, verdict, result>>  BY <1>11
  <2>7. mem' \in [Sessions -> Working]  BY <2>1, <2>2 DEF TInv, Types
  <2>5. pc' \in [Sessions -> Running \union {"new", "crashed", "ended"}] /\ mem' \in [Sessions -> Working]
    BY <2>6, <2>7 DEF TInv, Types, Running
  <2>3. Types'  BY <1>1, <1>8, <1>9, <2>4, <2>5, <2>6 DEF TInv, Types
  <2> QED  BY <1>1, <2>2, <2>3, <2>6, Outside
<1>12. CASE /\ mem' = [mem EXCEPT ![x] = done(v)] /\ UNCHANGED <<verdict, result>>
            /\ \/ disk' = [disk EXCEPT ![x] = w] /\ UNCHANGED unsaved
               \/ disk' = disk /\ unsaved' = [unsaved EXCEPT ![x] = TRUE]
            /\ \/ pc' \in {[pc EXCEPT ![x] = "finish"], [pc EXCEPT ![x] = "next"]} /\ at' = at
               \/ GoOn(x, done(v), b, i + 1)
  <2> DEFINE dv == done(v)
  <2>1. i + 1 \in Nat \ {0} /\ b \in 0..Len(dv.bots) /\ dv \in Working  BY <1>3, <1>6, <1>7
  <2>2. pc' \in {[pc EXCEPT ![x] = p] : p \in {"finish", "next", "ready", "phaseB"}}
    BY <1>12 DEF GoOn, Set
  <2>3. /\ mem' = [mem EXCEPT ![x] = dv]
        /\ \/ pc' \in {[pc EXCEPT ![x] = "finish"], [pc EXCEPT ![x] = "next"]} /\ at' = at
           \/ GoOn(x, dv, b, i + 1)
    BY <1>12
  <2> HIDE DEF dv, b, i, w
  <2>4. disk' \in [Sessions -> Working] /\ unsaved' \in [Sessions -> BOOLEAN]
    BY <1>5, <1>12 DEF TInv, Types
  <2>8. pc' \in [Sessions -> Running \union {"new", "crashed", "ended"}]
    BY <2>2 DEF TInv, Types, Running
  <2>9. mem' \in [Sessions -> Working]  BY <2>1, <2>3 DEF TInv, Types
  <2>5. Types'  BY <1>1, <1>8, <1>9, <1>12, <2>4, <2>8, <2>9 DEF TInv, Types
  <2>6. CASE GoOn(x, dv, b, i + 1)  BY <1>1, <1>3, <2>1, <2>3, <2>5, <2>6, GoOnKeeps
  <2>7. CASE at' = at /\ pc' \in {[pc EXCEPT ![x] = "finish"], [pc EXCEPT ![x] = "next"]}
    BY <1>1, <2>3, <2>5, <2>7, Outside
  <2> QED  BY <2>3, <2>6, <2>7
<1> QED  BY <1>2, <1>10, <1>11, <1>12

LEMMA BeginPhaseBKeeps == ASSUME TInv, NEW x \in Sessions, BeginPhaseB(x) PROVE TInv'
<1> DEFINE w == mem[x]
           noBots == w.day = "yes" /\ w.bots = <<>>
           runs == w.day # "no" \/ Backfill
           v == [w EXCEPT !.phase = IF PerStock # <<>> /\ runs THEN "phase_b"
                                    ELSE IF noBots THEN "done" ELSE @]
<1>1. /\ mem' = [mem EXCEPT ![x] = v] /\ Saves(x, v)
      /\ UNCHANGED <<cp, ans, cancelled, verdict, result, resumes, crashes, reports, created, lost, checked>>
      /\ \/ pc' = [pc EXCEPT ![x] = "next"] /\ at' = [at EXCEPT ![x] = <<0, 0>>]
         \/ pc' = [pc EXCEPT ![x] = "finish"] /\ at' = at
  BY ButFiles DEF BeginPhaseB, Set, service
<1>2. v \in Working
  <2> DEFINE ph == IF PerStock # <<>> /\ runs THEN "phase_b" ELSE IF noBots THEN "done" ELSE w.phase
  <2>1. w \in Working  BY DEF TInv, Types
  <2>2. ph \in {"init", "phase_a", "phase_b", "done"}  BY <2>1, WorkingParts
  <2>3. v = [w EXCEPT !.phase = ph]  OBVIOUS
  <2> QED  BY <2>1, <2>2, <2>3, PhaseType
<1> HIDE DEF v
<1>3. Types'  BY <1>1, <1>2, SaveType DEF TInv, Types, Running
<1>6. pc \in [Sessions -> Running \union {"new", "crashed", "ended"}]
      /\ mem \in [Sessions -> Working] /\ at \in [Sessions -> Nat \X Nat]
  BY DEF TInv, Types, Positions
<1>7. at' \in [Sessions -> Nat \X Nat]  BY <1>1, <1>6
<1>4. Alone(x) /\ pc'[x] \in {"next", "finish"}  BY <1>1, <1>6 DEF Alone
<1>5. ans' \in [Sessions -> Answer \union {NoAnswer}]  BY <1>1 DEF TInv, AnswersFit
<1> QED  BY <1>3, <1>4, <1>5, <1>7, Frame DEF TInv, AtStep

LEMMA NextStockKeeps == ASSUME TInv, NEW x \in Sessions, NextStock(x) PROVE TInv'
<1> DEFINE w == mem[x]
           open == {k \in (at[x][1] + 1)..Len(w.bots) : w.st[w.bots[k]] \notin {"reported", "skipped"}}
           b == First(open)
           v == IF w.st[w.bots[b]] = "pending" THEN [w EXCEPT !.st[w.bots[b]] = "collecting"] ELSE w
<1>1. /\ open # {} /\ mem' = [mem EXCEPT ![x] = v] /\ Saves(x, v)
      /\ UNCHANGED <<cp, ans, cancelled, verdict, result, resumes, crashes, reports, created, lost, checked>>
      /\ IF Todo(v, b, 1) # {}
         THEN pc' = [pc EXCEPT ![x] = "ready"] /\ at' = [at EXCEPT ![x] = <<b, First(Todo(v, b, 1))>>]
         ELSE pc' = pc /\ at' = [at EXCEPT ![x] = <<b, 0>>]
      /\ pc[x] = "next"
  BY ButFiles DEF NextStock, Set, service
<1>2. w \in Working /\ at[x] \in Nat \X Nat  BY DEF TInv, Types, Positions
<1>3. Len(w.bots) \in Nat /\ \A k \in 1..Len(w.bots) : w.bots[k] \in Codes  BY <1>2, WorkingParts
<1>4. b \in 1..Len(w.bots)
  <2>1. open \subseteq Nat /\ open \subseteq 1..Len(w.bots)  BY <1>2, <1>3
  <2> HIDE DEF open
  <2> QED  BY <1>1, <2>1, FirstIsFirst
<1>5. v \in Working /\ v.bots = w.bots
  <2>1. w.bots[b] \in Codes  BY <1>3, <1>4
  <2> HIDE DEF b, open
  <2> QED  BY <1>2, <2>1, StatusType DEF Statuses
<1> HIDE DEF open, b, v
<1>9. /\ pc \in [Sessions -> Running \union {"new", "crashed", "ended"}]
      /\ mem \in [Sessions -> Working] /\ at \in [Sessions -> Nat \X Nat] /\ b \in Nat
  BY <1>3, <1>4 DEF TInv, Types, Positions
<1>6. mem' \in [Sessions -> Working] /\ mem'[x].bots = mem[x].bots  BY <1>1, <1>5 DEF TInv, Types
<1>7. CASE Todo(v, b, 1) # {}
  <2>1. Todo(v, b, 1) \subseteq Nat /\ Todo(v, b, 1) \subseteq 1..Len(Steps(b))
    BY StepsLen DEF Todo
  <2>2. First(Todo(v, b, 1)) \in 1..Len(Steps(b)) /\ First(Todo(v, b, 1)) \in Nat
    BY <1>7, <2>1, FirstIsFirst
  <2>3. /\ pc' = [pc EXCEPT ![x] = "ready"] /\ at'[x] = <<b, First(Todo(v, b, 1))>>
        /\ at' \in [Sessions -> Nat \X Nat] /\ Alone(x)
    BY <1>1, <1>7, <1>9, <2>2 DEF Alone
  <2>4. Types'  BY <1>1, <1>5, <1>6, <2>3, SaveType DEF TInv, Types, Running
  <2>5. pc'[x] = "ready" /\ ans' \in [Sessions -> Answer \union {NoAnswer}]
    BY <1>1, <2>3 DEF TInv, Types, AnswersFit
  <2>6. at'[x][1] \in 0..Len(mem'[x].bots) /\ at'[x][2] \in 1..Len(Steps(at'[x][1]))
    BY <1>3, <1>4, <1>6, <2>2, <2>3
  <2> QED  BY <2>3, <2>4, <2>5, <2>6, Frame DEF TInv
<1>8. CASE Todo(v, b, 1) = {}
  <2>1. pc' = pc /\ at' \in [Sessions -> Nat \X Nat] /\ Alone(x)
    BY <1>1, <1>8, <1>9 DEF Alone
  <2>2. Types'  BY <1>1, <1>5, <1>6, <2>1, SaveType DEF TInv, Types, Running
  <2>3. ans' \in [Sessions -> Answer \union {NoAnswer}]  BY <1>1 DEF TInv, AnswersFit
  <2> QED  BY <1>1, <2>1, <2>2, <2>3, Frame DEF TInv, AtStep
<1> QED  BY <1>7, <1>8

LEMMA StocksDoneKeeps == ASSUME TInv, NEW x \in Sessions, StocksDone(x) PROVE TInv'
<1> DEFINE w == mem[x]
           v == IF w.bots # <<>> /\ \A c \in Listed(w) : w.st[c] \in {"reported", "skipped"}
                THEN [w EXCEPT !.phase = "done"] ELSE w
<1>1. /\ mem' = [mem EXCEPT ![x] = v] /\ Saves(x, v) /\ pc' = [pc EXCEPT ![x] = "finish"]
      /\ UNCHANGED <<at, cp, ans, cancelled, verdict, result, resumes, crashes,
                     reports, created, lost, checked>>
  BY ButFiles DEF StocksDone, Set, service
<1>2. v \in Working
  <2>1. w \in Working  BY DEF TInv, Types
  <2>2. [w EXCEPT !.phase = "done"] \in Working  BY <2>1, PhaseType
  <2> QED  BY <2>1, <2>2
<1> HIDE DEF v
<1>3. Types'  BY <1>1, <1>2, SaveType DEF TInv, Types, Running
<1> QED  BY <1>1, <1>3, Outside

LEMMA FinishKeeps == ASSUME TInv, NEW x \in Sessions, Finish(x) PROVE TInv'
<1>1. /\ Return(x, "completed", mem[x]) \/ Return(x, "failed", mem[x])
      /\ cp' \in {cp, [cp EXCEPT ![x] = "completed"], [cp EXCEPT ![x] = "unreadable"]}
      /\ UNCHANGED <<at, mem, disk, unsaved, ans, cancelled, resumes, crashes,
                     reports, created, lost, checked>>
  BY DEF Finish, Set, service
<1>2. /\ pc' = [pc EXCEPT ![x] = "ended"]
      /\ result' \in [Sessions -> {"none", "completed", "failed"}]
      /\ verdict' \in [Sessions -> {"none", "pass", "recoverable", "terminal"}]
  BY <1>1, ReturnType DEF TInv
<1>3. Types'  BY <1>1, <1>2 DEF TInv, Types, Running
<1>4. mem' = [mem EXCEPT ![x] = mem[x]]  BY <1>1 DEF TInv, Types
<1> QED  BY <1>1, <1>2, <1>3, <1>4, Outside

LEMMA CancelKeeps == ASSUME TInv, NEW x \in Sessions, Cancel(x) PROVE TInv'
<1>1. /\ cancelled' = [cancelled EXCEPT ![x] = TRUE]
      /\ UNCHANGED <<pc, at, mem, disk, cp, unsaved, ans, verdict, result, resumes, crashes,
                     reports, created, lost, checked>>
  BY DEF Cancel, Set, persistent, service
<1>2. Types'  BY <1>1 DEF TInv, Types
<1>3. Positions' /\ AnswersFit'  BY <1>1 DEF TInv, Positions, AnswersFit, Tool
<1> QED  BY <1>2, <1>3 DEF TInv

LEMMA CrashKeeps == ASSUME TInv, NEW x \in Sessions, Crash(x) PROVE TInv'
<1>1. /\ pc' = [pc EXCEPT ![x] = "crashed"] /\ mem' = mem
      /\ ans' = [ans EXCEPT ![x] = NoAnswer] /\ cp' \in {cp, [cp EXCEPT ![x] = "unreadable"]}
      /\ crashes < MaxCrashes /\ crashes' = crashes + 1
      /\ UNCHANGED <<at, disk, unsaved, cancelled, verdict, result, resumes, reports, created, checked>>
      /\ UNCHANGED lost \/ (pc[x] \in AtStep /\ Forget(x))
  BY DEF Crash, Set, persistent, AtStep
<1>2. lost' \in [Sessions -> [Codes -> Nat]]
  <2>1. CASE UNCHANGED lost  BY <2>1 DEF TInv, Types
  <2>2. CASE pc[x] \in AtStep /\ Forget(x)  BY <2>2, StepPlace, ForgetType DEF TInv
  <2> QED  BY <1>1, <2>1, <2>2
<1>3. crashes' \in 0..MaxCrashes  BY <1>1, FaultAssumption DEF FaultAssumption, TInv, Types
<1>4. Types'  BY <1>1, <1>2, <1>3 DEF TInv, Types
<1>5. mem' = [mem EXCEPT ![x] = mem[x]]  BY <1>1 DEF TInv, Types
<1> QED  BY <1>1, <1>4, <1>5, Outside

LEMMA ResumeKeeps == ASSUME TInv, NEW x \in Sessions, Resume(x) PROVE TInv'
<1> DEFINE w == disk[x]
<1>1. /\ mem' = [mem EXCEPT ![x] = w] /\ cancelled' = [cancelled EXCEPT ![x] = FALSE]
      /\ resumes[x] < MaxCrashes /\ resumes' = [resumes EXCEPT ![x] = resumes[x] + 1]
      /\ result' \in {[result EXCEPT ![x] = "completed"], [result EXCEPT ![x] = "none"]}
      /\ UNCHANGED <<disk, cp, unsaved, ans, verdict, crashes, reports, created, lost, checked>>
      /\ \/ pc' \in {[pc EXCEPT ![x] = "ended"], [pc EXCEPT ![x] = "phaseB"]} /\ at' = at
         \/ /\ Todo(w, 0, 1) # {} /\ pc' = [pc EXCEPT ![x] = "ready"]
            /\ at' = [at EXCEPT ![x] = <<0, First(Todo(w, 0, 1))>>]
  BY DEF Resume, Set, persistent, service
<1>2. w \in Working  BY DEF TInv, Types
<1> HIDE DEF w
<1>3. /\ mem' \in [Sessions -> Working] /\ mem'[x] = w /\ cancelled' \in [Sessions -> BOOLEAN]
      /\ result' \in [Sessions -> {"none", "completed", "failed"}]
  BY <1>1, <1>2 DEF TInv, Types
<1>4. resumes' \in [Sessions -> 0..MaxCrashes]
  BY <1>1, FaultAssumption DEF FaultAssumption, TInv, Types
<1>5. pc' \in [Sessions -> Running \union {"new", "crashed", "ended"}]
  BY <1>1 DEF TInv, Types, Running
<1>6. Types'  BY <1>1, <1>3, <1>4, <1>5 DEF TInv, Types
<1>7. CASE pc' \in {[pc EXCEPT ![x] = "ended"], [pc EXCEPT ![x] = "phaseB"]} /\ at' = at
  BY <1>1, <1>6, <1>7, Outside
<1>8. CASE /\ Todo(w, 0, 1) # {} /\ pc' = [pc EXCEPT ![x] = "ready"]
           /\ at' = [at EXCEPT ![x] = <<0, First(Todo(w, 0, 1))>>]
  <2>1. Todo(w, 0, 1) \subseteq Nat /\ Todo(w, 0, 1) \subseteq 1..Len(Steps(0))
    BY StepsLen DEF Todo
  <2>2. First(Todo(w, 0, 1)) \in 1..Len(Steps(0)) /\ First(Todo(w, 0, 1)) \in Nat
    BY <1>8, <2>1, FirstIsFirst
  <2>3. at'[x] = <<0, First(Todo(w, 0, 1))>> /\ at' \in [Sessions -> Nat \X Nat] /\ Alone(x)
    BY <1>1, <1>8, <2>2 DEF TInv, Types, Positions, Alone
  <2>4. pc'[x] = "ready" /\ ans' \in [Sessions -> Answer \union {NoAnswer}]
    BY <1>1, <1>8 DEF TInv, Types, AnswersFit
  <2>5. Len(w.bots) \in Nat  BY <1>2, WorkingParts
  <2>6. at'[x][1] \in 0..Len(mem'[x].bots) /\ at'[x][2] \in 1..Len(Steps(at'[x][1]))
    BY <1>3, <2>2, <2>3, <2>5
  <2> QED  BY <1>6, <2>3, <2>4, <2>6, Frame DEF TInv
<1> QED  BY <1>1, <1>7, <1>8

LEMMA InitTypes == Init => TInv
<1> SUFFICES ASSUME Init PROVE TInv  OBVIOUS
<1>1. Types
  <2>1. reports \in [Codes -> Nat]  BY DEF Init
  <2>2. 0 \in 0..MaxCrashes  BY FaultAssumption DEF FaultAssumption
  <2> QED  BY <2>1, <2>2, FreshType DEF Init, Types
<1>2. Positions
  <2>1. Len(PhaseA) \in Nat \ {0}  BY StepsAssumption DEF StepsAssumption
  <2>2. Len(Fresh.bots) = 0  BY DEF Fresh
  <2> QED  BY <2>1, <2>2 DEF Init, Positions, Steps
<1>3. AnswersFit  BY DEF Init, AnswersFit
<1> QED  BY <1>1, <1>2, <1>3 DEF TInv

LEMMA NextTypes == TInv /\ [Next]_vars => TInv'
<1> SUFFICES ASSUME TInv, [Next]_vars PROVE TInv'  OBVIOUS
<1>1. CASE UNCHANGED vars
  BY <1>1 DEF vars, TInv, Types, Positions, AnswersFit, Tool
<1>2. ASSUME NEW x \in Sessions, Step(x) PROVE TInv'
  BY <1>2, StartKeeps, DispatchKeeps, StepRefusedKeeps, ApplyKeeps, ConcludeKeeps, ConcludeAgainKeeps,
     BeginPhaseBKeeps, NextStockKeeps, StocksDoneKeeps, FinishKeeps DEF Step
<1> QED  BY <1>1, <1>2, CancelKeeps, CrashKeeps, ResumeKeeps DEF Next, Terminated

\* Which files can be read stays a function of the sessions.
LEMMA FilesTyped ==
    ASSUME TornOK, NEW x \in Sessions
    PROVE  /\ torn \in [Sessions -> BOOLEAN] /\ Whole(x) \in [Sessions -> BOOLEAN]
           /\ Broken(x) \in [Sessions -> BOOLEAN] /\ Spoilt(x) \subseteq [Sessions -> BOOLEAN]
           /\ Resaved(x) \subseteq [Sessions -> BOOLEAN]
BY DEF TornOK, Whole, Broken, Spoilt, Resaved, Set

LEMMA SaveFiles ==
    ASSUME TornOK, NEW x \in Sessions, NEW w, NEW files, files \subseteq [Sessions -> BOOLEAN],
           SaveOver(x, w, files) \/ FailStep(x, w, files)
    PROVE  TornOK'
<1>1. ASSUME NEW v, SaveOver(x, v, files) PROVE TornOK'
  BY <1>1, FilesTyped DEF SaveOver, TornOK
<1>2. CASE FailStep(x, w, files)
  BY <1>1, <1>2 DEF FailStep, TornOK
<1> QED  BY <1>1, <1>2

LEMMA NextFiles == TornOK /\ [Next]_vars => TornOK'
<1> SUFFICES ASSUME TornOK, [Next]_vars PROVE TornOK'  OBVIOUS
<1>1. CASE UNCHANGED vars  BY <1>1 DEF vars, TornOK
<1>2. ASSUME NEW x \in Sessions, Step(x) PROVE TornOK'
  <2>1. {torn} \subseteq [Sessions -> BOOLEAN]  BY FilesTyped
  <2>2. ASSUME NEW w, SaveMaybe(x, w) \/ FailStep(x, w, {torn}) PROVE TornOK'
    BY <2>1, <2>2, SaveFiles DEF SaveMaybe
  <2>3. CASE Start(x) \/ Dispatch(x) \/ Finish(x)
    BY <2>3 DEF Start, Dispatch, Finish, persistent, TornOK
  <2>4. CASE StepRefused(x)
    <3>1. FailStep(x, mem[x], {torn}) \/ \E w : SaveMaybe(x, w)  BY <2>4 DEF StepRefused
    <3> QED  BY <2>2, <3>1
  <2>5. CASE Apply(x)
    <3>1. torn' \in {Whole(x), Broken(x)} \/ FailStep(x, mem[x], Spoilt(x))  BY <2>5 DEF Apply
    <3> QED  BY <3>1, FilesTyped, SaveFiles DEF TornOK
  <2>6. CASE Conclude(x)
    <3>1. \/ FailStep(x, mem[x], {torn}) \/ FailStep(x, mem[x], Resaved(x))
          \/ UNCHANGED torn \/ torn' \in Resaved(x) \/ \E w : SaveMaybe(x, w)
      BY <2>6 DEF Conclude
    <3> QED  BY <2>2, <3>1, FilesTyped, SaveFiles DEF TornOK
  <2>7. CASE ConcludeAgain(x)
    <3> DEFINE F(v, w) == (IF v = w THEN {Whole(x)} ELSE {})
                          \union (IF SavesFail /\ v = mem[x] THEN Spoilt(x) ELSE {})
    <3>1. \A v, w : F(v, w) \subseteq [Sessions -> BOOLEAN]  BY FilesTyped
    <3>2. \/ \E v, w, u : FailStep(x, u, F(v, w)) \/ SaveOver(x, u, F(v, w))
          \/ torn' = Whole(x) \/ torn' \in Spoilt(x)
      BY <2>7 DEF ConcludeAgain
    <3> HIDE DEF F
    <3> QED  BY <3>1, <3>2, FilesTyped, SaveFiles DEF TornOK
  <2>8. CASE BeginPhaseB(x) \/ NextStock(x) \/ StocksDone(x)
    <3>1. \E w : SaveMaybe(x, w)  BY <2>8 DEF BeginPhaseB, NextStock, StocksDone
    <3> QED  BY <2>2, <3>1
  <2> QED  BY <1>2, <2>3, <2>4, <2>5, <2>6, <2>7, <2>8 DEF Step
<1>3. ASSUME NEW x \in Sessions, Cancel(x) \/ Crash(x) \/ Resume(x) PROVE TornOK'
  <2>1. UNCHANGED torn \/ torn' = Broken(x)  BY <1>3 DEF Cancel, Crash, Resume, persistent
  <2> QED  BY <2>1, FilesTyped DEF TornOK
<1> QED  BY <1>1, <1>2, <1>3 DEF Next, Terminated

\* Whatever tools, saves, crashes and resumes do, the state of every run
\* stays in its types: statuses are those of the code, keys name stocks of
\* the list, and no counter passes its bound.
THEOREM RunnerTypes == Spec => []TypeOK
<1>1. TInv /\ TornOK => TypeOK  BY DEF TInv, Types, TornOK, TypeOK
<1>2. Init => TornOK  BY DEF Init, TornOK
<1> QED  BY <1>1, <1>2, InitTypes, NextTypes, NextFiles, PTL DEF Spec

-----------------------------------------------------------------------------
(* What the last complete save lacks of a session's working state, also of  *)
(* a session that has ended or died.  Right after an answer was saved it    *)
(* lacks nothing; a step marks one key, and the next answer cannot be       *)
(* concluded before a save that went through carries that key.              *)

Close(d, m) == d \subseteq m /\ \A j, k \in m \ d : j = k

Level == {"new", "applied", "again", "calledAgain"}

Kept == \A x \in Sessions :
           /\ Close(disk[x].keys, mem[x].keys)
           /\ pc[x] \in Level => disk[x].keys = mem[x].keys

SaveOnly(x) == \A y \in Sessions \ {x} : pc'[y] = pc[y] /\ mem'[y] = mem[y] /\ disk'[y] = disk[y]

LEMMA KeptFrame ==
    ASSUME Kept, NEW x \in Sessions, SaveOnly(x),
           Close(disk'[x].keys, mem'[x].keys),
           pc'[x] \in Level => disk'[x].keys = mem'[x].keys
    PROVE  Kept'
<1> SUFFICES ASSUME NEW y \in Sessions
             PROVE  /\ Close(disk'[y].keys, mem'[y].keys)
                    /\ pc'[y] \in Level => disk'[y].keys = mem'[y].keys
  BY DEF Kept
<1>1. CASE y = x  BY <1>1
<1>2. CASE y # x  BY <1>2 DEF Kept, SaveOnly
<1> QED  BY <1>1, <1>2

LEMMA CloseSame == ASSUME NEW d PROVE Close(d, d)
BY DEF Close

LEMMA CloseOne == ASSUME NEW d, NEW k PROVE Close(d, d \union {k})
BY DEF Close

\* A save takes the disk to the new state or leaves it.
LEMMA SaveKeys ==
    ASSUME Types, NEW x \in Sessions, NEW w \in Working, Saves(x, w)
    PROVE  disk'[x] \in {w, disk[x]} /\ \A y \in Sessions \ {x} : disk'[y] = disk[y]
BY DEF Types, Saves, Set

LEMMA FailKept ==
    ASSUME TInv, Kept, NEW x \in Sessions, pc[x] \in AtStep, NEW w \in Working, Fails(x, w),
           Close(disk[x].keys, w.keys)
    PROVE  Kept'
<1>1. InStock(x) => Stock(x) \in Codes  BY StepPlace
<1>2. Types  BY DEF TInv
<1>3. CASE InStock(x)
  <2> DEFINE v == Failed(w, Stock(x))
  <2>1. v \in Working /\ v.keys = w.keys  BY <1>1, <1>3, FailedType
  <2>2. /\ mem' = [mem EXCEPT ![x] = v] /\ pc' = [pc EXCEPT ![x] = "next"]
        /\ disk' = disk \/ Saves(x, v)
    BY <1>3 DEF Fails, Set
  <2> HIDE DEF v
  <2>3. disk'[x] \in {v, disk[x]} /\ \A y \in Sessions \ {x} : disk'[y] = disk[y]
    BY <1>2, <2>1, <2>2, SaveKeys
  <2>4. SaveOnly(x) /\ mem'[x] = v /\ pc'[x] = "next"  BY <1>2, <2>2, <2>3 DEF SaveOnly, Types
  <2>5. Close(disk'[x].keys, v.keys)  BY <2>1, <2>3, CloseSame
  <2> QED  BY <2>4, <2>5, KeptFrame DEF Level
<1>4. CASE ~InStock(x)
  <2>1. mem' = [mem EXCEPT ![x] = w] /\ pc' = [pc EXCEPT ![x] = "ended"] /\ disk' = disk
    BY <1>4 DEF Fails, Return, Set
  <2>2. SaveOnly(x) /\ pc'[x] = "ended" /\ mem'[x] = w  BY <1>2, <2>1 DEF SaveOnly, Types
  <2> QED  BY <2>1, <2>2, KeptFrame DEF Level
<1> QED  BY <1>3, <1>4

\* Steps that save a state with the same keys, or change neither.
LEMMA SameKeys ==
    ASSUME TInv, Kept, NEW x \in Sessions, pc[x] \in Running, NEW v \in Working,
           v.keys = mem[x].keys, mem' = [mem EXCEPT ![x] = v],
           disk' = disk \/ Saves(x, v) \/ disk' = [disk EXCEPT ![x] = v],
           \A y \in Sessions \ {x} : pc'[y] = pc[y],
           pc'[x] \in Level => disk'[x].keys = v.keys
    PROVE  Kept'
<1>1. Types  BY DEF TInv
<1>2. disk'[x] \in {v, disk[x]} /\ \A y \in Sessions \ {x} : disk'[y] = disk[y]
  BY <1>1, SaveKeys DEF Types
<1>3. SaveOnly(x) /\ mem'[x] = v  BY <1>1, <1>2 DEF SaveOnly, Types
<1>4. Close(disk[x].keys, mem[x].keys)  BY DEF Kept
<1>5. Close(disk'[x].keys, v.keys)  BY <1>2, <1>4, CloseSame
<1> QED  BY <1>3, <1>5, KeptFrame

LEMMA StartKept == ASSUME TInv, Kept, NEW x \in Sessions, Start(x) PROVE Kept'
<1>1. pc' = [pc EXCEPT ![x] = "ready"] /\ mem' = mem /\ disk' = disk /\ pc[x] = "new"
  BY DEF Start, Set, persistent
<1>2. SaveOnly(x) /\ pc'[x] = "ready"  BY <1>1 DEF SaveOnly, TInv, Types
<1>3. Close(disk[x].keys, mem[x].keys)  BY <1>1 DEF Kept
<1> QED  BY <1>1, <1>2, <1>3, KeptFrame DEF Level

LEMMA DispatchKept == ASSUME TInv, Kept, NEW x \in Sessions, Dispatch(x) PROVE Kept'
<1>1. /\ pc[x] \in {"ready", "again"} /\ mem' = mem /\ disk' = disk
      /\ pc' = [pc EXCEPT ![x] = IF pc[x] = "ready" THEN "called" ELSE "calledAgain"]
  BY DEF Dispatch, Set, persistent
<1>2. SaveOnly(x) /\ pc'[x] = IF pc[x] = "ready" THEN "called" ELSE "calledAgain"
  BY <1>1 DEF SaveOnly, TInv, Types
<1>3. Close(disk[x].keys, mem[x].keys) /\ (pc[x] = "again" => disk[x].keys = mem[x].keys)
  BY <1>1 DEF Kept, Level, Running
<1> QED  BY <1>1, <1>2, <1>3, KeptFrame DEF Level

LEMMA StepRefusedKept == ASSUME TInv, Kept, NEW x \in Sessions, StepRefused(x) PROVE Kept'
<1>1. pc[x] \in AtStep /\ pc[x] \in Running /\ mem[x] \in Working
  BY DEF StepRefused, AtStep, Running, TInv, Types
<1>2. Close(disk[x].keys, mem[x].keys)  BY <1>1 DEF Kept
<1>3. InStock(x) => Stock(x) \in Codes  BY <1>1, StepPlace
<1>4. CASE Fails(x, mem[x])  BY <1>1, <1>2, <1>4, FailKept
<1>5. CASE InStock(x) /\ ~Fails(x, mem[x])
  <2> DEFINE v == Failed(mem[x], Stock(x))
  <2>1. v \in Working /\ v.keys = mem[x].keys  BY <1>1, <1>3, <1>5, FailedType
  <2>2. mem' = [mem EXCEPT ![x] = v] /\ Saves(x, v) /\ pc' = [pc EXCEPT ![x] = "next"]
    BY <1>5, ButFiles DEF StepRefused, Set
  <2> HIDE DEF v
  <2>3. pc'[x] \notin Level /\ \A y \in Sessions \ {x} : pc'[y] = pc[y]
    BY <2>2 DEF TInv, Types, Level
  <2> QED  BY <1>1, <2>1, <2>2, <2>3, SameKeys
<1>6. CASE ~InStock(x) /\ ~Fails(x, mem[x])
  <2>1. Saves(x, mem[x]) /\ mem' = mem /\ pc' = [pc EXCEPT ![x] = "ended"]
    BY <1>6, ButFiles DEF StepRefused, Return, Set
  <2>2. /\ pc'[x] \notin Level /\ \A y \in Sessions \ {x} : pc'[y] = pc[y]
        /\ mem' = [mem EXCEPT ![x] = mem[x]]
    BY <2>1 DEF TInv, Types, Level
  <2> QED  BY <1>1, <2>1, <2>2, SameKeys
<1> QED  BY <1>4, <1>5, <1>6

LEMMA ApplyKept == ASSUME TInv, Kept, NEW x \in Sessions, Apply(x) PROVE Kept'
<1> DEFINE w == Effect(mem[x], Tool(x), at[x][1], ans[x])
<1>1. /\ pc[x] \in AtStep /\ pc[x] = "called" /\ pc[x] \in Running /\ mem[x] \in Working
      /\ \/ /\ mem' = [mem EXCEPT ![x] = w] /\ disk' = [disk EXCEPT ![x] = w]
            /\ pc' = [pc EXCEPT ![x] = "applied"]
         \/ Fails(x, mem[x])
  BY ButFiles DEF Apply, AtStep, Running, TInv, Types, Set
<1>2. at[x][1] \in 0..Len(mem[x].bots) /\ at[x][2] \in 1..Len(Steps(at[x][1]))
  BY <1>1, StepPlace
<1>3. /\ ans[x] \in Answer
      /\ Tool(x) = "check_trading_day" /\ ans[x].out = "ok" => ans[x].data \in {"yes", "no"}
  BY <1>1 DEF TInv, AnswersFit
<1>4. w \in Working /\ w.keys = mem[x].keys
  BY <1>1, <1>2, <1>3, EffectType DEF Tool
<1> HIDE DEF w
<1>5. CASE mem' = [mem EXCEPT ![x] = w] /\ disk' = [disk EXCEPT ![x] = w]
           /\ pc' = [pc EXCEPT ![x] = "applied"]
  <2>1. disk'[x] = w /\ \A y \in Sessions \ {x} : pc'[y] = pc[y]
    BY <1>5 DEF TInv, Types
  <2> QED  BY <1>1, <1>4, <1>5, <2>1, SameKeys
<1>6. CASE Fails(x, mem[x])
  <2>1. Close(disk[x].keys, mem[x].keys)  BY <1>1 DEF Kept
  <2> QED  BY <1>1, <1>6, <2>1, FailKept
<1> QED  BY <1>1, <1>5, <1>6

\* A step is marked when the disk lacks nothing.
LEMMA MarkKept ==
    ASSUME TInv, Kept, NEW x \in Sessions, NEW d, NEW k, NEW v,
           v.keys = d \union {k}, mem' = [mem EXCEPT ![x] = v],
           \A y \in Sessions \ {x} : pc'[y] = pc[y] /\ disk'[y] = disk[y],
           disk'[x].keys \in {d, v.keys}, pc'[x] \notin Level
    PROVE  Kept'
<1>1. SaveOnly(x) /\ mem'[x] = v  BY DEF SaveOnly, TInv, Types
<1>2. Close(v.keys, v.keys) /\ Close(d, v.keys)  BY CloseSame, CloseOne
<1>3. Close(disk'[x].keys, v.keys)  BY <1>2
<1> QED  BY <1>1, <1>3, KeptFrame

LEMMA ConcludeKept == ASSUME TInv, Kept, NEW x \in Sessions, Conclude(x) PROVE Kept'
<1> DEFINE b == at[x][1]
           i == at[x][2]
           done == Marked(mem[x], b, i)
           skipped == [done EXCEPT !.st[Stock(x)] = "skipped"]
<1>1. /\ pc[x] \in AtStep /\ pc[x] = "applied" /\ pc[x] \in Running /\ mem[x] \in Working
      /\ disk[x].keys = mem[x].keys /\ Close(disk[x].keys, mem[x].keys)
  BY DEF Conclude, AtStep, Running, TInv, Types, Kept, Level
<1>2. \/ Fails(x, mem[x])
      \/ /\ InStock(x) /\ mem' = [mem EXCEPT ![x] = skipped] /\ Saves(x, skipped)
         /\ pc' = [pc EXCEPT ![x] = "next"]
      \/ /\ mem' = [mem EXCEPT ![x] = done] /\ disk' = disk
         /\ \/ pc' \in {[pc EXCEPT ![x] = "finish"], [pc EXCEPT ![x] = "next"]}
            \/ GoOn(x, done, b, i + 1)
      \/ pc' = [pc EXCEPT ![x] = "again"] /\ mem' = mem /\ disk' = disk
  BY ButFiles DEF Conclude, Set
<1>3. b \in 0..Len(mem[x].bots) /\ i \in Nat /\ (InStock(x) => Stock(x) \in Codes)
  BY <1>1, StepPlace
<1>4. done \in Working /\ done.keys = mem[x].keys \union {Key(mem[x], b, i)}
  BY <1>1, <1>3, MarkedType
<1>5. CASE Fails(x, mem[x])  BY <1>1, <1>5, FailKept
<1>6. CASE /\ InStock(x) /\ mem' = [mem EXCEPT ![x] = skipped] /\ Saves(x, skipped)
           /\ pc' = [pc EXCEPT ![x] = "next"]
  <2> DEFINE sv == skipped
  <2>1. sv \in Working /\ sv.keys = mem[x].keys \union {Key(mem[x], b, i)}
    BY <1>3, <1>4, <1>6, StatusType DEF Statuses
  <2>2. mem' = [mem EXCEPT ![x] = sv] /\ Saves(x, sv) /\ pc' = [pc EXCEPT ![x] = "next"]
    BY <1>6
  <2> HIDE DEF sv, done
  <2>3. disk'[x] \in {sv, disk[x]} /\ \A y \in Sessions \ {x} : disk'[y] = disk[y]
    BY <2>1, <2>2, SaveKeys DEF TInv
  <2>4. pc'[x] \notin Level /\ \A y \in Sessions \ {x} : pc'[y] = pc[y]
    BY <2>2 DEF TInv, Types, Level
  <2>5. disk'[x].keys \in {mem[x].keys, sv.keys}  BY <1>1, <2>3
  <2> QED  BY <2>1, <2>2, <2>3, <2>4, <2>5, MarkKept
<1>7. CASE /\ mem' = [mem EXCEPT ![x] = done] /\ disk' = disk
           /\ \/ pc' \in {[pc EXCEPT ![x] = "finish"], [pc EXCEPT ![x] = "next"]}
              \/ GoOn(x, done, b, i + 1)
  <2>1. pc' \in {[pc EXCEPT ![x] = p] : p \in {"finish", "next", "ready", "phaseB"}}
    BY <1>7 DEF GoOn, Set
  <2>2. pc'[x] \notin Level /\ \A y \in Sessions \ {x} : pc'[y] = pc[y]
    BY <2>1 DEF TInv, Types, Level
  <2> HIDE DEF done
  <2>3. disk'[x].keys \in {mem[x].keys, done.keys}  BY <1>1, <1>7
  <2> QED  BY <1>4, <1>7, <2>2, <2>3, MarkKept
<1>8. CASE pc' = [pc EXCEPT ![x] = "again"] /\ mem' = mem /\ disk' = disk
  <2>1. SaveOnly(x)  BY <1>8 DEF SaveOnly, TInv, Types
  <2> QED  BY <1>1, <1>8, <2>1, KeptFrame
<1> QED  BY <1>2, <1>5, <1>6, <1>7, <1>8

LEMMA ConcludeAgainKept == ASSUME TInv, Kept, NEW x \in Sessions, ConcludeAgain(x) PROVE Kept'
<1> DEFINE b == at[x][1]
           i == at[x][2]
           w == Effect(mem[x], Tool(x), b, ans[x])
           done(v) == Marked(v, b, i)
           skipped(v) == [done(v) EXCEPT !.st[Stock(x)] = "skipped"]
<1>1. /\ pc[x] \in AtStep /\ pc[x] = "calledAgain" /\ pc[x] \in Running /\ mem[x] \in Working
      /\ disk[x].keys = mem[x].keys /\ Close(disk[x].keys, mem[x].keys)
  BY DEF ConcludeAgain, AtStep, Running, TInv, Types, Kept, Level
<1>2. PICK v \in {w, mem[x]} :
      \/ Fails(x, v)
      \/ /\ InStock(x) /\ mem' = [mem EXCEPT ![x] = skipped(v)] /\ Saves(x, skipped(v))
         /\ pc' = [pc EXCEPT ![x] = "next"]
      \/ /\ mem' = [mem EXCEPT ![x] = done(v)]
         /\ disk' = [disk EXCEPT ![x] = w] \/ disk' = disk
         /\ \/ pc' \in {[pc EXCEPT ![x] = "finish"], [pc EXCEPT ![x] = "next"]}
            \/ GoOn(x, done(v), b, i + 1)
  BY ButFiles DEF ConcludeAgain, Set
<1>3. /\ b \in 0..Len(mem[x].bots) /\ i \in 1..Len(Steps(b)) /\ b \in Nat /\ i \in Nat
      /\ InStock(x) => Stock(x) \in Codes
  BY <1>1, StepPlace
<1>4. /\ ans[x] \in Answer
      /\ Tool(x) = "check_trading_day" /\ ans[x].out = "ok" => ans[x].data \in {"yes", "no"}
  BY <1>1 DEF TInv, AnswersFit
<1>5. w \in Working /\ w.keys = mem[x].keys /\ (b # 0 => w.bots = mem[x].bots)
  BY <1>1, <1>3, <1>4, EffectType DEF Tool
<1>6. v \in Working /\ b \in 0..Len(v.bots) /\ v.keys = mem[x].keys
  <2>1. v \in Working /\ (b # 0 => v.bots = mem[x].bots)  BY <1>1, <1>2, <1>5
  <2>2. Len(v.bots) \in Nat  BY <2>1, WorkingParts
  <2> QED  BY <1>2, <1>3, <1>5, <2>1, <2>2
<1>7. done(v) \in Working /\ done(v).keys = v.keys \union {Key(v, b, i)}  BY <1>3, <1>6, MarkedType
<1>8. CASE Fails(x, v)  BY <1>1, <1>6, <1>8, FailKept
<1>9. CASE /\ InStock(x) /\ mem' = [mem EXCEPT ![x] = skipped(v)] /\ Saves(x, skipped(v))
           /\ pc' = [pc EXCEPT ![x] = "next"]
  <2> DEFINE sv == skipped(v)
  <2>1. sv \in Working /\ sv.keys = v.keys \union {Key(v, b, i)}
    BY <1>3, <1>7, <1>9, StatusType DEF Statuses
  <2>2. mem' = [mem EXCEPT ![x] = sv] /\ Saves(x, sv) /\ pc' = [pc EXCEPT ![x] = "next"]
    BY <1>9
  <2> HIDE DEF sv
  <2>3. disk'[x] \in {sv, disk[x]} /\ \A y \in Sessions \ {x} : disk'[y] = disk[y]
    BY <2>1, <2>2, SaveKeys DEF TInv
  <2>4. pc'[x] \notin Level /\ \A y \in Sessions \ {x} : pc'[y] = pc[y]
    BY <2>2 DEF TInv, Types, Level
  <2>5. disk'[x].keys \in {v.keys, sv.keys}  BY <1>1, <1>6, <2>3
  <2> QED  BY <2>1, <2>2, <2>3, <2>4, <2>5, MarkKept
<1>10. CASE /\ mem' = [mem EXCEPT ![x] = done(v)]
            /\ disk' = [disk EXCEPT ![x] = w] \/ disk' = disk
            /\ \/ pc' \in {[pc EXCEPT ![x] = "finish"], [pc EXCEPT ![x] = "next"]}
               \/ GoOn(x, done(v), b, i + 1)
  <2> DEFINE dv == done(v)
  <2>1. pc' \in {[pc EXCEPT ![x] = p] : p \in {"finish", "next", "ready", "phaseB"}}
    BY <1>10 DEF GoOn, Set
  <2>2. pc'[x] \notin Level /\ \A y \in Sessions \ {x} : pc'[y] = pc[y]
    BY <2>1 DEF TInv, Types, Level
  <2>3. mem' = [mem EXCEPT ![x] = dv] /\ dv.keys = v.keys \union {Key(v, b, i)}  BY <1>7, <1>10
  <2> HIDE DEF dv, w
  <2>4. disk'[x].keys \in {v.keys, dv.keys} /\ \A y \in Sessions \ {x} : disk'[y] = disk[y]
    BY <1>1, <1>5, <1>6, <1>10 DEF TInv, Types
  <2> QED  BY <2>2, <2>3, <2>4, MarkKept
<1> QED  BY <1>2, <1>8, <1>9, <1>10

LEMMA BeginPhaseBKept == ASSUME TInv, Kept, NEW x \in Sessions, BeginPhaseB(x) PROVE Kept'
<1>1. /\ pc[x] = "phaseB" /\ pc' \in {[pc EXCEPT ![x] = "next"], [pc EXCEPT ![x] = "finish"]}
      /\ mem[x] \in Working
      /\ \E p \in {mem[x].phase, "phase_b", "done"} :
            LET v == [mem[x] EXCEPT !.phase = p] IN mem' = [mem EXCEPT ![x] = v] /\ Saves(x, v)
  BY ButFiles DEF BeginPhaseB, Set, TInv, Types
<1>2. PICK p \in {"init", "phase_a", "phase_b", "done"} :
         /\ mem' = [mem EXCEPT ![x] = [mem[x] EXCEPT !.phase = p]]
         /\ Saves(x, [mem[x] EXCEPT !.phase = p])
  BY <1>1, WorkingParts
<1> DEFINE v == [mem[x] EXCEPT !.phase = p]
<1>3. v \in Working /\ v.keys = mem[x].keys  BY <1>1, PhaseType DEF Working
<1>4. mem' = [mem EXCEPT ![x] = v] /\ Saves(x, v)  BY <1>2
<1> HIDE DEF v
<1>5. pc'[x] \notin Level /\ \A y \in Sessions \ {x} : pc'[y] = pc[y]
  BY <1>1 DEF TInv, Types, Level
<1> QED  BY <1>1, <1>3, <1>4, <1>5, SameKeys DEF Running

LEMMA NextStockKept == ASSUME TInv, Kept, NEW x \in Sessions, NextStock(x) PROVE Kept'
<1> DEFINE w == mem[x]
           open == {k \in (at[x][1] + 1)..Len(w.bots) : w.st[w.bots[k]] \notin {"reported", "skipped"}}
           b == First(open)
           v == IF w.st[w.bots[b]] = "pending" THEN [w EXCEPT !.st[w.bots[b]] = "collecting"] ELSE w
<1>1. /\ open # {} /\ mem' = [mem EXCEPT ![x] = v] /\ Saves(x, v)
      /\ pc' \in {pc, [pc EXCEPT ![x] = "ready"]} /\ pc[x] = "next"
  BY ButFiles DEF NextStock, Set
<1>2. w \in Working /\ at[x] \in Nat \X Nat  BY DEF TInv, Types, Positions
<1>3. Len(w.bots) \in Nat /\ \A k \in 1..Len(w.bots) : w.bots[k] \in Codes  BY <1>2, WorkingParts
<1>4. w.bots[b] \in Codes
  <2>1. open \subseteq Nat /\ open \subseteq 1..Len(w.bots)  BY <1>2, <1>3
  <2> HIDE DEF open
  <2> QED  BY <1>1, <1>3, <2>1, FirstIsFirst
<1>5. v \in Working /\ v.keys = mem[x].keys
  <2> HIDE DEF b
  <2> QED  BY <1>2, <1>4, StatusType DEF Statuses
<1> HIDE DEF open, b, v
<1>6. pc'[x] \notin Level /\ \A y \in Sessions \ {x} : pc'[y] = pc[y]
  BY <1>1 DEF TInv, Types, Level
<1> QED  BY <1>1, <1>5, <1>6, SameKeys DEF Running

LEMMA StocksDoneKept == ASSUME TInv, Kept, NEW x \in Sessions, StocksDone(x) PROVE Kept'
<1>1. PICK v \in {mem[x], [mem[x] EXCEPT !.phase = "done"]} :
         mem' = [mem EXCEPT ![x] = v] /\ Saves(x, v)
  BY ButFiles DEF StocksDone, Set
<1>2. pc[x] = "next" /\ pc' = [pc EXCEPT ![x] = "finish"] /\ mem[x] \in Working
  BY DEF StocksDone, Set, TInv, Types
<1>3. v \in Working /\ v.keys = mem[x].keys  BY <1>1, <1>2, PhaseType DEF Working
<1>4. pc'[x] \notin Level /\ \A y \in Sessions \ {x} : pc'[y] = pc[y]
  BY <1>2 DEF TInv, Types, Level
<1> QED  BY <1>1, <1>2, <1>3, <1>4, SameKeys DEF Running

\* The run returns, is cancelled or dies: the keys stay.
LEMMA LeaveKept ==
    ASSUME TInv, Kept, NEW x \in Sessions, Finish(x) \/ Cancel(x) \/ Crash(x)
    PROVE  Kept'
<1>1. CASE Finish(x) \/ Crash(x)
  <2>1. /\ pc' \in {[pc EXCEPT ![x] = "ended"], [pc EXCEPT ![x] = "crashed"]}
        /\ UNCHANGED <<mem, disk>>
    BY <1>1 DEF Finish, Crash, Return, Set
  <2>2. SaveOnly(x) /\ pc'[x] \in {"ended", "crashed"}  BY <2>1 DEF SaveOnly, TInv, Types
  <2>3. Close(disk[x].keys, mem[x].keys)  BY DEF Kept
  <2> QED  BY <2>1, <2>2, <2>3, KeptFrame DEF Level
<1>2. CASE Cancel(x)
  BY <1>2 DEF Cancel, persistent, Kept
<1> QED  BY <1>1, <1>2

LEMMA ResumeKept == ASSUME TInv, Kept, NEW x \in Sessions, Resume(x) PROVE Kept'
<1>1. /\ mem' = [mem EXCEPT ![x] = disk[x]] /\ disk' = disk
      /\ pc' \in {[pc EXCEPT ![x] = p] : p \in {"ended", "ready", "phaseB"}}
  BY DEF Resume, Set, persistent
<1>2. SaveOnly(x) /\ mem'[x] = disk[x]  BY <1>1 DEF SaveOnly, TInv, Types
<1> QED  BY <1>1, <1>2, CloseSame, KeptFrame

LEMMA NextKept == TInv /\ Kept /\ [Next]_vars => Kept'
<1> SUFFICES ASSUME TInv, Kept, [Next]_vars PROVE Kept'  OBVIOUS
<1>1. CASE UNCHANGED vars  BY <1>1 DEF vars, Kept
<1>2. ASSUME NEW x \in Sessions, Step(x) PROVE Kept'
  BY <1>2, StartKept, DispatchKept, StepRefusedKept, ApplyKept, ConcludeKept, ConcludeAgainKept,
     BeginPhaseBKept, NextStockKept, StocksDoneKept, LeaveKept DEF Step
<1> QED  BY <1>1, <1>2, LeaveKept, ResumeKept DEF Next, Terminated

\* Only a resume counts as one, and it takes the last complete save.
LEMMA ResumeOnly ==
    ASSUME TInv, Next, NEW x \in Sessions, resumes'[x] # resumes[x]
    PROVE  mem'[x] = disk[x]
<1>1. PICK y \in Sessions : Resume(y)
  <2>1. ASSUME NEW y \in Sessions, Step(y) PROVE UNCHANGED resumes
    BY <2>1 DEF Step, Start, Dispatch, StepRefused, Apply, Conclude, ConcludeAgain, BeginPhaseB,
                NextStock, StocksDone, Finish
  <2>2. ASSUME NEW y \in Sessions, Cancel(y) \/ Crash(y) PROVE UNCHANGED resumes
    BY <2>2 DEF Cancel, Crash
  <2>3. CASE Terminated  BY <2>3 DEF Terminated, vars
  <2> QED  BY <2>1, <2>2, <2>3 DEF Next
<1>2. resumes' = [resumes EXCEPT ![y] = resumes[y] + 1] /\ mem' = [mem EXCEPT ![y] = disk[y]]
  BY <1>1 DEF Resume, Set
<1> QED  BY <1>2 DEF TInv, Types

\* For any step lists, faults and crashes, also those in the middle of a save:
\* a resume that goes ahead lacks at most one step that the run had marked
\* complete, and has none it had not (runner.go:293-294, working.go:328).  A
\* file whose save broke off is refused, not read (app.go:1189).
THEOREM StepLoss == Spec => AtMostOneStepLost
<1>1. Init => Kept
  BY DEF Init, Kept, Close, Fresh
<1>2. TInv /\ Kept /\ [Next]_vars =>
         [\A x \in Sessions : resumes'[x] # resumes[x] =>
             /\ mem'[x].keys \subseteq mem[x].keys
             /\ \A j, k \in mem[x].keys \ mem'[x].keys : j = k]_vars
  <2> SUFFICES ASSUME TInv, Kept, Next, NEW x \in Sessions, resumes'[x] # resumes[x]
               PROVE  Close(mem'[x].keys, mem[x].keys)
    BY DEF Close
  <2> QED  BY ResumeOnly DEF Kept
<1> QED  BY <1>1, <1>2, InitTypes, NextTypes, NextKept, PTL DEF Spec, AtMostOneStepLost

-----------------------------------------------------------------------------
(* What the other properties rest on.  Everything here is said of one      *)
(* session x; sessions share nothing but the reports of the service, which *)
(* only become more.                                                       *)

\* Some step of stock c that calls tool t is complete; phase A is.
Keyed(w, c, t) == \E j \in 1..Len(PerStock) : PerStock[j] = t /\ <<c, j>> \in w.keys
PhaseADone(w)  == \A j \in 1..Len(PhaseA) : <<"A", j>> \in w.keys

\* The steps before the one at hand are complete and it is not; stocks are
\* worked on, and their keys and reports noted, only when phase A is complete.
Walk(x) ==
    /\ pc[x] \in AtStep =>
          /\ \A j \in 1..(at[x][2] - 1) : Key(mem[x], at[x][1], j) \in mem[x].keys
          /\ Key(mem[x], at[x][1], at[x][2]) \notin mem[x].keys
    /\ pc[x] \in {"phaseB", "next"} => PhaseADone(mem[x])
    /\ pc[x] \in AtStep /\ InStock(x) => PhaseADone(mem[x])

StocksAfterA(w) ==
    \A c \in Codes : w.st[c] = "reported" \/ (\E k \in w.keys : k[1] = c) => PhaseADone(w)

WalkInv(x) == Walk(x) /\ StocksAfterA(mem[x]) /\ StocksAfterA(disk[x])

\* The session's record of a report it created: the stock's status, or the key
\* of the step; in flight, the answer that says so.
Recorded(w, c) == w.st[c] = "reported" \/ Keyed(w, c, "create_report")
Flying(x, c) == /\ pc[x] \in {"called", "calledAgain"} /\ Tool(x) = "create_report"
                /\ Stock(x) = c /\ ans[x].data = "done"

CreatePlace(x) ==
    /\ pc[x] \in AtStep /\ InStock(x) /\ mem[x].st[Stock(x)] = "reported" =>
          \/ Keyed(mem[x], Stock(x), "create_report")
          \/ pc[x] = "applied" /\ Tool(x) = "create_report" /\ ans[x].out = "ok"
    /\ pc[x] \in {"called", "applied", "calledAgain"} /\ Tool(x) = "create_report"
          /\ ans[x].out = "ok" => ans[x].data = "done"

CreateCount(x, c) ==
    /\ created[x][c] <= lost[x][c] + 1
    /\ created[x][c] > lost[x][c] =>
          Flying(x, c) \/ (Recorded(mem[x], c) /\ Recorded(disk[x], c))

CreateInv(x) == CreatePlace(x) /\ \A c \in Codes : CreateCount(x, c)

\* What a completed check of a stock's reports says.
CheckHolds(x, c, w) ==
    Keyed(w, c, "list_today_reports") =>
        /\ checked[x][c] \/ reports[c] > 0
        /\ checked[x][c] \/ unsaved[x] \/ w.st[c] = "skipped"

CheckStock(x, c) ==
    /\ CheckHolds(x, c, mem[x]) /\ CheckHolds(x, c, disk[x])
    /\ created[x][c] > 0 => checked[x][c] \/ unsaved[x]

\* What the answer to one says, and that a stock at work was not skipped by it.
CheckAnswer(x) ==
    pc[x] \in {"called", "applied", "calledAgain"} /\ Tool(x) = "list_today_reports"
        /\ ans[x].out = "ok" =>
            \/ ans[x].data = "none" /\ checked[x][Stock(x)]
            \/ /\ ans[x].data = "reported" /\ reports[Stock(x)] > 0
               /\ pc[x] = "applied" => mem[x].st[Stock(x)] = "skipped"

CheckPlace(x) ==
    pc[x] \in AtStep /\ InStock(x) /\ Keyed(mem[x], Stock(x), "list_today_reports") =>
        checked[x][Stock(x)] \/ unsaved[x]

CheckInv(x) == CheckAnswer(x) /\ CheckPlace(x) /\ \A c \in Codes : CheckStock(x, c)

\* A working phase "done" has every stock reported or skipped, and a run on a
\* day without trading has none; past that phase no step is begun.
PhaseSays(w) ==
    /\ w.bots # <<>> => \A j \in 1..Len(PhaseA) :
                            PhaseA[j] = "check_trading_day" => <<"A", j>> \in w.keys
    /\ w.day = "no" => w.phase = "done"
    /\ w.phase = "done" => \A c \in Listed(w) : w.st[c] \in {"reported", "skipped"}

PhaseInv(x) ==
    /\ PhaseSays(mem[x]) /\ PhaseSays(disk[x])
    /\ pc[x] \in {"new", "ready", "called", "again", "calledAgain", "phaseB", "next"} =>
          mem[x].phase # "done"
    /\ pc[x] = "applied" /\ mem[x].phase = "done" =>
          Tool(x) = "check_trading_day" /\ ans[x].out = "ok" /\ mem[x].day = "no"

\* What the statuses say of the service, and what a verdict rests on.
TruthHolds(x, c, w) ==
    /\ w.st[c] = "reported" => reports[c] > 0
    /\ w.st[c] = "skipped" => reports[c] > 0 \/ checked[x][c]

PassAnswer(x) ==
    pc[x] \in {"called", "calledAgain"} /\ Tool(x) = "create_report" /\ ans[x].out = "ok" =>
        reports[Stock(x)] > 0

PassVerdict(x) ==
    verdict[x] = "pass" /\ resumes[x] = 0 => pc[x] = "ended" /\ mem[x].phase = "done"

PassInv(x) ==
    /\ \A c \in Codes : TruthHolds(x, c, mem[x]) /\ TruthHolds(x, c, disk[x])
    /\ PassAnswer(x) /\ PassVerdict(x)

\* A stock whose report was created is settled; what a session believes of its
\* stocks is on the disk; those the loop has passed are settled.
CreatedSettled(x, w) ==
    \A c \in Codes : Keyed(w, c, "create_report") => unsaved[x] \/ w.st[c] \in Settled
CreateNoted(x) ==
    pc[x] = "applied" /\ Tool(x) = "create_report" /\ ans[x].out = "ok" =>
        mem[x].st[Stock(x)] = "reported"
Passed(w, n) == \A k \in 1..Len(w.bots) : k <= n => w.st[w.bots[k]] \in Settled
AllSettled(w) == \A c \in Listed(w) : w.st[c] \in Settled

SettledSoFar(x) ==
    /\ pc[x] \in Running \union {"new"} \/ (pc[x] = "ended" /\ result[x] = "completed") =>
          disk[x].st = mem[x].st /\ disk[x].bots = mem[x].bots
    /\ pc[x] = "next" => Passed(mem[x], at[x][1])
    /\ pc[x] \in AtStep => Passed(mem[x], at[x][1] - 1)
    /\ pc[x] = "finish" => AllSettled(mem[x])
    /\ pc[x] = "ended" /\ result[x] = "completed" => AllSettled(mem[x])
    /\ cp[x] = "completed" => AllSettled(disk[x])

SettleInv(x) ==
    /\ CreatedSettled(x, mem[x]) /\ CreatedSettled(x, disk[x]) /\ CreateNoted(x)
    /\ ~unsaved[x] => SettledSoFar(x)
    /\ pc[x] \in Running \union {"new"} => cp[x] # "completed"
-----------------------------------------------------------------------------
(* The steps as one session sees them: what each makes of its variables at  *)
(* x.  The other sessions see only that the service may hold more reports.  *)

Still(x)  == UNCHANGED <<mem[x], disk[x], unsaved[x]>>
Calm(x)   == UNCHANGED <<created[x], checked[x], reports, resumes[x]>>
Silent(x) == UNCHANGED <<verdict[x], result[x]>>

Saved(x) == \/ disk'[x] = mem'[x] /\ UNCHANGED unsaved[x]
            \/ unsaved'[x] = TRUE /\ UNCHANGED disk[x]

Forgets(x) == lost'[x] = IF Tool(x) = "create_report" /\ ans[x].data = "done"
                         THEN [lost[x] EXCEPT ![Stock(x)] = @ + 1] ELSE lost[x]

MovesOn(x, w, b, i) ==
    \/ Todo(w, b, i) # {} /\ pc'[x] = "ready" /\ at'[x] = <<b, First(Todo(w, b, i))>>
    \/ Todo(w, b, i) = {} /\ pc'[x] = (IF b = 0 THEN "phaseB" ELSE "next") /\ UNCHANGED at[x]

Others(x) ==
    /\ \A y \in Sessions \ {x} :
          UNCHANGED <<pc[y], at[y], mem[y], disk[y], cp[y], ans[y], unsaved[y], verdict[y],
                      result[y], resumes[y], created[y], lost[y], checked[y]>>
    /\ \A c \in Codes : reports'[c] >= reports[c]

MStart(x) ==
    /\ pc[x] = "new" /\ pc'[x] = "ready"
    /\ Still(x) /\ Calm(x) /\ Silent(x) /\ UNCHANGED <<at[x], ans[x], cp[x], lost[x]>>

MCall(x) ==
    /\ pc[x] \in {"ready", "again"} /\ pc'[x] \in {"called", "calledAgain"}
    /\ Still(x) /\ Silent(x) /\ UNCHANGED <<at[x], cp[x], lost[x], resumes[x]>>
    /\ ans'[x] \in Answers(x)
    /\ \A c \in Codes :
          LET creates == Tool(x) = "create_report" /\ ans'[x].data = "done" /\ c = Stock(x)
              checks  == Tool(x) = "list_today_reports" /\ ans'[x].out = "ok" /\ c = Stock(x)
          IN  /\ reports'[c] = IF creates THEN reports[c] + 1 ELSE reports[c]
              /\ created'[x][c] = IF creates THEN created[x][c] + 1 ELSE created[x][c]
              /\ checked[x][c] => checked'[x][c]
              /\ checks /\ ans'[x].data = "none" => checked'[x][c]

MFail(x) ==
    /\ pc[x] \in AtStep \ {"new"}
    /\ Calm(x) /\ UNCHANGED at[x] /\ cp'[x] \in {cp[x], "running", "unreadable"}
    /\ unsaved[x] => unsaved'[x]
    /\ IF InStock(x)
       THEN /\ mem'[x] = Failed(mem[x], Stock(x)) /\ pc'[x] = "next" /\ Silent(x)
            /\ Saved(x) \/ (mem[x].st[Stock(x)] = "failed" /\ UNCHANGED <<disk[x], unsaved[x]>>)
       ELSE /\ pc'[x] = "ended" /\ result'[x] = "failed" /\ disk'[x] \in {disk[x], mem[x]}
            /\ verdict'[x] = IF resumes[x] = 0 THEN Verdict(mem'[x]) ELSE verdict[x]
            /\ \/ mem'[x] = mem[x]
               \/ /\ pc[x] = "calledAgain" /\ Tool(x) = "get_report_bot_codes"
                  /\ mem'[x] = Effect(mem[x], Tool(x), at[x][1], ans[x])
    /\ IF pc[x] \in {"called", "calledAgain"} \/ (pc[x] = "applied" /\ ans[x].out = "ok")
       THEN Forgets(x) ELSE UNCHANGED lost[x]

MApply(x) ==
    /\ pc[x] = "called" /\ pc'[x] = "applied"
    /\ mem'[x] = Effect(mem[x], Tool(x), at[x][1], ans[x]) /\ disk'[x] = mem'[x]
    /\ Calm(x) /\ Silent(x) /\ UNCHANGED <<at[x], ans[x], cp[x], unsaved[x]>>
    /\ IF ans[x].out = "ok" THEN UNCHANGED lost[x] ELSE Forgets(x)

\* The step is done and its stock skipped for want of a pre-market report.
MSkip(x) ==
    /\ pc[x] \in {"applied", "calledAgain"} /\ pc'[x] = "next"
    /\ Tool(x) = "get_stock_daily_reports" /\ InStock(x)
    /\ mem'[x] = [Marked(mem[x], at[x][1], at[x][2]) EXCEPT !.st[Stock(x)] = "skipped"]
    /\ Saved(x) /\ Calm(x) /\ Silent(x) /\ UNCHANGED <<at[x], lost[x]>>
    /\ cp'[x] \in {cp[x], "running", "unreadable"}

\* The step is done, w being the working state its answer left.
MMark(x, w) ==
    LET b == at[x][1]
        i == at[x][2]
    IN
    /\ \/ /\ pc[x] = "applied" /\ (ans[x].out = "ok" \/ Tool(x) \in Optional)
          /\ w = mem[x] /\ UNCHANGED <<disk[x], unsaved[x], lost[x]>>
       \/ /\ pc[x] = "calledAgain" /\ ans[x].out = "ok"
          /\ \/ /\ w = Effect(mem[x], Tool(x), b, ans[x]) /\ UNCHANGED lost[x]
                /\ \/ disk'[x] = w /\ UNCHANGED unsaved[x]
                   \/ w = mem[x] /\ unsaved'[x] = TRUE /\ UNCHANGED disk[x]
             \/ w = mem[x] /\ unsaved'[x] = TRUE /\ UNCHANGED disk[x] /\ Forgets(x)
    /\ mem'[x] = Marked(w, b, i)
    /\ Calm(x) /\ Silent(x) /\ cp'[x] \in {cp[x], "running", "unreadable"}
    /\ \/ /\ b = 0 /\ Tool(x) = "check_trading_day" /\ w.day = "no" /\ ~Backfill
          /\ pc'[x] = "finish" /\ UNCHANGED at[x]
       \/ /\ InStock(x) /\ Tool(x) = "list_today_reports" /\ w.st[Stock(x)] = "skipped"
          /\ pc'[x] = "next" /\ UNCHANGED at[x]
       \/ /\ ~(b = 0 /\ Tool(x) = "check_trading_day" /\ w.day = "no" /\ ~Backfill)
          /\ ~(InStock(x) /\ Tool(x) = "list_today_reports" /\ w.st[Stock(x)] = "skipped")
          /\ MovesOn(x, Marked(w, b, i), b, i + 1)

MAgain(x) ==
    /\ pc[x] = "applied" /\ pc'[x] = "again" /\ ans[x].out = "err" /\ Tool(x) \notin Optional
    /\ Still(x) /\ Calm(x) /\ Silent(x) /\ UNCHANGED <<at[x], lost[x]>>
    /\ cp'[x] \in {cp[x], "running", "unreadable"}

MPhaseB(x) ==
    LET w == mem[x]
        runs == PerStock # <<>> /\ (w.day # "no" \/ Backfill)
    IN
    /\ pc[x] = "phaseB" /\ pc'[x] = IF runs THEN "next" ELSE "finish"
    /\ mem'[x] = [w EXCEPT !.phase = IF runs THEN "phase_b"
                                     ELSE IF w.day = "yes" /\ w.bots = <<>> THEN "done" ELSE @]
    /\ IF runs THEN at'[x] = <<0, 0>> ELSE UNCHANGED at[x]
    /\ Saved(x) /\ Calm(x) /\ Silent(x) /\ UNCHANGED <<cp[x], lost[x]>>

MNext(x, b) ==
    LET w == mem[x]
        v == IF w.st[w.bots[b]] = "pending" THEN [w EXCEPT !.st[w.bots[b]] = "collecting"] ELSE w
    IN
    /\ pc[x] = "next"
    /\ b \in (at[x][1] + 1)..Len(w.bots) /\ w.st[w.bots[b]] \notin {"reported", "skipped"}
    /\ \A k \in (at[x][1] + 1)..(b - 1) : w.st[w.bots[k]] \in {"reported", "skipped"}
    /\ mem'[x] = v
    /\ \/ Todo(v, b, 1) # {} /\ pc'[x] = "ready" /\ at'[x] = <<b, First(Todo(v, b, 1))>>
       \/ Todo(v, b, 1) = {} /\ pc'[x] = "next" /\ at'[x] = <<b, 0>>
    /\ Saved(x) /\ Calm(x) /\ Silent(x) /\ UNCHANGED <<cp[x], lost[x]>>

MDone(x) ==
    LET w == mem[x] IN
    /\ pc[x] = "next" /\ pc'[x] = "finish"
    /\ \A b \in (at[x][1] + 1)..Len(w.bots) : w.st[w.bots[b]] \in {"reported", "skipped"}
    /\ mem'[x] = IF w.bots # <<>> /\ \A c \in Listed(w) : w.st[c] \in {"reported", "skipped"}
                 THEN [w EXCEPT !.phase = "done"] ELSE w
    /\ Saved(x) /\ Calm(x) /\ Silent(x) /\ UNCHANGED <<at[x], cp[x], lost[x]>>

MFinish(x) ==
    /\ pc[x] = "finish" /\ pc'[x] = "ended"
    /\ Still(x) /\ Calm(x) /\ UNCHANGED <<at[x], lost[x]>>
    /\ verdict'[x] = IF resumes[x] = 0 THEN Verdict(mem[x]) ELSE verdict[x]
    /\ \/ cp'[x] = "completed" /\ result'[x] = "completed"
       \/ result'[x] = "failed" /\ cp'[x] \in {cp[x], "unreadable"}

MCancel(x) ==
    /\ Still(x) /\ Calm(x) /\ Silent(x)
    /\ UNCHANGED <<pc[x], at[x], ans[x], cp[x], lost[x]>>

MCrash(x) ==
    /\ pc[x] \in Running /\ pc'[x] = "crashed"
    /\ Still(x) /\ cp'[x] \in {cp[x], "unreadable"} /\ Calm(x) /\ Silent(x)
    /\ IF pc[x] \in {"called", "calledAgain"} THEN Forgets(x) ELSE UNCHANGED lost[x]

MResume(x) ==
    LET w == disk[x] IN
    /\ pc[x] \in {"crashed", "ended"} /\ resumes'[x] > 0
    /\ mem'[x] = w
    /\ UNCHANGED <<disk[x], unsaved[x], cp[x], lost[x], created[x], checked[x], reports, verdict[x]>>
    /\ \/ /\ cp[x] = "completed" \/ w.phase = "done"
          /\ pc'[x] = "ended" /\ result'[x] = "completed"
       \/ /\ cp[x] # "completed" /\ w.phase # "done"
          /\ \/ Todo(w, 0, 1) # {} /\ pc'[x] = "ready" /\ at'[x] = <<0, First(Todo(w, 0, 1))>>
             \/ Todo(w, 0, 1) = {} /\ pc'[x] = "phaseB"

Moves(x) ==
    \/ MStart(x) \/ MCall(x) \/ MFail(x) \/ MApply(x) \/ MSkip(x) \/ (\E w \in Working : MMark(x, w))
    \/ MAgain(x) \/ MPhaseB(x) \/ (\E b \in Nat : MNext(x, b)) \/ MDone(x) \/ MFinish(x)
    \/ MCancel(x) \/ MCrash(x) \/ MResume(x)

\* What the types say of one session's variables.
LEMMA Domains ==
    ASSUME TInv, NEW y \in Sessions
    PROVE  /\ mem[y] \in Working /\ disk[y] \in Working /\ at[y] \in Nat \X Nat
           /\ pc[y] \in Running \union {"new", "crashed", "ended"}
           /\ created[y] \in [Codes -> Nat] /\ lost[y] \in [Codes -> Nat]
           /\ checked[y] \in [Codes -> BOOLEAN] /\ unsaved[y] \in BOOLEAN
           /\ resumes[y] \in Nat
BY FaultAssumption DEF TInv, Types, Positions, FaultAssumption

LEMMA SavedAt ==
    ASSUME TInv, NEW x \in Sessions, NEW w, mem'[x] = w, Saves(x, w)
    PROVE  Saved(x) /\ \A y \in Sessions \ {x} : UNCHANGED <<disk[y], unsaved[y]>>
BY DEF TInv, Types, Saves, Set, Saved

LEMMA ForgetAt ==
    ASSUME TInv, NEW x \in Sessions, Forget(x)
    PROVE  Forgets(x) /\ \A y \in Sessions \ {x} : UNCHANGED lost[y]
BY DEF TInv, Types, Forget, Forgets

LEMMA ReturnAt ==
    ASSUME TInv, NEW x \in Sessions, NEW s, NEW w, Return(x, s, w)
    PROVE  /\ pc'[x] = "ended" /\ result'[x] = s
           /\ verdict'[x] = IF resumes[x] = 0 THEN Verdict(w) ELSE verdict[x]
           /\ \A y \in Sessions \ {x} : UNCHANGED <<pc[y], result[y], verdict[y]>>
BY DEF TInv, Types, Return, Set

LEMMA GoOnAt ==
    ASSUME TInv, NEW x \in Sessions, NEW w, NEW b, NEW i, GoOn(x, w, b, i)
    PROVE  MovesOn(x, w, b, i) /\ \A y \in Sessions \ {x} : UNCHANGED <<pc[y], at[y]>>
BY DEF TInv, Types, Positions, GoOn, MovesOn, Set

\* The variables most steps leave alone.
LEMMA CalmAt ==
    ASSUME TInv, NEW x \in Sessions, UNCHANGED <<resumes, reports, created, checked>>
    PROVE  /\ Calm(x) /\ \A c \in Codes : reports'[c] >= reports[c]
           /\ \A y \in Sessions : UNCHANGED <<resumes[y], created[y], checked[y]>>
BY DEF TInv, Types, Calm

LEMMA StartMove == ASSUME TInv, NEW x \in Sessions, Start(x) PROVE MStart(x) /\ Others(x)
<1>1. /\ pc[x] = "new" /\ pc' = [pc EXCEPT ![x] = "ready"]
      /\ UNCHANGED <<at, mem, persistent, ans, cancelled, verdict, result, resumes, crashes, service>>
  BY DEF Start, Set
<1>2. pc'[x] = "ready" /\ \A y \in Sessions \ {x} : UNCHANGED pc[y]  BY <1>1 DEF TInv, Types
<1>3. Calm(x) /\ \A c \in Codes : reports'[c] >= reports[c]  BY <1>1, CalmAt DEF service
<1> QED  BY <1>1, <1>2, <1>3 DEF MStart, Others, Still, Silent, persistent, service

LEMMA DispatchMove == ASSUME TInv, NEW x \in Sessions, Dispatch(x) PROVE MCall(x) /\ Others(x)
<1> DEFINE c0 == Stock(x)
<1>1. PICK a \in Answers(x) :
          /\ ans' = [ans EXCEPT ![x] = a]
          /\ IF Tool(x) = "create_report" /\ a.data = "done"
             THEN /\ reports' = [reports EXCEPT ![c0] = @ + 1]
                  /\ created' = [created EXCEPT ![x][c0] = @ + 1]
             ELSE UNCHANGED <<reports, created>>
          /\ checked' = IF Tool(x) = "list_today_reports" /\ a.out = "ok"
                        THEN [checked EXCEPT ![x][c0] = @ \/ a.data = "none"]
                        ELSE checked
  BY DEF Dispatch, Set
<1>2. /\ pc[x] \in {"ready", "again"}
      /\ pc' \in {[pc EXCEPT ![x] = "called"], [pc EXCEPT ![x] = "calledAgain"]}
      /\ UNCHANGED <<at, mem, persistent, cancelled, verdict, result, resumes, crashes, lost>>
  BY DEF Dispatch, Set
<1>3. Tool(x) \in {"create_report", "list_today_reports"} => c0 \in Codes
  BY <1>2, StepPlace DEF AtStep
<1>4. /\ reports \in [Codes -> Nat] /\ created \in [Sessions -> [Codes -> Nat]]
      /\ checked \in [Sessions -> [Codes -> BOOLEAN]] /\ ans \in [Sessions -> Answer \union {NoAnswer}]
  BY DEF TInv, Types, AnswersFit
<1> HIDE DEF c0
<1>5. ans'[x] = a /\ \A y \in Sessions \ {x} : UNCHANGED ans[y]  BY <1>1, <1>4
<1>6. \A c \in Codes :
         LET creates == Tool(x) = "create_report" /\ a.data = "done" /\ c = c0
         IN  /\ reports'[c] = IF creates THEN reports[c] + 1 ELSE reports[c]
             /\ created'[x][c] = IF creates THEN created[x][c] + 1 ELSE created[x][c]
  BY <1>1, <1>3, <1>4
<1>7. \A y \in Sessions \ {x} : UNCHANGED <<created[y], checked[y]>>  BY <1>1, <1>4
<1>8. \A c \in Codes : reports'[c] >= reports[c]  BY <1>4, <1>6
<1>9. \A c \in Codes : checked[x][c] => checked'[x][c]
  <2>1. CASE Tool(x) = "list_today_reports" /\ a.out = "ok"
    <3>1. checked' = [checked EXCEPT ![x] = [checked[x] EXCEPT ![c0] = checked[x][c0] \/ a.data = "none"]]
      BY <1>1, <2>1
    <3>2. checked'[x] = [checked[x] EXCEPT ![c0] = checked[x][c0] \/ a.data = "none"]  BY <1>4, <3>1
    <3> QED  BY <1>4, <3>2, Zenon
  <2> QED  BY <1>1, <2>1
<1>10. Tool(x) = "list_today_reports" /\ a.out = "ok" /\ a.data = "none" => checked'[x][c0]
  <2>1. SUFFICES ASSUME Tool(x) = "list_today_reports", a.out = "ok", a.data = "none"
                 PROVE  checked'[x][c0]
    OBVIOUS
  <2>2. checked' = [checked EXCEPT ![x] = [checked[x] EXCEPT ![c0] = checked[x][c0] \/ a.data = "none"]]
    BY <1>1, <2>1
  <2>3. checked'[x] = [checked[x] EXCEPT ![c0] = checked[x][c0] \/ a.data = "none"]  BY <1>4, <2>2
  <2>4. c0 \in DOMAIN checked[x]  BY <1>3, <1>4, <2>1
  <2>5. checked'[x][c0] = (checked[x][c0] \/ a.data = "none")  BY <2>3, <2>4
  <2> QED  BY <2>1, <2>5
<1>11. pc'[x] \in {"called", "calledAgain"} /\ \A y \in Sessions \ {x} : UNCHANGED pc[y]
  BY <1>2 DEF TInv, Types
<1>12. Still(x) /\ Silent(x) /\ UNCHANGED <<at[x], cp[x], lost[x], resumes[x]>>
  BY <1>2 DEF Still, Silent, persistent
<1>13. MCall(x)
  BY <1>1, <1>2, <1>5, <1>6, <1>9, <1>10, <1>11, <1>12 DEF MCall, c0
<1> QED  BY <1>2, <1>5, <1>7, <1>8, <1>11, <1>13 DEF Others, persistent

\* What a failing step does, w being the working state it fails with.
LEMMA FailMove ==
    ASSUME TInv, NEW x \in Sessions, pc[x] \in AtStep \ {"new"}, NEW w, Fails(x, w),
           \/ w = mem[x]
           \/ /\ pc[x] = "calledAgain" /\ Tool(x) = "get_report_bot_codes" /\ ~InStock(x)
              /\ w = Effect(mem[x], Tool(x), at[x][1], ans[x]),
           UNCHANGED <<at, resumes, reports, created, checked>>,
           cp' \in {cp, [cp EXCEPT ![x] = "running"], [cp EXCEPT ![x] = "unreadable"]},
           ans' \in {ans, [ans EXCEPT ![x] = NoAnswer]},
           \A y \in Sessions \ {x} : UNCHANGED lost[y],
           IF pc[x] \in {"called", "calledAgain"} \/ (pc[x] = "applied" /\ ans[x].out = "ok")
           THEN Forgets(x) ELSE UNCHANGED lost[x]
    PROVE  MFail(x) /\ Others(x)
<1>1. /\ Calm(x) /\ \A c \in Codes : reports'[c] >= reports[c]
      /\ \A y \in Sessions : UNCHANGED <<resumes[y], created[y], checked[y]>>
  BY CalmAt
<1>2. /\ cp'[x] \in {cp[x], "running", "unreadable"} /\ UNCHANGED at[x]
      /\ \A y \in Sessions \ {x} : UNCHANGED <<at[y], cp[y], ans[y]>>
  BY DEF TInv, Types, AnswersFit
<1>3. CASE InStock(x)
  <2> DEFINE v == Failed(w, Stock(x))
  <2>1. w = mem[x]  BY <1>3
  <2>2. /\ mem' = [mem EXCEPT ![x] = v] /\ pc' = [pc EXCEPT ![x] = "next"]
        /\ UNCHANGED <<verdict, result>>
        /\ (w.st[Stock(x)] = "failed" /\ UNCHANGED <<disk, unsaved>>) \/ Saves(x, v)
    BY <1>3 DEF Fails, Set
  <2> HIDE DEF v
  <2>3. mem'[x] = v /\ pc'[x] = "next" /\ \A y \in Sessions \ {x} : UNCHANGED <<mem[y], pc[y]>>
    BY <2>2 DEF TInv, Types
  <2>4. /\ Saved(x) \/ (w.st[Stock(x)] = "failed" /\ UNCHANGED <<disk[x], unsaved[x]>>)
        /\ \A y \in Sessions \ {x} : UNCHANGED <<disk[y], unsaved[y]>>
    BY <2>2, <2>3, SavedAt
  <2>5. unsaved[x] => unsaved'[x]  BY <2>4 DEF Saved
  <2>6. MFail(x)
    BY <1>1, <1>2, <1>3, <2>1, <2>2, <2>3, <2>4, <2>5 DEF MFail, Silent, v
  <2> QED  BY <1>1, <1>2, <2>2, <2>3, <2>4, <2>6 DEF Others
<1>4. CASE ~InStock(x)
  <2>1. mem' = [mem EXCEPT ![x] = w] /\ Return(x, "failed", w) /\ UNCHANGED <<disk, unsaved>>
    BY <1>4 DEF Fails, Set
  <2>2. mem'[x] = w /\ \A y \in Sessions \ {x} : UNCHANGED mem[y]  BY <2>1 DEF TInv, Types
  <2>3. /\ pc'[x] = "ended" /\ result'[x] = "failed"
        /\ verdict'[x] = IF resumes[x] = 0 THEN Verdict(w) ELSE verdict[x]
        /\ \A y \in Sessions \ {x} : UNCHANGED <<pc[y], result[y], verdict[y]>>
    BY <2>1, ReturnAt
  <2>4. MFail(x)
    BY <1>1, <1>2, <1>4, <2>1, <2>2, <2>3 DEF MFail
  <2> QED  BY <1>1, <1>2, <2>1, <2>2, <2>3, <2>4 DEF Others
<1> QED  BY <1>3, <1>4

LEMMA RefusedMove == ASSUME TInv, NEW x \in Sessions, StepRefused(x) PROVE MFail(x) /\ Others(x)
<1>1. /\ pc[x] \in {"ready", "again"} /\ pc[x] \in AtStep \ {"new"}
      /\ UNCHANGED <<at, cp, ans, cancelled, resumes, crashes, reports, created, lost, checked>>
  BY DEF StepRefused, AtStep, service
<1>2. CASE Fails(x, mem[x])
  BY <1>1, <1>2, FailMove
<1>3. /\ Calm(x) /\ \A c \in Codes : reports'[c] >= reports[c]
      /\ \A y \in Sessions : UNCHANGED <<resumes[y], created[y], checked[y]>>
  BY <1>1, CalmAt
<1>4. CASE InStock(x) /\ ~Fails(x, mem[x])
  <2> DEFINE v == Failed(mem[x], Stock(x))
  <2>1. /\ mem' = [mem EXCEPT ![x] = v] /\ pc' = [pc EXCEPT ![x] = "next"]
        /\ UNCHANGED <<verdict, result>> /\ Saves(x, v)
    BY <1>4, ButFiles DEF StepRefused, Set
  <2> HIDE DEF v
  <2>2. mem'[x] = v /\ pc'[x] = "next" /\ \A y \in Sessions \ {x} : UNCHANGED <<mem[y], pc[y]>>
    BY <2>1 DEF TInv, Types
  <2>3. Saved(x) /\ \A y \in Sessions \ {x} : UNCHANGED <<disk[y], unsaved[y]>>
    BY <2>1, <2>2, SavedAt
  <2>4. MFail(x)
    BY <1>1, <1>3, <1>4, <2>1, <2>2, <2>3 DEF MFail, Silent, Saved, v
  <2> QED  BY <1>1, <1>3, <2>1, <2>2, <2>3, <2>4 DEF Others
<1>5. CASE ~InStock(x) /\ ~Fails(x, mem[x])
  <2>1. Saves(x, mem[x]) /\ Return(x, "failed", mem[x]) /\ UNCHANGED mem
    BY <1>5, ButFiles DEF StepRefused
  <2>2. Saved(x) /\ \A y \in Sessions \ {x} : UNCHANGED <<disk[y], unsaved[y]>>
    BY <2>1, SavedAt
  <2>3. /\ pc'[x] = "ended" /\ result'[x] = "failed"
        /\ verdict'[x] = IF resumes[x] = 0 THEN Verdict(mem[x]) ELSE verdict[x]
        /\ \A y \in Sessions \ {x} : UNCHANGED <<pc[y], result[y], verdict[y]>>
    BY <2>1, ReturnAt
  <2>4. MFail(x)
    BY <1>1, <1>3, <1>5, <2>1, <2>2, <2>3 DEF MFail, Saved
  <2> QED  BY <1>1, <1>3, <2>1, <2>2, <2>3, <2>4 DEF Others
<1> QED  BY <1>2, <1>4, <1>5

LEMMA ApplyMove ==
    ASSUME TInv, NEW x \in Sessions, Apply(x)
    PROVE  (MApply(x) \/ MFail(x)) /\ Others(x)
<1> DEFINE w == Effect(mem[x], Tool(x), at[x][1], ans[x])
<1>1. /\ pc[x] = "called" /\ pc[x] \in AtStep \ {"new"}
      /\ UNCHANGED <<at, cp, cancelled, resumes, crashes, reports, created, checked>>
  BY DEF Apply, AtStep
<1>2. \/ /\ mem' = [mem EXCEPT ![x] = w] /\ disk' = [disk EXCEPT ![x] = w]
         /\ pc' = [pc EXCEPT ![x] = "applied"] /\ UNCHANGED <<ans, unsaved, verdict, result>>
         /\ IF ans[x].out = "ok" THEN UNCHANGED lost ELSE Forget(x)
      \/ /\ Fails(x, mem[x]) /\ ans' = [ans EXCEPT ![x] = NoAnswer] /\ Forget(x)
  BY ButFiles DEF Apply, Set
<1> HIDE DEF w
<1>3. CASE /\ mem' = [mem EXCEPT ![x] = w] /\ disk' = [disk EXCEPT ![x] = w]
           /\ pc' = [pc EXCEPT ![x] = "applied"] /\ UNCHANGED <<ans, unsaved, verdict, result>>
           /\ IF ans[x].out = "ok" THEN UNCHANGED lost ELSE Forget(x)
  <2>1. /\ mem'[x] = w /\ disk'[x] = w /\ pc'[x] = "applied"
        /\ \A y \in Sessions \ {x} : UNCHANGED <<mem[y], disk[y], pc[y]>>
    BY <1>3 DEF TInv, Types
  <2>2. /\ IF ans[x].out = "ok" THEN UNCHANGED lost[x] ELSE Forgets(x)
        /\ \A y \in Sessions \ {x} : UNCHANGED lost[y]
    BY <1>3, ForgetAt
  <2>3. /\ Calm(x) /\ \A c \in Codes : reports'[c] >= reports[c]
        /\ \A y \in Sessions : UNCHANGED <<resumes[y], created[y], checked[y]>>
    BY <1>1, CalmAt
  <2>4. MApply(x)  BY <1>1, <1>3, <2>1, <2>2, <2>3 DEF MApply, Silent, w
  <2> QED  BY <1>1, <1>3, <2>1, <2>2, <2>3, <2>4 DEF Others
<1>4. CASE Fails(x, mem[x]) /\ ans' = [ans EXCEPT ![x] = NoAnswer] /\ Forget(x)
  <2>1. Forgets(x) /\ \A y \in Sessions \ {x} : UNCHANGED lost[y]  BY <1>4, ForgetAt
  <2> QED  BY <1>1, <1>4, <2>1, FailMove
<1> QED  BY <1>2, <1>3, <1>4

\* The end of a step after its first answer.
LEMMA ConcludeMove ==
    ASSUME TInv, NEW x \in Sessions, Conclude(x)
    PROVE  (MFail(x) \/ MSkip(x) \/ (\E w \in Working : MMark(x, w)) \/ MAgain(x)) /\ Others(x)
<1> DEFINE b == at[x][1]
           i == at[x][2]
           done == Marked(mem[x], b, i)
           skipped == [done EXCEPT !.st[Stock(x)] = "skipped"]
           good == ans[x].out = "ok" \/ Tool(x) \in Optional
           skip == /\ InStock(x) /\ mem[x].st[Stock(x)] = "skipped"
                   /\ Tool(x) = "list_today_reports"
           closed == b = 0 /\ Tool(x) = "check_trading_day" /\ mem[x].day = "no" /\ ~Backfill
<1>1. /\ pc[x] = "applied" /\ pc[x] \in AtStep \ {"new"} /\ ans' = [ans EXCEPT ![x] = NoAnswer]
      /\ UNCHANGED <<cancelled, resumes, crashes, reports, created, checked>>
      /\ cp' \in {cp, [cp EXCEPT ![x] = "running"], [cp EXCEPT ![x] = "unreadable"]}
  BY ButFiles DEF Conclude, AtStep, Set
<1>2. \/ /\ Fails(x, mem[x]) /\ at' = at
         /\ IF ans[x].out = "ok" THEN Forget(x) ELSE UNCHANGED lost
      \/ /\ InStock(x) /\ Tool(x) = "get_stock_daily_reports" /\ UNCHANGED lost
         /\ mem' = [mem EXCEPT ![x] = skipped] /\ Saves(x, skipped)
         /\ pc' = [pc EXCEPT ![x] = "next"] /\ UNCHANGED <<at, verdict, result>>
      \/ /\ good /\ UNCHANGED lost
         /\ mem' = [mem EXCEPT ![x] = done] /\ UNCHANGED <<disk, unsaved, verdict, result>>
         /\ IF closed THEN pc' = [pc EXCEPT ![x] = "finish"] /\ at' = at
            ELSE IF skip THEN pc' = [pc EXCEPT ![x] = "next"] /\ at' = at
            ELSE GoOn(x, done, b, i + 1)
      \/ /\ ~good /\ ans[x].out = "err" /\ UNCHANGED lost /\ pc' = [pc EXCEPT ![x] = "again"]
         /\ UNCHANGED <<at, mem, disk, unsaved, verdict, result>>
      \/ ~good /\ ans[x].out = "fatal" /\ Fails(x, mem[x]) /\ UNCHANGED <<at, lost>>
  BY ButFiles DEF Conclude, Set
<1>3. /\ Calm(x) /\ \A c \in Codes : reports'[c] >= reports[c]
      /\ \A y \in Sessions : UNCHANGED <<resumes[y], created[y], checked[y]>>
  BY <1>1, CalmAt
<1>4. /\ cp'[x] \in {cp[x], "running", "unreadable"} /\ \A y \in Sessions \ {x} : UNCHANGED <<cp[y], ans[y]>>
  BY <1>1 DEF TInv, Types, AnswersFit
<1>5. mem[x] \in Working  BY DEF TInv, Types
<1>6. CASE Fails(x, mem[x]) /\ at' = at /\ IF ans[x].out = "ok" THEN Forget(x) ELSE UNCHANGED lost
  <2>1. /\ IF ans[x].out = "ok" THEN Forgets(x) ELSE UNCHANGED lost[x]
        /\ \A y \in Sessions \ {x} : UNCHANGED lost[y]
    BY <1>6, ForgetAt
  <2> QED  BY <1>1, <1>6, <2>1, FailMove
<1>7. CASE ~good /\ ans[x].out = "fatal" /\ Fails(x, mem[x]) /\ UNCHANGED <<at, lost>>
  BY <1>1, <1>7, FailMove
<1>8. CASE /\ InStock(x) /\ Tool(x) = "get_stock_daily_reports" /\ UNCHANGED lost
           /\ mem' = [mem EXCEPT ![x] = skipped] /\ Saves(x, skipped)
           /\ pc' = [pc EXCEPT ![x] = "next"] /\ UNCHANGED <<at, verdict, result>>
  <2>1. mem'[x] = skipped /\ pc'[x] = "next" /\ \A y \in Sessions \ {x} : UNCHANGED <<mem[y], pc[y]>>
    BY <1>8 DEF TInv, Types
  <2>2. Saved(x) /\ \A y \in Sessions \ {x} : UNCHANGED <<disk[y], unsaved[y]>>
    BY <1>8, <2>1, SavedAt
  <2>3. MSkip(x)  BY <1>1, <1>3, <1>4, <1>8, <2>1, <2>2 DEF MSkip, Silent
  <2> QED  BY <1>3, <1>4, <1>8, <2>1, <2>2, <2>3 DEF Others
<1>9. CASE /\ good /\ UNCHANGED lost
           /\ mem' = [mem EXCEPT ![x] = done] /\ UNCHANGED <<disk, unsaved, verdict, result>>
           /\ IF closed THEN pc' = [pc EXCEPT ![x] = "finish"] /\ at' = at
              ELSE IF skip THEN pc' = [pc EXCEPT ![x] = "next"] /\ at' = at
              ELSE GoOn(x, done, b, i + 1)
  <2>1. mem'[x] = done /\ \A y \in Sessions \ {x} : UNCHANGED mem[y]
    BY <1>9 DEF TInv, Types
  <2>2. /\ \/ closed /\ pc'[x] = "finish" /\ UNCHANGED at[x]
           \/ skip /\ pc'[x] = "next" /\ UNCHANGED at[x]
           \/ ~closed /\ ~skip /\ MovesOn(x, done, b, i + 1)
        /\ \A y \in Sessions \ {x} : UNCHANGED <<pc[y], at[y]>>
    <3> HIDE DEF closed, skip, done, b, i
    <3>1. CASE closed  BY <1>9, <3>1 DEF TInv, Types
    <3>2. CASE ~closed /\ skip  BY <1>9, <3>2 DEF TInv, Types
    <3>3. CASE ~closed /\ ~skip  BY <1>9, <3>3, GoOnAt
    <3> QED  BY <3>1, <3>2, <3>3
  <2>3. MMark(x, mem[x])
    BY <1>1, <1>3, <1>4, <1>9, <2>1, <2>2 DEF MMark, Silent
  <2> QED  BY <1>3, <1>4, <1>5, <1>9, <2>1, <2>2, <2>3 DEF Others
<1>10. CASE /\ ~good /\ ans[x].out = "err" /\ UNCHANGED lost /\ pc' = [pc EXCEPT ![x] = "again"]
            /\ UNCHANGED <<at, mem, disk, unsaved, verdict, result>>
  <2>1. pc'[x] = "again" /\ \A y \in Sessions \ {x} : UNCHANGED pc[y]  BY <1>10 DEF TInv, Types
  <2>2. MAgain(x)  BY <1>1, <1>3, <1>4, <1>10, <2>1 DEF MAgain, Still, Silent
  <2> QED  BY <1>3, <1>4, <1>10, <2>1, <2>2 DEF Others
<1> QED  BY <1>2, <1>6, <1>7, <1>8, <1>9, <1>10

LEMMA ConcludeAgainMove ==
    ASSUME TInv, NEW x \in Sessions, ConcludeAgain(x)
    PROVE  (MFail(x) \/ MSkip(x) \/ \E w \in Working : MMark(x, w)) /\ Others(x)
<1> DEFINE b == at[x][1]
           i == at[x][2]
           w == Effect(mem[x], Tool(x), b, ans[x])
           done(v) == Marked(v, b, i)
           skipped(v) == [done(v) EXCEPT !.st[Stock(x)] = "skipped"]
           closed(v) == b = 0 /\ Tool(x) = "check_trading_day" /\ v.day = "no" /\ ~Backfill
           skip(v) == /\ InStock(x) /\ Tool(x) = "list_today_reports"
                      /\ v.st[Stock(x)] = "skipped"
<1>1. /\ pc[x] = "calledAgain" /\ pc[x] \in AtStep \ {"new"} /\ ans' = [ans EXCEPT ![x] = NoAnswer]
      /\ UNCHANGED <<cp, cancelled, resumes, crashes, reports, created, checked>>
  BY DEF ConcludeAgain, AtStep, Set
<1>2. PICK v \in {w, mem[x]} :
      /\ IF ans[x].out = "ok" /\ v = w THEN UNCHANGED lost ELSE Forget(x)
      /\ \/ ans[x].out # "ok" /\ Fails(x, v) /\ at' = at
         \/ /\ ans[x].out = "ok" /\ InStock(x) /\ Tool(x) = "get_stock_daily_reports"
            /\ mem' = [mem EXCEPT ![x] = skipped(v)] /\ Saves(x, skipped(v))
            /\ pc' = [pc EXCEPT ![x] = "next"] /\ UNCHANGED <<at, verdict, result>>
         \/ /\ ans[x].out = "ok"
            /\ mem' = [mem EXCEPT ![x] = done(v)] /\ UNCHANGED <<verdict, result>>
            /\ \/ v = w /\ disk' = [disk EXCEPT ![x] = w] /\ UNCHANGED unsaved
               \/ v = mem[x] /\ disk' = disk /\ unsaved' = [unsaved EXCEPT ![x] = TRUE]
            /\ IF closed(v) THEN pc' = [pc EXCEPT ![x] = "finish"] /\ at' = at
               ELSE IF skip(v) THEN pc' = [pc EXCEPT ![x] = "next"] /\ at' = at
               ELSE GoOn(x, done(v), b, i + 1)
  BY ButFiles DEF ConcludeAgain, Set
<1>3. /\ Calm(x) /\ \A c \in Codes : reports'[c] >= reports[c]
      /\ \A y \in Sessions : UNCHANGED <<resumes[y], created[y], checked[y], cp[y]>>
      /\ \A y \in Sessions \ {x} : UNCHANGED ans[y]
  BY <1>1, CalmAt DEF TInv, AnswersFit
<1>4. /\ IF ans[x].out = "ok" /\ v = w THEN UNCHANGED lost[x] ELSE Forgets(x)
      /\ \A y \in Sessions \ {x} : UNCHANGED lost[y]
  BY <1>2, ForgetAt
<1>5. /\ mem[x] \in Working /\ w \in Working
      /\ b \in 0..Len(mem[x].bots) /\ i \in 1..Len(Steps(b)) /\ b \in Nat
  <2>1. mem[x] \in Working  BY DEF TInv, Types
  <2>2. b \in 0..Len(mem[x].bots) /\ i \in 1..Len(Steps(b)) /\ b \in Nat  BY <1>1, StepPlace
  <2>3. /\ ans[x] \in Answer
        /\ Tool(x) = "check_trading_day" /\ ans[x].out = "ok" => ans[x].data \in {"yes", "no"}
    BY <1>1 DEF TInv, AnswersFit
  <2> QED  BY <2>1, <2>2, <2>3, EffectType DEF Tool
<1>6. CASE ans[x].out # "ok" /\ Fails(x, v) /\ at' = at
  <2>1. w = mem[x] \/ (Tool(x) = "get_report_bot_codes" /\ ~InStock(x))
    <3>1. Tool(x) = "get_report_bot_codes" => ~InStock(x)
      BY <1>5, ToolPlace DEF Tool, InStock
    <3>2. Tool(x) # "get_report_bot_codes" => w = mem[x]  BY <1>6 DEF Effect
    <3> QED  BY <3>1, <3>2
  <2> HIDE DEF w
  <2>2. \/ v = mem[x]
        \/ v = w /\ Tool(x) = "get_report_bot_codes" /\ ~InStock(x)
    BY <1>2, <2>1
  <2> QED  BY <1>1, <1>4, <1>6, <2>2, FailMove DEF w
<1>7. CASE /\ ans[x].out = "ok" /\ InStock(x) /\ Tool(x) = "get_stock_daily_reports"
           /\ mem' = [mem EXCEPT ![x] = skipped(v)] /\ Saves(x, skipped(v))
           /\ pc' = [pc EXCEPT ![x] = "next"] /\ UNCHANGED <<at, verdict, result>>
  <2>1. w = mem[x] /\ v = mem[x]  BY <1>2, <1>7 DEF Effect
  <2> DEFINE sv == skipped(v)
  <2>2. mem' = [mem EXCEPT ![x] = sv] /\ Saves(x, sv)  BY <1>7
  <2> HIDE DEF sv
  <2>3. mem'[x] = sv /\ pc'[x] = "next" /\ \A y \in Sessions \ {x} : UNCHANGED <<mem[y], pc[y]>>
    BY <1>7, <2>2 DEF TInv, Types
  <2>4. Saved(x) /\ \A y \in Sessions \ {x} : UNCHANGED <<disk[y], unsaved[y]>>
    BY <2>2, <2>3, SavedAt
  <2>5. UNCHANGED lost[x]  BY <1>4, <1>7, <2>1
  <2>6. sv = [Marked(mem[x], b, i) EXCEPT !.st[Stock(x)] = "skipped"]  BY <2>1 DEF sv
  <2>7. MSkip(x)  BY <1>1, <1>3, <1>7, <2>3, <2>4, <2>5, <2>6 DEF MSkip, Silent
  <2> QED  BY <1>3, <1>4, <1>7, <2>3, <2>4, <2>7 DEF Others
<1>8. CASE /\ ans[x].out = "ok"
           /\ mem' = [mem EXCEPT ![x] = done(v)] /\ UNCHANGED <<verdict, result>>
           /\ \/ v = w /\ disk' = [disk EXCEPT ![x] = w] /\ UNCHANGED unsaved
              \/ v = mem[x] /\ disk' = disk /\ unsaved' = [unsaved EXCEPT ![x] = TRUE]
           /\ IF closed(v) THEN pc' = [pc EXCEPT ![x] = "finish"] /\ at' = at
              ELSE IF skip(v) THEN pc' = [pc EXCEPT ![x] = "next"] /\ at' = at
              ELSE GoOn(x, done(v), b, i + 1)
  <2> DEFINE dv == done(v)
             cl == closed(v)
             sk == skip(v)
  <2>1. mem' = [mem EXCEPT ![x] = dv]
        /\ IF cl THEN pc' = [pc EXCEPT ![x] = "finish"] /\ at' = at
           ELSE IF sk THEN pc' = [pc EXCEPT ![x] = "next"] /\ at' = at
           ELSE GoOn(x, dv, b, i + 1)
    BY <1>8
  <2> HIDE DEF dv, cl, sk
  <2>2. mem'[x] = dv /\ \A y \in Sessions \ {x} : UNCHANGED mem[y]
    BY <2>1 DEF TInv, Types
  <2>3. /\ \/ cl /\ pc'[x] = "finish" /\ UNCHANGED at[x]
           \/ sk /\ pc'[x] = "next" /\ UNCHANGED at[x]
           \/ ~cl /\ ~sk /\ MovesOn(x, dv, b, i + 1)
        /\ \A y \in Sessions \ {x} : UNCHANGED <<pc[y], at[y]>>
    <3> HIDE DEF b, i
    <3>1. CASE cl  BY <2>1, <3>1 DEF TInv, Types
    <3>2. CASE ~cl /\ sk  BY <2>1, <3>2 DEF TInv, Types
    <3>3. CASE ~cl /\ ~sk  BY <2>1, <3>3, GoOnAt
    <3> QED  BY <3>1, <3>2, <3>3
  <2>4. /\ \/ v = w /\ disk'[x] = w /\ UNCHANGED unsaved[x]
           \/ v = mem[x] /\ UNCHANGED disk[x] /\ unsaved'[x] = TRUE
        /\ \A y \in Sessions \ {x} : UNCHANGED <<disk[y], unsaved[y]>>
    <3> HIDE DEF w
    <3> QED  BY <1>8 DEF TInv, Types
  <2>5. \/ /\ v = w /\ UNCHANGED lost[x]
           /\ \/ disk'[x] = w /\ UNCHANGED unsaved[x]
              \/ w = mem[x] /\ unsaved'[x] = TRUE /\ UNCHANGED disk[x]
        \/ v = mem[x] /\ unsaved'[x] = TRUE /\ UNCHANGED disk[x] /\ Forgets(x)
    <3> HIDE DEF w
    <3> QED  BY <1>4, <1>8, <2>4
  <2>6. MMark(x, v)
    <3>1. cp'[x] = cp[x]  BY <1>1
    <3>2. pc[x] = "calledAgain" /\ ans[x].out = "ok" /\ Silent(x)  BY <1>1, <1>8 DEF Silent
    <3>3. dv = Marked(v, at[x][1], at[x][2])
      BY DEF dv
    <3> QED  BY <1>3, <2>2, <2>3, <2>5, <3>1, <3>2, <3>3 DEF MMark, cl, sk
  <2>7. v \in Working  BY <1>2, <1>5
  <2> QED  BY <1>3, <1>4, <1>8, <2>2, <2>3, <2>4, <2>6, <2>7 DEF Others
<1> QED  BY <1>2, <1>6, <1>7, <1>8

LEMMA PhaseBMove == ASSUME TInv, NEW x \in Sessions, BeginPhaseB(x) PROVE MPhaseB(x) /\ Others(x)
<1> DEFINE w == mem[x]
           runs == w.day # "no" \/ Backfill
           v == [w EXCEPT !.phase = IF PerStock # <<>> /\ runs THEN "phase_b"
                                    ELSE IF w.day = "yes" /\ w.bots = <<>> THEN "done" ELSE @]
<1>1. /\ pc[x] = "phaseB" /\ mem' = [mem EXCEPT ![x] = v] /\ Saves(x, v)
      /\ IF PerStock # <<>> /\ runs
         THEN pc' = [pc EXCEPT ![x] = "next"] /\ at' = [at EXCEPT ![x] = <<0, 0>>]
         ELSE pc' = [pc EXCEPT ![x] = "finish"] /\ at' = at
      /\ UNCHANGED <<cp, ans, cancelled, verdict, result, resumes, crashes, reports, created, lost, checked>>
  BY ButFiles DEF BeginPhaseB, Set, service
<1>2. /\ Calm(x) /\ \A c \in Codes : reports'[c] >= reports[c]
      /\ \A y \in Sessions : UNCHANGED <<resumes[y], created[y], checked[y]>>
  BY <1>1, CalmAt
<1> HIDE DEF v
<1>3. mem'[x] = v /\ \A y \in Sessions \ {x} : UNCHANGED mem[y]  BY <1>1 DEF TInv, Types
<1>4. Saved(x) /\ \A y \in Sessions \ {x} : UNCHANGED <<disk[y], unsaved[y]>>  BY <1>1, <1>3, SavedAt
<1>5. /\ pc'[x] = IF PerStock # <<>> /\ runs THEN "next" ELSE "finish"
      /\ IF PerStock # <<>> /\ runs THEN at'[x] = <<0, 0>> ELSE UNCHANGED at[x]
      /\ \A y \in Sessions \ {x} : UNCHANGED <<pc[y], at[y]>>
  BY <1>1 DEF TInv, Types, Positions
<1>6. MPhaseB(x)  BY <1>1, <1>2, <1>3, <1>4, <1>5 DEF MPhaseB, Silent, v
<1> QED  BY <1>1, <1>2, <1>3, <1>4, <1>5, <1>6 DEF Others

LEMMA NextStockMove ==
    ASSUME TInv, NEW x \in Sessions, NextStock(x)
    PROVE  (\E b \in Nat : MNext(x, b)) /\ Others(x)
<1> DEFINE w == mem[x]
           open == {k \in (at[x][1] + 1)..Len(w.bots) : w.st[w.bots[k]] \notin {"reported", "skipped"}}
           b == First(open)
           v == IF w.st[w.bots[b]] = "pending" THEN [w EXCEPT !.st[w.bots[b]] = "collecting"] ELSE w
<1>1. /\ open # {} /\ mem' = [mem EXCEPT ![x] = v] /\ Saves(x, v) /\ pc[x] = "next"
      /\ UNCHANGED <<cp, ans, cancelled, verdict, result, resumes, crashes, reports, created, lost, checked>>
      /\ IF Todo(v, b, 1) # {}
         THEN pc' = [pc EXCEPT ![x] = "ready"] /\ at' = [at EXCEPT ![x] = <<b, First(Todo(v, b, 1))>>]
         ELSE pc' = pc /\ at' = [at EXCEPT ![x] = <<b, 0>>]
  BY ButFiles DEF NextStock, Set, service
<1>2. /\ b \in Nat /\ b \in (at[x][1] + 1)..Len(w.bots) /\ w.st[w.bots[b]] \notin {"reported", "skipped"}
      /\ \A k \in (at[x][1] + 1)..(b - 1) : w.st[w.bots[k]] \in {"reported", "skipped"}
  <2>1. at[x] \in Nat \X Nat /\ Len(w.bots) \in Nat
    BY Domains, WorkingParts
  <2>2. open \subseteq Nat /\ open \subseteq (at[x][1] + 1)..Len(w.bots)  BY <2>1
  <2>3. b \in open /\ \A k \in open : b <= k
    <3> HIDE DEF open
    <3> QED  BY <1>1, <2>2, FirstIsFirst
  <2> HIDE DEF b
  <2>4. b \in Nat /\ b \in (at[x][1] + 1)..Len(w.bots) /\ w.st[w.bots[b]] \notin {"reported", "skipped"}
    BY <2>1, <2>3
  <2>5. ASSUME NEW k \in (at[x][1] + 1)..(b - 1) PROVE w.st[w.bots[k]] \in {"reported", "skipped"}
    BY <2>1, <2>3, <2>4
  <2> QED  BY <2>4, <2>5
<1> HIDE DEF open, b
<1>3. /\ Calm(x) /\ \A c \in Codes : reports'[c] >= reports[c]
      /\ \A y \in Sessions : UNCHANGED <<resumes[y], created[y], checked[y]>>
  BY <1>1, CalmAt
<1> HIDE DEF v
<1>4. mem'[x] = v /\ \A y \in Sessions \ {x} : UNCHANGED mem[y]  BY <1>1 DEF TInv, Types
<1>5. Saved(x) /\ \A y \in Sessions \ {x} : UNCHANGED <<disk[y], unsaved[y]>>  BY <1>1, <1>4, SavedAt
<1>6. /\ \/ Todo(v, b, 1) # {} /\ pc'[x] = "ready" /\ at'[x] = <<b, First(Todo(v, b, 1))>>
         \/ Todo(v, b, 1) = {} /\ pc'[x] = "next" /\ at'[x] = <<b, 0>>
      /\ \A y \in Sessions \ {x} : UNCHANGED <<pc[y], at[y]>>
  BY <1>1 DEF TInv, Types, Positions
<1>7. MNext(x, b)  BY <1>1, <1>2, <1>3, <1>4, <1>5, <1>6 DEF MNext, Silent, v
<1> QED  BY <1>1, <1>2, <1>3, <1>4, <1>5, <1>6, <1>7 DEF Others

LEMMA StocksDoneMove == ASSUME TInv, NEW x \in Sessions, StocksDone(x) PROVE MDone(x) /\ Others(x)
<1> DEFINE w == mem[x]
           v == IF w.bots # <<>> /\ \A c \in Listed(w) : w.st[c] \in {"reported", "skipped"}
                THEN [w EXCEPT !.phase = "done"] ELSE w
<1>1. /\ pc[x] = "next" /\ mem' = [mem EXCEPT ![x] = v] /\ Saves(x, v)
      /\ pc' = [pc EXCEPT ![x] = "finish"]
      /\ \A b \in (at[x][1] + 1)..Len(w.bots) : w.st[w.bots[b]] \in {"reported", "skipped"}
      /\ UNCHANGED <<at, cp, ans, cancelled, verdict, result, resumes, crashes, reports, created, lost, checked>>
  BY ButFiles DEF StocksDone, Set, service
<1>2. /\ Calm(x) /\ \A c \in Codes : reports'[c] >= reports[c]
      /\ \A y \in Sessions : UNCHANGED <<resumes[y], created[y], checked[y]>>
  BY <1>1, CalmAt
<1> HIDE DEF v
<1>3. mem'[x] = v /\ pc'[x] = "finish" /\ \A y \in Sessions \ {x} : UNCHANGED <<mem[y], pc[y]>>
  BY <1>1 DEF TInv, Types
<1>4. Saved(x) /\ \A y \in Sessions \ {x} : UNCHANGED <<disk[y], unsaved[y]>>  BY <1>1, <1>3, SavedAt
<1>5. MDone(x)  BY <1>1, <1>2, <1>3, <1>4 DEF MDone, Silent, v
<1> QED  BY <1>1, <1>2, <1>3, <1>4, <1>5 DEF Others

LEMMA LeaveMove ==
    ASSUME TInv, NEW x \in Sessions, Finish(x) \/ Cancel(x) \/ Crash(x) \/ Resume(x)
    PROVE  (MFinish(x) \/ MCancel(x) \/ MCrash(x) \/ MResume(x)) /\ Others(x)
<1>1. CASE Finish(x)
  <2>1. /\ pc[x] = "finish"
        /\ UNCHANGED <<at, mem, disk, unsaved, ans, resumes, lost, reports, created, checked>>
        /\ \/ cp' = [cp EXCEPT ![x] = "completed"] /\ Return(x, "completed", mem[x])
           \/ /\ cp' \in {cp, [cp EXCEPT ![x] = "unreadable"]}
              /\ Return(x, "failed", mem[x])
    BY <1>1 DEF Finish, service, Set
  <2>2. /\ pc'[x] = "ended"
        /\ verdict'[x] = IF resumes[x] = 0 THEN Verdict(mem[x]) ELSE verdict[x]
        /\ \A y \in Sessions \ {x} : UNCHANGED <<pc[y], result[y], verdict[y], cp[y]>>
        /\ \/ cp'[x] = "completed" /\ result'[x] = "completed"
           \/ result'[x] = "failed" /\ cp'[x] \in {cp[x], "unreadable"}
    BY <2>1, ReturnAt DEF TInv, Types
  <2>3. /\ Calm(x) /\ \A c \in Codes : reports'[c] >= reports[c]
        /\ \A y \in Sessions : UNCHANGED <<resumes[y], created[y], checked[y]>>
    BY <2>1, CalmAt
  <2>4. MFinish(x)  BY <2>1, <2>2, <2>3 DEF MFinish, Still
  <2> QED  BY <2>1, <2>2, <2>3, <2>4 DEF Others
<1>2. CASE Cancel(x)
  <2>1. UNCHANGED <<pc, at, mem, disk, cp, unsaved, ans, verdict, result, resumes, reports, created,
                    lost, checked>>
    BY <1>2 DEF Cancel, persistent, service
  <2>2. Calm(x) /\ \A c \in Codes : reports'[c] >= reports[c]  BY <2>1, CalmAt
  <2>3. MCancel(x)  BY <2>1, <2>2 DEF MCancel, Still, Silent
  <2> QED  BY <2>1, <2>2, <2>3 DEF Others
<1>3. CASE Crash(x)
  <2>1. /\ pc[x] \in Running /\ pc' = [pc EXCEPT ![x] = "crashed"]
        /\ cp' \in {cp, [cp EXCEPT ![x] = "unreadable"]} /\ ans' = [ans EXCEPT ![x] = NoAnswer]
        /\ IF pc[x] \in {"called", "calledAgain"} THEN Forget(x) ELSE UNCHANGED lost
        /\ UNCHANGED <<at, mem, disk, unsaved, verdict, result, resumes, reports, created, checked>>
    BY <1>3 DEF Crash, persistent, Set
  <2>2. /\ pc'[x] = "crashed" /\ cp'[x] \in {cp[x], "unreadable"}
        /\ \A y \in Sessions \ {x} : UNCHANGED <<pc[y], cp[y], ans[y]>>
    BY <2>1 DEF TInv, Types, AnswersFit
  <2>3. /\ IF pc[x] \in {"called", "calledAgain"} THEN Forgets(x) ELSE UNCHANGED lost[x]
        /\ \A y \in Sessions \ {x} : UNCHANGED lost[y]
    BY <2>1, ForgetAt
  <2>4. /\ Calm(x) /\ \A c \in Codes : reports'[c] >= reports[c]
        /\ \A y \in Sessions : UNCHANGED <<resumes[y], created[y], checked[y]>>
    BY <2>1, CalmAt
  <2>5. MCrash(x)  BY <2>1, <2>2, <2>3, <2>4 DEF MCrash, Silent, Still
  <2> QED  BY <2>1, <2>2, <2>3, <2>4, <2>5 DEF Others
<1>4. CASE Resume(x)
  <2> DEFINE w == disk[x]
  <2>1. /\ pc[x] \in {"crashed", "ended"}
        /\ resumes' = [resumes EXCEPT ![x] = resumes[x] + 1] /\ mem' = [mem EXCEPT ![x] = w]
        /\ UNCHANGED <<disk, cp, unsaved, ans, verdict, reports, created, lost, checked>>
        /\ IF cp[x] = "completed" \/ w.phase = "done"
           THEN /\ pc' = [pc EXCEPT ![x] = "ended"] /\ result' = [result EXCEPT ![x] = "completed"]
                /\ UNCHANGED at
           ELSE /\ result' = [result EXCEPT ![x] = "none"]
                /\ IF Todo(w, 0, 1) # {}
                   THEN /\ pc' = [pc EXCEPT ![x] = "ready"]
                        /\ at' = [at EXCEPT ![x] = <<0, First(Todo(w, 0, 1))>>]
                   ELSE pc' = [pc EXCEPT ![x] = "phaseB"] /\ at' = at
    BY <1>4 DEF Resume, persistent, service, Set
  <2> HIDE DEF w
  <2>2. /\ mem'[x] = w /\ resumes'[x] = resumes[x] + 1 /\ resumes[x] \in Nat
        /\ \A y \in Sessions \ {x} : UNCHANGED <<mem[y], resumes[y]>>
    <3>1. resumes[x] \in Nat  BY Domains
    <3> QED  BY <2>1, <3>1 DEF TInv, Types
  <2>3. /\ \/ /\ cp[x] = "completed" \/ w.phase = "done"
              /\ pc'[x] = "ended" /\ result'[x] = "completed"
           \/ /\ cp[x] # "completed" /\ w.phase # "done"
              /\ \/ Todo(w, 0, 1) # {} /\ pc'[x] = "ready" /\ at'[x] = <<0, First(Todo(w, 0, 1))>>
                 \/ Todo(w, 0, 1) = {} /\ pc'[x] = "phaseB"
        /\ \A y \in Sessions \ {x} : UNCHANGED <<pc[y], at[y], result[y]>>
    <3>1. CASE cp[x] = "completed" \/ w.phase = "done"  BY <2>1, <3>1 DEF TInv, Types
    <3>2. CASE cp[x] # "completed" /\ w.phase # "done"  BY <2>1, <3>2 DEF TInv, Types, Positions
    <3> QED  BY <3>1, <3>2
  <2>4. \A c \in Codes : reports'[c] >= reports[c]  BY <2>1 DEF TInv, Types
  <2>5. MResume(x)  BY <2>1, <2>2, <2>3 DEF MResume, w
  <2> QED  BY <2>1, <2>2, <2>3, <2>4, <2>5 DEF Others
<1> QED  BY <1>1, <1>2, <1>3, <1>4

\* Every step is a move of one session.
LEMMA NextMoves ==
    TInv /\ [Next]_vars => UNCHANGED vars \/ \E x \in Sessions : Moves(x) /\ Others(x)
<1> SUFFICES ASSUME TInv, NEW x \in Sessions, Step(x) \/ Cancel(x) \/ Crash(x) \/ Resume(x)
             PROVE  Moves(x) /\ Others(x)
  BY DEF Next, Terminated
<1>1. CASE Start(x) \/ Dispatch(x) \/ StepRefused(x) \/ Apply(x)
  BY <1>1, StartMove, DispatchMove, RefusedMove, ApplyMove DEF Moves
<1>2. CASE Conclude(x) \/ ConcludeAgain(x)
  BY <1>2, ConcludeMove, ConcludeAgainMove DEF Moves
<1>3. CASE BeginPhaseB(x) \/ NextStock(x) \/ StocksDone(x)
  BY <1>3, PhaseBMove, NextStockMove, StocksDoneMove DEF Moves
<1>4. CASE Finish(x) \/ Cancel(x) \/ Crash(x) \/ Resume(x)
  BY <1>4, LeaveMove DEF Moves
<1> QED  BY <1>1, <1>2, <1>3, <1>4 DEF Step
-----------------------------------------------------------------------------
(* Fields of a working state after an operation on it.                     *)

LEMMA FailedParts ==
    ASSUME NEW w \in Working, NEW c \in Codes
    PROVE  LET v == Failed(w, c) IN
           /\ v \in Working /\ v.keys = w.keys /\ v.bots = w.bots /\ v.day = w.day /\ v.phase = w.phase
           /\ v.st[c] = "failed" /\ \A d \in Codes : d # c => v.st[d] = w.st[d]
BY FailedType DEF Failed, Working

LEMMA MarkedParts ==
    ASSUME NEW w \in Working, NEW b \in 0..Len(w.bots), NEW i \in Nat
    PROVE  LET v == Marked(w, b, i) IN
           /\ v \in Working /\ v.keys = w.keys \union {Key(w, b, i)}
           /\ v.bots = w.bots /\ v.day = w.day /\ v.phase = w.phase /\ v.st = w.st
BY MarkedType DEF Marked, Working

WithStatus(w, c, s) == [w EXCEPT !.st[c] = s]

LEMMA StatusParts ==
    ASSUME NEW w \in Working, NEW c \in Codes, NEW s \in Statuses
    PROVE  LET v == WithStatus(w, c, s) IN
           /\ v \in Working /\ v.keys = w.keys /\ v.bots = w.bots /\ v.day = w.day /\ v.phase = w.phase
           /\ v.st[c] = s /\ \A d \in Codes : d # c => v.st[d] = w.st[d]
BY StatusType DEF Working, WithStatus

LEMMA PhaseParts ==
    ASSUME NEW w \in Working, NEW p \in {"init", "phase_a", "phase_b", "done"}
    PROVE  LET v == [w EXCEPT !.phase = p] IN
           /\ v \in Working /\ v.keys = w.keys /\ v.bots = w.bots /\ v.day = w.day /\ v.phase = p
           /\ v.st = w.st
BY PhaseType DEF Working

\* What an answer changes, tool by tool.
LEMMA EffectParts ==
    ASSUME NEW w \in Working, NEW t, NEW b, NEW a, t = "list_today_reports" \/ t = "create_report" => w.bots[b] \in Codes
    PROVE  LET v == Effect(w, t, b, a) IN
           /\ v.keys = w.keys
           /\ t = "check_trading_day" /\ a.out = "ok" =>
                 /\ v.st = w.st /\ v.bots = w.bots /\ v.day = a.data
                 /\ v.phase = IF a.data = "yes" THEN "phase_a" ELSE "done"
           /\ t = "get_report_bot_codes" =>
                 v.day = w.day /\ v.phase = w.phase /\ \A c \in Codes : v.st[c] \in {"pending", "absent"}
           /\ t \notin {"check_trading_day", "get_report_bot_codes"} =>
                 v.bots = w.bots /\ v.day = w.day /\ v.phase = w.phase
           /\ t = "list_today_reports" /\ a.out = "ok" /\ a.data = "reported" =>
                 /\ v.st[w.bots[b]] = "skipped"
                 /\ \A c \in Codes : c # w.bots[b] => v.st[c] = w.st[c]
           /\ t = "create_report" /\ a.out = "ok" =>
                 /\ v.st[w.bots[b]] = "reported"
                 /\ \A c \in Codes : c # w.bots[b] => v.st[c] = w.st[c]
           /\ ~(t = "list_today_reports" /\ a.out = "ok" /\ a.data = "reported")
                 /\ ~(t = "create_report" /\ a.out = "ok")
                 /\ ~(t = "check_trading_day" /\ a.out = "ok") /\ t # "get_report_bot_codes" => v = w
<1>1. CASE t = "check_trading_day" /\ a.out = "ok"  BY <1>1 DEF Effect, Working
<1>2. CASE t = "get_report_bot_codes"
  <2> DEFINE got == IF a.out = "ok" /\ a.data = "bots" THEN Bots ELSE <<>>
             st  == [c \in Codes |-> IF \E j \in DOMAIN got : got[j] = c
                                     THEN "pending" ELSE "absent"]
  <2>1. Effect(w, t, b, a) = [w EXCEPT !.bots = got, !.st = st]  BY <1>2 DEF Effect
  <2>2. \A c \in Codes : st[c] \in {"pending", "absent"}  OBVIOUS
  <2> HIDE DEF got, st
  <2> QED  BY <1>2, <2>1, <2>2 DEF Working
<1>3. CASE t = "list_today_reports" /\ a.out = "ok" /\ a.data = "reported"
  BY <1>3 DEF Effect, Working
<1>4. CASE t = "create_report" /\ a.out = "ok"
  BY <1>4 DEF Effect, Working
<1>5. CASE ~(\/ t = "check_trading_day" /\ a.out = "ok"
             \/ t = "get_report_bot_codes"
             \/ t = "list_today_reports" /\ a.out = "ok" /\ a.data = "reported"
             \/ t = "create_report" /\ a.out = "ok")
  BY <1>5 DEF Effect
<1> QED  BY <1>1, <1>2, <1>3, <1>4, <1>5

\* No tool but the creation of a report makes a stock reported.
LEMMA EffectReports ==
    ASSUME NEW w \in Working, NEW t, NEW b, NEW a, t \notin {"list_today_reports", "create_report"},
           NEW c \in Codes
    PROVE  LET v == Effect(w, t, b, a) IN
           /\ v.keys = w.keys
           /\ v.st[c] = "reported" => w.st[c] = "reported" /\ t # "get_report_bot_codes"
<1> DEFINE v == Effect(w, t, b, a)
<1>1. v.keys = w.keys  BY EffectParts
<1>2. CASE t = "get_report_bot_codes"
  <2>1. v.st[c] \in {"pending", "absent"}  BY <1>2, EffectParts
  <2> QED  BY <1>1, <1>2, <2>1
<1>3. CASE t # "get_report_bot_codes"
  <2>1. CASE t = "check_trading_day" /\ a.out = "ok"
    <3>1. v.st = w.st  BY <2>1, EffectParts
    <3> QED  BY <1>1, <1>3, <3>1
  <2>2. CASE ~(t = "check_trading_day" /\ a.out = "ok")
    <3>1. v = w  BY <1>3, <2>2, EffectParts
    <3> QED  BY <1>3, <3>1
  <2> QED  BY <2>1, <2>2
<1> QED  BY <1>2, <1>3

\* The first step still to do: those before it are complete.
LEMMA TodoFirst ==
    ASSUME NEW w, NEW b, NEW i \in Nat \ {0}, \A j \in 1..(i - 1) : Key(w, b, j) \in w.keys
    PROVE  /\ Todo(w, b, i) = {} => \A j \in 1..Len(Steps(b)) : Key(w, b, j) \in w.keys
           /\ Todo(w, b, i) # {} =>
                LET k == First(Todo(w, b, i)) IN
                /\ k \in 1..Len(Steps(b)) /\ k \in i..Len(Steps(b)) /\ Key(w, b, k) \notin w.keys
                /\ \A j \in 1..(k - 1) : Key(w, b, j) \in w.keys
<1>1. Len(Steps(b)) \in Nat  BY StepsLen
<1>2. CASE Todo(w, b, i) = {}  BY <1>1, <1>2 DEF Todo
<1>3. CASE Todo(w, b, i) # {}
  <2> DEFINE k == First(Todo(w, b, i))
  <2>1. Todo(w, b, i) \subseteq Nat  BY <1>1 DEF Todo
  <2>2. k \in Todo(w, b, i) /\ \A j \in Todo(w, b, i) : k <= j  BY <1>3, <2>1, FirstIsFirst
  <2> HIDE DEF k
  <2>3. k \in 1..Len(Steps(b)) /\ k \in i..Len(Steps(b)) /\ Key(w, b, k) \notin w.keys
    BY <1>1, <2>2 DEF Todo
  <2>4. \A j \in 1..(k - 1) : Key(w, b, j) \in w.keys
    <3> SUFFICES ASSUME NEW j \in 1..(k - 1), Key(w, b, j) \notin w.keys PROVE FALSE
      OBVIOUS
    <3>1. j \in i..Len(Steps(b))  BY <1>1, <2>3
    <3>2. j \in Todo(w, b, i)  BY <3>1 DEF Todo
    <3> QED  BY <1>1, <2>2, <2>3, <3>2
  <2> QED  BY <1>3, <2>3, <2>4 DEF k
<1> QED  BY <1>2, <1>3

\* Where a session at a step is, with what its stock and its state are.
LEMMA AtPlace ==
    ASSUME TInv, NEW x \in Sessions, pc[x] \in AtStep
    PROVE  /\ mem[x] \in Working /\ disk[x] \in Working
           /\ at[x][1] \in 0..Len(mem[x].bots) /\ at[x][1] \in Nat /\ at[x][2] \in Nat \ {0}
           /\ at[x][2] \in 1..Len(Steps(at[x][1]))
           /\ InStock(x) => Stock(x) \in Codes /\ Stock(x) = mem[x].bots[at[x][1]] /\ at[x][1] # 0
                            /\ Steps(at[x][1]) = PerStock /\ Owner(mem[x], at[x][1]) = Stock(x)
           /\ ~InStock(x) => at[x][1] = 0 /\ Steps(at[x][1]) = PhaseA /\ Owner(mem[x], at[x][1]) = "A"
           /\ Tool(x) \in {"create_report", "list_today_reports"} => InStock(x)
           /\ Tool(x) \in {"check_trading_day", "get_report_bot_codes"} => ~InStock(x)
<1>1. mem[x] \in Working /\ disk[x] \in Working  BY Domains
<1>2. /\ at[x][1] \in 0..Len(mem[x].bots) /\ at[x][2] \in 1..Len(Steps(at[x][1]))
      /\ at[x][1] \in Nat /\ at[x][2] \in Nat
      /\ InStock(x) => Stock(x) \in Codes
      /\ Tool(x) \in {"create_report", "list_today_reports"} => InStock(x)
  BY StepPlace
<1>3. Tool(x) \in {"check_trading_day", "get_report_bot_codes"} => ~InStock(x)
  BY <1>2, ToolPlace DEF Tool, InStock
<1> QED  BY <1>1, <1>2, <1>3 DEF InStock, Stock, Steps, Owner

-----------------------------------------------------------------------------
(* The walk over the steps.                                                *)

LEMMA OtherWalk ==
    ASSUME NEW x \in Sessions, NEW y \in Sessions \ {x}, Others(x), WalkInv(y)
    PROVE  WalkInv(y)'
<1>1. UNCHANGED <<pc[y], at[y], mem[y], disk[y]>>  BY DEF Others
<1> QED  BY <1>1 DEF WalkInv, Walk, StocksAfterA, PhaseADone, InStock, Key, Owner

\* The keys only grow, and only stocks after phase A get any.
LEMMA AfterAGrows ==
    ASSUME NEW w \in Working, NEW v \in Working, w.keys \subseteq v.keys,
           PhaseADone(w) \/ (StocksAfterA(w) /\ (\A k \in v.keys \ w.keys : k[1] = "A")
                              /\ \A c \in Codes : v.st[c] = "reported" => w.st[c] = "reported")
    PROVE  StocksAfterA(v) /\ (PhaseADone(w) => PhaseADone(v))
BY BotsAssumption DEF BotsAssumption, StocksAfterA, PhaseADone

LEMMA WalkFail == ASSUME TInv, NEW x \in Sessions, WalkInv(x), MFail(x) PROVE WalkInv(x)'
<1>1. pc[x] \in AtStep  BY DEF MFail
<1>2. CASE InStock(x)
  <2>1. /\ mem'[x] = Failed(mem[x], Stock(x)) /\ pc'[x] = "next" /\ disk'[x] \in {disk[x], mem'[x]}
    BY <1>2 DEF MFail, Saved
  <2>a. mem[x] \in Working /\ Stock(x) \in Codes  BY <1>1, <1>2, AtPlace
  <2>2. mem'[x] \in Working /\ mem'[x].keys = mem[x].keys  BY <2>1, <2>a, FailedParts
  <2>3. PhaseADone(mem[x])  BY <1>1, <1>2 DEF WalkInv, Walk
  <2>4. StocksAfterA(mem'[x]) /\ PhaseADone(mem'[x])  BY <1>1, <2>2, <2>3, AtPlace, AfterAGrows
  <2> QED  BY <2>1, <2>4 DEF WalkInv, Walk, AtStep
<1>3. CASE ~InStock(x)
  <2>1. /\ pc'[x] = "ended" /\ disk'[x] \in {disk[x], mem[x]}
        /\ \/ mem'[x] = mem[x]
           \/ /\ pc[x] = "calledAgain" /\ Tool(x) = "get_report_bot_codes"
              /\ mem'[x] = Effect(mem[x], Tool(x), at[x][1], ans[x])
    BY <1>3 DEF MFail
  <2>2. StocksAfterA(mem'[x])
    <3>1. CASE mem'[x] = mem[x]  BY <3>1 DEF WalkInv
    <3>2. CASE /\ pc[x] = "calledAgain" /\ Tool(x) = "get_report_bot_codes"
               /\ mem'[x] = Effect(mem[x], Tool(x), at[x][1], ans[x])
      <4>1. mem[x] \in Working  BY Domains
      <4>2. mem'[x].keys = mem[x].keys  BY <3>2, <4>1, EffectParts
      <4>3. \A c \in Codes : mem'[x].st[c] # "reported"
        <5> SUFFICES ASSUME NEW c \in Codes PROVE mem'[x].st[c] # "reported"  OBVIOUS
        <5> QED  BY <3>2, <4>1, EffectReports
      <4> QED  BY <4>2, <4>3 DEF WalkInv, StocksAfterA, PhaseADone
    <3> QED  BY <2>1, <3>1, <3>2
  <2> QED  BY <2>1, <2>2 DEF WalkInv, Walk, AtStep
<1> QED  BY <1>2, <1>3

\* What an answer that fits leaves of the walk.
LEMMA EffectWalk ==
    ASSUME TInv, NEW x \in Sessions, WalkInv(x), pc[x] \in {"called", "calledAgain"}
    PROVE  LET w == Effect(mem[x], Tool(x), at[x][1], ans[x]) IN
           /\ w \in Working /\ w.keys = mem[x].keys /\ (at[x][1] # 0 => w.bots = mem[x].bots)
           /\ at[x][1] \in 0..Len(w.bots)
           /\ \A j : Key(w, at[x][1], j) = Key(mem[x], at[x][1], j)
           /\ StocksAfterA(w) /\ (PhaseADone(mem[x]) => PhaseADone(w))
<1> DEFINE w == Effect(mem[x], Tool(x), at[x][1], ans[x])
           b == at[x][1]
<1>1. pc[x] \in AtStep  BY DEF AtStep
<1>2. /\ ans[x] \in Answer
      /\ Tool(x) = "check_trading_day" /\ ans[x].out = "ok" => ans[x].data \in {"yes", "no"}
  BY DEF TInv, AnswersFit
<1>3. w \in Working /\ w.keys = mem[x].keys /\ (b # 0 => w.bots = mem[x].bots)
  BY <1>1, <1>2, AtPlace, EffectType DEF Tool
<1>4. \A j : Key(w, b, j) = Key(mem[x], b, j)  BY <1>3 DEF Key, Owner
<1>5. b \in 0..Len(w.bots)
  <2>1. Len(w.bots) \in Nat  BY <1>3, WorkingParts
  <2> QED  BY <1>1, <1>3, <2>1, AtPlace
<1>6. StocksAfterA(w) /\ (PhaseADone(mem[x]) => PhaseADone(w))
  <2>1. CASE PhaseADone(mem[x])  BY <1>1, <1>3, <2>1, AtPlace, AfterAGrows
  <2>2. CASE ~PhaseADone(mem[x])
    <3>1. ~InStock(x)  BY <1>1, <2>2 DEF WalkInv, Walk
    <3>2. Tool(x) \notin {"create_report", "list_today_reports"}  BY <1>1, <3>1, AtPlace
    <3>a. mem[x] \in Working  BY Domains
    <3>3. \A c \in Codes : w.st[c] = "reported" => mem[x].st[c] = "reported"
      BY <3>2, <3>a, EffectReports
    <3> QED  BY <1>1, <1>3, <3>3, AtPlace, AfterAGrows DEF WalkInv
  <2> QED  BY <2>1, <2>2
<1> QED  BY <1>3, <1>4, <1>5, <1>6

LEMMA WalkApply == ASSUME TInv, NEW x \in Sessions, WalkInv(x), MApply(x) PROVE WalkInv(x)'
<1> DEFINE w == Effect(mem[x], Tool(x), at[x][1], ans[x])
<1>1. /\ mem'[x] = w /\ disk'[x] = w /\ UNCHANGED at[x] /\ pc[x] \in AtStep /\ pc'[x] = "applied"
      /\ pc[x] = "called"
  BY DEF MApply, AtStep
<1>2. /\ w.keys = mem[x].keys /\ \A j : Key(w, at[x][1], j) = Key(mem[x], at[x][1], j)
      /\ StocksAfterA(w) /\ (PhaseADone(mem[x]) => PhaseADone(w))
  BY <1>1, EffectWalk
<1> HIDE DEF w
<1> QED  BY <1>1, <1>2 DEF WalkInv, Walk, InStock

LEMMA WalkSkip == ASSUME TInv, NEW x \in Sessions, WalkInv(x), MSkip(x) PROVE WalkInv(x)'
<1> DEFINE w == Marked(mem[x], at[x][1], at[x][2])
           v == [w EXCEPT !.st[Stock(x)] = "skipped"]
<1>1. /\ mem'[x] = v /\ disk'[x] \in {disk[x], v} /\ pc[x] \in AtStep /\ pc'[x] = "next" /\ InStock(x)
  BY DEF MSkip, Saved, AtStep
<1>2. w \in Working /\ w.keys = mem[x].keys \union {Key(mem[x], at[x][1], at[x][2])}
  BY <1>1, AtPlace, MarkedParts
<1>3. v \in Working /\ v.keys = w.keys
  <2>1. v = WithStatus(w, Stock(x), "skipped")  BY DEF WithStatus
  <2>2. Stock(x) \in Codes /\ "skipped" \in Statuses  BY <1>1, AtPlace DEF Statuses
  <2> HIDE DEF w, v
  <2> QED  BY <1>2, <2>1, <2>2, StatusParts
<1>4. PhaseADone(mem[x])  BY <1>1 DEF WalkInv, Walk
<1> HIDE DEF w, v
<1>5. StocksAfterA(v) /\ PhaseADone(v)  BY <1>1, <1>2, <1>3, <1>4, AtPlace, AfterAGrows
<1> QED  BY <1>1, <1>5 DEF WalkInv, Walk, AtStep

LEMMA WalkMark ==
    ASSUME TInv, NEW x \in Sessions, WalkInv(x), NEW w \in Working, MMark(x, w)
    PROVE  WalkInv(x)'
<1> DEFINE b == at[x][1]
           i == at[x][2]
           v == Marked(w, b, i)
<1>1. pc[x] \in {"applied", "calledAgain"} /\ pc[x] \in AtStep  BY DEF MMark, AtStep
<1>2. /\ w.keys = mem[x].keys /\ b \in 0..Len(w.bots)
      /\ \A j : Key(w, b, j) = Key(mem[x], b, j)
      /\ StocksAfterA(w) /\ (PhaseADone(mem[x]) => PhaseADone(w))
  <2>1. CASE w = mem[x]  BY <1>1, <2>1, AtPlace DEF WalkInv
  <2>2. CASE w = Effect(mem[x], Tool(x), b, ans[x]) /\ pc[x] = "calledAgain"
    BY <2>2, EffectWalk
  <2> QED  BY <2>1, <2>2 DEF MMark
<1>3. v \in Working /\ v.keys = w.keys \union {Key(w, b, i)} /\ v.bots = w.bots /\ v.st = w.st
  BY <1>1, <1>2, AtPlace, MarkedParts
<1>4. \A j : Key(v, b, j) = Key(mem[x], b, j)  BY <1>2, <1>3 DEF Key, Owner
<1>5. \A j \in 1..i : Key(v, b, j) \in v.keys
  <2>1. \A j \in 1..(i - 1) : Key(mem[x], b, j) \in mem[x].keys /\ i \in Nat  BY <1>1, AtPlace DEF WalkInv, Walk
  <2>2. i \in Nat \ {0}  BY <1>1, AtPlace
  <2> HIDE DEF b, i, v
  <2> QED  BY <1>2, <1>3, <1>4, <2>1, <2>2
<1>6. InStock(x) => PhaseADone(w)  BY <1>1, <1>2 DEF WalkInv, Walk
<1>7. StocksAfterA(v) /\ (PhaseADone(w) => PhaseADone(v))
  <2>1. CASE InStock(x)  BY <1>3, <1>6, <2>1, AfterAGrows
  <2>2. CASE ~InStock(x)
    <3>1. Key(w, b, i)[1] = "A"  BY <1>1, <2>2, AtPlace DEF Key, Owner
    <3>2. \A k \in v.keys \ w.keys : k[1] = "A"  BY <1>3, <3>1
    <3> HIDE DEF v
    <3> QED  BY <1>2, <1>3, <3>2, AfterAGrows
  <2> QED  BY <2>1, <2>2
<1>8. i + 1 \in Nat \ {0} /\ (i + 1) - 1 = i /\ i \in Nat  BY <1>1, AtPlace
<1>9. /\ mem'[x] = v
      /\ disk'[x] \in {disk[x], w}
      /\ \/ pc'[x] = "finish"
         \/ pc'[x] = "next" /\ InStock(x)
         \/ MovesOn(x, v, b, i + 1)
  BY DEF MMark
<1> HIDE DEF v
<1>10. StocksAfterA(mem'[x]) /\ StocksAfterA(disk'[x])  BY <1>2, <1>7, <1>9 DEF WalkInv
<1>11. CASE pc'[x] = "finish"  BY <1>10, <1>11 DEF WalkInv, Walk, AtStep
<1>12. CASE pc'[x] = "next" /\ InStock(x)
  BY <1>6, <1>7, <1>9, <1>10, <1>12 DEF WalkInv, Walk, AtStep
<1>13. CASE MovesOn(x, v, b, i + 1)
  <2>1. CASE Todo(v, b, i + 1) # {}
    <3> DEFINE k == First(Todo(v, b, i + 1))
    <3>1. pc'[x] = "ready" /\ at'[x] = <<b, k>>  BY <1>13, <2>1 DEF MovesOn
    <3>2. Key(v, b, k) \notin v.keys /\ \A j \in 1..(k - 1) : Key(v, b, j) \in v.keys
      BY <1>5, <1>8, <2>1, TodoFirst
    <3> HIDE DEF k
    <3> QED  BY <1>6, <1>7, <1>9, <1>10, <3>1, <3>2 DEF WalkInv, Walk, InStock
  <2>2. CASE Todo(v, b, i + 1) = {}
    <3>1. pc'[x] = (IF b = 0 THEN "phaseB" ELSE "next")  BY <1>13, <2>2 DEF MovesOn
    <3>2. \A j \in 1..Len(Steps(b)) : Key(v, b, j) \in v.keys  BY <1>5, <1>8, <2>2, TodoFirst
    <3>3. PhaseADone(v)
      <4>1. CASE InStock(x)  BY <1>6, <1>7, <4>1
      <4>2. CASE ~InStock(x)
        <5>1. b = 0 /\ Steps(b) = PhaseA  BY <1>1, <4>2, AtPlace
        <5> QED  BY <3>2, <5>1 DEF PhaseADone, Key, Owner
      <4> QED  BY <4>1, <4>2
    <3> QED  BY <1>9, <1>10, <3>1, <3>3 DEF WalkInv, Walk, AtStep
  <2> QED  BY <2>1, <2>2
<1> QED  BY <1>9, <1>11, <1>12, <1>13

LEMMA WalkNext ==
    ASSUME TInv, NEW x \in Sessions, WalkInv(x), NEW b \in Nat, MNext(x, b)
    PROVE  WalkInv(x)'
<1> DEFINE w == mem[x]
           v == IF w.st[w.bots[b]] = "pending" THEN [w EXCEPT !.st[w.bots[b]] = "collecting"] ELSE w
<1>1. /\ pc[x] = "next" /\ mem'[x] = v /\ disk'[x] \in {disk[x], v}
      /\ \/ Todo(v, b, 1) # {} /\ pc'[x] = "ready" /\ at'[x] = <<b, First(Todo(v, b, 1))>>
         \/ pc'[x] = "next"
  BY DEF MNext, Saved
<1>2. w \in Working /\ at[x] \in Nat \X Nat  BY Domains
<1>3. w.bots[b] \in Codes
  <2>1. b \in 1..Len(w.bots)  BY <1>2, WorkingParts DEF MNext
  <2> QED  BY <1>2, <2>1, WorkingParts
<1>4. v \in Working /\ v.keys = w.keys
  <2>1. v \in {w, WithStatus(w, w.bots[b], "collecting")}  BY DEF WithStatus
  <2>2. "collecting" \in Statuses  BY DEF Statuses
  <2> HIDE DEF w, v
  <2> QED  BY <1>2, <1>3, <2>1, <2>2, StatusParts
<1>5. PhaseADone(w)  BY <1>1 DEF WalkInv, Walk
<1> HIDE DEF v, w
<1>6. StocksAfterA(v) /\ PhaseADone(v)  BY <1>2, <1>4, <1>5, AfterAGrows
<1>7. CASE Todo(v, b, 1) # {} /\ pc'[x] = "ready" /\ at'[x] = <<b, First(Todo(v, b, 1))>>
  <2> DEFINE k == First(Todo(v, b, 1))
  <2>1. Key(v, b, k) \notin v.keys /\ \A j \in 1..(k - 1) : Key(v, b, j) \in v.keys
    BY <1>7, TodoFirst
  <2> HIDE DEF k
  <2> QED  BY <1>1, <1>6, <1>7, <2>1 DEF WalkInv, Walk, k
<1>8. CASE pc'[x] = "next"  BY <1>1, <1>6, <1>8 DEF WalkInv, Walk, AtStep
<1> QED  BY <1>1, <1>7, <1>8

\* Steps that leave keys and statuses alone, and a return to the saved state.
LEMMA WalkRest ==
    ASSUME TInv, NEW x \in Sessions, WalkInv(x),
           \/ MStart(x) \/ MCall(x) \/ MAgain(x) \/ MPhaseB(x) \/ MDone(x)
           \/ MFinish(x) \/ MCancel(x) \/ MCrash(x) \/ MResume(x)
    PROVE  WalkInv(x)'
<1>0. mem[x] \in Working /\ disk[x] \in Working  BY Domains
<1>1. CASE MStart(x) \/ MCall(x) \/ MAgain(x) \/ MFinish(x) \/ MCancel(x)
  <2>1. UNCHANGED <<mem[x], disk[x], at[x]>>
    BY <1>1 DEF MStart, MCall, MAgain, MFinish, MCancel, Still
  <2>2. \/ pc'[x] = pc[x] \/ (pc[x] \in AtStep /\ pc'[x] \in AtStep) \/ pc'[x] = "ended"
    BY <1>1 DEF MStart, MCall, MAgain, MFinish, MCancel, AtStep
  <2> QED  BY <2>1, <2>2 DEF WalkInv, Walk, InStock, AtStep
<1>2. CASE MPhaseB(x)
  <2>1. PICK p \in {"init", "phase_a", "phase_b", "done"} : mem'[x] = [mem[x] EXCEPT !.phase = p]
    BY <1>0, <1>2, WorkingParts DEF MPhaseB
  <2>2. mem'[x].keys = mem[x].keys /\ mem'[x].st = mem[x].st  BY <1>0, <2>1, PhaseParts
  <2>3. pc[x] = "phaseB" /\ pc'[x] \in {"next", "finish"} /\ disk'[x] \in {disk[x], mem'[x]}
    BY <1>2 DEF MPhaseB, Saved
  <2> QED  BY <2>2, <2>3 DEF WalkInv, Walk, StocksAfterA, PhaseADone, AtStep
<1>3. CASE MDone(x)
  <2>1. mem'[x] \in {mem[x], [mem[x] EXCEPT !.phase = "done"]}  BY <1>3 DEF MDone
  <2>a. "done" \in {"init", "phase_a", "phase_b", "done"}  OBVIOUS
  <2>b. [mem[x] EXCEPT !.phase = "done"].keys = mem[x].keys
        /\ [mem[x] EXCEPT !.phase = "done"].st = mem[x].st
    BY <1>0, <2>a, PhaseParts
  <2>2. mem'[x].keys = mem[x].keys /\ mem'[x].st = mem[x].st  BY <2>1, <2>b
  <2>3. pc'[x] = "finish" /\ disk'[x] \in {disk[x], mem'[x]}  BY <1>3 DEF MDone, Saved
  <2> QED  BY <2>2, <2>3 DEF WalkInv, Walk, StocksAfterA, PhaseADone, AtStep
<1>4. CASE MCrash(x)
  BY <1>4 DEF MCrash, Still, WalkInv, Walk, AtStep
<1>5. CASE MResume(x)
  <2> DEFINE w == disk[x]
  <2>1. mem'[x] = w /\ disk'[x] = w  BY <1>5 DEF MResume
  <2>2. CASE pc'[x] = "ended"  BY <2>1, <2>2 DEF WalkInv, Walk, AtStep
  <2>3. CASE Todo(w, 0, 1) # {} /\ pc'[x] = "ready" /\ at'[x] = <<0, First(Todo(w, 0, 1))>>
    <3> DEFINE k == First(Todo(w, 0, 1))
    <3>1. Key(w, 0, k) \notin w.keys /\ \A j \in 1..(k - 1) : Key(w, 0, j) \in w.keys
      BY <2>3, TodoFirst
    <3> HIDE DEF k, w
    <3> QED  BY <2>1, <2>3, <3>1 DEF WalkInv, Walk, InStock, k, w
  <2>4. CASE Todo(w, 0, 1) = {} /\ pc'[x] = "phaseB"
    <3>1. \A j \in 1..Len(Steps(0)) : Key(w, 0, j) \in w.keys  BY <2>4, TodoFirst
    <3>2. PhaseADone(w)  BY <3>1 DEF PhaseADone, Key, Owner, Steps
    <3> QED  BY <2>1, <2>4, <3>2 DEF WalkInv, Walk, AtStep
  <2> QED  BY <1>5, <2>2, <2>3, <2>4 DEF MResume
<1> QED  BY <1>1, <1>2, <1>3, <1>4, <1>5

Walks == \A x \in Sessions : WalkInv(x)

LEMMA InitWalks == Init => Walks
<1> SUFFICES ASSUME Init, NEW x \in Sessions PROVE WalkInv(x)  BY DEF Walks
<1>1. /\ pc[x] = "new" /\ at[x] = <<0, 1>> /\ mem[x] = Fresh /\ disk[x] = Fresh  BY DEF Init
<1>2. Fresh.keys = {} /\ \A c \in Codes : Fresh.st[c] = "absent"  BY DEF Fresh
<1> QED  BY <1>1, <1>2 DEF WalkInv, Walk, StocksAfterA, InStock

LEMMA NextWalks == TInv /\ Walks /\ [Next]_vars => Walks'
<1> SUFFICES ASSUME TInv, Walks, [Next]_vars PROVE Walks'  OBVIOUS
<1>1. CASE UNCHANGED vars
  BY <1>1 DEF vars, Walks, WalkInv, Walk, InStock
<1>2. ASSUME NEW x \in Sessions, Moves(x), Others(x) PROVE Walks'
  <2>1. WalkInv(x)'
    BY <1>2, WalkFail, WalkApply, WalkSkip, WalkMark, WalkNext, WalkRest DEF Moves, Walks
  <2> QED  BY <1>2, <2>1, OtherWalk DEF Walks
<1> QED  BY <1>1, <1>2, NextMoves
-----------------------------------------------------------------------------
(* What the moves leave of the fields, and the records of what was created. *)

\* The status of c becomes s; the rest but the keys stays.
SameBut(w, v, c, s) ==
    /\ v.bots = w.bots /\ v.day = w.day /\ v.phase = w.phase
    /\ v.st[c] = s /\ \A d \in Codes : d # c => v.st[d] = w.st[d]

\* The working state an answer leaves, by the tool.
EffectCases(x, w) ==
    \/ /\ Tool(x) = "check_trading_day" /\ ans[x].out = "ok"
       /\ w.st = mem[x].st /\ w.bots = mem[x].bots /\ w.day = ans[x].data
       /\ w.phase = IF ans[x].data = "yes" THEN "phase_a" ELSE "done"
    \/ /\ Tool(x) = "get_report_bot_codes" /\ w.day = mem[x].day /\ w.phase = mem[x].phase
       /\ \A c \in Codes : w.st[c] \in {"pending", "absent"}
    \/ /\ Tool(x) = "list_today_reports" /\ ans[x].out = "ok" /\ ans[x].data = "reported"
       /\ SameBut(mem[x], w, Stock(x), "skipped")
    \/ /\ Tool(x) = "create_report" /\ ans[x].out = "ok" /\ SameBut(mem[x], w, Stock(x), "reported")
    \/ /\ w = mem[x] /\ Tool(x) # "get_report_bot_codes"
       /\ Tool(x) = "list_today_reports" /\ ans[x].out = "ok" => ans[x].data # "reported"
       /\ Tool(x) \in {"check_trading_day", "create_report"} => ans[x].out # "ok"

LEMMA EffectFacts ==
    ASSUME TInv, NEW x \in Sessions, pc[x] \in {"called", "calledAgain"}
    PROVE  LET w == Effect(mem[x], Tool(x), at[x][1], ans[x]) IN
           w \in Working /\ w.keys = mem[x].keys /\ EffectCases(x, w)
<1> DEFINE w == Effect(mem[x], Tool(x), at[x][1], ans[x])
<1>1. pc[x] \in AtStep /\ mem[x] \in Working  BY Domains DEF AtStep
<1>2. /\ ans[x] \in Answer
      /\ Tool(x) = "check_trading_day" /\ ans[x].out = "ok" => ans[x].data \in {"yes", "no"}
  BY DEF TInv, AnswersFit
<1>3. w \in Working /\ w.keys = mem[x].keys  BY <1>1, <1>2, AtPlace, EffectType DEF Tool
<1>4. Tool(x) \in {"list_today_reports", "create_report"} =>
          Stock(x) \in Codes /\ Stock(x) = mem[x].bots[at[x][1]]
  BY <1>1, AtPlace
<1>5. CASE Tool(x) = "check_trading_day" /\ ans[x].out = "ok"
  BY <1>1, <1>3, <1>5, EffectParts DEF EffectCases
<1>6. CASE Tool(x) = "get_report_bot_codes"
  BY <1>1, <1>3, <1>6, EffectParts DEF EffectCases
<1>7. CASE Tool(x) = "list_today_reports" /\ ans[x].out = "ok" /\ ans[x].data = "reported"
  <2>1. SameBut(mem[x], w, Stock(x), "skipped")  BY <1>1, <1>4, <1>7, EffectParts DEF SameBut
  <2> QED  BY <1>3, <1>7, <2>1 DEF EffectCases
<1>8. CASE Tool(x) = "create_report" /\ ans[x].out = "ok"
  <2>1. SameBut(mem[x], w, Stock(x), "reported")  BY <1>1, <1>4, <1>8, EffectParts DEF SameBut
  <2> QED  BY <1>3, <1>8, <2>1 DEF EffectCases
<1>9. CASE ~(\/ Tool(x) = "check_trading_day" /\ ans[x].out = "ok"
             \/ Tool(x) = "get_report_bot_codes"
             \/ Tool(x) = "list_today_reports" /\ ans[x].out = "ok" /\ ans[x].data = "reported"
             \/ Tool(x) = "create_report" /\ ans[x].out = "ok")
  <2>1. w = mem[x]  BY <1>9 DEF Effect
  <2> QED  BY <1>3, <1>9, <2>1 DEF EffectCases
<1> QED  BY <1>5, <1>6, <1>7, <1>8, <1>9

LEMMA FailFacts ==
    ASSUME TInv, NEW x \in Sessions, MFail(x)
    PROVE  /\ pc[x] \in AtStep /\ mem[x] \in Working /\ mem'[x] \in Working
           /\ mem'[x].keys = mem[x].keys
           /\ InStock(x) =>
                 /\ SameBut(mem[x], mem'[x], Stock(x), "failed") /\ Stock(x) \in Codes
                 /\ pc'[x] = "next" /\ disk'[x] \in {disk[x], mem'[x]}
           /\ ~InStock(x) =>
                 /\ pc'[x] = "ended" /\ disk'[x] \in {disk[x], mem[x]}
                 /\ \/ mem'[x] = mem[x]
                    \/ /\ Tool(x) = "get_report_bot_codes" /\ mem'[x].day = mem[x].day
                       /\ mem'[x].phase = mem[x].phase
<1>1. pc[x] \in AtStep /\ mem[x] \in Working  BY Domains DEF MFail
<1>2. CASE InStock(x)
  <2>1. /\ mem'[x] = Failed(mem[x], Stock(x)) /\ pc'[x] = "next" /\ disk'[x] \in {disk[x], mem'[x]}
    BY <1>2 DEF MFail, Saved
  <2>2. Stock(x) \in Codes  BY <1>1, <1>2, AtPlace
  <2> QED  BY <1>1, <1>2, <2>1, <2>2, FailedParts DEF SameBut
<1>3. CASE ~InStock(x)
  <2>1. pc'[x] = "ended" /\ disk'[x] \in {disk[x], mem[x]}  BY <1>3 DEF MFail
  <2>2. CASE mem'[x] = mem[x]  BY <1>1, <1>3, <2>1, <2>2
  <2>3. CASE /\ pc[x] = "calledAgain" /\ Tool(x) = "get_report_bot_codes"
             /\ mem'[x] = Effect(mem[x], Tool(x), at[x][1], ans[x])
    <3>1. mem'[x] \in Working /\ mem'[x].keys = mem[x].keys /\ EffectCases(x, mem'[x])
      BY <2>3, EffectFacts
    <3> QED  BY <1>1, <1>3, <2>1, <2>3, <3>1 DEF EffectCases
  <2> QED  BY <1>3, <2>2, <2>3 DEF MFail
<1> QED  BY <1>2, <1>3

LEMMA SkipFacts ==
    ASSUME TInv, NEW x \in Sessions, MSkip(x)
    PROVE  /\ pc[x] \in AtStep /\ pc'[x] = "next" /\ InStock(x) /\ Stock(x) \in Codes
           /\ mem[x] \in Working /\ mem'[x] \in Working
           /\ mem'[x].keys = mem[x].keys \union {Key(mem[x], at[x][1], at[x][2])}
           /\ SameBut(mem[x], mem'[x], Stock(x), "skipped") /\ disk'[x] \in {disk[x], mem'[x]}
<1> DEFINE w == Marked(mem[x], at[x][1], at[x][2])
<1>1. /\ mem'[x] = WithStatus(w, Stock(x), "skipped") /\ disk'[x] \in {disk[x], mem'[x]}
      /\ pc[x] \in AtStep /\ pc'[x] = "next" /\ InStock(x)
  BY DEF MSkip, Saved, AtStep, WithStatus
<1>2. /\ mem[x] \in Working /\ w \in Working /\ w.bots = mem[x].bots /\ w.day = mem[x].day
      /\ w.phase = mem[x].phase /\ w.st = mem[x].st
      /\ w.keys = mem[x].keys \union {Key(mem[x], at[x][1], at[x][2])}
  BY <1>1, AtPlace, MarkedParts
<1>3. Stock(x) \in Codes /\ "skipped" \in Statuses  BY <1>1, AtPlace DEF Statuses
<1> HIDE DEF w
<1> QED  BY <1>1, <1>2, <1>3, StatusParts DEF SameBut

\* A marked step: w is what the answer left, before the mark.
LEMMA MarkFacts ==
    ASSUME TInv, NEW x \in Sessions, NEW w \in Working, MMark(x, w)
    PROVE  /\ pc[x] \in AtStep /\ pc[x] \in {"applied", "calledAgain"} /\ mem[x] \in Working
           /\ w.keys = mem[x].keys /\ Key(w, at[x][1], at[x][2]) = Key(mem[x], at[x][1], at[x][2])
           /\ mem'[x] \in Working
           /\ mem'[x].keys = mem[x].keys \union {Key(mem[x], at[x][1], at[x][2])}
           /\ mem'[x].bots = w.bots /\ mem'[x].day = w.day /\ mem'[x].phase = w.phase
           /\ mem'[x].st = w.st
           /\ InStock(x) => w.bots = mem[x].bots
           /\ \/ pc[x] = "applied" /\ w = mem[x]
              \/ pc[x] = "calledAgain" /\ w = mem[x]
              \/ pc[x] = "calledAgain" /\ EffectCases(x, w)
<1>1. pc[x] \in {"applied", "calledAgain"} /\ pc[x] \in AtStep /\ mem[x] \in Working
      /\ mem'[x] = Marked(w, at[x][1], at[x][2])
  BY Domains DEF MMark, AtStep
<1>2. /\ w.keys = mem[x].keys /\ at[x][1] \in 0..Len(w.bots) /\ (at[x][1] # 0 => w.bots = mem[x].bots)
      /\ \/ pc[x] = "applied" /\ w = mem[x]
         \/ pc[x] = "calledAgain" /\ w = mem[x]
         \/ pc[x] = "calledAgain" /\ EffectCases(x, w)
  <2>1. CASE w = mem[x]  BY <1>1, <2>1, AtPlace
  <2>2. CASE pc[x] = "calledAgain" /\ w = Effect(mem[x], Tool(x), at[x][1], ans[x])
    <3>1. w.keys = mem[x].keys /\ EffectCases(x, w)  BY <2>2, EffectFacts
    <3>2. at[x][1] # 0 => w.bots = mem[x].bots
      <4>1. at[x][1] \in Nat  BY <1>1, AtPlace
      <4>2. at[x][1] # 0 => InStock(x)  BY <4>1 DEF InStock
      <4>3. at[x][1] # 0 => Tool(x) # "get_report_bot_codes"  BY <1>1, <4>2, AtPlace
      <4> QED  BY <3>1, <4>3 DEF EffectCases, SameBut
    <3>3. Len(w.bots) \in Nat  BY WorkingParts
    <3> QED  BY <1>1, <2>2, <3>1, <3>2, <3>3, AtPlace
  <2> QED  BY <2>1, <2>2 DEF MMark
<1>3. Key(w, at[x][1], at[x][2]) = Key(mem[x], at[x][1], at[x][2])  BY <1>2 DEF Key, Owner
<1>4. at[x][2] \in Nat /\ (InStock(x) => at[x][1] # 0)  BY <1>1, AtPlace
<1> QED  BY <1>1, <1>2, <1>3, <1>4, MarkedParts

LEMMA NextFacts ==
    ASSUME TInv, NEW x \in Sessions, NEW b \in Nat, MNext(x, b)
    PROVE  LET c == mem[x].bots[b] IN
           /\ mem[x] \in Working /\ mem'[x] \in Working /\ c \in Codes /\ mem'[x].keys = mem[x].keys
           /\ b \in 1..Len(mem[x].bots) /\ disk'[x] \in {disk[x], mem'[x]}
           /\ \/ mem'[x] = mem[x] /\ mem[x].st[c] # "pending"
              \/ mem[x].st[c] = "pending" /\ SameBut(mem[x], mem'[x], c, "collecting")
<1> DEFINE c == mem[x].bots[b]
<1>1. mem[x] \in Working /\ at[x] \in Nat \X Nat  BY Domains
<1>2. b \in 1..Len(mem[x].bots)  BY <1>1, WorkingParts DEF MNext
<1>3. c \in Codes  BY <1>1, <1>2, WorkingParts
<1>4. disk'[x] \in {disk[x], mem'[x]}  BY DEF MNext, Saved
<1>5. \/ mem'[x] = mem[x] /\ mem[x].st[c] # "pending"
      \/ mem[x].st[c] = "pending" /\ mem'[x] = WithStatus(mem[x], c, "collecting")
  BY DEF MNext, WithStatus
<1>6. "collecting" \in Statuses  BY DEF Statuses
<1> HIDE DEF c
<1>7. CASE mem'[x] = mem[x] /\ mem[x].st[c] # "pending"
  BY <1>1, <1>2, <1>3, <1>4, <1>7 DEF c
<1>8. CASE mem[x].st[c] = "pending" /\ mem'[x] = WithStatus(mem[x], c, "collecting")
  <2>1. mem'[x] \in Working /\ mem'[x].keys = mem[x].keys /\ SameBut(mem[x], mem'[x], c, "collecting")
    BY <1>1, <1>3, <1>6, <1>8, StatusParts DEF SameBut
  <2> QED  BY <1>1, <1>2, <1>3, <1>4, <1>8, <2>1 DEF c
<1> QED  BY <1>5, <1>7, <1>8

\* The two steps that only say how far the run is.
LEMMA PhaseFacts ==
    ASSUME TInv, NEW x \in Sessions, MPhaseB(x) \/ MDone(x)
    PROVE  /\ mem[x] \in Working /\ mem'[x] \in Working
           /\ mem'[x].keys = mem[x].keys /\ mem'[x].bots = mem[x].bots /\ mem'[x].day = mem[x].day
           /\ mem'[x].st = mem[x].st /\ disk'[x] \in {disk[x], mem'[x]}
<1>1. mem[x] \in Working  BY Domains
<1>2. disk'[x] \in {disk[x], mem'[x]}  BY DEF MPhaseB, MDone, Saved
<1>3. PICK p \in {"init", "phase_a", "phase_b", "done"} :
          mem'[x] = mem[x] \/ mem'[x] = [mem[x] EXCEPT !.phase = p]
  BY <1>1, WorkingParts DEF MPhaseB, MDone
<1> DEFINE v == [mem[x] EXCEPT !.phase = p]
<1>4. /\ v \in Working /\ v.keys = mem[x].keys /\ v.bots = mem[x].bots /\ v.day = mem[x].day
      /\ v.st = mem[x].st
  BY <1>1, PhaseParts
<1> HIDE DEF v
<1>5. mem'[x] = mem[x] \/ mem'[x] = v  BY <1>3 DEF v
<1> QED  BY <1>1, <1>2, <1>4, <1>5

LEMMA ForgetsParts ==
    ASSUME TInv, NEW x \in Sessions, Forgets(x) \/ UNCHANGED lost[x]
    PROVE  /\ \A c \in Codes : lost'[x][c] >= lost[x][c] /\ lost'[x][c] \in Nat
           /\ Tool(x) # "create_report" \/ ans[x].data # "done" => UNCHANGED lost[x]
           /\ Forgets(x) /\ Tool(x) = "create_report" /\ ans[x].data = "done" /\ Stock(x) \in Codes =>
                 lost'[x][Stock(x)] = lost[x][Stock(x)] + 1
<1>1. lost[x] \in [Codes -> Nat]  BY Domains
<1> QED  BY <1>1 DEF Forgets
-----------------------------------------------------------------------------
(* Creates and their records.                                              *)

\* The steps of a stock hold at most one create_report.
OneCreate ==
    \A i, j \in 1..Len(PerStock) :
        PerStock[i] = "create_report" /\ PerStock[j] = "create_report" => i = j

LEMMA RecordStays ==
    ASSUME NEW w, NEW v, NEW c, Recorded(w, c), w.keys \subseteq v.keys,
           w.st[c] = "reported" => v.st[c] = "reported" \/ Keyed(w, c, "create_report")
    PROVE  Recorded(v, c)
BY DEF Recorded, Keyed

\* At the step itself, its key is not there yet; once it is marked, it is.
LEMMA NotYetKeyed ==
    ASSUME OneCreate, TInv, NEW x \in Sessions, WalkInv(x), pc[x] \in AtStep,
           Tool(x) = "create_report"
    PROVE  ~Keyed(mem[x], Stock(x), "create_report")
<1>1. /\ InStock(x) /\ Steps(at[x][1]) = PerStock /\ Owner(mem[x], at[x][1]) = Stock(x)
      /\ at[x][2] \in 1..Len(PerStock)
  BY AtPlace
<1>2. <<Stock(x), at[x][2]>> \notin mem[x].keys  BY <1>1 DEF WalkInv, Walk, Key
<1>3. PerStock[at[x][2]] = "create_report"  BY <1>1 DEF Tool
<1> QED  BY <1>1, <1>2, <1>3 DEF OneCreate, Keyed

LEMMA KeyedOnceMarked ==
    ASSUME TInv, NEW x \in Sessions, pc[x] \in AtStep, InStock(x), NEW w,
           Key(mem[x], at[x][1], at[x][2]) \in w.keys
    PROVE  Keyed(w, Stock(x), Tool(x))
<1>1. /\ Steps(at[x][1]) = PerStock /\ Owner(mem[x], at[x][1]) = Stock(x)
      /\ at[x][2] \in 1..Len(PerStock)
  BY AtPlace
<1> QED  BY <1>1 DEF Keyed, Key, Tool

\* In phase A no stock has a record.
LEMMA NoneInPhaseA ==
    ASSUME TInv, NEW x \in Sessions, WalkInv(x), pc[x] \in AtStep, ~InStock(x)
    PROVE  \A c \in Codes : /\ mem[x].st[c] # "reported"
                            /\ \A k \in mem[x].keys : k[1] # c
<1>1. at[x][1] = 0 /\ at[x][2] \in 1..Len(PhaseA) /\ Owner(mem[x], at[x][1]) = "A"  BY AtPlace
<1>2. ~PhaseADone(mem[x])  BY <1>1 DEF WalkInv, Walk, Key, PhaseADone
<1> QED  BY <1>2 DEF WalkInv, StocksAfterA

LEMMA NotRecordedInPhaseA ==
    ASSUME TInv, NEW x \in Sessions, WalkInv(x), pc[x] \in AtStep, ~InStock(x), NEW c \in Codes
    PROVE  ~Recorded(mem[x], c)
<1>1. mem[x].st[c] # "reported" /\ \A k \in mem[x].keys : k[1] # c  BY NoneInPhaseA
<1>2. \A j : <<c, j>>[1] = c  OBVIOUS
<1> QED  BY <1>1, <1>2 DEF Recorded, Keyed

LEMMA OtherCreate ==
    ASSUME NEW x \in Sessions, NEW y \in Sessions \ {x}, Others(x), CreateInv(y)
    PROVE  CreateInv(y)'
<1>1. UNCHANGED <<pc[y], at[y], mem[y], disk[y], ans[y], created[y], lost[y]>>  BY DEF Others
<1> QED  BY <1>1 DEF CreateInv, CreatePlace, CreateCount, Flying, InStock, Tool, Stock

LEMMA CreateFail ==
    ASSUME TInv, NEW x \in Sessions, WalkInv(x), CreateInv(x), MFail(x)
    PROVE  CreateInv(x)'
<1>1. pc[x] \in AtStep /\ pc'[x] \notin AtStep /\ mem'[x].keys = mem[x].keys
      /\ UNCHANGED created[x] /\ (Forgets(x) \/ UNCHANGED lost[x])
      /\ (pc[x] \in {"called", "calledAgain"} \/ (pc[x] = "applied" /\ ans[x].out = "ok") => Forgets(x))
  BY FailFacts DEF MFail, Calm, AtStep
<1>2. CreatePlace(x)'  BY <1>1 DEF CreatePlace, AtStep
<1>3. ASSUME NEW c \in Codes PROVE CreateCount(x, c)'
  <2>1. /\ created[x][c] \in Nat /\ lost[x][c] \in Nat /\ lost'[x][c] \in Nat
        /\ lost'[x][c] >= lost[x][c]
    BY <1>1, Domains, ForgetsParts
  <2>2. CreateCount(x, c) /\ CreatePlace(x)  BY DEF CreateInv
  <2>3. SUFFICES ASSUME created[x][c] > lost'[x][c]
                 PROVE  Recorded(mem'[x], c) /\ Recorded(disk'[x], c)
    BY <1>1, <2>1, <2>2 DEF CreateCount
  <2>4. created[x][c] > lost[x][c] /\ created[x][c] <= lost[x][c] + 1  BY <2>1, <2>2, <2>3 DEF CreateCount
  <2>5. ~(Forgets(x) /\ Tool(x) = "create_report" /\ ans[x].data = "done" /\ Stock(x) = c)
    BY <2>1, <2>3, <2>4, ForgetsParts
  <2>6. Recorded(mem[x], c) /\ Recorded(disk[x], c)
    BY <1>1, <2>2, <2>4, <2>5 DEF CreateCount, Flying
  <2>7. CASE InStock(x)
    <3>1. mem[x].st[c] = "reported" => mem'[x].st[c] = "reported" \/ Keyed(mem[x], c, "create_report")
      <4>1. CASE c = Stock(x)
        BY <1>1, <2>2, <2>5, <2>7, <4>1 DEF CreatePlace
      <4>2. CASE c # Stock(x)  BY <2>7, <4>2, FailFacts DEF SameBut
      <4> QED  BY <4>1, <4>2
    <3>2. Recorded(mem'[x], c)  BY <1>1, <2>6, <3>1, RecordStays
    <3> QED  BY <2>6, <2>7, <3>2, FailFacts
  <2>8. CASE ~InStock(x)
    <3>1. ~Recorded(mem[x], c)  BY <1>1, <2>8, NotRecordedInPhaseA
    <3> QED  BY <2>6, <3>1
  <2> QED  BY <2>7, <2>8
<1> QED  BY <1>2, <1>3 DEF CreateInv

LEMMA CreateCall ==
    ASSUME OneCreate, TInv, NEW x \in Sessions, WalkInv(x), CreateInv(x), MCall(x)
    PROVE  CreateInv(x)'
<1>1. /\ pc[x] \in AtStep /\ pc[x] \in {"ready", "again"} /\ pc'[x] \in {"called", "calledAgain"}
      /\ UNCHANGED <<mem[x], disk[x], at[x], lost[x]>> /\ ans'[x] \in Answers(x)
  BY DEF MCall, Still, AtStep
<1>2. CreatePlace(x)'
  <2>1. Tool(x) = "create_report" /\ ans'[x].out = "ok" => ans'[x].data = "done"
    BY <1>1 DEF Answers
  <2> QED  BY <1>1, <2>1 DEF CreateInv, CreatePlace, InStock, Stock, Tool
<1>3. ASSUME NEW c \in Codes PROVE CreateCount(x, c)'
  <2>1. created[x][c] \in Nat /\ lost[x][c] \in Nat  BY Domains
  <2>2. CreateCount(x, c) /\ CreatePlace(x)  BY DEF CreateInv
  <2>3. CASE Tool(x) = "create_report" /\ ans'[x].data = "done" /\ c = Stock(x)
    <3>1. created'[x][c] = created[x][c] + 1  BY <2>3 DEF MCall
    <3>2. InStock(x)  BY <1>1, <2>3, AtPlace
    <3>3. ~Recorded(mem[x], c)
      BY <1>1, <2>2, <2>3, <3>2, NotYetKeyed DEF CreatePlace, Recorded
    <3>4. created[x][c] <= lost[x][c]  BY <1>1, <2>1, <2>2, <3>3 DEF CreateCount, Flying
    <3> QED  BY <1>1, <2>1, <2>3, <3>1, <3>4 DEF CreateCount, Flying, Tool, Stock
  <2>4. CASE ~(Tool(x) = "create_report" /\ ans'[x].data = "done" /\ c = Stock(x))
    <3>1. created'[x][c] = created[x][c]  BY <2>4 DEF MCall
    <3> QED  BY <1>1, <2>2, <3>1 DEF CreateCount, Flying
  <2> QED  BY <2>3, <2>4
<1> QED  BY <1>2, <1>3 DEF CreateInv

LEMMA CreateApply ==
    ASSUME TInv, NEW x \in Sessions, WalkInv(x), CreateInv(x), MApply(x)
    PROVE  CreateInv(x)'
<1>1. /\ pc[x] = "called" /\ pc[x] \in AtStep /\ pc'[x] = "applied"
      /\ UNCHANGED <<at[x], ans[x], created[x]>> /\ disk'[x] = mem'[x]
      /\ (Forgets(x) \/ UNCHANGED lost[x]) /\ (ans[x].out # "ok" => Forgets(x))
  BY DEF MApply, AtStep, Calm
<1>2. mem'[x] \in Working /\ mem'[x].keys = mem[x].keys /\ EffectCases(x, mem'[x])
  BY <1>1, EffectFacts DEF MApply
<1>3. InStock(x) => mem'[x].bots = mem[x].bots
  <2>1. InStock(x) => Tool(x) \notin {"get_report_bot_codes", "check_trading_day"}  BY <1>1, AtPlace
  <2> QED  BY <1>2, <2>1 DEF EffectCases, SameBut
<1>4. InStock(x)' = InStock(x) /\ Tool(x)' = Tool(x) /\ (InStock(x) => Stock(x)' = Stock(x))
  BY <1>1, <1>3 DEF InStock, Tool, Stock
<1>5. ASSUME NEW c \in Codes, mem'[x].st[c] = "reported"
      PROVE  mem[x].st[c] = "reported" \/ (Tool(x) = "create_report" /\ ans[x].out = "ok" /\ c = Stock(x))
  BY <1>2, <1>5 DEF EffectCases, SameBut
<1>6. CreatePlace(x)'
  <2>1. InStock(x) => Stock(x) \in Codes  BY <1>1, AtPlace
  <2>2. InStock(x) /\ mem'[x].st[Stock(x)] = "reported" =>
            Keyed(mem'[x], Stock(x), "create_report") \/ (Tool(x) = "create_report" /\ ans[x].out = "ok")
    BY <1>1, <1>2, <1>5, <2>1 DEF CreateInv, CreatePlace, Keyed
  <2>3. Tool(x) = "create_report" /\ ans[x].out = "ok" => ans[x].data = "done"
    BY <1>1 DEF CreateInv, CreatePlace
  <2> QED  BY <1>1, <1>4, <2>2, <2>3 DEF CreatePlace
<1>7. ASSUME NEW c \in Codes PROVE CreateCount(x, c)'
  <2>1. /\ created[x][c] \in Nat /\ lost[x][c] \in Nat /\ lost'[x][c] \in Nat
        /\ lost'[x][c] >= lost[x][c]
    BY <1>1, Domains, ForgetsParts
  <2>2. CreateCount(x, c) /\ CreatePlace(x)  BY DEF CreateInv
  <2>3. SUFFICES ASSUME created[x][c] > lost'[x][c] PROVE Recorded(mem'[x], c)
    BY <1>1, <2>1, <2>2 DEF CreateCount
  <2>4. created[x][c] > lost[x][c] /\ created[x][c] <= lost[x][c] + 1  BY <2>1, <2>2, <2>3 DEF CreateCount
  <2>5. CASE Flying(x, c)
    <3>1. ans[x].out = "ok"  BY <1>1, <2>1, <2>3, <2>4, <2>5, ForgetsParts DEF Flying
    <3> QED  BY <1>2, <2>5, <3>1 DEF EffectCases, Flying, SameBut, Recorded
  <2>6. CASE ~Flying(x, c)
    <3>1. Recorded(mem[x], c)  BY <2>2, <2>4, <2>6 DEF CreateCount
    <3>2. mem[x].st[c] = "reported" => mem'[x].st[c] = "reported" \/ Keyed(mem[x], c, "create_report")
      <4>1. CASE ~InStock(x)  BY <1>1, <4>1, NoneInPhaseA
      <4>2. CASE InStock(x)
        <5>1. Tool(x) \notin {"get_report_bot_codes", "check_trading_day"}  BY <1>1, <4>2, AtPlace
        <5>2. CASE c = Stock(x)  BY <1>1, <2>2, <4>2, <5>2 DEF CreatePlace
        <5>3. CASE c # Stock(x)  BY <1>2, <5>1, <5>3 DEF EffectCases, SameBut
        <5> QED  BY <5>2, <5>3
      <4> QED  BY <4>1, <4>2
    <3> QED  BY <1>2, <3>1, <3>2, RecordStays
  <2> QED  BY <2>5, <2>6
<1> QED  BY <1>6, <1>7 DEF CreateInv

LEMMA CreateSkip ==
    ASSUME TInv, NEW x \in Sessions, WalkInv(x), CreateInv(x), MSkip(x)
    PROVE  CreateInv(x)'
<1>1. /\ pc[x] \in AtStep /\ pc'[x] = "next" /\ InStock(x) /\ mem[x].keys \subseteq mem'[x].keys
      /\ SameBut(mem[x], mem'[x], Stock(x), "skipped") /\ disk'[x] \in {disk[x], mem'[x]}
  BY SkipFacts
<1>2. UNCHANGED <<created[x], lost[x]>> /\ Tool(x) # "create_report"  BY DEF MSkip, Calm
<1>3. CreatePlace(x)'  BY <1>1 DEF CreatePlace, AtStep
<1>4. ASSUME NEW c \in Codes PROVE CreateCount(x, c)'
  <2>1. CreateCount(x, c) /\ CreatePlace(x)  BY DEF CreateInv
  <2>2. SUFFICES ASSUME created[x][c] > lost[x][c]
                 PROVE  Recorded(mem'[x], c) /\ Recorded(disk'[x], c)
    BY <1>2, <2>1 DEF CreateCount
  <2>3. Recorded(mem[x], c) /\ Recorded(disk[x], c)  BY <1>2, <2>1, <2>2 DEF CreateCount, Flying
  <2>4. mem[x].st[c] = "reported" => mem'[x].st[c] = "reported" \/ Keyed(mem[x], c, "create_report")
    <3>1. CASE c = Stock(x)  BY <1>1, <1>2, <2>1, <3>1 DEF CreatePlace
    <3>2. CASE c # Stock(x)  BY <1>1, <3>2 DEF SameBut
    <3> QED  BY <3>1, <3>2
  <2>5. Recorded(mem'[x], c)  BY <1>1, <2>3, <2>4, RecordStays
  <2> QED  BY <1>1, <2>3, <2>5
<1> QED  BY <1>3, <1>4 DEF CreateInv

LEMMA CreateMark ==
    ASSUME OneCreate, TInv, NEW x \in Sessions, WalkInv(x), CreateInv(x), NEW w \in Working, MMark(x, w)
    PROVE  CreateInv(x)'
<1> DEFINE b == at[x][1]
           k == Key(mem[x], at[x][1], at[x][2])
<1>1. /\ pc[x] \in AtStep /\ pc[x] \in {"applied", "calledAgain"} /\ mem[x] \in Working
      /\ w.keys = mem[x].keys /\ mem'[x].keys = mem[x].keys \union {k}
      /\ mem'[x].bots = w.bots /\ mem'[x].st = w.st
      /\ (InStock(x) => w.bots = mem[x].bots)
      /\ (w = mem[x] \/ (pc[x] = "calledAgain" /\ EffectCases(x, w)))
  BY MarkFacts
<1>2. UNCHANGED created[x] /\ (Forgets(x) \/ UNCHANGED lost[x])  BY DEF MMark, Calm
<1>3. \/ disk'[x] = disk[x]
      \/ disk'[x] = w
  BY DEF MMark
<1>4. \/ pc'[x] \in {"finish", "next", "phaseB"}
      \/ pc'[x] = "ready" /\ at'[x][1] = b
  BY DEF MMark, MovesOn
<1>5. mem[x].keys \subseteq mem'[x].keys /\ k \in mem'[x].keys  BY <1>1
<1> HIDE DEF k
<1>6. ASSUME NEW c \in Codes, w.st[c] = "reported"
      PROVE  mem[x].st[c] = "reported" \/ (Tool(x) = "create_report" /\ ans[x].out = "ok" /\ c = Stock(x))
  BY <1>1, <1>6 DEF EffectCases, SameBut
<1>7. InStock(x) => Stock(x) \in Codes /\ Keyed(mem'[x], Stock(x), Tool(x))
  BY <1>1, <1>5, AtPlace, KeyedOnceMarked DEF k
<1>8. InStock(x) /\ w.st[Stock(x)] = "reported" => Keyed(mem'[x], Stock(x), "create_report")
  <2>1. SUFFICES ASSUME InStock(x), w.st[Stock(x)] = "reported"
                 PROVE  Keyed(mem'[x], Stock(x), "create_report")
    OBVIOUS
  <2>2. CASE Tool(x) = "create_report"  BY <1>7, <2>1, <2>2
  <2>3. CASE Tool(x) # "create_report"
    <3>1. mem[x].st[Stock(x)] = "reported"  BY <1>6, <1>7, <2>1, <2>3
    <3>2. Keyed(mem[x], Stock(x), "create_report")  BY <1>1, <2>1, <2>3, <3>1 DEF CreateInv, CreatePlace
    <3> QED  BY <1>5, <3>2 DEF Keyed
  <2> QED  BY <2>2, <2>3
<1>9. CreatePlace(x)'
  <2>1. CASE pc'[x] \in {"finish", "next", "phaseB"}  BY <2>1 DEF CreatePlace, AtStep
  <2>2. CASE pc'[x] = "ready" /\ at'[x][1] = b
    <3>1. InStock(x)' = InStock(x)  BY <2>2 DEF InStock
    <3>2. InStock(x) => Stock(x)' = Stock(x)  BY <1>1, <2>2 DEF Stock
    <3> QED  BY <1>1, <1>8, <2>2, <3>1, <3>2 DEF CreatePlace
  <2> QED  BY <1>4, <2>1, <2>2
<1>10. ASSUME NEW c \in Codes PROVE CreateCount(x, c)'
  <2>1. /\ created[x][c] \in Nat /\ lost[x][c] \in Nat /\ lost'[x][c] \in Nat
        /\ lost'[x][c] >= lost[x][c]
    BY <1>2, Domains, ForgetsParts
  <2>2. CreateCount(x, c) /\ CreatePlace(x)  BY DEF CreateInv
  <2>3. SUFFICES ASSUME created[x][c] > lost'[x][c]
                 PROVE  Recorded(mem'[x], c) /\ Recorded(disk'[x], c)
    BY <1>2, <2>1, <2>2 DEF CreateCount
  <2>4. created[x][c] > lost[x][c] /\ created[x][c] <= lost[x][c] + 1  BY <2>1, <2>2, <2>3 DEF CreateCount
  <2>5. ~(Forgets(x) /\ Tool(x) = "create_report" /\ ans[x].data = "done" /\ Stock(x) = c)
    BY <2>1, <2>3, <2>4, ForgetsParts
  <2>6. CASE Flying(x, c)
    <3>1. InStock(x) /\ Stock(x) = c /\ Tool(x) = "create_report" /\ pc[x] = "calledAgain"
      BY <1>1, <2>6, AtPlace DEF Flying
    <3>2. mem[x].st[c] # "reported"
      BY <1>1, <2>2, <3>1, NotYetKeyed DEF CreatePlace
    <3>3. w = Effect(mem[x], Tool(x), b, ans[x]) /\ ans[x].out = "ok"
      BY <2>5, <2>6, <3>1 DEF MMark, Flying
    <3>4. w.st[c] = "reported"
      <4>1. EffectCases(x, w)  BY <1>1, <3>1, <3>3, EffectFacts
      <4> QED  BY <3>1, <3>3, <4>1 DEF EffectCases, SameBut
    <3>5. disk'[x] = w  BY <2>5, <2>6, <3>1, <3>2, <3>4 DEF MMark, Flying
    <3> QED  BY <1>1, <3>4, <3>5 DEF Recorded
  <2>7. CASE ~Flying(x, c)
    <3>1. Recorded(mem[x], c) /\ Recorded(disk[x], c)  BY <2>2, <2>4, <2>7 DEF CreateCount
    <3>2. mem[x].st[c] = "reported" => w.st[c] = "reported" \/ Keyed(mem[x], c, "create_report")
      <4>1. CASE ~InStock(x)  BY <1>1, <4>1, NoneInPhaseA
      <4>2. CASE InStock(x)
        <5>1. Tool(x) \notin {"get_report_bot_codes", "check_trading_day"}  BY <1>1, <4>2, AtPlace
        <5>2. CASE w = mem[x]  BY <5>2
        <5>3. CASE pc[x] = "calledAgain" /\ EffectCases(x, w) /\ c = Stock(x)
          BY <1>1, <2>2, <4>2, <5>3 DEF CreatePlace
        <5>4. CASE EffectCases(x, w) /\ c # Stock(x)  BY <5>1, <5>4 DEF EffectCases, SameBut
        <5> QED  BY <1>1, <5>2, <5>3, <5>4
      <4> QED  BY <4>1, <4>2
    <3>3. Recorded(w, c)  BY <1>1, <3>1, <3>2, RecordStays
    <3>4. Recorded(mem'[x], c)  BY <1>1, <1>5, <3>3, RecordStays
    <3> QED  BY <1>3, <3>1, <3>3, <3>4
  <2> QED  BY <2>6, <2>7
<1> QED  BY <1>9, <1>10 DEF CreateInv

LEMMA CreateNext ==
    ASSUME TInv, NEW x \in Sessions, CreateInv(x), NEW b \in Nat, MNext(x, b)
    PROVE  CreateInv(x)'
<1> DEFINE s == mem[x].bots[b]
<1>1. /\ mem[x] \in Working /\ mem'[x].keys = mem[x].keys /\ disk'[x] \in {disk[x], mem'[x]}
      /\ s \in Codes /\ b \in Nat
      /\ \/ mem'[x] = mem[x]
         \/ mem[x].st[s] = "pending" /\ SameBut(mem[x], mem'[x], s, "collecting")
  BY NextFacts
<1>2. /\ pc[x] = "next" /\ mem[x].st[s] # "reported" /\ UNCHANGED <<created[x], lost[x]>>
      /\ (pc'[x] = "ready" /\ at'[x][1] = b) \/ pc'[x] = "next"
  BY DEF MNext, Calm
<1> HIDE DEF s
<1>3. mem'[x].st[s] # "reported" /\ mem'[x].bots = mem[x].bots  BY <1>1, <1>2 DEF SameBut
<1>4. CreatePlace(x)'
  <2>1. CASE pc'[x] = "ready" /\ at'[x][1] = b
    <3>1. Stock(x)' = s  BY <1>3, <2>1 DEF Stock, s
    <3> QED  BY <1>3, <2>1, <3>1 DEF CreatePlace
  <2>2. CASE pc'[x] = "next"  BY <2>2 DEF CreatePlace, AtStep
  <2> QED  BY <1>2, <2>1, <2>2
<1>5. ASSUME NEW c \in Codes PROVE CreateCount(x, c)'
  <2>1. CreateCount(x, c)  BY DEF CreateInv
  <2>2. SUFFICES ASSUME created[x][c] > lost[x][c]
                 PROVE  Recorded(mem'[x], c) /\ Recorded(disk'[x], c)
    BY <1>2, <2>1 DEF CreateCount
  <2>3. Recorded(mem[x], c) /\ Recorded(disk[x], c)  BY <1>2, <2>1, <2>2 DEF CreateCount, Flying
  <2>4. mem[x].st[c] = "reported" => mem'[x].st[c] = "reported"
    BY <1>1, <1>2 DEF SameBut
  <2>5. Recorded(mem'[x], c)  BY <1>1, <2>3, <2>4, RecordStays
  <2> QED  BY <1>1, <2>3, <2>5
<1> QED  BY <1>4, <1>5 DEF CreateInv

\* Steps that keep keys and statuses, and a return to the saved state.
LEMMA CreateRest ==
    ASSUME TInv, NEW x \in Sessions, CreateInv(x),
           \/ MStart(x) \/ MAgain(x) \/ MPhaseB(x) \/ MDone(x)
           \/ MFinish(x) \/ MCancel(x) \/ MCrash(x) \/ MResume(x)
    PROVE  CreateInv(x)'
<1>1. CASE MStart(x) \/ MAgain(x) \/ MFinish(x) \/ MCancel(x)
  <2>1. UNCHANGED <<mem[x], disk[x], at[x], created[x], lost[x]>>
    BY <1>1 DEF MStart, MAgain, MFinish, MCancel, Still, Calm
  <2>2. \/ MCancel(x) /\ UNCHANGED <<pc[x], ans[x]>>
        \/ pc[x] = "new" /\ pc'[x] = "ready"
        \/ pc[x] = "applied" /\ ans[x].out = "err" /\ pc'[x] = "again"
        \/ pc[x] = "finish" /\ pc'[x] = "ended"
    BY <1>1 DEF MStart, MAgain, MFinish, MCancel
  <2>3. CreatePlace(x)'
    BY <2>1, <2>2 DEF CreateInv, CreatePlace, InStock, Stock, Tool, AtStep
  <2>4. ASSUME NEW c \in Codes PROVE CreateCount(x, c)'
    BY <2>1, <2>2 DEF CreateInv, CreateCount, Flying, Stock, Tool
  <2> QED  BY <2>3, <2>4 DEF CreateInv
<1>2. CASE MPhaseB(x) \/ MDone(x)
  <2>1. /\ mem'[x].keys = mem[x].keys /\ mem'[x].st = mem[x].st /\ disk'[x] \in {disk[x], mem'[x]}
        /\ pc[x] \in {"phaseB", "next"} /\ pc'[x] \in {"next", "finish"}
        /\ UNCHANGED <<created[x], lost[x]>>
    BY <1>2, PhaseFacts DEF MPhaseB, MDone, Calm
  <2>2. CreatePlace(x)'  BY <2>1 DEF CreatePlace, AtStep
  <2>3. ASSUME NEW c \in Codes PROVE CreateCount(x, c)'
    <3>1. CreateCount(x, c)  BY DEF CreateInv
    <3> QED  BY <2>1, <3>1 DEF CreateCount, Flying, Recorded, Keyed
  <2> QED  BY <2>2, <2>3 DEF CreateInv
<1>3. CASE MCrash(x)
  <2>1. /\ UNCHANGED <<mem[x], disk[x], created[x]>> /\ pc'[x] = "crashed"
        /\ (Forgets(x) \/ UNCHANGED lost[x])
        /\ (pc[x] \in {"called", "calledAgain"} => Forgets(x))
    BY <1>3 DEF MCrash, Calm, Still
  <2>2. CreatePlace(x)'  BY <2>1 DEF CreatePlace, AtStep
  <2>3. ASSUME NEW c \in Codes PROVE CreateCount(x, c)'
    <3>1. /\ created[x][c] \in Nat /\ lost[x][c] \in Nat /\ lost'[x][c] \in Nat
          /\ lost'[x][c] >= lost[x][c]
      BY <2>1, Domains, ForgetsParts
    <3>2. CreateCount(x, c)  BY DEF CreateInv
    <3>3. SUFFICES ASSUME created[x][c] > lost'[x][c]
                 PROVE  Recorded(mem[x], c) /\ Recorded(disk[x], c)
      BY <2>1, <3>1, <3>2 DEF CreateCount
    <3>4. created[x][c] > lost[x][c] /\ created[x][c] <= lost[x][c] + 1  BY <3>1, <3>2, <3>3 DEF CreateCount
    <3>5. ~Flying(x, c)  BY <2>1, <3>1, <3>3, <3>4, ForgetsParts DEF Flying
    <3> QED  BY <3>2, <3>4, <3>5 DEF CreateCount
  <2> QED  BY <2>2, <2>3 DEF CreateInv
<1>4. CASE MResume(x)
  <2>1. /\ mem'[x] = disk[x] /\ UNCHANGED <<disk[x], created[x], lost[x]>>
        /\ pc[x] \in {"crashed", "ended"}
        /\ pc'[x] \in {"ended", "phaseB"} \/ (pc'[x] = "ready" /\ at'[x][1] = 0)
    BY <1>4 DEF MResume
  <2>2. CreatePlace(x)'  BY <2>1 DEF CreatePlace, AtStep, InStock
  <2>3. ASSUME NEW c \in Codes PROVE CreateCount(x, c)'
    BY <2>1 DEF CreateInv, CreateCount, Flying
  <2> QED  BY <2>2, <2>3 DEF CreateInv
<1> QED  BY <1>1, <1>2, <1>3, <1>4

Creates == \A x \in Sessions : CreateInv(x)

LEMMA InitCreates == Init => Creates
<1> SUFFICES ASSUME Init, NEW x \in Sessions PROVE CreateInv(x)  BY DEF Creates
<1>1. /\ pc[x] = "new" /\ at[x] = <<0, 1>>
      /\ created[x] = [c \in Codes |-> 0] /\ lost[x] = [c \in Codes |-> 0]
  BY DEF Init
<1>2. CreatePlace(x)  BY <1>1 DEF CreatePlace, InStock
<1>3. ASSUME NEW c \in Codes PROVE CreateCount(x, c)  BY <1>1 DEF CreateCount
<1> QED  BY <1>2, <1>3 DEF CreateInv

LEMMA NextCreates ==
    ASSUME OneCreate
    PROVE  TInv /\ Walks /\ Creates /\ [Next]_vars => Creates'
<1> SUFFICES ASSUME TInv, Walks, Creates, [Next]_vars PROVE Creates'  OBVIOUS
<1>1. CASE UNCHANGED vars
  BY <1>1 DEF vars, Creates, CreateInv, CreatePlace, CreateCount, Flying, InStock, Tool, Stock
<1>2. ASSUME NEW x \in Sessions, Moves(x), Others(x) PROVE Creates'
  <2>1. WalkInv(x) /\ CreateInv(x)  BY DEF Walks, Creates
  <2>2. CreateInv(x)'
    BY <1>2, <2>1, CreateFail, CreateCall, CreateApply, CreateSkip, CreateMark, CreateNext, CreateRest
       DEF Moves
  <2> QED  BY <1>2, <2>2, OtherCreate DEF Creates
<1> QED  BY <1>1, <1>2, NextMoves

\* A report is created a second time only for a create the session has no
\* record of (runner.go:294, working.go:330), for step lists with at most one
\* create, as both markets' have.
THEOREM Duplicates == ASSUME OneCreate PROVE Spec => []DuplicatesHaveCause
<1>1. Init => TInv /\ Walks /\ Creates  BY InitTypes, InitWalks, InitCreates
<1>2. TInv /\ Walks /\ Creates /\ [Next]_vars => TInv' /\ Walks' /\ Creates'
  BY NextTypes, NextWalks, NextCreates
<1>3. TInv /\ Creates => DuplicatesHaveCause
  <2> SUFFICES ASSUME TInv, Creates, NEW x \in Sessions, NEW c \in Codes
               PROVE  created[x][c] <= 1 + lost[x][c]
    BY DEF DuplicatesHaveCause
  <2>1. created[x][c] \in Nat /\ lost[x][c] \in Nat  BY Domains
  <2>2. created[x][c] <= lost[x][c] + 1  BY DEF Creates, CreateInv, CreateCount
  <2> QED  BY <2>1, <2>2
<1> QED  BY <1>1, <1>2, <1>3, PTL DEF Spec
-----------------------------------------------------------------------------
(* Checks before creates.                                                  *)

\* Every creation of a report, and every look at the daily reports, comes
\* after a check of today's reports in the steps of a stock.
ListFirst ==
    \A i \in 1..Len(PerStock) : PerStock[i] \in {"create_report", "get_stock_daily_reports"} =>
        \E j \in 1..(i - 1) : PerStock[j] = "list_today_reports"

\* What only grows.
Grows(x) ==
    /\ \A c \in Codes : /\ checked[x][c] => checked'[x][c]
                        /\ reports[c] \in Nat /\ reports'[c] \in Nat /\ reports'[c] >= reports[c]
    /\ unsaved[x] => unsaved'[x]

LEMMA MovesGrow == ASSUME TInv, TInv', NEW x \in Sessions, Moves(x), Others(x) PROVE Grows(x)
<1>1. \A c \in Codes : reports[c] \in Nat /\ reports'[c] \in Nat /\ reports'[c] >= reports[c]
  BY DEF Others, TInv, Types
<1>2. CASE MCall(x)  BY <1>1, <1>2 DEF MCall, Still, Grows
<1>3. CASE MStart(x) \/ MFail(x) \/ MApply(x) \/ MSkip(x) \/ MAgain(x)
  BY <1>1, <1>3 DEF MStart, MFail, MApply, MSkip, MAgain, Calm, Still, Saved, Grows
<1>4. CASE MPhaseB(x) \/ MDone(x) \/ MFinish(x) \/ MCancel(x) \/ MCrash(x) \/ MResume(x)
  BY <1>1, <1>4 DEF MPhaseB, MDone, MFinish, MCancel, MCrash, MResume, Calm, Still, Saved, Grows
<1>5. ASSUME NEW w \in Working, MMark(x, w) PROVE Grows(x)
  BY <1>1, <1>5 DEF MMark, Calm, Grows
<1>6. ASSUME NEW b \in Nat, MNext(x, b) PROVE Grows(x)
  BY <1>1, <1>6 DEF MNext, Calm, Saved, Grows
<1> QED  BY <1>2, <1>3, <1>4, <1>5, <1>6 DEF Moves

\* At a step that needs the check, the check is complete.
LEMMA ListedBefore ==
    ASSUME ListFirst, TInv, NEW x \in Sessions, WalkInv(x), pc[x] \in AtStep, InStock(x),
           Tool(x) \in {"create_report", "get_stock_daily_reports"}
    PROVE  Keyed(mem[x], Stock(x), "list_today_reports")
<1>1. /\ Steps(at[x][1]) = PerStock /\ Owner(mem[x], at[x][1]) = Stock(x)
      /\ at[x][2] \in 1..Len(PerStock)
  BY AtPlace
<1>2. PICK j \in 1..(at[x][2] - 1) : PerStock[j] = "list_today_reports"
  BY <1>1 DEF ListFirst, Tool
<1>3. <<Stock(x), j>> \in mem[x].keys  BY <1>1, <1>2 DEF WalkInv, Walk, Key
<1>4. j \in 1..Len(PerStock)  BY <1>1, <1>2, StepsAssumption DEF StepsAssumption
<1> QED  BY <1>2, <1>3, <1>4 DEF Keyed

\* A mark adds the key of the step and no other.
LEMMA KeyedByMark ==
    ASSUME TInv, NEW x \in Sessions, pc[x] \in AtStep, NEW v, NEW c \in Codes, NEW t,
           v.keys = mem[x].keys \union {Key(mem[x], at[x][1], at[x][2])},
           Keyed(v, c, t)
    PROVE  Keyed(mem[x], c, t) \/ (InStock(x) /\ c = Stock(x) /\ t = Tool(x))
<1>1. PICK j \in 1..Len(PerStock) : PerStock[j] = t /\ <<c, j>> \in v.keys  BY DEF Keyed
<1>2. CASE <<c, j>> \in mem[x].keys  BY <1>1, <1>2 DEF Keyed
<1>3. CASE <<c, j>> = Key(mem[x], at[x][1], at[x][2])
  <2>1. c = Owner(mem[x], at[x][1]) /\ j = at[x][2]  BY <1>3 DEF Key
  <2>2. InStock(x)  BY <2>1, AtPlace, BotsAssumption DEF BotsAssumption
  <2>3. Steps(at[x][1]) = PerStock /\ Owner(mem[x], at[x][1]) = Stock(x)  BY <2>2, AtPlace
  <2> QED  BY <1>1, <2>1, <2>2, <2>3 DEF Tool
<1> QED  BY <1>1, <1>2, <1>3

LEMMA NotKeyedInPhaseA ==
    ASSUME TInv, NEW x \in Sessions, WalkInv(x), pc[x] \in AtStep, ~InStock(x),
           NEW c \in Codes, NEW t
    PROVE  ~Keyed(mem[x], c, t)
<1>1. \A k \in mem[x].keys : k[1] # c  BY NoneInPhaseA
<1>2. \A j : <<c, j>>[1] = c  OBVIOUS
<1> QED  BY <1>1, <1>2 DEF Keyed

LEMMA OtherCheck ==
    ASSUME TInv, TInv', NEW x \in Sessions, NEW y \in Sessions \ {x}, Others(x), CheckInv(y)
    PROVE  CheckInv(y)'
<1>1. UNCHANGED <<pc[y], at[y], mem[y], disk[y], ans[y], unsaved[y], created[y], checked[y]>>
  BY DEF Others
<1>2. \A c \in Codes : reports[c] \in Nat /\ reports'[c] \in Nat /\ reports'[c] >= reports[c]
  BY DEF Others, TInv, Types
<1>3. CheckAnswer(y)'
  <2>1. SUFFICES ASSUME pc[y] \in {"called", "applied", "calledAgain"},
                        Tool(y) = "list_today_reports", ans[y].out = "ok"
                 PROVE  \/ ans[y].data = "none" /\ checked[y][Stock(y)]
                        \/ /\ ans[y].data = "reported" /\ reports'[Stock(y)] > 0
                           /\ pc[y] = "applied" => mem[y].st[Stock(y)] = "skipped"
    BY <1>1 DEF CheckAnswer, Tool, Stock
  <2>2. Stock(y) \in Codes  BY <2>1, AtPlace DEF AtStep
  <2> QED  BY <1>2, <2>1, <2>2 DEF CheckInv, CheckAnswer
<1>4. CheckPlace(y)'  BY <1>1 DEF CheckInv, CheckPlace, InStock, Stock
<1>5. ASSUME NEW c \in Codes PROVE CheckStock(y, c)'
  BY <1>1, <1>2 DEF CheckInv, CheckStock, CheckHolds
<1> QED  BY <1>3, <1>4, <1>5 DEF CheckInv

\* Moves that create nothing: what is saved is what was there or what is now.
LEMMA CheckDisk ==
    ASSUME TInv, NEW x \in Sessions, CheckInv(x), Grows(x), UNCHANGED created[x], NEW c \in Codes,
           \/ disk'[x] \in {disk[x], mem[x], mem'[x]}
           \/ disk'[x].st = mem'[x].st /\ disk'[x].keys \subseteq mem'[x].keys,
           CheckHolds(x, c, mem[x])'
    PROVE  CheckStock(x, c)'
<1>1. CheckStock(x, c) /\ reports[c] \in Nat /\ reports'[c] \in Nat /\ reports'[c] >= reports[c]
      /\ (checked[x][c] => checked'[x][c]) /\ (unsaved[x] => unsaved'[x])
  BY DEF CheckInv, Grows
<1>2. CheckHolds(x, c, disk[x])'
  <2>1. CASE disk'[x].st = mem'[x].st /\ disk'[x].keys \subseteq mem'[x].keys
    <3>1. Keyed(disk'[x], c, "list_today_reports") => Keyed(mem'[x], c, "list_today_reports")
      BY <2>1 DEF Keyed
    <3> QED  BY <2>1, <3>1 DEF CheckHolds
  <2>2. CASE disk'[x] \in {disk[x], mem[x]}  BY <1>1, <2>2 DEF CheckStock, CheckHolds
  <2> QED  BY <2>1, <2>2
<1> QED  BY <1>1, <1>2 DEF CheckStock

\* Moves that complete no check.
LEMMA CheckStays ==
    ASSUME TInv, NEW x \in Sessions, CheckInv(x), Grows(x), NEW c \in Codes,
           Keyed(mem'[x], c, "list_today_reports") =>
               /\ Keyed(mem[x], c, "list_today_reports")
               /\ mem[x].st[c] = "skipped" =>
                      mem'[x].st[c] = "skipped" \/ checked[x][c] \/ unsaved[x]
    PROVE  CheckHolds(x, c, mem[x])'
<1>1. CheckStock(x, c) /\ reports[c] \in Nat /\ reports'[c] \in Nat /\ reports'[c] >= reports[c]
      /\ (checked[x][c] => checked'[x][c]) /\ (unsaved[x] => unsaved'[x])
  BY DEF CheckInv, Grows
<1> QED  BY <1>1 DEF CheckStock, CheckHolds

LEMMA CheckFail ==
    ASSUME TInv, NEW x \in Sessions, WalkInv(x), CheckInv(x), Grows(x), MFail(x)
    PROVE  CheckInv(x)'
<1>1. pc[x] \in AtStep /\ pc'[x] \notin AtStep /\ mem'[x].keys = mem[x].keys /\ UNCHANGED created[x]
      /\ disk'[x] \in {disk[x], mem[x], mem'[x]}
  BY FailFacts DEF MFail, Calm, AtStep
<1>2. CheckPlace(x)' /\ CheckAnswer(x)'  BY <1>1 DEF CheckPlace, CheckAnswer, AtStep
<1>3. ASSUME NEW c \in Codes, Keyed(mem'[x], c, "list_today_reports")
      PROVE  /\ Keyed(mem[x], c, "list_today_reports")
             /\ mem[x].st[c] = "skipped" => mem'[x].st[c] = "skipped" \/ checked[x][c] \/ unsaved[x]
  <2>1. Keyed(mem[x], c, "list_today_reports")  BY <1>1, <1>3 DEF Keyed
  <2>2. InStock(x)  BY <1>1, <2>1, NotKeyedInPhaseA
  <2>3. CASE c = Stock(x)  BY <1>1, <2>1, <2>2, <2>3 DEF CheckInv, CheckPlace
  <2>4. CASE c # Stock(x)  BY <2>1, <2>2, <2>4, FailFacts DEF SameBut
  <2> QED  BY <2>3, <2>4
<1>4. \A c \in Codes : CheckStock(x, c)'  BY <1>1, <1>3, CheckStays, CheckDisk
<1> QED  BY <1>2, <1>4 DEF CheckInv

LEMMA CheckSkip ==
    ASSUME TInv, NEW x \in Sessions, CheckInv(x), Grows(x), MSkip(x)
    PROVE  CheckInv(x)'
<1>1. /\ pc[x] \in AtStep /\ pc'[x] = "next"
      /\ mem'[x].keys = mem[x].keys \union {Key(mem[x], at[x][1], at[x][2])}
      /\ SameBut(mem[x], mem'[x], Stock(x), "skipped") /\ disk'[x] \in {disk[x], mem'[x]}
      /\ UNCHANGED created[x] /\ Tool(x) # "list_today_reports"
  BY SkipFacts DEF MSkip, Calm
<1>2. CheckPlace(x)' /\ CheckAnswer(x)'  BY <1>1 DEF CheckPlace, CheckAnswer, AtStep
<1>3. ASSUME NEW c \in Codes, Keyed(mem'[x], c, "list_today_reports")
      PROVE  /\ Keyed(mem[x], c, "list_today_reports")
             /\ mem[x].st[c] = "skipped" => mem'[x].st[c] = "skipped" \/ checked[x][c] \/ unsaved[x]
  <2>1. Keyed(mem[x], c, "list_today_reports")  BY <1>1, <1>3, KeyedByMark
  <2>2. mem[x].st[c] = "skipped" => mem'[x].st[c] = "skipped"  BY <1>1 DEF SameBut
  <2> QED  BY <2>1, <2>2
<1>4. \A c \in Codes : CheckStock(x, c)'  BY <1>1, <1>3, CheckStays, CheckDisk
<1> QED  BY <1>2, <1>4 DEF CheckInv

LEMMA CheckCall ==
    ASSUME ListFirst, TInv, NEW x \in Sessions, WalkInv(x), CheckInv(x), Grows(x), MCall(x)
    PROVE  CheckInv(x)'
<1>1. /\ pc[x] \in AtStep /\ pc[x] \in {"ready", "again"} /\ pc'[x] \in {"called", "calledAgain"}
      /\ UNCHANGED <<mem[x], disk[x], unsaved[x], at[x]>> /\ ans'[x] \in Answers(x)
  BY DEF MCall, Still, AtStep
<1>2. InStock(x)' = InStock(x) /\ Stock(x)' = Stock(x) /\ Tool(x)' = Tool(x)
  BY <1>1 DEF InStock, Stock, Tool
<1>3. InStock(x) => Stock(x) \in Codes  BY <1>1, AtPlace
<1>4. CheckAnswer(x)'
  <2>1. SUFFICES ASSUME Tool(x) = "list_today_reports", ans'[x].out = "ok"
                 PROVE  \/ ans'[x].data = "none" /\ checked'[x][Stock(x)]
                        \/ ans'[x].data = "reported" /\ reports'[Stock(x)] > 0
    BY <1>1, <1>2 DEF CheckAnswer
  <2>2. Stock(x) \in Codes  BY <1>1, <2>1, AtPlace
  <2>3. ans'[x].data = IF reports[Stock(x)] > 0 THEN "reported" ELSE "none"
    BY <1>1, <2>1 DEF Answers
  <2>4. ans'[x].data = "none" => checked'[x][Stock(x)]  BY <2>1, <2>2 DEF MCall
  <2>5. reports[Stock(x)] \in Nat /\ reports'[Stock(x)] >= reports[Stock(x)]
        /\ reports'[Stock(x)] = reports[Stock(x)]
    BY <2>1, <2>2 DEF Grows, TInv, Types, MCall
  <2> QED  BY <2>3, <2>4, <2>5
<1>5. CheckPlace(x)'
  BY <1>1, <1>2, <1>3 DEF CheckInv, CheckPlace, Grows
<1>6. ASSUME NEW c \in Codes PROVE CheckStock(x, c)'
  <2>1. CheckStock(x, c) /\ reports[c] \in Nat /\ reports'[c] \in Nat /\ reports'[c] >= reports[c]
        /\ (checked[x][c] => checked'[x][c])
    BY DEF CheckInv, Grows
  <2>2. CheckHolds(x, c, mem[x])' /\ CheckHolds(x, c, disk[x])'
    BY <1>1, <2>1 DEF CheckStock, CheckHolds
  <2>3. created'[x][c] > 0 => checked'[x][c] \/ unsaved'[x]
    <3>1. CASE Tool(x) = "create_report" /\ c = Stock(x)
      <4>1. InStock(x)  BY <1>1, <3>1, AtPlace
      <4>2. Keyed(mem[x], c, "list_today_reports")  BY <1>1, <3>1, <4>1, ListedBefore
      <4>3. checked[x][c] \/ unsaved[x]  BY <1>1, <3>1, <4>1, <4>2 DEF CheckInv, CheckPlace
      <4> QED  BY <1>1, <2>1, <4>3
    <3>2. CASE ~(Tool(x) = "create_report" /\ c = Stock(x))
      <4>1. created'[x][c] = created[x][c]  BY <3>2 DEF MCall
      <4> QED  BY <1>1, <2>1, <4>1 DEF CheckStock
    <3> QED  BY <3>1, <3>2
  <2> QED  BY <2>2, <2>3 DEF CheckStock
<1> QED  BY <1>4, <1>5, <1>6 DEF CheckInv

LEMMA CheckApply ==
    ASSUME TInv, NEW x \in Sessions, WalkInv(x), CheckInv(x), Grows(x), MApply(x)
    PROVE  CheckInv(x)'
<1>1. /\ pc[x] = "called" /\ pc[x] \in AtStep /\ pc'[x] = "applied" /\ disk'[x] = mem'[x]
      /\ UNCHANGED <<at[x], ans[x], created[x]>>
  BY DEF MApply, AtStep, Calm
<1>2. mem'[x].keys = mem[x].keys /\ EffectCases(x, mem'[x])  BY <1>1, EffectFacts DEF MApply
<1>3. InStock(x) => mem'[x].bots = mem[x].bots /\ Stock(x) \in Codes
  <2>1. InStock(x) => Tool(x) \notin {"get_report_bot_codes", "check_trading_day"}  BY <1>1, AtPlace
  <2> QED  BY <1>1, <1>2, <2>1, AtPlace DEF EffectCases, SameBut
<1>4. InStock(x)' = InStock(x) /\ Tool(x)' = Tool(x) /\ (InStock(x) => Stock(x)' = Stock(x))
  BY <1>1, <1>3 DEF InStock, Tool, Stock
<1>5. CheckAnswer(x)'
  <2>1. SUFFICES ASSUME Tool(x) = "list_today_reports", ans[x].out = "ok"
                 PROVE  \/ ans[x].data = "none" /\ checked'[x][Stock(x)]
                        \/ /\ ans[x].data = "reported" /\ reports'[Stock(x)] > 0
                           /\ mem'[x].st[Stock(x)] = "skipped"
    <3>1. Tool(x) = "list_today_reports" => InStock(x)  BY <1>1, AtPlace
    <3> QED  BY <1>1, <1>4, <3>1 DEF CheckAnswer
  <2>2. Stock(x) \in Codes  BY <1>1, <2>1, AtPlace
  <2>3. \/ ans[x].data = "none" /\ checked[x][Stock(x)]
        \/ ans[x].data = "reported" /\ reports[Stock(x)] > 0
    BY <1>1, <2>1 DEF CheckInv, CheckAnswer
  <2>4. ans[x].data = "reported" => mem'[x].st[Stock(x)] = "skipped"
    BY <1>2, <2>1 DEF EffectCases, SameBut
  <2> QED  BY <2>2, <2>3, <2>4 DEF Grows
<1>6. CheckPlace(x)'
  <2>1. InStock(x) /\ Keyed(mem'[x], Stock(x), "list_today_reports") => checked[x][Stock(x)] \/ unsaved[x]
    BY <1>1, <1>2 DEF CheckInv, CheckPlace, Keyed
  <2> QED  BY <1>1, <1>3, <1>4, <2>1 DEF CheckPlace, Grows
<1>7. ASSUME NEW c \in Codes PROVE CheckStock(x, c)'
  <2>1. Keyed(mem'[x], c, "list_today_reports") =>
            /\ Keyed(mem[x], c, "list_today_reports")
            /\ mem[x].st[c] = "skipped" => mem'[x].st[c] = "skipped" \/ checked[x][c] \/ unsaved[x]
    <3>1. SUFFICES ASSUME Keyed(mem[x], c, "list_today_reports"), mem[x].st[c] = "skipped"
                   PROVE  mem'[x].st[c] = "skipped" \/ checked[x][c] \/ unsaved[x]
      BY <1>2 DEF Keyed
    <3>2. InStock(x)  BY <1>1, <3>1, NotKeyedInPhaseA
    <3>3. CASE c = Stock(x)  BY <1>1, <3>1, <3>2, <3>3 DEF CheckInv, CheckPlace
    <3>4. CASE c # Stock(x)
      <4>1. Tool(x) \notin {"get_report_bot_codes", "check_trading_day"}  BY <1>1, <3>2, AtPlace
      <4> QED  BY <1>2, <3>1, <3>4, <4>1 DEF EffectCases, SameBut
    <3> QED  BY <3>3, <3>4
  <2>2. CheckHolds(x, c, mem[x])'  BY <2>1, CheckStays
  <2> QED  BY <1>1, <2>2, CheckDisk
<1> QED  BY <1>5, <1>6, <1>7 DEF CheckInv

LEMMA CheckMark ==
    ASSUME TInv, NEW x \in Sessions, WalkInv(x), CheckInv(x), Grows(x), NEW w \in Working, MMark(x, w)
    PROVE  CheckInv(x)'
<1> DEFINE L == "list_today_reports"
<1>1. /\ pc[x] \in AtStep /\ pc[x] \in {"applied", "calledAgain"}
      /\ w.keys = mem[x].keys /\ mem'[x].keys = mem[x].keys \union {Key(mem[x], at[x][1], at[x][2])}
      /\ mem'[x].bots = w.bots /\ mem'[x].st = w.st /\ (InStock(x) => w.bots = mem[x].bots)
      /\ \/ pc[x] = "applied" /\ w = mem[x]
         \/ pc[x] = "calledAgain" /\ w = mem[x]
         \/ pc[x] = "calledAgain" /\ EffectCases(x, w)
  BY MarkFacts
<1>2. UNCHANGED created[x] /\ disk'[x] \in {disk[x], w}  BY DEF MMark, Calm
<1>3. \/ pc'[x] \in {"finish", "next", "phaseB"}
      \/ /\ pc'[x] = "ready" /\ at'[x][1] = at[x][1]
         /\ ~(InStock(x) /\ Tool(x) = L /\ w.st[Stock(x)] = "skipped")
  BY DEF MMark, MovesOn
<1>4. InStock(x) => Stock(x) \in Codes  BY <1>1, AtPlace
<1>5. ASSUME NEW c \in Codes, Keyed(mem[x], c, L), mem[x].st[c] = "skipped"
      PROVE  w.st[c] = "skipped" \/ checked[x][c] \/ unsaved[x]
  <2>1. InStock(x)  BY <1>1, <1>5, NotKeyedInPhaseA
  <2>2. CASE c = Stock(x)  BY <1>1, <1>5, <2>1, <2>2 DEF CheckInv, CheckPlace
  <2>3. CASE c # Stock(x)
    <3>1. Tool(x) \notin {"get_report_bot_codes", "check_trading_day"}  BY <1>1, <2>1, AtPlace
    <3> QED  BY <1>1, <1>5, <2>3, <3>1 DEF EffectCases, SameBut
  <2> QED  BY <2>2, <2>3
\* The check of the stock at hand is completed: its answer was good.
<1>6. ASSUME Tool(x) = L
      PROVE  /\ checked[x][Stock(x)] \/ reports[Stock(x)] > 0
             /\ checked[x][Stock(x)] \/ unsaved'[x] \/ w.st[Stock(x)] = "skipped"
  <2>1. ans[x].out = "ok"  BY <1>6, StepsAssumption DEF StepsAssumption, MMark
  <2>2. \/ ans[x].data = "none" /\ checked[x][Stock(x)]
        \/ /\ ans[x].data = "reported" /\ reports[Stock(x)] > 0
           /\ pc[x] = "applied" => mem[x].st[Stock(x)] = "skipped"
    BY <1>1, <1>6, <2>1 DEF CheckInv, CheckAnswer
  <2>3. CASE pc[x] = "applied"
    <3>1. w = mem[x]  BY <1>1, <2>3
    <3> QED  BY <2>2, <2>3, <3>1
  <2>4. CASE pc[x] = "calledAgain"
    <3>1. w = Effect(mem[x], Tool(x), at[x][1], ans[x]) \/ unsaved'[x]  BY <2>4 DEF MMark
    <3>2. CASE unsaved'[x]  BY <2>2, <3>2
    <3>3. CASE w = Effect(mem[x], Tool(x), at[x][1], ans[x])
      <4>1. EffectCases(x, w)  BY <2>4, <3>3, EffectFacts
      <4>2. ans[x].data = "reported" => w.st[Stock(x)] = "skipped"
        BY <1>6, <2>1, <4>1 DEF EffectCases, SameBut
      <4> QED  BY <2>2, <4>2
    <3> QED  BY <3>1, <3>2, <3>3
  <2> QED  BY <1>1, <2>3, <2>4
<1>7. ASSUME NEW c \in Codes PROVE CheckHolds(x, c, mem[x])'
  <2>1. CASE InStock(x) /\ c = Stock(x) /\ Tool(x) = L
    BY <1>1, <1>6, <2>1 DEF CheckHolds, Grows
  <2>2. CASE ~(InStock(x) /\ c = Stock(x) /\ Tool(x) = L)
    <3>1. Keyed(mem'[x], c, L) => Keyed(mem[x], c, L)  BY <1>1, <2>2, KeyedByMark
    <3>2. Keyed(mem'[x], c, L) =>
              /\ Keyed(mem[x], c, L)
              /\ mem[x].st[c] = "skipped" =>
                     mem'[x].st[c] = "skipped" \/ checked[x][c] \/ unsaved[x]
      BY <1>1, <1>5, <3>1
    <3> QED  BY <3>2, CheckStays
  <2> QED  BY <2>1, <2>2
<1>8. ASSUME NEW c \in Codes PROVE CheckStock(x, c)'
  <2>1. \/ disk'[x] = disk[x]
        \/ disk'[x].st = mem'[x].st /\ disk'[x].keys \subseteq mem'[x].keys
    BY <1>1, <1>2
  <2> QED  BY <1>2, <1>7, <2>1, CheckDisk
<1>9. CheckAnswer(x)'  BY <1>3 DEF CheckAnswer
<1>10. CheckPlace(x)'
  <2>1. CASE pc'[x] \in {"finish", "next", "phaseB"}  BY <2>1 DEF CheckPlace, AtStep
  <2>2. CASE /\ pc'[x] = "ready" /\ at'[x][1] = at[x][1]
             /\ ~(InStock(x) /\ Tool(x) = L /\ w.st[Stock(x)] = "skipped")
    <3>1. InStock(x)' = InStock(x) /\ (InStock(x) => Stock(x)' = Stock(x))
      BY <1>1, <2>2 DEF InStock, Stock
    <3>2. SUFFICES ASSUME InStock(x), Keyed(mem'[x], Stock(x), L)
                   PROVE  checked'[x][Stock(x)] \/ unsaved'[x]
      BY <3>1 DEF CheckPlace
    <3>3. CASE Tool(x) = L  BY <1>4, <1>6, <2>2, <3>2, <3>3 DEF Grows
    <3>4. CASE Tool(x) # L
      <4>1. Keyed(mem[x], Stock(x), L)  BY <1>1, <1>4, <3>2, <3>4, KeyedByMark
      <4>2. checked[x][Stock(x)] \/ unsaved[x]  BY <1>1, <3>2, <4>1 DEF CheckInv, CheckPlace
      <4> QED  BY <1>4, <3>2, <4>2 DEF Grows
    <3> QED  BY <3>3, <3>4
  <2> QED  BY <1>3, <2>1, <2>2
<1> QED  BY <1>8, <1>9, <1>10 DEF CheckInv

LEMMA CheckNext ==
    ASSUME TInv, NEW x \in Sessions, CheckInv(x), Grows(x), NEW b \in Nat, MNext(x, b)
    PROVE  CheckInv(x)'
<1> DEFINE s == mem[x].bots[b]
           L == "list_today_reports"
<1>1. /\ mem'[x].keys = mem[x].keys /\ disk'[x] \in {disk[x], mem'[x]} /\ s \in Codes
      /\ \/ mem'[x] = mem[x]
         \/ mem[x].st[s] = "pending" /\ SameBut(mem[x], mem'[x], s, "collecting")
  BY NextFacts
<1>2. /\ pc[x] = "next" /\ mem[x].st[s] # "skipped" /\ UNCHANGED created[x]
      /\ (pc'[x] = "ready" /\ at'[x][1] = b) \/ pc'[x] = "next"
  BY DEF MNext, Calm
<1> HIDE DEF s
<1>3. \A c \in Codes : mem[x].st[c] = "skipped" => mem'[x].st[c] = "skipped"
  BY <1>1, <1>2 DEF SameBut
<1>4. \A c \in Codes : Keyed(mem'[x], c, L) <=> Keyed(mem[x], c, L)  BY <1>1 DEF Keyed
<1>5. ASSUME NEW c \in Codes PROVE CheckStock(x, c)'
  <2>1. CheckHolds(x, c, mem[x])'  BY <1>3, <1>4, CheckStays
  <2> QED  BY <1>1, <1>2, <2>1, CheckDisk
<1>6. CheckPlace(x)'
  <2>1. CASE pc'[x] = "ready" /\ at'[x][1] = b
    <3>1. mem'[x].bots = mem[x].bots  BY <1>1 DEF SameBut
    <3>2. Stock(x)' = s  BY <2>1, <3>1 DEF Stock, s
    <3>3. Keyed(mem'[x], s, L) => checked[x][s] \/ unsaved[x]
      BY <1>1, <1>2, <1>4 DEF CheckInv, CheckStock, CheckHolds
    <3> QED  BY <1>1, <3>2, <3>3 DEF CheckPlace, Grows
  <2>2. CASE pc'[x] = "next"  BY <2>2 DEF CheckPlace, AtStep
  <2> QED  BY <1>2, <2>1, <2>2
<1>7. CheckAnswer(x)'  BY <1>2 DEF CheckAnswer
<1> QED  BY <1>5, <1>6, <1>7 DEF CheckInv

\* Steps that keep keys and statuses, and a return to the saved state.
LEMMA CheckRest ==
    ASSUME TInv, NEW x \in Sessions, CheckInv(x), Grows(x),
           \/ MStart(x) \/ MAgain(x) \/ MPhaseB(x) \/ MDone(x)
           \/ MFinish(x) \/ MCancel(x) \/ MCrash(x) \/ MResume(x)
    PROVE  CheckInv(x)'
<1> DEFINE L == "list_today_reports"
<1>1. CASE MStart(x) \/ MAgain(x) \/ MFinish(x) \/ MCancel(x)
  <2>1. UNCHANGED <<mem[x], disk[x], unsaved[x], at[x], created[x], checked[x], reports>>
    BY <1>1 DEF MStart, MAgain, MFinish, MCancel, Still, Calm
  <2>2. \/ MCancel(x) /\ UNCHANGED <<pc[x], ans[x]>>
        \/ pc[x] = "new" /\ pc'[x] = "ready"
        \/ pc[x] = "applied" /\ pc'[x] = "again"
        \/ pc[x] = "finish" /\ pc'[x] = "ended"
    BY <1>1 DEF MStart, MAgain, MFinish, MCancel
  <2>3. CheckPlace(x)'  BY <2>1, <2>2 DEF CheckInv, CheckPlace, InStock, Stock, AtStep
  <2>4. CheckAnswer(x)'  BY <2>1, <2>2 DEF CheckInv, CheckAnswer, Stock, Tool
  <2>5. ASSUME NEW c \in Codes PROVE CheckStock(x, c)'
    BY <2>1 DEF CheckInv, CheckStock, CheckHolds
  <2> QED  BY <2>3, <2>4, <2>5 DEF CheckInv
<1>2. CASE MPhaseB(x) \/ MDone(x)
  <2>1. /\ mem'[x].keys = mem[x].keys /\ mem'[x].st = mem[x].st /\ disk'[x] \in {disk[x], mem'[x]}
        /\ pc'[x] \in {"next", "finish"} /\ UNCHANGED created[x]
    BY <1>2, PhaseFacts DEF MPhaseB, MDone, Calm
  <2>2. CheckPlace(x)' /\ CheckAnswer(x)'  BY <2>1 DEF CheckPlace, CheckAnswer, AtStep
  <2>3. ASSUME NEW c \in Codes PROVE CheckStock(x, c)'
    <3>1. Keyed(mem'[x], c, L) <=> Keyed(mem[x], c, L)  BY <2>1 DEF Keyed
    <3>2. CheckHolds(x, c, mem[x])'  BY <2>1, <3>1, CheckStays
    <3> QED  BY <2>1, <3>2, CheckDisk
  <2> QED  BY <2>2, <2>3 DEF CheckInv
<1>3. CASE MCrash(x) \/ MResume(x)
  <2>1. /\ mem'[x] \in {mem[x], disk[x]}
        /\ UNCHANGED <<disk[x], created[x], checked[x], unsaved[x], reports>>
        /\ pc'[x] \in {"crashed", "ended", "phaseB"} \/ (pc'[x] = "ready" /\ at'[x][1] = 0)
    BY <1>3 DEF MCrash, MResume, Calm, Still
  <2>2. CheckPlace(x)' /\ CheckAnswer(x)'  BY <2>1 DEF CheckPlace, CheckAnswer, AtStep, InStock
  <2>3. ASSUME NEW c \in Codes PROVE CheckStock(x, c)'
    BY <2>1 DEF CheckInv, CheckStock, CheckHolds
  <2> QED  BY <2>2, <2>3 DEF CheckInv
<1> QED  BY <1>1, <1>2, <1>3

Checks == \A x \in Sessions : CheckInv(x)

LEMMA InitChecks == Init => Checks
<1> SUFFICES ASSUME Init, NEW x \in Sessions PROVE CheckInv(x)  BY DEF Checks
<1>1. /\ pc[x] = "new" /\ at[x] = <<0, 1>> /\ mem[x] = Fresh /\ disk[x] = Fresh
      /\ created[x] = [c \in Codes |-> 0]
  BY DEF Init
<1>2. CheckPlace(x) /\ CheckAnswer(x)  BY <1>1 DEF CheckPlace, CheckAnswer, InStock
<1>3. ASSUME NEW c \in Codes PROVE CheckStock(x, c)
  <2>1. Fresh.keys = {}  BY DEF Fresh
  <2>2. ~Keyed(Fresh, c, "list_today_reports")  BY <2>1 DEF Keyed
  <2> QED  BY <1>1, <2>2 DEF CheckStock, CheckHolds
<1> QED  BY <1>2, <1>3 DEF CheckInv

LEMMA NextChecks ==
    ASSUME ListFirst
    PROVE  TInv /\ Walks /\ Checks /\ [Next]_vars => Checks'
<1> SUFFICES ASSUME TInv, Walks, Checks, [Next]_vars PROVE Checks'  OBVIOUS
<1>1. TInv'  BY NextTypes
<1>2. CASE UNCHANGED vars
  BY <1>2 DEF vars, Checks, CheckInv, CheckPlace, CheckAnswer, CheckStock, CheckHolds, InStock, Tool, Stock
<1>3. ASSUME NEW x \in Sessions, Moves(x), Others(x) PROVE Checks'
  <2>1. WalkInv(x) /\ CheckInv(x) /\ Grows(x)  BY <1>1, <1>3, MovesGrow DEF Walks, Checks
  <2>2. CheckInv(x)'
    BY <1>3, <2>1, CheckFail, CheckCall, CheckApply, CheckSkip, CheckMark, CheckNext, CheckRest
       DEF Moves
  <2> QED  BY <1>1, <1>3, <2>2, OtherCheck DEF Checks
<1> QED  BY <1>2, <1>3, NextMoves

\* A session creates a report only after its own check found none, or a save
\* of it has failed (runner.go:152, 274), for step lists that check first, as
\* both markets' do.
THEOREM CheckedFirst == ASSUME ListFirst PROVE Spec => []CreatedAfterCheck
<1>1. Init => TInv /\ Walks /\ Checks  BY InitTypes, InitWalks, InitChecks
<1>2. TInv /\ Walks /\ Checks /\ [Next]_vars => TInv' /\ Walks' /\ Checks'
  BY NextTypes, NextWalks, NextChecks
<1>3. Checks => CreatedAfterCheck  BY DEF Checks, CheckInv, CheckStock, CreatedAfterCheck
<1> QED  BY <1>1, <1>2, <1>3, PTL DEF Spec
-----------------------------------------------------------------------------
(* What the working phase says.                                            *)

\* Phase A asks for the trading day before it asks for the stocks.
ChecksFirst ==
    \A i, j \in 1..Len(PhaseA) :
        PhaseA[i] = "check_trading_day" /\ PhaseA[j] = "get_report_bot_codes" => i < j

LEMMA OtherPhase ==
    ASSUME NEW x \in Sessions, NEW y \in Sessions \ {x}, Others(x), PhaseInv(y)
    PROVE  PhaseInv(y)'
<1>1. UNCHANGED <<pc[y], at[y], mem[y], disk[y], ans[y]>>  BY DEF Others
<1> QED  BY <1>1 DEF PhaseInv, PhaseSays, Listed, Tool

\* The same lists and statuses, more keys, and no new word of the phase.
LEMMA SaysStays ==
    ASSUME NEW w, NEW v, PhaseSays(w), w.keys \subseteq v.keys, v.bots = w.bots, v.day = w.day,
           v.phase = w.phase, v.st = w.st \/ w.phase # "done"
    PROVE  PhaseSays(v)
BY DEF PhaseSays, Listed

LEMMA PhaseEffect ==
    ASSUME ChecksFirst, TInv, NEW x \in Sessions, WalkInv(x), PhaseInv(x),
           pc[x] \in {"called", "calledAgain"}
    PROVE  LET w == Effect(mem[x], Tool(x), at[x][1], ans[x]) IN
           /\ PhaseSays(w)
           /\ w.phase = "done" => Tool(x) = "check_trading_day" /\ ans[x].out = "ok" /\ w.day = "no"
<1> DEFINE w == Effect(mem[x], Tool(x), at[x][1], ans[x])
<1>1. pc[x] \in AtStep /\ mem[x].phase # "done" /\ PhaseSays(mem[x])  BY DEF AtStep, PhaseInv
<1>2. w \in Working /\ w.keys = mem[x].keys /\ EffectCases(x, w)  BY EffectFacts
<1>3. /\ ans[x] \in Answer
      /\ Tool(x) = "check_trading_day" /\ ans[x].out = "ok" => ans[x].data \in {"yes", "no"}
  BY DEF TInv, AnswersFit
<1> HIDE DEF w
<1>4. CASE Tool(x) = "check_trading_day"
  <2>1. /\ at[x][1] = 0 /\ Steps(at[x][1]) = PhaseA /\ Owner(mem[x], at[x][1]) = "A"
        /\ at[x][2] \in 1..Len(PhaseA)
    BY <1>1, <1>4, AtPlace
  <2>2. PhaseA[at[x][2]] = "check_trading_day"  BY <1>4, <2>1 DEF Tool
  <2>3. <<"A", at[x][2]>> \notin mem[x].keys  BY <1>1, <2>1 DEF WalkInv, Walk, Key
  <2>4. mem[x].bots = <<>>  BY <1>1, <2>1, <2>2, <2>3 DEF PhaseSays
  <2>5. w.bots = <<>>  BY <1>2, <1>4, <2>4 DEF EffectCases
  <2>6. Listed(w) = {}  BY <2>5 DEF Listed
  <2>7. w.day = "no" => w.phase = "done"  BY <1>1, <1>2, <1>3, <1>4 DEF EffectCases, PhaseSays
  <2>8. w.phase = "done" => ans[x].out = "ok" /\ w.day = "no"
    BY <1>1, <1>2, <1>3, <1>4 DEF EffectCases
  <2> QED  BY <1>4, <2>5, <2>6, <2>7, <2>8 DEF PhaseSays, w
<1>5. CASE Tool(x) # "check_trading_day"
  <2>1. w.day = mem[x].day /\ w.phase = mem[x].phase
    BY <1>2, <1>5 DEF EffectCases, SameBut
  <2>2. ASSUME w.bots # <<>>, NEW j \in 1..Len(PhaseA), PhaseA[j] = "check_trading_day"
        PROVE  <<"A", j>> \in w.keys
    <3>1. CASE Tool(x) = "get_report_bot_codes"
      <4>1. /\ at[x][1] = 0 /\ Steps(at[x][1]) = PhaseA /\ Owner(mem[x], at[x][1]) = "A"
            /\ at[x][2] \in 1..Len(PhaseA)
        BY <1>1, <3>1, AtPlace
      <4>2. j < at[x][2]  BY <2>2, <3>1, <4>1 DEF Tool, ChecksFirst
      <4>3. j \in 1..(at[x][2] - 1)  BY <4>1, <4>2, StepsAssumption DEF StepsAssumption
      <4> QED  BY <1>1, <1>2, <4>1, <4>3 DEF WalkInv, Walk, Key
    <3>2. CASE Tool(x) # "get_report_bot_codes"
      <4>1. w.bots = mem[x].bots  BY <1>2, <1>5, <3>2 DEF EffectCases, SameBut
      <4> QED  BY <1>1, <1>2, <2>2, <4>1 DEF PhaseSays
    <3> QED  BY <3>1, <3>2
  <2> QED  BY <1>1, <2>1, <2>2 DEF PhaseSays, w
<1> QED  BY <1>4, <1>5

LEMMA PhaseFail ==
    ASSUME ChecksFirst, TInv, NEW x \in Sessions, WalkInv(x), PhaseInv(x), MFail(x)
    PROVE  PhaseInv(x)'
<1>1. /\ pc[x] \in AtStep /\ pc'[x] \in {"next", "ended"} /\ mem'[x].keys = mem[x].keys
      /\ disk'[x] \in {disk[x], mem[x], mem'[x]}
      /\ PhaseSays(mem[x]) /\ PhaseSays(disk[x])
  BY FailFacts DEF PhaseInv
<1>2. CASE InStock(x)
  <2>1. mem[x].phase # "done"
    <3>1. Tool(x) # "check_trading_day"  BY <1>1, <1>2, AtPlace
    <3> QED  BY <1>1, <3>1 DEF PhaseInv, AtStep
  <2>2. /\ mem'[x].bots = mem[x].bots /\ mem'[x].day = mem[x].day /\ mem'[x].phase = mem[x].phase
        /\ pc'[x] = "next"
    BY <1>2, FailFacts DEF SameBut
  <2>3. PhaseSays(mem'[x])  BY <1>1, <2>1, <2>2, SaysStays
  <2> QED  BY <1>1, <2>1, <2>2, <2>3 DEF PhaseInv
<1>3. CASE ~InStock(x)
  <2>1. pc'[x] = "ended"  BY <1>3, FailFacts
  <2>2. CASE mem'[x] = mem[x]  BY <1>1, <2>1, <2>2 DEF PhaseInv
  <2>3. CASE mem'[x] = Effect(mem[x], Tool(x), at[x][1], ans[x]) /\ pc[x] = "calledAgain"
    <3>1. PhaseSays(mem'[x])  BY <2>3, PhaseEffect
    <3> QED  BY <1>1, <2>1, <3>1 DEF PhaseInv
  <2> QED  BY <1>3, <2>2, <2>3 DEF MFail
<1> QED  BY <1>2, <1>3

LEMMA PhaseApply ==
    ASSUME ChecksFirst, TInv, NEW x \in Sessions, WalkInv(x), PhaseInv(x), MApply(x)
    PROVE  PhaseInv(x)'
<1>1. /\ pc[x] = "called" /\ pc'[x] = "applied" /\ disk'[x] = mem'[x] /\ UNCHANGED <<at[x], ans[x]>>
      /\ mem'[x] = Effect(mem[x], Tool(x), at[x][1], ans[x])
  BY DEF MApply
<1>2. /\ PhaseSays(mem'[x])
      /\ mem'[x].phase = "done" =>
            Tool(x) = "check_trading_day" /\ ans[x].out = "ok" /\ mem'[x].day = "no"
  BY <1>1, PhaseEffect
<1>3. Tool(x)' = Tool(x)  BY <1>1 DEF Tool
<1> QED  BY <1>1, <1>2, <1>3 DEF PhaseInv

LEMMA PhaseSkip ==
    ASSUME TInv, NEW x \in Sessions, PhaseInv(x), MSkip(x)
    PROVE  PhaseInv(x)'
<1>0. pc[x] \in {"applied", "calledAgain"} /\ Tool(x) = "get_stock_daily_reports"  BY DEF MSkip
<1>1. /\ pc'[x] = "next" /\ mem[x].keys \subseteq mem'[x].keys
      /\ mem'[x].bots = mem[x].bots /\ mem'[x].day = mem[x].day /\ mem'[x].phase = mem[x].phase
      /\ disk'[x] \in {disk[x], mem'[x]}
  BY SkipFacts DEF SameBut
<1>2. mem[x].phase # "done"  BY <1>0 DEF PhaseInv
<1>3. PhaseSays(mem'[x])  BY <1>1, <1>2, SaysStays DEF PhaseInv
<1> QED  BY <1>1, <1>2, <1>3 DEF PhaseInv

LEMMA PhaseMark ==
    ASSUME ~Backfill, ChecksFirst, TInv, NEW x \in Sessions, WalkInv(x), PhaseInv(x),
           NEW w \in Working, MMark(x, w)
    PROVE  PhaseInv(x)'
<1>1. /\ pc[x] \in AtStep /\ pc[x] \in {"applied", "calledAgain"}
      /\ w.keys = mem[x].keys /\ w.keys \subseteq mem'[x].keys
      /\ mem'[x].bots = w.bots /\ mem'[x].st = w.st /\ mem'[x].day = w.day /\ mem'[x].phase = w.phase
  BY MarkFacts
<1>2. disk'[x] \in {disk[x], w}  BY DEF MMark
<1>3. /\ PhaseSays(w)
      /\ w.phase = "done" => Tool(x) = "check_trading_day" /\ w.day = "no"
  <2>1. CASE w = mem[x]  BY <1>1, <2>1 DEF PhaseInv
  <2>2. CASE pc[x] = "calledAgain" /\ w = Effect(mem[x], Tool(x), at[x][1], ans[x])
    BY <2>2, PhaseEffect
  <2> QED  BY <2>1, <2>2 DEF MMark
<1>4. PhaseSays(mem'[x])  BY <1>1, <1>3, SaysStays
<1>5. pc'[x] = "finish" \/ (pc'[x] \in {"ready", "phaseB", "next"} /\ w.phase # "done")
  <2>1. Tool(x) = "check_trading_day" => at[x][1] = 0 /\ Tool(x) # "list_today_reports"
    BY <1>1, AtPlace
  <2> QED  BY <1>3, <2>1 DEF MMark, MovesOn
<1> QED  BY <1>1, <1>2, <1>3, <1>4, <1>5 DEF PhaseInv

LEMMA PhaseNext ==
    ASSUME TInv, NEW x \in Sessions, PhaseInv(x), NEW b \in Nat, MNext(x, b)
    PROVE  PhaseInv(x)'
<1>1. /\ mem'[x].keys = mem[x].keys /\ disk'[x] \in {disk[x], mem'[x]}
      /\ mem'[x].bots = mem[x].bots /\ mem'[x].day = mem[x].day /\ mem'[x].phase = mem[x].phase
  BY NextFacts DEF SameBut
<1>2. pc[x] = "next" /\ pc'[x] \in {"ready", "next"}  BY DEF MNext
<1>3. mem[x].phase # "done"  BY <1>2 DEF PhaseInv
<1>4. PhaseSays(mem'[x])  BY <1>1, <1>3, SaysStays DEF PhaseInv
<1> QED  BY <1>1, <1>2, <1>3, <1>4 DEF PhaseInv

\* The steps that set the phase themselves.
LEMMA PhaseSet ==
    ASSUME TInv, NEW x \in Sessions, PhaseInv(x), MPhaseB(x) \/ MDone(x)
    PROVE  PhaseInv(x)'
<1>1. /\ mem[x] \in Working /\ mem'[x].keys = mem[x].keys /\ mem'[x].bots = mem[x].bots
      /\ mem'[x].day = mem[x].day /\ mem'[x].st = mem[x].st /\ disk'[x] \in {disk[x], mem'[x]}
  BY PhaseFacts
<1>2. pc[x] \in {"phaseB", "next"} /\ mem[x].phase # "done" /\ mem[x].day # "no" /\ PhaseSays(mem[x])
  BY DEF MPhaseB, MDone, PhaseInv, PhaseSays
<1>3. CASE MPhaseB(x)
  <2>1. /\ mem'[x].phase = "done" => mem[x].bots = <<>> /\ pc'[x] = "finish"
        /\ pc'[x] \in {"next", "finish"}
    BY <1>1, <1>2, <1>3 DEF MPhaseB, Working
  <2>2. PhaseSays(mem'[x])  BY <1>1, <1>2, <2>1 DEF PhaseSays, Listed
  <2> QED  BY <1>1, <2>1, <2>2 DEF PhaseInv
<1>4. CASE MDone(x)
  <2>1. /\ mem'[x].phase = "done" => \A c \in Listed(mem[x]) : mem[x].st[c] \in {"reported", "skipped"}
        /\ pc'[x] = "finish"
    BY <1>1, <1>2, <1>4 DEF MDone
  <2>2. Listed(mem'[x]) = Listed(mem[x])  BY <1>1 DEF Listed
  <2>3. PhaseSays(mem'[x])  BY <1>1, <1>2, <2>1, <2>2 DEF PhaseSays
  <2> QED  BY <1>1, <2>1, <2>3 DEF PhaseInv
<1> QED  BY <1>3, <1>4

LEMMA PhaseRest ==
    ASSUME TInv, NEW x \in Sessions, PhaseInv(x),
           \/ MStart(x) \/ MCall(x) \/ MAgain(x)
           \/ MFinish(x) \/ MCancel(x) \/ MCrash(x) \/ MResume(x)
    PROVE  PhaseInv(x)'
<1>1. CASE MStart(x) \/ MCall(x) \/ MAgain(x) \/ MFinish(x) \/ MCancel(x)
  <2>1. UNCHANGED <<mem[x], disk[x], at[x]>>
    BY <1>1 DEF MStart, MCall, MAgain, MFinish, MCancel, Still
  <2>2. \/ UNCHANGED <<pc[x], ans[x]>>
        \/ pc[x] \in {"new", "ready", "again"} /\ pc'[x] \in {"ready", "called", "calledAgain"}
        \/ pc[x] = "applied" /\ pc'[x] = "again" /\ ans[x].out = "err"
        \/ pc'[x] = "ended"
    BY <1>1 DEF MStart, MCall, MAgain, MFinish, MCancel
  <2> QED  BY <2>1, <2>2 DEF PhaseInv, Tool
<1>2. CASE MCrash(x)
  BY <1>2 DEF MCrash, Still, PhaseInv
<1>3. CASE MResume(x)
  BY <1>3 DEF MResume, PhaseInv
<1> QED  BY <1>1, <1>2, <1>3

Phases == \A x \in Sessions : PhaseInv(x)

LEMMA InitPhases == Init => Phases
<1> SUFFICES ASSUME Init, NEW x \in Sessions PROVE PhaseInv(x)  BY DEF Phases
<1>1. pc[x] = "new" /\ mem[x] = Fresh /\ disk[x] = Fresh  BY DEF Init
<1>2. Fresh.bots = <<>> /\ Fresh.day = "unknown" /\ Fresh.phase = "init"  BY DEF Fresh
<1> QED  BY <1>1, <1>2 DEF PhaseInv, PhaseSays

LEMMA NextPhases ==
    ASSUME ~Backfill, ChecksFirst
    PROVE  TInv /\ Walks /\ Phases /\ [Next]_vars => Phases'
<1> SUFFICES ASSUME TInv, Walks, Phases, [Next]_vars PROVE Phases'  OBVIOUS
<1>1. CASE UNCHANGED vars
  BY <1>1 DEF vars, Phases, PhaseInv, PhaseSays, Listed, Tool
<1>2. ASSUME NEW x \in Sessions, Moves(x), Others(x) PROVE Phases'
  <2>1. WalkInv(x) /\ PhaseInv(x)  BY DEF Walks, Phases
  <2>2. PhaseInv(x)'
    BY <1>2, <2>1, PhaseFail, PhaseApply, PhaseSkip, PhaseMark, PhaseNext, PhaseSet, PhaseRest
       DEF Moves
  <2> QED  BY <1>2, <2>2, OtherPhase DEF Phases
<1> QED  BY <1>1, <1>2, NextMoves
-----------------------------------------------------------------------------
(* What a passing verdict rests on.                                        *)

LEMMA OtherPass ==
    ASSUME TInv, TInv', NEW x \in Sessions, NEW y \in Sessions \ {x}, Others(x), PassInv(y)
    PROVE  PassInv(y)'
<1>1. UNCHANGED <<pc[y], at[y], mem[y], disk[y], ans[y], checked[y], verdict[y], resumes[y]>>
  BY DEF Others
<1>2. \A c \in Codes : reports[c] \in Nat /\ reports'[c] \in Nat /\ reports'[c] >= reports[c]
  BY DEF Others, TInv, Types
<1>3. ASSUME NEW c \in Codes PROVE TruthHolds(y, c, mem[y])' /\ TruthHolds(y, c, disk[y])'
  BY <1>1, <1>2 DEF PassInv, TruthHolds
<1>4. PassAnswer(y)'
  <2>1. SUFFICES ASSUME pc[y] \in {"called", "calledAgain"}, Tool(y) = "create_report", ans[y].out = "ok"
                 PROVE  reports'[Stock(y)] > 0
    BY <1>1 DEF PassAnswer, Tool, Stock
  <2>2. Stock(y) \in Codes  BY <2>1, AtPlace DEF AtStep
  <2> QED  BY <1>2, <2>1, <2>2 DEF PassInv, PassAnswer
<1>5. PassVerdict(y)'  BY <1>1 DEF PassInv, PassVerdict
<1> QED  BY <1>3, <1>4, <1>5 DEF PassInv

\* The statuses of x after a move: each is as it was, says nothing, or is true.
LEMMA TruthMoves ==
    ASSUME TInv, NEW x \in Sessions, PassInv(x), Grows(x), NEW w,
           \A c \in Codes : \/ w.st[c] = mem[x].st[c]
                            \/ w.st[c] \notin {"reported", "skipped"}
                            \/ w.st[c] = "reported" /\ reports[c] > 0
                            \/ w.st[c] = "skipped" /\ (reports[c] > 0 \/ checked[x][c]),
           mem'[x].st = w.st,
           disk'[x] \in {disk[x], mem[x], w, mem'[x]}
    PROVE  \A c \in Codes : TruthHolds(x, c, mem[x])' /\ TruthHolds(x, c, disk[x])'
<1> SUFFICES ASSUME NEW c \in Codes
             PROVE  TruthHolds(x, c, mem[x])' /\ TruthHolds(x, c, disk[x])'
  OBVIOUS
<1>1. /\ TruthHolds(x, c, mem[x]) /\ TruthHolds(x, c, disk[x])
      /\ reports[c] \in Nat /\ reports'[c] \in Nat /\ reports'[c] >= reports[c]
      /\ checked[x][c] => checked'[x][c]
  BY DEF PassInv, Grows
<1>2. TruthHolds(x, c, mem[x])'
  <2>1. CASE w.st[c] = mem[x].st[c]  BY <1>1, <2>1 DEF TruthHolds
  <2>2. CASE w.st[c] # mem[x].st[c]  BY <1>1, <2>2 DEF TruthHolds
  <2> QED  BY <2>1, <2>2
<1>3. TruthHolds(x, c, disk[x])'
  <2>1. CASE disk'[x] \in {disk[x], mem[x]}  BY <1>1, <2>1 DEF TruthHolds
  <2>2. CASE disk'[x] \in {w, mem'[x]}  BY <1>2, <2>2 DEF TruthHolds
  <2> QED  BY <2>1, <2>2
<1> QED  BY <1>2, <1>3

\* What an answer says is true.
LEMMA PassEffect ==
    ASSUME TInv, NEW x \in Sessions, CheckInv(x), PassInv(x), pc[x] \in {"called", "calledAgain"},
           NEW w, EffectCases(x, w), NEW c \in Codes
    PROVE  \/ w.st[c] = mem[x].st[c]
           \/ w.st[c] \notin {"reported", "skipped"}
           \/ w.st[c] = "reported" /\ reports[c] > 0
           \/ w.st[c] = "skipped" /\ (reports[c] > 0 \/ checked[x][c])
<1>1. CASE Tool(x) = "list_today_reports" /\ ans[x].out = "ok" /\ ans[x].data = "reported"
  <2>1. reports[Stock(x)] > 0  BY <1>1 DEF CheckInv, CheckAnswer
  <2>2. SameBut(mem[x], w, Stock(x), "skipped")  BY <1>1 DEF EffectCases
  <2> QED  BY <2>1, <2>2 DEF SameBut
<1>2. CASE Tool(x) = "create_report" /\ ans[x].out = "ok"
  <2>1. reports[Stock(x)] > 0  BY <1>2 DEF PassInv, PassAnswer
  <2>2. SameBut(mem[x], w, Stock(x), "reported")  BY <1>2 DEF EffectCases
  <2> QED  BY <2>1, <2>2 DEF SameBut
<1>3. CASE ~(\/ Tool(x) = "list_today_reports" /\ ans[x].out = "ok" /\ ans[x].data = "reported"
             \/ Tool(x) = "create_report" /\ ans[x].out = "ok")
  BY <1>3 DEF EffectCases
<1> QED  BY <1>1, <1>2, <1>3

\* Before it ends, a run has no verdict; a run that ends has the one its
\* phase gives it.
LEMMA PassFail ==
    ASSUME ChecksPhase, TInv, NEW x \in Sessions, PassInv(x), Grows(x), MFail(x)
    PROVE  PassInv(x)'
<1>1. /\ pc[x] \in AtStep /\ pc'[x] \in {"next", "ended"} /\ UNCHANGED resumes[x]
      /\ disk'[x] \in {disk[x], mem[x], mem'[x]}
  BY FailFacts DEF MFail, Calm
<1>2. ASSUME NEW c \in Codes
      PROVE  mem'[x].st[c] = mem[x].st[c] \/ mem'[x].st[c] \notin {"reported", "skipped"}
  <2>1. CASE InStock(x)
    <3>1. SameBut(mem[x], mem'[x], Stock(x), "failed")  BY <2>1, FailFacts
    <3> QED  BY <3>1 DEF SameBut
  <2>2. CASE ~InStock(x)
    <3>1. CASE mem'[x] = mem[x]  BY <3>1
    <3>2. CASE /\ pc[x] = "calledAgain" /\ Tool(x) = "get_report_bot_codes"
               /\ mem'[x] = Effect(mem[x], Tool(x), at[x][1], ans[x])
      <4>1. EffectCases(x, mem'[x])  BY <3>2, EffectFacts
      <4> QED  BY <3>2, <4>1 DEF EffectCases
    <3> QED  BY <2>2, <3>1, <3>2 DEF MFail
  <2> QED  BY <2>1, <2>2
<1>3. \A c \in Codes : TruthHolds(x, c, mem[x])' /\ TruthHolds(x, c, disk[x])'
  <2> DEFINE w == mem'[x]
  <2>1. \A c \in Codes : w.st[c] = mem[x].st[c] \/ w.st[c] \notin {"reported", "skipped"}  BY <1>2
  <2>2. mem'[x].st = w.st /\ disk'[x] \in {disk[x], mem[x], w, mem'[x]}  BY <1>1
  <2> HIDE DEF w
  <2> QED  BY <2>1, <2>2, TruthMoves
<1>4. PassVerdict(x)'
  <2>1. verdict[x] = "pass" /\ resumes[x] = 0 => FALSE  BY <1>1 DEF PassInv, PassVerdict, AtStep
  <2>2. CASE InStock(x)
    <3>1. verdict'[x] = verdict[x]  BY <2>2 DEF MFail, Silent
    <3> QED  BY <1>1, <2>1, <3>1 DEF PassVerdict
  <2>3. CASE ~InStock(x)
    <3>1. /\ pc'[x] = "ended"
          /\ verdict'[x] = IF resumes[x] = 0 THEN Verdict(mem'[x]) ELSE verdict[x]
      BY <2>3 DEF MFail
    <3>2. Verdict(mem'[x]) = "pass" => mem'[x].phase = "done"  BY DEF Verdict
    <3> QED  BY <1>1, <2>1, <3>1, <3>2 DEF PassVerdict
  <2> QED  BY <2>2, <2>3
<1>5. PassAnswer(x)'  BY <1>1 DEF PassAnswer
<1> QED  BY <1>3, <1>4, <1>5 DEF PassInv

LEMMA PassCall ==
    ASSUME TInv, NEW x \in Sessions, PassInv(x), Grows(x), MCall(x)
    PROVE  PassInv(x)'
<1>1. /\ pc[x] \in AtStep /\ pc[x] \in {"ready", "again"} /\ pc'[x] \in {"called", "calledAgain"}
      /\ UNCHANGED <<mem[x], disk[x], at[x], verdict[x], resumes[x]>> /\ ans'[x] \in Answers(x)
  BY DEF MCall, Still, Silent, AtStep
<1>2. \A c \in Codes : TruthHolds(x, c, mem[x])' /\ TruthHolds(x, c, disk[x])'
  BY <1>1, TruthMoves
<1>3. PassAnswer(x)'
  <2>1. Stock(x)' = Stock(x) /\ Tool(x)' = Tool(x)  BY <1>1 DEF Stock, Tool
  <2>2. SUFFICES ASSUME Tool(x) = "create_report", ans'[x].out = "ok" PROVE reports'[Stock(x)] > 0
    BY <2>1 DEF PassAnswer
  <2>3. Stock(x) \in Codes  BY <1>1, <2>2, AtPlace
  <2>4. ans'[x].data = "done"  BY <1>1, <2>2 DEF Answers
  <2>5. reports'[Stock(x)] = reports[Stock(x)] + 1 /\ reports[Stock(x)] \in Nat
    BY <2>2, <2>3, <2>4 DEF MCall, Grows
  <2> QED  BY <2>5
<1>4. PassVerdict(x)'  BY <1>1 DEF PassInv, PassVerdict
<1> QED  BY <1>2, <1>3, <1>4 DEF PassInv

LEMMA PassApply ==
    ASSUME TInv, NEW x \in Sessions, CheckInv(x), PassInv(x), Grows(x), MApply(x)
    PROVE  PassInv(x)'
<1>1. /\ pc[x] = "called" /\ pc'[x] = "applied" /\ disk'[x] = mem'[x]
      /\ UNCHANGED <<verdict[x], resumes[x]>>
  BY DEF MApply, Calm, Silent
<1>2. EffectCases(x, mem'[x])  BY <1>1, EffectFacts DEF MApply
<1> DEFINE w == mem'[x]
<1>3. mem'[x].st = w.st /\ disk'[x] \in {disk[x], mem[x], w, mem'[x]} /\ EffectCases(x, w)
  BY <1>1, <1>2
<1> HIDE DEF w
<1>4. \A c \in Codes : \/ w.st[c] = mem[x].st[c]
                       \/ w.st[c] \notin {"reported", "skipped"}
                       \/ w.st[c] = "reported" /\ reports[c] > 0
                       \/ w.st[c] = "skipped" /\ (reports[c] > 0 \/ checked[x][c])
  BY <1>1, <1>3, PassEffect
<1>5. \A c \in Codes : TruthHolds(x, c, mem[x])' /\ TruthHolds(x, c, disk[x])'
  BY <1>3, <1>4, TruthMoves
<1>6. PassAnswer(x)' /\ PassVerdict(x)'  BY <1>1 DEF PassInv, PassAnswer, PassVerdict
<1> QED  BY <1>5, <1>6 DEF PassInv

LEMMA PassSkip ==
    ASSUME ListFirst, TInv, NEW x \in Sessions, WalkInv(x), CheckInv(x), PassInv(x), Grows(x), MSkip(x)
    PROVE  PassInv(x)'
<1>1. /\ Tool(x) = "get_stock_daily_reports" /\ UNCHANGED <<verdict[x], resumes[x]>>
  BY DEF MSkip, Calm, Silent
<1>2. /\ pc[x] \in AtStep /\ InStock(x) /\ Stock(x) \in Codes /\ pc'[x] = "next"
      /\ SameBut(mem[x], mem'[x], Stock(x), "skipped") /\ disk'[x] \in {disk[x], mem'[x]}
  BY SkipFacts
<1>3. checked[x][Stock(x)] \/ reports[Stock(x)] > 0
  <2>1. Keyed(mem[x], Stock(x), "list_today_reports")  BY <1>1, <1>2, ListedBefore
  <2> QED  BY <1>2, <2>1 DEF CheckInv, CheckStock, CheckHolds
<1> DEFINE w == mem'[x]
<1>4. \A c \in Codes : \/ w.st[c] = mem[x].st[c]
                       \/ w.st[c] = "skipped" /\ (reports[c] > 0 \/ checked[x][c])
  BY <1>2, <1>3 DEF SameBut
<1>5. mem'[x].st = w.st /\ disk'[x] \in {disk[x], mem[x], w, mem'[x]}  BY <1>2
<1> HIDE DEF w
<1>6. \A c \in Codes : TruthHolds(x, c, mem[x])' /\ TruthHolds(x, c, disk[x])'
  BY <1>4, <1>5, TruthMoves
<1>7. PassAnswer(x)' /\ PassVerdict(x)'
  BY <1>1, <1>2 DEF PassInv, PassAnswer, PassVerdict, AtStep
<1> QED  BY <1>6, <1>7 DEF PassInv

LEMMA PassMark ==
    ASSUME TInv, NEW x \in Sessions, CheckInv(x), PassInv(x), Grows(x), NEW w \in Working, MMark(x, w)
    PROVE  PassInv(x)'
<1>1. /\ mem'[x].st = w.st /\ pc[x] \in {"applied", "calledAgain"}
      /\ w = mem[x] \/ (pc[x] = "calledAgain" /\ EffectCases(x, w))
  BY MarkFacts
<1>2. disk'[x] \in {disk[x], w} /\ UNCHANGED <<verdict[x], resumes[x]>>
  BY DEF MMark, Calm, Silent
<1>3. pc'[x] \in {"finish", "next", "phaseB", "ready"}  BY DEF MMark, MovesOn
<1>4. \A c \in Codes : \/ w.st[c] = mem[x].st[c]
                       \/ w.st[c] \notin {"reported", "skipped"}
                       \/ w.st[c] = "reported" /\ reports[c] > 0
                       \/ w.st[c] = "skipped" /\ (reports[c] > 0 \/ checked[x][c])
  BY <1>1, PassEffect
<1>5. \A c \in Codes : TruthHolds(x, c, mem[x])' /\ TruthHolds(x, c, disk[x])'
  BY <1>1, <1>2, <1>4, TruthMoves
<1>6. PassAnswer(x)' /\ PassVerdict(x)'
  BY <1>1, <1>2, <1>3 DEF PassInv, PassAnswer, PassVerdict
<1> QED  BY <1>5, <1>6 DEF PassInv

LEMMA PassNext ==
    ASSUME TInv, NEW x \in Sessions, PassInv(x), Grows(x), NEW b \in Nat, MNext(x, b)
    PROVE  PassInv(x)'
<1>1. /\ disk'[x] \in {disk[x], mem'[x]}
      /\ \A c \in Codes : mem'[x].st[c] = mem[x].st[c] \/ mem'[x].st[c] = "collecting"
  BY NextFacts DEF SameBut
<1>2. pc[x] = "next" /\ pc'[x] \in {"ready", "next"} /\ UNCHANGED <<verdict[x], resumes[x]>>
  BY DEF MNext, Calm, Silent
<1> DEFINE w == mem'[x]
<1>3. /\ \A c \in Codes : w.st[c] = mem[x].st[c] \/ w.st[c] \notin {"reported", "skipped"}
      /\ mem'[x].st = w.st /\ disk'[x] \in {disk[x], mem[x], w, mem'[x]}
  BY <1>1
<1> HIDE DEF w
<1>4. \A c \in Codes : TruthHolds(x, c, mem[x])' /\ TruthHolds(x, c, disk[x])'
  BY <1>3, TruthMoves
<1>5. PassAnswer(x)' /\ PassVerdict(x)'  BY <1>2 DEF PassInv, PassAnswer, PassVerdict
<1> QED  BY <1>4, <1>5 DEF PassInv

\* Steps that keep the statuses, and a return to the saved state.
LEMMA PassRest ==
    ASSUME ChecksPhase, TInv, NEW x \in Sessions, PassInv(x), Grows(x),
           \/ MStart(x) \/ MAgain(x) \/ MPhaseB(x) \/ MDone(x)
           \/ MFinish(x) \/ MCancel(x) \/ MCrash(x) \/ MResume(x)
    PROVE  PassInv(x)'
<1>1. CASE MStart(x) \/ MAgain(x) \/ MFinish(x) \/ MCancel(x)
  <2>1. UNCHANGED <<mem[x], disk[x], at[x], resumes[x], checked[x], reports>>
    BY <1>1 DEF MStart, MAgain, MFinish, MCancel, Still, Calm
  <2>2. \A c \in Codes : TruthHolds(x, c, mem[x])' /\ TruthHolds(x, c, disk[x])'
    BY <2>1 DEF PassInv, TruthHolds
  <2>3. PassAnswer(x)'
    BY <1>1, <2>1 DEF PassInv, PassAnswer, Tool, Stock, MStart, MAgain, MFinish, MCancel
  <2>4. PassVerdict(x)'
    <3>1. CASE MFinish(x)
      <4>1. /\ pc[x] = "finish" /\ pc'[x] = "ended"
            /\ verdict'[x] = IF resumes[x] = 0 THEN Verdict(mem[x]) ELSE verdict[x]
        BY <3>1 DEF MFinish
      <4>2. Verdict(mem[x]) = "pass" => mem[x].phase = "done"  BY DEF Verdict
      <4> QED  BY <2>1, <4>1, <4>2 DEF PassInv, PassVerdict
    <3>2. CASE MStart(x) \/ MAgain(x) \/ MCancel(x)
      BY <2>1, <3>2 DEF PassInv, PassVerdict, MStart, MAgain, MCancel, Silent
    <3> QED  BY <1>1, <3>1, <3>2
  <2> QED  BY <2>2, <2>3, <2>4 DEF PassInv
<1>2. CASE MPhaseB(x) \/ MDone(x)
  <2>1. /\ mem'[x].st = mem[x].st /\ disk'[x] \in {disk[x], mem'[x]}
        /\ pc[x] \in {"phaseB", "next"} /\ pc'[x] \in {"next", "finish"}
        /\ UNCHANGED <<verdict[x], resumes[x]>>
    BY <1>2, PhaseFacts DEF MPhaseB, MDone, Calm, Silent
  <2>2. \A c \in Codes : TruthHolds(x, c, mem[x])' /\ TruthHolds(x, c, disk[x])'
    BY <2>1, TruthMoves
  <2>3. PassAnswer(x)' /\ PassVerdict(x)'  BY <2>1 DEF PassInv, PassAnswer, PassVerdict
  <2> QED  BY <2>2, <2>3 DEF PassInv
<1>3. CASE MCrash(x) \/ MResume(x)
  <2>1. /\ mem'[x] \in {mem[x], disk[x]} /\ UNCHANGED <<disk[x], checked[x], reports, verdict[x]>>
        /\ pc'[x] \in {"crashed", "ended", "phaseB", "ready"}
        /\ \/ pc[x] \in Running /\ UNCHANGED resumes[x]
           \/ resumes'[x] > 0
    BY <1>3 DEF MCrash, MResume, Calm, Silent, Still
  <2>2. \A c \in Codes : TruthHolds(x, c, mem[x])' /\ TruthHolds(x, c, disk[x])'
    BY <2>1 DEF PassInv, TruthHolds
  <2>3. PassAnswer(x)' /\ PassVerdict(x)'
    BY <2>1 DEF PassInv, PassAnswer, PassVerdict, Running
  <2> QED  BY <2>2, <2>3 DEF PassInv
<1> QED  BY <1>1, <1>2, <1>3

Passes == \A x \in Sessions : PassInv(x)

LEMMA InitPasses == Init => Passes
<1> SUFFICES ASSUME Init, NEW x \in Sessions PROVE PassInv(x)  BY DEF Passes
<1>1. pc[x] = "new" /\ mem[x] = Fresh /\ disk[x] = Fresh /\ verdict[x] = "none"  BY DEF Init
<1>2. \A c \in Codes : Fresh.st[c] = "absent"  BY DEF Fresh
<1> QED  BY <1>1, <1>2 DEF PassInv, TruthHolds, PassAnswer, PassVerdict

LEMMA NextPasses ==
    ASSUME ListFirst, ChecksPhase
    PROVE  TInv /\ Walks /\ Checks /\ Passes /\ [Next]_vars => Passes'
<1> SUFFICES ASSUME TInv, Walks, Checks, Passes, [Next]_vars PROVE Passes'  OBVIOUS
<1>1. TInv'  BY NextTypes
<1>2. CASE UNCHANGED vars
  BY <1>2 DEF vars, Passes, PassInv, TruthHolds, PassAnswer, PassVerdict, Tool, Stock
<1>3. ASSUME NEW x \in Sessions, Moves(x), Others(x) PROVE Passes'
  <2>1. WalkInv(x) /\ CheckInv(x) /\ PassInv(x) /\ Grows(x)
    BY <1>1, <1>3, MovesGrow DEF Walks, Checks, Passes
  <2>2. PassInv(x)'
    BY <1>3, <2>1, PassFail, PassCall, PassApply, PassSkip, PassMark, PassNext, PassRest
       DEF Moves
  <2> QED  BY <1>1, <1>3, <2>2, OtherPass DEF Passes
<1> QED  BY <1>2, <1>3, NextMoves

\* A run the supervisor passes has dealt with every stock of its list
\* (supervisor.go:144, runner.go:163-175): for a skill whose checks look at the
\* phase, run for today's report date, with step lists as both markets'.
THEOREM PassDelivers ==
    ASSUME ChecksPhase, ~Backfill, ChecksFirst, ListFirst
    PROVE  Spec => []PassMeansDelivered
<1>1. Init => TInv /\ Walks /\ Checks /\ Phases /\ Passes
  BY InitTypes, InitWalks, InitChecks, InitPhases, InitPasses
<1>2. TInv /\ Walks /\ Checks /\ Phases /\ Passes /\ [Next]_vars
          => TInv' /\ Walks' /\ Checks' /\ Phases' /\ Passes'
  BY NextTypes, NextWalks, NextChecks, NextPhases, NextPasses
<1>3. TInv /\ Phases /\ Passes => PassMeansDelivered
  <2> SUFFICES ASSUME TInv, Phases, Passes, NEW x \in Sessions,
                      verdict[x] = "pass", resumes[x] = 0, NEW c \in Listed(mem[x])
               PROVE  \/ mem[x].st[c] = "reported" /\ reports[c] > 0
                      \/ mem[x].st[c] = "skipped" /\ (reports[c] > 0 \/ checked[x][c])
    BY DEF PassMeansDelivered
  <2>1. mem[x].phase = "done"  BY DEF Passes, PassInv, PassVerdict
  <2>2. mem[x].st[c] \in {"reported", "skipped"}  BY <2>1 DEF Phases, PhaseInv, PhaseSays
  <2>3. c \in Codes  BY Domains, WorkingParts DEF Listed
  <2>4. TruthHolds(x, c, mem[x])  BY <2>3 DEF Passes, PassInv
  <2> QED  BY <2>2, <2>4 DEF TruthHolds
<1> QED  BY <1>1, <1>2, <1>3, PTL DEF Spec
-----------------------------------------------------------------------------
(* No stock is left behind.                                                *)

\* A stock's steps create its report.
SomeCreate == \E j \in 1..Len(PerStock) : PerStock[j] = "create_report"

LEMMA PassedStays ==
    ASSUME NEW w \in Working, NEW v, NEW n, Passed(w, n), v.bots = w.bots,
           \A c \in Codes : w.st[c] \in Settled => v.st[c] \in Settled
    PROVE  Passed(v, n)
<1>1. \A k \in 1..Len(w.bots) : w.bots[k] \in Codes  BY WorkingParts
<1> QED  BY <1>1 DEF Passed

\* The stock at hand settles too: the loop has passed one more.
LEMMA PassedOne ==
    ASSUME NEW w \in Working, NEW n \in Nat, Passed(w, n - 1),
           n \in 1..Len(w.bots) => w.st[w.bots[n]] \in Settled
    PROVE  Passed(w, n)
<1>1. Len(w.bots) \in Nat  BY WorkingParts
<1> QED  BY <1>1 DEF Passed

LEMMA OtherSettle ==
    ASSUME NEW x \in Sessions, NEW y \in Sessions \ {x}, Others(x), SettleInv(y)
    PROVE  SettleInv(y)'
<1>1. UNCHANGED <<pc[y], at[y], mem[y], disk[y], cp[y], ans[y], unsaved[y], result[y]>>
  BY DEF Others
<1> QED  BY <1>1 DEF SettleInv, CreatedSettled, CreateNoted, SettledSoFar, Passed, AllSettled, Listed,
                     Tool, Stock

LEMMA SettleFail ==
    ASSUME TInv, NEW x \in Sessions, WalkInv(x), SettleInv(x), MFail(x)
    PROVE  SettleInv(x)'
<1>1. /\ pc[x] \in AtStep \ {"new"} /\ mem'[x].keys = mem[x].keys /\ UNCHANGED at[x]
      /\ cp'[x] \in {cp[x], "running", "unreadable"} /\ (unsaved[x] => unsaved'[x])
      /\ mem[x] \in Working /\ mem'[x] \in Working
  BY FailFacts DEF MFail
<1>2. cp[x] # "completed" /\ cp'[x] # "completed"  BY <1>1 DEF SettleInv, AtStep, Running
<1>3. CASE InStock(x)
  <2>1. /\ SameBut(mem[x], mem'[x], Stock(x), "failed") /\ Stock(x) \in Codes
        /\ pc'[x] = "next" /\ disk'[x] \in {disk[x], mem'[x]}
    BY <1>3, FailFacts
  <2>2. \A c \in Codes : mem[x].st[c] \in Settled => mem'[x].st[c] \in Settled
    BY <2>1 DEF SameBut, Settled
  <2>3. CreatedSettled(x, mem[x])'
    <3>1. \A c \in Codes : Keyed(mem'[x], c, "create_report") => Keyed(mem[x], c, "create_report")
      BY <1>1 DEF Keyed
    <3>2. \A c \in Codes : Keyed(mem'[x], c, "create_report") => unsaved'[x] \/ mem'[x].st[c] \in Settled
      BY <1>1, <2>2, <3>1 DEF SettleInv, CreatedSettled
    <3> QED  BY <3>2 DEF CreatedSettled
  <2>4. CreatedSettled(x, disk[x])'
    <3>1. CASE disk'[x] = mem'[x]  BY <2>3, <3>1 DEF CreatedSettled
    <3>2. CASE disk'[x] = disk[x]  BY <1>1, <3>2 DEF SettleInv, CreatedSettled
    <3> QED  BY <2>1, <3>1, <3>2
  <2>5. ASSUME ~unsaved'[x] PROVE SettledSoFar(x)'
    <3>1. SettledSoFar(x)  BY <1>1, <2>5 DEF SettleInv
    <3>2. disk'[x].st = mem'[x].st /\ disk'[x].bots = mem'[x].bots
      <4>1. CASE disk'[x] = mem'[x]  BY <4>1
      <4>2. CASE mem[x].st[Stock(x)] = "failed" /\ disk'[x] = disk[x]
        <5>1. mem'[x].st = mem[x].st
          <6>1. mem[x].st \in [Codes -> Statuses] /\ mem'[x].st \in [Codes -> Statuses]
            BY <1>1, WorkingParts
          <6>2. \A c \in Codes : mem'[x].st[c] = mem[x].st[c]  BY <2>1, <4>2 DEF SameBut
          <6> QED  BY <6>1, <6>2
        <5>2. disk[x].st = mem[x].st /\ disk[x].bots = mem[x].bots
          BY <1>1, <3>1 DEF SettledSoFar, AtStep, Running
        <5> QED  BY <2>1, <4>2, <5>1, <5>2 DEF SameBut
      <4> QED  BY <1>3, <2>5, <4>1, <4>2 DEF MFail, Saved
    <3>3. Passed(mem'[x], at[x][1])
      <4>1. Passed(mem[x], at[x][1] - 1)  BY <1>1, <3>1 DEF SettledSoFar
      <4>2. Passed(mem'[x], at[x][1] - 1)
        BY <1>1, <2>1, <2>2, <4>1, PassedStays DEF SameBut
      <4>3. mem'[x].st[mem'[x].bots[at[x][1]]] \in Settled /\ at[x][1] \in Nat
        <5>1. Stock(x) = mem[x].bots[at[x][1]] /\ at[x][1] \in Nat  BY <1>1, <1>3, AtPlace
        <5> QED  BY <2>1, <5>1 DEF SameBut, Settled
      <4> QED  BY <1>1, <4>2, <4>3, PassedOne
    <3> QED  BY <1>1, <1>2, <2>1, <3>2, <3>3 DEF SettledSoFar, AtStep
  <2>6. CreateNoted(x)'  BY <2>1 DEF CreateNoted
  <2> QED  BY <1>2, <2>3, <2>4, <2>5, <2>6 DEF SettleInv
<1>4. CASE ~InStock(x)
  <2>1. pc'[x] = "ended" /\ result'[x] = "failed" /\ disk'[x] \in {disk[x], mem[x]}
    BY <1>4 DEF MFail
  <2>2. \A c \in Codes : ~Keyed(mem'[x], c, "create_report")
    BY <1>1, <1>4, NotKeyedInPhaseA DEF Keyed
  <2>3. CreatedSettled(x, mem[x])' /\ CreatedSettled(x, disk[x])'
    BY <1>1, <2>1, <2>2 DEF SettleInv, CreatedSettled
  <2>4. CreateNoted(x)' /\ SettledSoFar(x)'
    BY <1>2, <2>1 DEF CreateNoted, SettledSoFar, AtStep, Running
  <2> QED  BY <1>2, <2>1, <2>3, <2>4 DEF SettleInv, Running
<1> QED  BY <1>3, <1>4

\* An answer settles stocks, or says nothing of them; a list of stocks comes
\* before any of them is created.
LEMMA SettleEffect ==
    ASSUME TInv, NEW x \in Sessions, WalkInv(x), pc[x] \in {"called", "calledAgain"}, NEW w \in Working,
           EffectCases(x, w)
    PROVE  /\ InStock(x) => /\ w.bots = mem[x].bots
                            /\ \A c \in Codes : mem[x].st[c] \in Settled => w.st[c] \in Settled
           /\ \A c \in Codes : Keyed(mem[x], c, "create_report") =>
                                   (mem[x].st[c] \in Settled => w.st[c] \in Settled)
<1>1. pc[x] \in AtStep  BY DEF AtStep
<1>2. CASE InStock(x)
  <2>1. Tool(x) \notin {"get_report_bot_codes", "check_trading_day"}  BY <1>1, <1>2, AtPlace
  <2> QED  BY <2>1 DEF EffectCases, SameBut, Settled
<1>3. CASE ~InStock(x)
  <2>1. \A c \in Codes : ~Keyed(mem[x], c, "create_report")  BY <1>1, <1>3, NotKeyedInPhaseA
  <2> QED  BY <1>3, <2>1
<1> QED  BY <1>2, <1>3

LEMMA SettleApply ==
    ASSUME TInv, NEW x \in Sessions, WalkInv(x), SettleInv(x), MApply(x)
    PROVE  SettleInv(x)'
<1>1. /\ pc[x] = "called" /\ pc[x] \in AtStep /\ pc'[x] = "applied" /\ disk'[x] = mem'[x]
      /\ UNCHANGED <<at[x], ans[x], cp[x], unsaved[x]>>
  BY DEF MApply, AtStep
<1>2. mem'[x] \in Working /\ mem'[x].keys = mem[x].keys /\ EffectCases(x, mem'[x])
  BY <1>1, EffectFacts DEF MApply
<1>3. /\ InStock(x) => /\ mem'[x].bots = mem[x].bots
                       /\ \A c \in Codes : mem[x].st[c] \in Settled => mem'[x].st[c] \in Settled
      /\ \A c \in Codes : Keyed(mem[x], c, "create_report") =>
                              (mem[x].st[c] \in Settled => mem'[x].st[c] \in Settled)
  BY <1>1, <1>2, SettleEffect
<1>4. CreatedSettled(x, mem[x])' /\ CreatedSettled(x, disk[x])'
  <2>1. \A c \in Codes : Keyed(mem'[x], c, "create_report") => Keyed(mem[x], c, "create_report")
    BY <1>2 DEF Keyed
  <2> QED  BY <1>1, <1>3, <2>1 DEF SettleInv, CreatedSettled
<1>5. CreateNoted(x)'
  <2>1. SUFFICES ASSUME Tool(x) = "create_report", ans[x].out = "ok"
                 PROVE  mem'[x].st[Stock(x)'] = "reported"
    BY <1>1 DEF CreateNoted, Tool
  <2>2. Stock(x)' = Stock(x)  BY <1>1, <1>3, <2>1, AtPlace DEF Stock
  <2> QED  BY <1>2, <2>1, <2>2 DEF EffectCases, SameBut
<1>6. ASSUME ~unsaved'[x] PROVE SettledSoFar(x)'
  <2>1. SettledSoFar(x) /\ cp[x] # "completed"  BY <1>1, <1>6 DEF SettleInv, Running
  <2>2. Passed(mem'[x], at[x][1] - 1)
    <3>1. Passed(mem[x], at[x][1] - 1) /\ mem[x] \in Working  BY <1>1, <2>1, Domains DEF SettledSoFar
    <3>2. CASE InStock(x)  BY <1>3, <3>1, <3>2, PassedStays
    <3>3. CASE ~InStock(x)
      <4>1. at[x][1] = 0  BY <1>1, <3>3, AtPlace
      <4> QED  BY <4>1 DEF Passed
    <3> QED  BY <3>2, <3>3
  <2> QED  BY <1>1, <2>1, <2>2 DEF SettledSoFar
<1> QED  BY <1>1, <1>4, <1>5, <1>6 DEF SettleInv, Running

LEMMA SettleSkip ==
    ASSUME TInv, NEW x \in Sessions, SettleInv(x), MSkip(x)
    PROVE  SettleInv(x)'
<1>0. /\ pc[x] \in {"applied", "calledAgain"} /\ Tool(x) = "get_stock_daily_reports" /\ Saved(x)
      /\ UNCHANGED at[x] /\ cp'[x] \in {cp[x], "running", "unreadable"}
  BY DEF MSkip
<1>1. /\ pc[x] \in AtStep /\ pc'[x] = "next" /\ InStock(x) /\ Stock(x) \in Codes
      /\ mem[x] \in Working /\ mem'[x] \in Working
      /\ mem'[x].keys = mem[x].keys \union {Key(mem[x], at[x][1], at[x][2])}
      /\ SameBut(mem[x], mem'[x], Stock(x), "skipped") /\ disk'[x] \in {disk[x], mem'[x]}
  BY SkipFacts
<1>2. cp[x] # "completed" /\ cp'[x] # "completed" /\ (unsaved[x] => unsaved'[x])
  BY <1>0 DEF SettleInv, Running, Saved
<1>3. \A c \in Codes : mem[x].st[c] \in Settled => mem'[x].st[c] \in Settled
  BY <1>1 DEF SameBut, Settled
<1>4. CreatedSettled(x, mem[x])'
  <2>1. \A c \in Codes : Keyed(mem'[x], c, "create_report") => Keyed(mem[x], c, "create_report")
    BY <1>0, <1>1, KeyedByMark
  <2> QED  BY <1>2, <1>3, <2>1 DEF SettleInv, CreatedSettled
<1>5. CreatedSettled(x, disk[x])'
  <2>1. CASE disk'[x] = mem'[x]  BY <1>4, <2>1 DEF CreatedSettled
  <2>2. CASE disk'[x] = disk[x]  BY <1>2, <2>2 DEF SettleInv, CreatedSettled
  <2> QED  BY <1>1, <2>1, <2>2
<1>6. ASSUME ~unsaved'[x] PROVE SettledSoFar(x)'
  <2>1. SettledSoFar(x) /\ disk'[x] = mem'[x]  BY <1>0, <1>2, <1>6 DEF SettleInv, Saved
  <2>2. Passed(mem'[x], at[x][1])
    <3>1. Passed(mem[x], at[x][1] - 1)  BY <1>1, <2>1 DEF SettledSoFar
    <3>2. Passed(mem'[x], at[x][1] - 1)  BY <1>1, <1>3, <3>1, PassedStays DEF SameBut
    <3>3. mem'[x].st[mem'[x].bots[at[x][1]]] \in Settled /\ at[x][1] \in Nat
      <4>1. Stock(x) = mem[x].bots[at[x][1]] /\ at[x][1] \in Nat  BY <1>1, AtPlace
      <4> QED  BY <1>1, <4>1 DEF SameBut, Settled
    <3> QED  BY <1>1, <3>2, <3>3, PassedOne
  <2> QED  BY <1>0, <1>1, <1>2, <2>1, <2>2 DEF SettledSoFar, AtStep
<1>7. CreateNoted(x)'  BY <1>1 DEF CreateNoted
<1> QED  BY <1>2, <1>4, <1>5, <1>6, <1>7 DEF SettleInv

LEMMA SettleMark ==
    ASSUME SomeCreate, TInv, NEW x \in Sessions, WalkInv(x), PhaseInv(x)', SettleInv(x),
           NEW w \in Working, MMark(x, w)
    PROVE  SettleInv(x)'
<1> DEFINE b == at[x][1]
           i == at[x][2]
           C == "create_report"
<1>1. /\ pc[x] \in AtStep /\ pc[x] \in {"applied", "calledAgain"} /\ mem[x] \in Working
      /\ mem'[x] \in Working
      /\ w.keys = mem[x].keys /\ mem'[x].keys = mem[x].keys \union {Key(mem[x], b, i)}
      /\ Key(w, b, i) = Key(mem[x], b, i)
      /\ mem'[x].bots = w.bots /\ mem'[x].st = w.st /\ mem'[x].day = w.day
      /\ (InStock(x) => w.bots = mem[x].bots)
      /\ \/ w = mem[x]
         \/ pc[x] = "calledAgain" /\ EffectCases(x, w)
  BY MarkFacts
<1>2. /\ disk'[x] \in {disk[x], w} /\ cp'[x] \in {cp[x], "running", "unreadable"}
      /\ (unsaved[x] => unsaved'[x])
  BY DEF MMark
<1>3. cp[x] # "completed" /\ cp'[x] # "completed"  BY <1>1, <1>2 DEF SettleInv, Running
<1>4. /\ InStock(x) => \A c \in Codes : mem[x].st[c] \in Settled => w.st[c] \in Settled
      /\ \A c \in Codes : Keyed(mem[x], c, C) => (mem[x].st[c] \in Settled => w.st[c] \in Settled)
  <2>1. CASE w = mem[x]  BY <2>1
  <2>2. CASE pc[x] = "calledAgain" /\ EffectCases(x, w)  BY <2>2, SettleEffect
  <2> QED  BY <1>1, <2>1, <2>2
<1>5. CreatedSettled(x, mem[x])'
  <2> SUFFICES ASSUME NEW c \in Codes, Keyed(mem'[x], c, C), ~unsaved'[x]
               PROVE  w.st[c] \in Settled
    BY <1>1 DEF CreatedSettled
  <2>1. CASE Keyed(mem[x], c, C)
    BY <1>2, <1>4, <2>1 DEF SettleInv, CreatedSettled
  <2>2. CASE ~Keyed(mem[x], c, C)
    <3>1. Tool(x) = C /\ c = Stock(x)  BY <1>1, <2>2, KeyedByMark
    <3>2. ans[x].out = "ok"  BY <3>1, StepsAssumption DEF StepsAssumption, MMark
    <3>3. CASE pc[x] = "applied"
      <4>1. w = mem[x]  BY <3>3, MarkFacts
      <4> QED  BY <3>1, <3>2, <3>3, <4>1 DEF SettleInv, CreateNoted, Settled
    <3>4. CASE pc[x] = "calledAgain"
      <4>1. w = Effect(mem[x], Tool(x), b, ans[x]) \/ unsaved'[x] = TRUE  BY <3>4 DEF MMark
      <4>2. EffectCases(x, w)  BY <3>4, <4>1, EffectFacts
      <4> QED  BY <3>1, <3>2, <4>2 DEF EffectCases, SameBut, Settled
    <3> QED  BY <1>1, <3>3, <3>4
  <2> QED  BY <2>1, <2>2
<1>6. CreatedSettled(x, disk[x])'
  <2>1. CASE disk'[x] = w
    <3>1. \A c \in Codes : Keyed(w, c, C) => Keyed(mem'[x], c, C)  BY <1>1 DEF Keyed
    <3> QED  BY <1>1, <1>5, <2>1, <3>1 DEF CreatedSettled
  <2>2. CASE disk'[x] = disk[x]  BY <1>2, <2>2 DEF SettleInv, CreatedSettled
  <2> QED  BY <1>2, <2>1, <2>2
<1>7. pc'[x] \in {"finish", "next", "phaseB", "ready"}  BY DEF MMark, MovesOn
<1>8. CreateNoted(x)'  BY <1>7 DEF CreateNoted
<1>9. ASSUME ~unsaved'[x] PROVE SettledSoFar(x)'
  <2>1. SettledSoFar(x)  BY <1>2, <1>9 DEF SettleInv
  <2>2. disk'[x].st = mem'[x].st /\ disk'[x].bots = mem'[x].bots
    <3>1. CASE disk'[x] = w  BY <1>1, <3>1
    <3>2. CASE disk'[x] # w
      <4>1. disk'[x] = disk[x] /\ w = mem[x]  BY <1>1, <1>9, <3>2 DEF MMark
      <4> QED  BY <1>1, <2>1, <4>1 DEF SettledSoFar, AtStep, Running
    <3> QED  BY <3>1, <3>2
  <2>3. Passed(mem'[x], b - 1)
    <3>1. Passed(mem[x], b - 1)  BY <1>1, <2>1 DEF SettledSoFar
    <3>2. CASE InStock(x)
      <4>1. Passed(w, b - 1)  BY <1>1, <1>4, <3>1, <3>2, PassedStays
      <4> QED  BY <1>1, <4>1 DEF Passed
    <3>3. CASE ~InStock(x)
      <4>1. b = 0  BY <1>1, <3>3, AtPlace
      <4> QED  BY <4>1 DEF Passed
    <3> QED  BY <3>2, <3>3
  <2>4. b \in Nat /\ i \in Nat \ {0} /\ (InStock(x) => Stock(x) \in Codes /\ Stock(x) = w.bots[b])
    BY <1>1, AtPlace
  <2>5. CASE pc'[x] = "finish"
    <3>1. w.day = "no"  BY <2>5 DEF MMark, MovesOn
    <3>2. \A c \in Listed(mem'[x]) : mem'[x].st[c] \in {"reported", "skipped"}
      BY <1>1, <3>1 DEF PhaseInv, PhaseSays
    <3>3. AllSettled(mem'[x])  BY <3>2 DEF AllSettled, Settled
    <3> QED  BY <1>3, <2>2, <2>5, <3>3 DEF SettledSoFar, AtStep
  <2>6. CASE pc'[x] = "ready"
    <3>1. at'[x][1] = b  BY <2>6 DEF MMark, MovesOn
    <3> QED  BY <1>3, <2>2, <2>3, <2>6, <3>1 DEF SettledSoFar
  <2>7. CASE pc'[x] = "phaseB"
    BY <1>3, <2>2, <2>7 DEF SettledSoFar, AtStep
  <2>8. CASE pc'[x] = "next"
    <3>1. /\ UNCHANGED at[x]
          /\ \/ InStock(x) /\ w.st[Stock(x)] = "skipped"
             \/ MovesOn(x, Marked(w, b, i), b, i + 1) /\ b # 0 /\ Todo(Marked(w, b, i), b, i + 1) = {}
      BY <2>8 DEF MMark, MovesOn
    <3>2. w.st[w.bots[b]] \in Settled
      <4>1. CASE InStock(x) /\ w.st[Stock(x)] = "skipped"  BY <2>4, <4>1 DEF Settled
      <4>2. CASE b # 0 /\ Todo(Marked(w, b, i), b, i + 1) = {}
        <5>1. InStock(x)  BY <2>4, <4>2 DEF InStock
        <5>2. /\ Steps(b) = PerStock /\ Owner(mem[x], b) = Stock(x) /\ b \in 0..Len(w.bots)
          BY <1>1, <5>1, AtPlace
        <5>3. Marked(w, b, i) = mem'[x]  BY DEF MMark
        <5>4. \A j : Key(mem'[x], b, j) = <<Stock(x), j>> /\ Key(mem[x], b, j) = <<Stock(x), j>>
          BY <1>1, <5>1, <5>2 DEF Key, Owner
        <5>5. \A j \in 1..(i - 1) : Key(mem[x], b, j) \in mem[x].keys  BY <1>1 DEF WalkInv, Walk
        <5>6. \A j \in 1..i : Key(mem'[x], b, j) \in mem'[x].keys
          <6> HIDE DEF b, i
          <6> QED  BY <1>1, <2>4, <5>4, <5>5
        <5>7. i + 1 \in Nat \ {0} /\ (i + 1) - 1 = i  BY <2>4
        <5>8. \A j \in 1..Len(PerStock) : Key(mem'[x], b, j) \in mem'[x].keys
          BY <4>2, <5>2, <5>3, <5>6, <5>7, TodoFirst
        <5>9. Keyed(mem'[x], Stock(x), C)  BY <5>4, <5>8 DEF SomeCreate, Keyed
        <5> QED  BY <1>1, <1>5, <1>9, <2>4, <5>1, <5>9 DEF CreatedSettled
      <4> QED  BY <3>1, <4>1, <4>2
    <3>3. Passed(mem'[x], b)  BY <1>1, <2>3, <2>4, <3>2, PassedOne
    <3> QED  BY <1>3, <2>2, <2>8, <3>1, <3>3 DEF SettledSoFar, AtStep
  <2> QED  BY <1>7, <2>5, <2>6, <2>7, <2>8
<1> QED  BY <1>3, <1>5, <1>6, <1>8, <1>9 DEF SettleInv

\* The loop goes on: those it leaves behind are settled, and so is a stock
\* whose steps are all complete.
LEMMA SettleNext ==
    ASSUME SomeCreate, TInv, NEW x \in Sessions, SettleInv(x), NEW b \in Nat, MNext(x, b)
    PROVE  SettleInv(x)'
<1> DEFINE c == mem[x].bots[b]
           n == at[x][1]
<1>1. /\ mem[x] \in Working /\ mem'[x] \in Working /\ c \in Codes /\ mem'[x].keys = mem[x].keys
      /\ b \in 1..Len(mem[x].bots) /\ disk'[x] \in {disk[x], mem'[x]}
      /\ \/ mem'[x] = mem[x] /\ mem[x].st[c] # "pending"
         \/ mem[x].st[c] = "pending" /\ SameBut(mem[x], mem'[x], c, "collecting")
  BY NextFacts
<1>2. /\ pc[x] = "next" /\ UNCHANGED cp[x] /\ Saved(x)
      /\ b \in (n + 1)..Len(mem[x].bots)
      /\ \A k \in (n + 1)..(b - 1) : mem[x].st[mem[x].bots[k]] \in {"reported", "skipped"}
  BY DEF MNext
<1>3. n \in Nat /\ Len(mem[x].bots) \in Nat  BY <1>1, Domains, WorkingParts
<1>4. cp[x] # "completed" /\ (unsaved[x] => unsaved'[x])  BY <1>2 DEF SettleInv, Running, Saved
<1>5. /\ mem'[x].bots = mem[x].bots
      /\ \A d \in Codes : mem[x].st[d] \in Settled => mem'[x].st[d] \in Settled
  BY <1>1 DEF SameBut, Settled
<1>6. CreatedSettled(x, mem[x])'
  <2>1. \A d \in Codes : Keyed(mem'[x], d, "create_report") => Keyed(mem[x], d, "create_report")
    BY <1>1 DEF Keyed
  <2> QED  BY <1>4, <1>5, <2>1 DEF SettleInv, CreatedSettled
<1>7. CreatedSettled(x, disk[x])'
  <2>1. CASE disk'[x] = mem'[x]  BY <1>6, <2>1 DEF CreatedSettled
  <2>2. CASE disk'[x] = disk[x]  BY <1>4, <2>2 DEF SettleInv, CreatedSettled
  <2> QED  BY <1>1, <2>1, <2>2
<1>8. \/ pc'[x] = "ready" /\ at'[x][1] = b
      \/ pc'[x] = "next" /\ at'[x][1] = b /\ Todo(mem'[x], b, 1) = {}
  BY DEF MNext
<1>9. ASSUME ~unsaved'[x] PROVE SettledSoFar(x)'
  <2>1. SettledSoFar(x) /\ disk'[x] = mem'[x]  BY <1>2, <1>4, <1>9 DEF SettleInv, Saved
  <2>2. Passed(mem'[x], b - 1)
    <3>1. Passed(mem[x], n)  BY <1>2, <2>1 DEF SettledSoFar
    <3>2. Passed(mem[x], b - 1)
      <4> SUFFICES ASSUME NEW k \in 1..Len(mem[x].bots), k <= b - 1
                   PROVE  mem[x].st[mem[x].bots[k]] \in Settled
        BY DEF Passed
      <4>1. CASE k <= n  BY <3>1, <4>1 DEF Passed
      <4>2. CASE k > n
        <5>1. k \in (n + 1)..(b - 1)  BY <1>3, <4>2
        <5> QED  BY <1>2, <5>1 DEF Settled
      <4> QED  BY <1>3, <4>1, <4>2
    <3> QED  BY <1>1, <1>5, <3>2, PassedStays
  <2>3. ASSUME pc'[x] = "next" PROVE Passed(mem'[x], b)
    <3>1. \A j \in 1..Len(Steps(b)) : Key(mem'[x], b, j) \in mem'[x].keys
      <4>1. \A j \in 1..(1 - 1) : Key(mem'[x], b, j) \in mem'[x].keys  OBVIOUS
      <4> QED  BY <1>8, <2>3, <4>1, TodoFirst
    <3>2. Steps(b) = PerStock /\ Owner(mem'[x], b) = c  BY <1>1, <1>5 DEF Steps, Owner
    <3>3. Keyed(mem'[x], c, "create_report")
      BY <3>1, <3>2 DEF SomeCreate, Keyed, Key
    <3>4. mem'[x].st[mem'[x].bots[b]] \in Settled  BY <1>1, <1>5, <1>6, <1>9, <3>3 DEF CreatedSettled
    <3> QED  BY <1>1, <2>2, <3>4, PassedOne
  <2> QED  BY <1>2, <1>4, <1>8, <2>1, <2>2, <2>3 DEF SettledSoFar, AtStep
<1>10. CreateNoted(x)'  BY <1>8 DEF CreateNoted
<1> QED  BY <1>2, <1>4, <1>6, <1>7, <1>9, <1>10 DEF SettleInv

\* The steps that set the phase themselves.  Phase B begins: a day without
\* trading would have ended the run before.
LEMMA SettleSet ==
    ASSUME SomeCreate, TInv, NEW x \in Sessions, PhaseInv(x), SettleInv(x), MPhaseB(x) \/ MDone(x)
    PROVE  SettleInv(x)'
<1>1. /\ mem[x] \in Working /\ mem'[x].keys = mem[x].keys /\ mem'[x].bots = mem[x].bots
      /\ mem'[x].st = mem[x].st /\ disk'[x] \in {disk[x], mem'[x]}
  BY PhaseFacts
<1>2. /\ pc[x] \in {"phaseB", "next"} /\ pc'[x] \in {"next", "finish"} /\ UNCHANGED cp[x] /\ Saved(x)
  BY DEF MPhaseB, MDone
<1>3. cp[x] # "completed" /\ (unsaved[x] => unsaved'[x])  BY <1>2 DEF SettleInv, Running, Saved
<1>4. CreatedSettled(x, mem[x])'  BY <1>1, <1>3 DEF SettleInv, CreatedSettled, Keyed
<1>5. CreatedSettled(x, disk[x])'
  <2>1. CASE disk'[x] = mem'[x]  BY <1>4, <2>1 DEF CreatedSettled
  <2>2. CASE disk'[x] = disk[x]  BY <1>3, <2>2 DEF SettleInv, CreatedSettled
  <2> QED  BY <1>1, <2>1, <2>2
<1>6. ASSUME ~unsaved'[x] PROVE SettledSoFar(x)'
  <2>1. SettledSoFar(x) /\ disk'[x] = mem'[x]  BY <1>2, <1>3, <1>6 DEF SettleInv, Saved
  <2>2. CASE MPhaseB(x)
    <3>1. mem[x].day # "no"  BY <2>2 DEF MPhaseB, PhaseInv, PhaseSays
    <3>2. PerStock # <<>>  BY DEF SomeCreate
    <3>3. pc'[x] = "next" /\ at'[x][1] = 0  BY <2>2, <3>1, <3>2 DEF MPhaseB
    <3>4. Passed(mem'[x], 0)  BY DEF Passed
    <3> QED  BY <1>2, <1>3, <2>1, <3>3, <3>4 DEF SettledSoFar, AtStep
  <2>3. CASE MDone(x)
    <3>1. /\ pc[x] = "next" /\ pc'[x] = "finish"
          /\ \A b \in (at[x][1] + 1)..Len(mem[x].bots) :
                 mem[x].st[mem[x].bots[b]] \in {"reported", "skipped"}
      BY <2>3 DEF MDone
    <3>2. Passed(mem[x], at[x][1])  BY <2>1, <3>1 DEF SettledSoFar
    <3>3. /\ at[x][1] \in Nat /\ Len(mem[x].bots) \in Nat
          /\ DOMAIN mem[x].bots = 1..Len(mem[x].bots)
      BY <1>1, Domains, WorkingParts
    <3>4. ASSUME NEW k \in DOMAIN mem[x].bots PROVE mem[x].st[mem[x].bots[k]] \in Settled
      <4>1. CASE k <= at[x][1]  BY <3>2, <3>3, <4>1 DEF Passed
      <4>2. CASE k > at[x][1]
        <5>1. k \in (at[x][1] + 1)..Len(mem[x].bots)  BY <3>3, <4>2
        <5> QED  BY <3>1, <5>1 DEF Settled
      <4> QED  BY <3>3, <4>1, <4>2
    <3>5. AllSettled(mem'[x])  BY <1>1, <3>4 DEF AllSettled, Listed
    <3> QED  BY <1>2, <1>3, <2>1, <3>1, <3>5 DEF SettledSoFar, AtStep
  <2> QED  BY <2>2, <2>3
<1>7. CreateNoted(x)'  BY <1>2 DEF CreateNoted
<1> QED  BY <1>2, <1>3, <1>4, <1>5, <1>6, <1>7 DEF SettleInv

\* Steps that keep the working state, and the ends and new beginnings of a run.
LEMMA SettleRest ==
    ASSUME TInv, NEW x \in Sessions, PhaseInv(x), SettleInv(x),
           \/ MStart(x) \/ MCall(x) \/ MAgain(x)
           \/ MFinish(x) \/ MCancel(x) \/ MCrash(x) \/ MResume(x)
    PROVE  SettleInv(x)'
<1>1. CASE MStart(x) \/ MCall(x) \/ MAgain(x) \/ MCancel(x)
  <2>1. UNCHANGED <<mem[x], disk[x], unsaved[x], at[x], result[x]>>
    BY <1>1 DEF MStart, MCall, MAgain, MCancel, Still, Silent
  <2>2. \/ UNCHANGED <<pc[x], ans[x], cp[x]>>
        \/ /\ pc[x] \in AtStep \ {"called", "calledAgain"}
           /\ pc'[x] \in {"ready", "called", "again", "calledAgain"} /\ cp'[x] \in {cp[x], "running", "unreadable"}
    BY <1>1 DEF MStart, MCall, MAgain, MCancel, AtStep
  <2>3. CreatedSettled(x, mem[x])' /\ CreatedSettled(x, disk[x])'
    BY <2>1 DEF SettleInv, CreatedSettled
  <2>4. CASE UNCHANGED <<pc[x], ans[x], cp[x]>>
    BY <2>1, <2>3, <2>4 DEF SettleInv, CreateNoted, SettledSoFar, Tool, Stock
  <2>5. CASE /\ pc[x] \in AtStep \ {"called", "calledAgain"}
             /\ pc'[x] \in {"ready", "called", "again", "calledAgain"} /\ cp'[x] \in {cp[x], "running", "unreadable"}
    <3>1. cp'[x] # "completed"  BY <2>5 DEF SettleInv, AtStep, Running
    <3>2. CreateNoted(x)'  BY <2>5 DEF CreateNoted
    <3>3. ~unsaved'[x] => SettledSoFar(x)'
      BY <2>1, <2>5, <3>1 DEF SettleInv, SettledSoFar, AtStep, Running
    <3> QED  BY <2>3, <3>1, <3>2, <3>3 DEF SettleInv
  <2> QED  BY <2>2, <2>4, <2>5
<1>2. CASE MFinish(x)
  <2>1. /\ pc[x] = "finish" /\ pc'[x] = "ended" /\ UNCHANGED <<mem[x], disk[x], unsaved[x]>>
        /\ \/ cp'[x] = "completed" /\ result'[x] = "completed"
           \/ result'[x] = "failed" /\ cp'[x] \in {cp[x], "unreadable"}
    BY <1>2 DEF MFinish, Still
  <2>2. CreatedSettled(x, mem[x])' /\ CreatedSettled(x, disk[x])' /\ CreateNoted(x)'
    BY <2>1 DEF SettleInv, CreatedSettled, CreateNoted
  <2>3. ASSUME ~unsaved'[x] PROVE SettledSoFar(x)'
    <3>1. SettledSoFar(x) /\ cp[x] # "completed"  BY <2>1, <2>3 DEF SettleInv, Running
    <3>2. /\ AllSettled(mem[x]) /\ disk[x].st = mem[x].st /\ disk[x].bots = mem[x].bots
      BY <2>1, <3>1 DEF SettledSoFar, Running
    <3>3. AllSettled(disk[x])  BY <3>2 DEF AllSettled, Listed
    <3>4. AllSettled(mem[x])' /\ AllSettled(disk[x])'  BY <2>1, <3>2, <3>3 DEF AllSettled, Listed
    <3> QED  BY <2>1, <3>2, <3>4 DEF SettledSoFar, Running, AtStep
  <2> QED  BY <2>1, <2>2, <2>3 DEF SettleInv, Running
<1>3. CASE MCrash(x)
  <2>1. /\ pc'[x] = "crashed" /\ pc[x] \in Running
        /\ UNCHANGED <<mem[x], disk[x], unsaved[x]>> /\ cp'[x] \in {cp[x], "unreadable"}
    BY <1>3 DEF MCrash, Still
  <2>2. cp'[x] # "completed"  BY <2>1 DEF SettleInv
  <2> QED  BY <2>1, <2>2 DEF SettleInv, CreatedSettled, CreateNoted, SettledSoFar, AtStep, Running
<1>4. CASE MResume(x)
  <2>1. /\ mem'[x] = disk[x] /\ UNCHANGED <<disk[x], unsaved[x], cp[x]>>
        /\ \/ (cp[x] = "completed" \/ disk[x].phase = "done") /\ pc'[x] = "ended"
           \/ /\ cp[x] # "completed"
              /\ \/ pc'[x] = "ready" /\ at'[x][1] = 0
                 \/ pc'[x] = "phaseB"
    BY <1>4 DEF MResume
  <2>2. CreatedSettled(x, mem[x])' /\ CreatedSettled(x, disk[x])' /\ CreateNoted(x)'
    BY <2>1 DEF SettleInv, CreatedSettled, CreateNoted
  <2>3. ASSUME ~unsaved'[x] PROVE SettledSoFar(x)'
    <3>1. cp[x] = "completed" => AllSettled(disk[x])  BY <2>1, <2>3 DEF SettleInv, SettledSoFar
    <3>2. disk[x].phase = "done" => AllSettled(disk[x])
      BY DEF PhaseInv, PhaseSays, AllSettled, Settled
    <3>3. CASE (cp[x] = "completed" \/ disk[x].phase = "done") /\ pc'[x] = "ended"
      <4>1. AllSettled(mem[x])' /\ AllSettled(disk[x])'
        BY <2>1, <3>1, <3>2, <3>3 DEF AllSettled, Listed
      <4> QED  BY <2>1, <3>3, <4>1 DEF SettledSoFar, AtStep
    <3>4. CASE /\ cp[x] # "completed"
               /\ \/ pc'[x] = "ready" /\ at'[x][1] = 0
                 \/ pc'[x] = "phaseB"
      <4>1. at'[x][1] = 0 => Passed(mem'[x], at'[x][1] - 1)  BY DEF Passed
      <4> QED  BY <2>1, <3>4, <4>1 DEF SettledSoFar, AtStep
    <3> QED  BY <2>1, <3>3, <3>4
  <2> QED  BY <2>1, <2>2, <2>3 DEF SettleInv, Running
<1> QED  BY <1>1, <1>2, <1>3, <1>4

Settles == \A x \in Sessions : SettleInv(x)

LEMMA InitSettles == Init => Settles
<1> SUFFICES ASSUME Init, NEW x \in Sessions PROVE SettleInv(x)  BY DEF Settles
<1>1. /\ pc[x] = "new" /\ at[x] = <<0, 1>> /\ mem[x] = Fresh /\ disk[x] = Fresh
      /\ cp[x] = "none" /\ result[x] = "none"
  BY DEF Init
<1>2. Fresh.keys = {} /\ Fresh.bots = <<>>  BY DEF Fresh
<1>3. \A c \in Codes : ~Keyed(Fresh, c, "create_report")  BY <1>2 DEF Keyed
<1>4. Passed(Fresh, 0 - 1)  BY DEF Passed
<1> QED  BY <1>1, <1>3, <1>4 DEF SettleInv, CreatedSettled, CreateNoted, SettledSoFar, AtStep, Running

LEMMA NextSettles ==
    ASSUME ~Backfill, ChecksFirst, SomeCreate
    PROVE  TInv /\ Walks /\ Phases /\ Settles /\ [Next]_vars => Settles'
<1> SUFFICES ASSUME TInv, Walks, Phases, Settles, [Next]_vars PROVE Settles'  OBVIOUS
<1>1. CASE UNCHANGED vars
  BY <1>1 DEF vars, Settles, SettleInv, CreatedSettled, CreateNoted, SettledSoFar, Passed, AllSettled,
              Listed, Tool, Stock
<1>2. Phases'  BY NextPhases
<1>3. ASSUME NEW x \in Sessions, Moves(x), Others(x) PROVE Settles'
  <2>1. WalkInv(x) /\ PhaseInv(x) /\ SettleInv(x) /\ PhaseInv(x)'
    BY <1>2 DEF Walks, Phases, Settles
  <2>2. SettleInv(x)'
    BY <1>3, <2>1, SettleFail, SettleApply, SettleSkip, SettleMark, SettleNext, SettleSet, SettleRest
       DEF Moves
  <2> QED  BY <1>3, <2>2, OtherSettle DEF Settles
<1> QED  BY <1>1, <1>3, NextMoves

\* A session that reports "completed" leaves no stock pending or collecting,
\* also after crashes, cancellations and resumes, unless a save failed
\* (runner.go:112-176): for a run for today's report date whose steps of a
\* stock create its report.
THEOREM NoneForgotten ==
    ASSUME ~Backfill, ChecksFirst, SomeCreate
    PROVE  Spec => []NoStockForgotten
<1>1. Init => TInv /\ Walks /\ Phases /\ Settles
  BY InitTypes, InitWalks, InitPhases, InitSettles
<1>2. TInv /\ Walks /\ Phases /\ Settles /\ [Next]_vars => TInv' /\ Walks' /\ Phases' /\ Settles'
  BY NextTypes, NextWalks, NextPhases, NextSettles
<1>3. Settles => NoStockForgotten
  BY DEF Settles, SettleInv, SettledSoFar, AllSettled, NoStockForgotten
<1> QED  BY <1>1, <1>2, <1>3, PTL DEF Spec
=============================================================================
