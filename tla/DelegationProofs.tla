-------------------------- MODULE DelegationProofs --------------------------
(***************************************************************************)
(* Proofs about Delegation, for every number of steps, retries and running *)
(* attempts and every length of plans: what the workflow counts and hands  *)
(* over is what the log says.                                              *)
(***************************************************************************)
EXTENDS Delegation, NaturalsLemmas, FiniteSetTheorems

States == [next : 1..(MaxSteps + 1), steps : 0..MaxSteps,
           successes : 0..(MaxSteps * PlanLength)]
Recorded == Executions \cup Others
Results == Recorded \cup {Unrecorded, NoResult}
Rows == {StartedRow} \cup {StepRow(k, r) : k \in 1..MaxSteps, r \in Recorded}
                     \cup {FinishedRow(s) : s \in States}
Attempt == [at : {"lookStart", "look", "act", "insert", "report"},
            task : {"start", "step", "finish"}, state : States, result : Results]
Views == [ok : BOOLEAN, status : {"none", "running", "terminal"}, steps : Nat, successes : Nat]

Typed ==
    /\ log \in Seq(Rows)
    /\ task \in {"start", "step", "finish", "done", "failed"}
    /\ state \in States
    /\ state.steps = state.next - 1 /\ state.successes <= state.steps * PlanLength
    /\ task \in {"start", "step"} => state.next <= MaxSteps
    /\ attempts \in [Slots -> Attempt \cup {NoAttempt}]
    /\ current \in Running \cup {0} /\ tries \in 0..MaxAttempts
    /\ effects \in Nat /\ overlapped \in BOOLEAN
    /\ Replayed \in Views

(* Whatever is late or killed: an attempt is of this step or an earlier one, *)
(* what it is about to report is recorded, and what it is about to record or *)
(* to report happened on top of what is already counted.                    *)
AttemptOK(i) ==
    LET a == attempts[i] IN
    /\ a.state.next <= state.next
    /\ a.at \in {"lookStart", "act"} => a.task = "step"
    /\ i = current => a.task = task /\ a.state = state
    /\ a.task = "step" =>
         /\ a.state.next <= MaxSteps
         /\ a.at = "insert" => a.result \in Recorded
         /\ a.at = "report" =>
              \/ a.result = Unrecorded
              \/ \E j \in RowsOfStep(a.state.next) : log[j].result = a.result
         /\ a.state.next = state.next /\ a.at \in {"insert", "report"} =>
              state.successes + a.result.n <= effects

RowsOK ==
    \A j \in RowsOf("step") :
        /\ log[j].step <= state.next
        /\ log[j].step = state.next => state.successes + log[j].result.n <= effects

ResultsOK ==
    /\ results \in Seq(Results)
    /\ task \in {"start", "step"} => Len(results) = state.next - 1
    /\ AppliedIsRecorded

Always ==
    /\ Typed /\ RowsOK /\ ResultsOK /\ CountedHappened
    /\ \A i \in Running : AttemptOK(i)

(* Without overlap there is one attempt at most, of the activity t, and it   *)
(* inserts a row only where none is.                                        *)
Fits(a) ==
    /\ a.at = "insert" =>
         /\ a.task = "start" => RowsOf("started") = {}
         /\ a.task = "step" => RowsOfStep(state.next) = {}
         /\ a.task = "finish" => RowsOf("finished") = {}
    /\ a.at = "act" => RowsOfStep(state.next) = {}
    /\ a.at = "report" =>
         /\ a.task = "start" => RowsOf("started") # {}
         /\ a.task = "step" => (a.result = Unrecorded => RowsOfStep(state.next) = {})
         /\ a.task = "finish" => RowsOf("finished") # {}

LoneAttempt(t) ==
    /\ \A i, j \in Running : i = j
    /\ \A i \in Running : attempts[i].task = t /\ attempts[i].state = state /\ Fits(attempts[i])

(* What the web sees during the activity t.                                  *)
InStart ==
    /\ \A i \in DOMAIN log : log[i].kind = "started"
    /\ Replayed.status = (IF RowsOf("started") = {} THEN "none" ELSE "running")
    /\ Replayed.steps = 0 /\ Replayed.successes = 0
    /\ state.steps = 0 /\ state.successes = 0

InStep ==
    /\ RowsOf("started") # {} /\ RowsOf("finished") = {}
    /\ Replayed.status = "running"
    /\ RowsOfStep(state.next) = {} =>
         Replayed.steps = state.steps /\ Replayed.successes = state.successes
    /\ \A j \in RowsOfStep(state.next) :
         Replayed.steps = state.next /\ Replayed.successes = state.successes + log[j].result.n

InFinish ==
    /\ Replayed.status = (IF RowsOf("finished") = {} THEN "running" ELSE "terminal")
    /\ Replayed.steps = state.steps /\ Replayed.successes = state.successes

Phase(t) ==
    /\ LoneAttempt(t) /\ Replayed.ok
    /\ t = "start" => InStart
    /\ t = "step" => InStep
    /\ t = "finish" => InFinish
    /\ t = "done" => InFinish /\ RowsOf("finished") # {}

(* A task that Temporal gave up on stays in the activity it failed in.       *)
InPhase ==
    \E t \in {"start", "step", "finish", "done"} : task \in {t, "failed"} /\ Phase(t)

IInv == Always /\ (~overlapped /\ SingleActions => InPhase)

-----------------------------------------------------------------------------
(* The fold: View is the function its recursion describes, and one more row  *)
(* is one more application.                                                 *)
IsView(f, rows, n) ==
    /\ DOMAIN f = 0..n
    /\ f[0] = NoTask
    /\ \A i \in 1..n : f[i] = ApplyRow(f[i - 1], rows[i])

(* Some function is the view of the first n rows of a log, row by row.      *)
LEMMA ViewExists ==
    ASSUME NEW rows, NEW n \in Nat
    PROVE  \E f : IsView(f, rows, n)
<1> DEFINE Missing == {m \in Nat : ~\E f : IsView(f, rows, m)}
<1>1. SUFFICES ASSUME Missing # {} PROVE FALSE
  OBVIOUS
<1>2. PICK m \in Missing : \A k \in Missing : m <= k
  BY <1>1, LeastNatural
<1>3. CASE m = 0
  <2>1. IsView([i \in 0..0 |-> NoTask], rows, 0)
    BY DEF IsView
  <2> QED BY <1>2, <1>3, <2>1
<1>4. CASE m # 0
  <2>1. m - 1 \in Nat /\ m \in Nat /\ m - 1 \notin Missing
    BY <1>2, <1>4
  <2>2. PICK f : IsView(f, rows, m - 1)
    BY <2>1
  <2> DEFINE last == ApplyRow(f[m - 1], rows[m])
             g == [i \in 0..m |-> IF i = m THEN last ELSE f[i]]
  <2> HIDE DEF last
  <2>3. DOMAIN g = 0..m /\ g[0] = NoTask /\ g[m] = last
    BY <1>4, <2>1, <2>2 DEF IsView
  <2>4. \A i \in 0..(m - 1) : g[i] = f[i]
    BY <2>1
  <2>5. ASSUME NEW i \in 1..m PROVE g[i] = ApplyRow(g[i - 1], rows[i])
    <3>1. CASE i = m
      <4>1. g[i - 1] = f[m - 1]
        BY <2>1, <2>4, <3>1
      <4> QED BY <2>3, <3>1, <4>1 DEF last
    <3>2. CASE i # m
      <4>1. i \in 1..(m - 1) /\ i \in 0..(m - 1) /\ i - 1 \in 0..(m - 1)
        BY <2>1, <3>2
      <4> QED BY <2>2, <2>4, <4>1 DEF IsView
    <3> QED BY <3>1, <3>2
  <2> HIDE DEF g
  <2>6. IsView(g, rows, m)
    BY <2>3, <2>5 DEF IsView
  <2> QED BY <1>2, <2>6
<1> QED
  BY <1>3, <1>4

(* The recursive function of the model is such a view.                      *)
LEMMA ViewIsView ==
    ASSUME NEW rows, Len(rows) \in Nat
    PROVE  IsView(View(rows), rows, Len(rows))
<1> DEFINE Body(after) == [n \in 0..Len(rows) |-> IF n = 0 THEN NoTask
                                                   ELSE ApplyRow(after[n - 1], rows[n])]
<1>1. PICK f : IsView(f, rows, Len(rows))
  BY ViewExists
<1>2. f = Body(f)
  <2>1. f = [n \in 0..Len(rows) |-> f[n]]
    BY <1>1 DEF IsView
  <2> QED BY <1>1, <2>1 DEF IsView
<1>3. View(rows) = CHOOSE after : after = Body(after)
  BY DEF View
<1>4. View(rows) = Body(View(rows))
  BY <1>2, <1>3, Zenon
<1> HIDE DEF Body
<1>5. DOMAIN Body(View(rows)) = 0..Len(rows)
  BY DEF Body
<1>6. \A n \in 0..Len(rows) : Body(View(rows))[n] = IF n = 0 THEN NoTask
                                                     ELSE ApplyRow(View(rows)[n - 1], rows[n])
  BY DEF Body
<1> QED
  BY <1>4, <1>5, <1>6 DEF IsView

(* Two views agree on the rows their logs share.                            *)
LEMMA ViewsAgree ==
    ASSUME NEW rows, NEW longer, NEW n \in Nat, NEW m \in Nat, n <= m, NEW f, NEW g,
           IsView(f, rows, n), IsView(g, longer, m), \A i \in 1..n : longer[i] = rows[i]
    PROVE  f[n] = g[n]
<1> DEFINE Differ == {i \in 0..n : f[i] # g[i]}
<1>1. SUFFICES ASSUME Differ # {} PROVE FALSE
  OBVIOUS
<1>2. PICK k \in Differ : \A i \in Differ : k <= i
  <2>1. Differ \in SUBSET Nat
    OBVIOUS
  <2> QED BY <1>1, <2>1, LeastNatural
<1>3. k # 0
  BY <1>2 DEF IsView
<1>4. k \in 1..n /\ k - 1 \in 0..n /\ k - 1 \notin Differ
  BY <1>2, <1>3
<1>5. f[k - 1] = g[k - 1]
  BY <1>4
<1>6. f[k] = ApplyRow(f[k - 1], rows[k]) /\ g[k] = ApplyRow(g[k - 1], longer[k])
  BY <1>4 DEF IsView
<1> QED
  BY <1>2, <1>4, <1>5, <1>6

(* An empty log shows a task that has not started.                          *)
LEMMA ReplayedEmpty == log = <<>> => Replayed = NoTask
<1> SUFFICES ASSUME log = <<>> PROVE Replayed = NoTask
  OBVIOUS
<1>1. Len(log) = 0 /\ Len(log) \in Nat
  OBVIOUS
<1> QED
  BY <1>1, ViewIsView DEF IsView, Replayed

(* A row appended to a log is applied to what the log showed.               *)
LEMMA ViewAppended ==
    ASSUME NEW S, NEW rows \in Seq(S), NEW e \in S
    PROVE  View(Append(rows, e))[Len(rows) + 1] = ApplyRow(View(rows)[Len(rows)], e)
<1> DEFINE longer == Append(rows, e)
           n == Len(rows)
<1>1. /\ n \in Nat /\ Len(longer) = n + 1
      /\ longer[n + 1] = e /\ \A i \in 1..n : longer[i] = rows[i]
  OBVIOUS
<1> HIDE DEF longer, n
<1>2. PICK m \in Nat : m = n + 1
  BY <1>1
<1>3. IsView(View(rows), rows, n) /\ IsView(View(longer), longer, m)
  BY <1>1, <1>2, ViewIsView DEF n
<1>4. View(rows)[n] = View(longer)[n]
  <2>1. n <= m
    BY <1>1, <1>2
  <2> QED BY <1>1, <1>3, <2>1, ViewsAgree
<1>5. View(longer)[m] = ApplyRow(View(longer)[n], longer[m])
  <2>1. m \in 1..m /\ m - 1 = n
    BY <1>1, <1>2
  <2> QED BY <1>3, <2>1 DEF IsView
<1> QED
  BY <1>1, <1>2, <1>4, <1>5 DEF longer, n

(* The same, for the log of the model.                                      *)
LEMMA ReplayedAppended ==
    ASSUME NEW S, log \in Seq(S), NEW e \in S, log' = Append(log, e)
    PROVE  Replayed' = ApplyRow(Replayed, e)
<1>1. PICK rows : rows = log
  OBVIOUS
<1>2. View(Append(rows, e))[Len(rows) + 1] = ApplyRow(View(rows)[Len(rows)], e)
  BY <1>1, ViewAppended
<1>3. Len(Append(rows, e)) = Len(rows) + 1
  BY <1>1
<1> QED
  BY <1>1, <1>2, <1>3 DEF Replayed

-----------------------------------------------------------------------------
(* Results and rows.                                                        *)
LEMMA RecordedFields ==
    ASSUME NEW r \in Recorded
    PROVE  /\ r \in Results /\ r.n \in Nat /\ r.n <= PlanLength /\ r # Unrecorded
           /\ r.kind = "executed" => r.n >= 1
           /\ r.kind # "executed" => r.n = 0
           /\ r.kind # "unrecorded"
<1>1. CASE r \in Executions
  <2>1. PICK n \in 1..PlanLength : r = Result("executed", n)
    BY <1>1 DEF Executions
  <2>2. r.kind = "executed" /\ r.n = n
    BY <2>1 DEF Result
  <2> QED BY <2>2, DelegationAssumption DEF Results, Unrecorded, Result
<1>2. CASE r \in Others
  <2>1. r.kind \in {"other", "stop"} /\ r.n = 0
    BY <1>2 DEF Others, Result
  <2> QED BY <2>1, DelegationAssumption DEF Results, Unrecorded, Result
<1> QED
  BY <1>1, <1>2 DEF Recorded

(* A result that was not recorded counts nothing.                           *)
LEMMA UnrecordedFields ==
    Unrecorded \in Results /\ Unrecorded.n = 0 /\ Unrecorded.kind = "unrecorded"
  BY DEF Unrecorded, Result, Results

(* A result counts at most as many actions as a plan has.                   *)
LEMMA ResultFields ==
    ASSUME NEW r \in Results
    PROVE  r.n \in Nat /\ r.n <= PlanLength
<1>1. NoResult.n = 0
  BY DEF NoResult, Result
<1> QED
  BY <1>1, RecordedFields, UnrecordedFields, DelegationAssumption DEF Results

(* The fields of a row, in the form the steps use.                          *)
LEMMA RowFields ==
    ASSUME NEW e \in Rows
    PROVE  /\ e.kind \in {"started", "step", "finished"}
           /\ e.kind = "step" => e.step \in 1..MaxSteps /\ e.result \in Recorded
           /\ e.kind = "finished" => e.steps \in Nat /\ e.successes \in Nat
<1>1. CASE e = StartedRow
  BY <1>1 DEF StartedRow
<1>2. CASE e \in {StepRow(k, r) : k \in 1..MaxSteps, r \in Recorded}
  <2>1. PICK k \in 1..MaxSteps, r \in Recorded : e = StepRow(k, r)
    BY <1>2
  <2> QED BY <2>1 DEF StepRow
<1>3. CASE e \in {FinishedRow(s) : s \in States}
  <2>1. PICK s \in States : e = FinishedRow(s)
    BY <1>3
  <2>2. s.steps \in Nat /\ s.successes \in Nat
    BY <2>1 DEF States
  <2> QED BY <2>1, <2>2 DEF FinishedRow
<1> QED
  BY <1>1, <1>2, <1>3 DEF Rows

(* Applying a row to a view gives a view.                                   *)
LEMMA ApplyTyped ==
    ASSUME NEW s \in Views, NEW e \in Rows
    PROVE  ApplyRow(s, e) \in Views
<1>1. CASE ~s.ok
  <2>1. ApplyRow(s, e) = s
    BY <1>1 DEF ApplyRow
  <2> QED BY <2>1
<1>2. CASE s.ok /\ e.kind = "started"
  BY <1>2 DEF ApplyRow, ApplyStarted, Throw, Views
<1>3. CASE s.ok /\ e.kind = "step"
  <2>1. e.step \in Nat
    BY <1>3, RowFields, DelegationAssumption
  <2>2. ApplyRow(s, e) = ApplyStep(s, e)
    BY <1>3 DEF ApplyRow
  <2>3. Throw(s) \in Views
    BY DEF Throw, Views
  <2>4. s.successes + 1 \in Nat /\ s.successes \in Nat
    BY DEF Views
  <2>5. [s EXCEPT !.steps = e.step, !.successes = s.successes + 1] \in Views
    BY <2>1, <2>4 DEF Views
  <2>6. [s EXCEPT !.steps = e.step, !.successes = s.successes] \in Views
    BY <2>1, <2>4 DEF Views
  <2> QED BY <2>2, <2>3, <2>5, <2>6 DEF ApplyStep
<1>4. CASE s.ok /\ e.kind = "finished"
  BY <1>4 DEF ApplyRow, ApplyFinished, Throw, Views
<1> QED
  BY <1>1, <1>2, <1>3, <1>4, RowFields

(* What one more row does to the sets of rows.                               *)
LEMMA RowAppended ==
    ASSUME Typed, NEW e \in Rows, log' = Append(log, e)
    PROVE  /\ Len(log) \in Nat /\ DOMAIN log = 1..Len(log)
           /\ log' \in Seq(Rows) /\ DOMAIN log' = 1..(Len(log) + 1)
           /\ log'[Len(log) + 1] = e /\ \A i \in 1..Len(log) : log'[i] = log[i]
           /\ Replayed' = ApplyRow(Replayed, e) /\ Replayed' \in Views
<1>1. log \in Seq(Rows) /\ Replayed \in Views
  BY DEF Typed
<1> DEFINE R == Rows
<1> HIDE DEF R
<1>2. log \in Seq(R) /\ e \in R
  BY <1>1 DEF R
<1>3. /\ Len(log) \in Nat /\ DOMAIN log = 1..Len(log)
      /\ log' \in Seq(R) /\ DOMAIN log' = 1..(Len(log) + 1)
      /\ log'[Len(log) + 1] = e /\ \A i \in 1..Len(log) : log'[i] = log[i]
  BY <1>2
<1>4. Replayed' = ApplyRow(Replayed, e)
  BY <1>2, ReplayedAppended
<1> QED
  BY <1>1, <1>3, <1>4, ApplyTyped DEF R

-----------------------------------------------------------------------------
(* The part of the invariant that overlaps and plans do not disturb.         *)
LEMMA StateFields ==
    ASSUME NEW s \in States
    PROVE  s.next \in Nat /\ s.next >= 1 /\ s.steps \in Nat /\ s.successes \in Nat
  BY DelegationAssumption DEF States

(* The fields of a running attempt, in the form the steps use.              *)
LEMMA AttemptFields ==
    ASSUME Typed, NEW i \in Running
    PROVE  /\ i \in Slots /\ attempts[i] \in Attempt
           /\ attempts[i].state \in States /\ attempts[i].result \in Results
           /\ attempts[i].task \in {"start", "step", "finish"}
           /\ attempts[i].at \in {"lookStart", "look", "act", "insert", "report"}
  BY DEF Typed, Running, Attempt

(* A free slot holds no attempt.                                            *)
LEMMA NoAttemptApart == NoAttempt \notin Attempt
<1>1. NoAttempt.at = "none"
  BY DEF NoAttempt
<1> QED
  BY <1>1 DEF Attempt

(* An attempt that is somewhere is running.                                 *)
LEMMA AtRuns ==
    ASSUME NEW i \in Slots, attempts[i].at # "none"
    PROVE  i \in Running
  BY DEF Running, NoAttempt

(* Rows are only added, those of a step by an attempt of that step.          *)
LEMMA RowsKept ==
    ASSUME UNCHANGED log
    PROVE  /\ \A kind : RowsOf(kind)' = RowsOf(kind)
           /\ \A k : RowsOfStep(k)' = RowsOfStep(k)
           /\ Replayed' = Replayed
  BY DEF RowsOf, RowsOfStep, Replayed

(* Slots are freed, or no longer waited for.                                 *)
LEMMA FreeAlways ==
    ASSUME Always, UNCHANGED <<log, state, effects, results, overlapped>>,
           attempts' \in [Slots -> Attempt \cup {NoAttempt}],
           \A i \in Running' : i \in Running /\ attempts'[i] = attempts[i],
           current' \in Running' \cup {0}, current' \in {0, current},
           tries' \in 0..MaxAttempts,
           task' = task \/ (task' = "failed" /\ current' = 0)
    PROVE  Always'
<1>1. Typed'
  <2>1. Replayed' \in Views
    BY RowsKept DEF Always, Typed
  <2> QED BY <2>1 DEF Always, Typed, Running
<1>2. RowsOK' /\ CountedHappened'
  BY RowsKept DEF Always, RowsOK, CountedHappened
<1>3. ResultsOK'
  BY RowsKept DEF Always, ResultsOK, AppliedIsRecorded
<1>4. ASSUME NEW i \in Running' PROVE AttemptOK(i)'
  <2>1. AttemptOK(i) /\ attempts'[i] = attempts[i] /\ i # 0
    BY <1>4 DEF Always, Running, Slots
  <2>2. i = current' => i = current /\ task' = task
    BY <2>1
  <2> QED BY <2>1, <2>2, RowsKept DEF AttemptOK
<1> QED
  BY <1>1, <1>2, <1>3, <1>4 DEF Always

(* An attempt goes to its next statement.                                    *)
LEMMA BecomesAlways ==
    ASSUME Always, NEW i \in Running, NEW a \in Attempt, Becomes(i, a), UNCHANGED log,
           a.task = attempts[i].task, a.state = attempts[i].state,
           effects' \in Nat, effects' >= effects,
           a.at \in {"lookStart", "act"} => a.task = "step",
           a.task = "step" => /\ a.at = "insert" => a.result \in Recorded
                              /\ a.at = "report" =>
                                   \/ a.result = Unrecorded
                                   \/ \E j \in RowsOfStep(a.state.next) : log[j].result = a.result
                              /\ a.state.next = state.next /\ a.at \in {"insert", "report"} =>
                                   state.successes + a.result.n <= effects'
    PROVE  Always' /\ Running' = Running /\ attempts'[i] = a
                   /\ \A o \in Running \ {i} : attempts'[o] = attempts[o]
<1>1. /\ UNCHANGED <<task, state, current, tries, results, overlapped, log>>
      /\ attempts' = [attempts EXCEPT ![i] = a] /\ i \in Slots
  BY AttemptFields DEF Becomes, Always
<1>2. /\ attempts' \in [Slots -> Attempt \cup {NoAttempt}] /\ attempts'[i] = a
      /\ \A o \in Slots \ {i} : attempts'[o] = attempts[o]
  BY <1>1 DEF Always, Typed
<1>3. Running' = Running
  BY <1>1, <1>2, NoAttemptApart DEF Running
<1>4. Typed'
  <2>1. Replayed' \in Views
    BY <1>1, RowsKept DEF Always, Typed
  <2> QED BY <1>1, <1>2, <1>3, <2>1 DEF Always, Typed
<1>5. RowsOK' /\ CountedHappened'
  <2>1. state.successes \in Nat /\ \A j \in RowsOf("step") : log[j].result.n \in Nat
    <3>1. ASSUME NEW j \in RowsOf("step") PROVE log[j].result.n \in Nat
      <4>1. log[j] \in Rows /\ log[j].kind = "step"
        BY DEF RowsOf, Always, Typed
      <4> QED BY <4>1, RowFields, RecordedFields
    <3> QED BY <3>1, StateFields DEF Always, Typed
  <2>2. effects \in Nat
    BY DEF Always, Typed
  <2>3. RowsOK'
    BY <1>1, <2>1, <2>2, RowsKept DEF Always, RowsOK
  <2> QED BY <1>1, <2>1, <2>2, <2>3 DEF Always, CountedHappened
<1>6. ResultsOK'
  BY <1>1, RowsKept DEF Always, ResultsOK, AppliedIsRecorded
<1>7. ASSUME NEW o \in Running PROVE AttemptOK(o)'
  <2>1. AttemptOK(o) /\ o \in Slots
    BY AttemptFields DEF Always
  <2>2. CASE o = i
    BY <1>1, <1>2, <2>1, <2>2, RowsKept DEF AttemptOK
  <2>3. CASE o # i
    <3>1. attempts'[o] = attempts[o]
      BY <1>2, <2>1, <2>3
    <3>2. attempts[o].result.n \in Nat /\ state.successes \in Nat /\ effects \in Nat
      BY AttemptFields, ResultFields, StateFields DEF Always, Typed
    <3> QED BY <1>1, <2>1, <3>1, <3>2, RowsKept DEF AttemptOK
  <2> QED BY <2>2, <2>3
<1> QED
  BY <1>2, <1>3, <1>4, <1>5, <1>6, <1>7, AttemptFields DEF Always

(* An appended row joins the rows of its kind and of its step, and no       *)
(* others.                                                                  *)
LEMMA RowSetsAppended ==
    ASSUME Typed, NEW e \in Rows, log' = Append(log, e)
    PROVE  /\ \A kind : RowsOf(kind)' = RowsOf(kind) \cup (IF e.kind = kind THEN {Len(log) + 1} ELSE {})
           /\ \A k : RowsOfStep(k)' = RowsOfStep(k) \cup
                (IF e.kind = "step" /\ e.step = k THEN {Len(log) + 1} ELSE {})
           /\ Len(log) + 1 \notin DOMAIN log
<1>1. /\ Len(log) \in Nat /\ DOMAIN log = 1..Len(log)
      /\ DOMAIN log' = 1..(Len(log) + 1)
      /\ log'[Len(log) + 1] = e /\ \A j \in 1..Len(log) : log'[j] = log[j]
  BY RowAppended
<1>2. DOMAIN log' = DOMAIN log \cup {Len(log) + 1} /\ Len(log) + 1 \notin DOMAIN log
  BY <1>1
<1>3. ASSUME NEW kind
      PROVE  RowsOf(kind)' = RowsOf(kind) \cup (IF e.kind = kind THEN {Len(log) + 1} ELSE {})
  BY <1>1, <1>2 DEF RowsOf
<1>4. ASSUME NEW k
      PROVE  RowsOfStep(k)' = RowsOfStep(k) \cup
                (IF e.kind = "step" /\ e.step = k THEN {Len(log) + 1} ELSE {})
  <2>1. RowsOf("step")' = RowsOf("step") \cup (IF e.kind = "step" THEN {Len(log) + 1} ELSE {})
    BY <1>3
  <2>2. \A j \in RowsOf("step") : log'[j] = log[j]
    BY <1>1 DEF RowsOf
  <2> QED BY <1>1, <2>1, <2>2 DEF RowsOfStep
<1> QED
  BY <1>2, <1>3, <1>4

(* The row an attempt inserts is of the attempt's task, and carries its     *)
(* result.                                                                  *)
LEMMA RowForTyped ==
    ASSUME Always, NEW i \in Running, attempts[i].at = "insert"
    PROVE  /\ RowFor(attempts[i]) \in Rows
           /\ attempts[i].task = "start" => RowFor(attempts[i]).kind = "started"
           /\ attempts[i].task = "step" => /\ RowFor(attempts[i]).kind = "step"
                                           /\ RowFor(attempts[i]).step = attempts[i].state.next
                                           /\ RowFor(attempts[i]).result = attempts[i].result
           /\ attempts[i].task = "finish" =>
                /\ RowFor(attempts[i]).kind = "finished"
                /\ RowFor(attempts[i]).steps = attempts[i].state.steps
                /\ RowFor(attempts[i]).successes = attempts[i].state.successes
<1>1. /\ attempts[i].task \in {"start", "step", "finish"} /\ attempts[i].state \in States
      /\ AttemptOK(i)
  BY AttemptFields DEF Always
<1>2. CASE attempts[i].task = "start"
  <2>1. RowFor(attempts[i]) = StartedRow
    BY <1>2 DEF RowFor
  <2> QED BY <1>2, <2>1 DEF Rows, StartedRow
<1>3. CASE attempts[i].task = "step"
  <2>1. RowFor(attempts[i]) = StepRow(attempts[i].state.next, attempts[i].result)
    BY <1>3 DEF RowFor
  <2>2. attempts[i].state.next \in 1..MaxSteps /\ attempts[i].result \in Recorded
    BY <1>1, <1>3, StateFields, DelegationAssumption DEF AttemptOK
  <2> QED BY <1>3, <2>1, <2>2 DEF Rows, StepRow
<1>4. CASE attempts[i].task = "finish"
  <2>1. RowFor(attempts[i]) = FinishedRow(attempts[i].state)
    BY <1>4 DEF RowFor
  <2> QED BY <1>1, <1>4, <2>1 DEF Rows, FinishedRow
<1> QED
  BY <1>1, <1>2, <1>3, <1>4

(* Inserting moves one attempt to its report and keeps what always holds.   *)
LEMMA InsertAlways ==
    ASSUME Always, NEW i \in Running, Insert(i)
    PROVE  /\ Always' /\ Running' = Running
           /\ attempts'[i] = [attempts[i] EXCEPT !.at = "report"]
           /\ \A o \in Running \ {i} : attempts'[o] = attempts[o]
<1> DEFINE e == RowFor(attempts[i])
           a == [attempts[i] EXCEPT !.at = "report"]
<1>1. /\ UNCHANGED <<task, state, current, tries, results, overlapped, effects>>
      /\ attempts' = [attempts EXCEPT ![i] = a] /\ log' = Append(log, e)
      /\ attempts[i].at = "insert"
  BY DEF Insert, GoesTo, Becomes
<1>2. /\ a \in Attempt /\ a.task = attempts[i].task /\ a.state = attempts[i].state
      /\ a.result = attempts[i].result /\ a.at = "report" /\ i \in Slots
      /\ attempts[i] \in Attempt
  BY AttemptFields DEF Always, Attempt
<1>3. /\ e \in Rows
      /\ attempts[i].task = "start" => e.kind = "started"
      /\ attempts[i].task = "step" => /\ e.kind = "step" /\ e.step = attempts[i].state.next
                                      /\ e.result = attempts[i].result
      /\ attempts[i].task = "finish" => e.kind = "finished"
  BY <1>1, RowForTyped
<1> HIDE DEF e, a
<1>4. /\ attempts' \in [Slots -> Attempt \cup {NoAttempt}] /\ attempts'[i] = a
      /\ \A o \in Slots \ {i} : attempts'[o] = attempts[o]
  BY <1>1, <1>2 DEF Always, Typed
<1>5. Running' = Running
  BY <1>1, <1>2, <1>4, NoAttemptApart DEF Running
<1>6. /\ Len(log) \in Nat /\ DOMAIN log = 1..Len(log)
      /\ log' \in Seq(Rows) /\ Replayed' \in Views
      /\ log'[Len(log) + 1] = e /\ \A j \in 1..Len(log) : log'[j] = log[j]
  BY <1>1, <1>3, RowAppended DEF Always
<1>7. /\ \A kind : RowsOf(kind)' = RowsOf(kind) \cup (IF e.kind = kind THEN {Len(log) + 1} ELSE {})
      /\ \A k : RowsOfStep(k)' = RowsOfStep(k) \cup
                (IF e.kind = "step" /\ e.step = k THEN {Len(log) + 1} ELSE {})
  BY <1>1, <1>3, RowSetsAppended DEF Always
<1>8. \A k : \A j \in RowsOfStep(k) : j \in RowsOfStep(k)' /\ log'[j] = log[j]
  BY <1>6, <1>7 DEF RowsOfStep, RowsOf
<1>9. Typed'
  BY <1>1, <1>4, <1>5, <1>6 DEF Always, Typed
<1>10. AttemptOK(i) /\ attempts[i].task \in {"start", "step", "finish"}
  BY AttemptFields DEF Always
<1>11. RowsOK'
  <2> SUFFICES ASSUME NEW j \in RowsOf("step")'
               PROVE  /\ log'[j].step <= state.next
                      /\ log'[j].step = state.next => state.successes + log'[j].result.n <= effects
    BY <1>1 DEF RowsOK
  <2>1. CASE j \in RowsOf("step")
    <3>1. log'[j] = log[j]
      BY <1>6, <2>1 DEF RowsOf
    <3> QED BY <2>1, <3>1 DEF Always, RowsOK
  <2>2. CASE j \notin RowsOf("step")
    <3>1. e.kind = "step" /\ j = Len(log) + 1
      BY <1>7, <2>2
    <3>2. attempts[i].task = "step"
      BY <1>3, <1>10, <3>1
    <3> QED BY <1>1, <1>3, <1>6, <1>10, <3>1, <3>2 DEF AttemptOK
  <2> QED BY <2>1, <2>2
<1>12. ResultsOK' /\ CountedHappened'
  <2>1. AppliedIsRecorded'
    BY <1>1, <1>8 DEF Always, ResultsOK, AppliedIsRecorded
  <2> QED BY <1>1, <2>1 DEF Always, ResultsOK, CountedHappened
<1>13. ASSUME NEW o \in Running PROVE AttemptOK(o)'
  <2>1. AttemptOK(o) /\ o \in Slots
    BY AttemptFields DEF Always
  <2>2. CASE o = i
    <3>1. ASSUME NEW k, k = a.state.next, a.task = "step"
          PROVE  \E j \in RowsOfStep(k)' : log'[j].result = a.result
      <4>1. e.kind = "step" /\ e.step = k /\ e.result = a.result
        BY <1>2, <1>3, <3>1
      <4>2. Len(log) + 1 \in RowsOfStep(k)'
        BY <1>7, <4>1
      <4> QED BY <1>6, <4>1, <4>2
    <3>2. a.state.next = state.next => (a.task = "step" => state.successes + a.result.n <= effects)
      BY <1>1, <1>2, <2>1, <2>2 DEF AttemptOK
    <3>3. attempts'[o] = a
      BY <1>4, <2>2
    <3> QED BY <1>1, <1>2, <2>1, <2>2, <3>1, <3>2, <3>3 DEF AttemptOK
  <2>3. CASE o # i
    <3>1. attempts'[o] = attempts[o]
      BY <1>4, <2>1, <2>3
    <3> QED BY <1>1, <1>8, <2>1, <3>1 DEF AttemptOK
  <2> QED BY <2>2, <2>3
<1> QED
  BY <1>4, <1>5, <1>9, <1>11, <1>12, <1>13, AttemptFields DEF Always, a

(* Scheduling puts a new attempt into a free slot.                          *)
LEMMA ScheduleAlways ==
    ASSUME Always, Schedule
    PROVE  /\ Always' /\ current' \in Slots \ Running
           /\ attempts'[current'] = NewAttempt /\ NewAttempt \in Attempt
           /\ Running' = Running \cup {current'}
           /\ \A o \in Running : attempts'[o] = attempts[o]
<1>1. /\ UNCHANGED <<log, task, state, effects, results>> /\ Open /\ current = 0
      /\ attempts' = [attempts EXCEPT ![current'] = NewAttempt]
      /\ current' = Min(Slots \ Running) /\ tries' = tries + 1 /\ tries < MaxAttempts
      /\ overlapped' = (overlapped \/ Running # {}) /\ Running # Slots
  BY DEF Schedule
<1>2. current' \in Slots \ Running
  <2>1. Slots \ Running \in SUBSET Nat /\ Slots \ Running # {}
    BY <1>1 DEF Slots, Running
  <2>2. \E m \in Slots \ Running : \A y \in Slots \ Running : m <= y
    BY <2>1, LeastNatural
  <2> QED BY <1>1, <2>2 DEF Min
<1>3. NewAttempt \in Attempt
  BY <1>1 DEF NewAttempt, Attempt, Open, Always, Typed, Results
<1>4. /\ attempts' \in [Slots -> Attempt \cup {NoAttempt}] /\ attempts'[current'] = NewAttempt
      /\ \A o \in Slots \ {current'} : attempts'[o] = attempts[o]
  BY <1>1, <1>2, <1>3 DEF Always, Typed
<1>5. Running' = Running \cup {current'}
  BY <1>1, <1>2, <1>3, <1>4, NoAttemptApart DEF Running
<1>6. Typed'
  <2>1. Replayed' \in Views
    BY <1>1, RowsKept DEF Always, Typed
  <2>2. tries' \in 0..MaxAttempts
    BY <1>1, DelegationAssumption DEF Always, Typed
  <2>3. overlapped' \in BOOLEAN
    BY <1>1
  <2> QED BY <1>1, <1>4, <1>5, <2>1, <2>2, <2>3 DEF Always, Typed
<1>7. RowsOK' /\ CountedHappened' /\ ResultsOK'
  BY <1>1, RowsKept DEF Always, RowsOK, CountedHappened, ResultsOK, AppliedIsRecorded
<1>8. ASSUME NEW o \in Running' PROVE AttemptOK(o)'
  <2>1. CASE o = current'
    <3>1. /\ NewAttempt.task = task /\ NewAttempt.state = state /\ NewAttempt.at \in {"lookStart", "look"}
          /\ NewAttempt.at = "lookStart" => task = "step"
      BY DEF NewAttempt
    <3>2. state.next \in Nat /\ (task = "step" => state.next <= MaxSteps)
      BY StateFields DEF Always, Typed
    <3> QED BY <1>1, <1>4, <2>1, <3>1, <3>2 DEF AttemptOK
  <2>2. CASE o # current'
    <3>1. o \in Running /\ attempts'[o] = attempts[o]
      BY <1>4, <1>5, <2>2 DEF Running
    <3> QED BY <1>1, <2>2, <3>1, RowsKept DEF Always, AttemptOK
  <2> QED BY <2>1, <2>2
<1> QED
  BY <1>2, <1>3, <1>4, <1>5, <1>6, <1>7, <1>8, AttemptFields DEF Always

(* The workflow counts what its attempt reports.                             *)
LEMMA CountTyped ==
    ASSUME NEW s \in States, s.steps = s.next - 1, s.successes <= s.steps * PlanLength,
           s.next <= MaxSteps, NEW r \in Recorded
    PROVE  /\ AfterStep(s, r) \in States
           /\ AfterStep(s, r).next = s.next + 1 /\ AfterStep(s, r).steps = s.steps + 1
           /\ AfterStep(s, r).successes = s.successes + r.n
           /\ AfterStep(s, r).successes <= AfterStep(s, r).steps * PlanLength
<1> DEFINE t == [next |-> s.next + 1, steps |-> s.steps + 1, successes |-> s.successes + r.n]
<1>1. AfterStep(s, r) = t
  BY RecordedFields DEF AfterStep
<1>2. /\ s.next \in Nat /\ s.next >= 1 /\ s.steps \in Nat /\ s.successes \in Nat
      /\ r.n \in Nat /\ r.n <= PlanLength /\ MaxSteps \in Nat /\ PlanLength \in Nat
  BY StateFields, RecordedFields, DelegationAssumption
<1>3. s.steps + 1 \in 0..MaxSteps /\ s.next + 1 \in 1..(MaxSteps + 1)
  BY <1>2
<1>4. PICK p \in Nat, q \in Nat : p = s.steps /\ q = MaxSteps - (s.steps + 1)
  BY <1>2
<1>5. /\ (p + 1) * PlanLength = p * PlanLength + PlanLength
      /\ MaxSteps = (p + 1) + q
      /\ MaxSteps * PlanLength = (p + 1) * PlanLength + q * PlanLength
      /\ q * PlanLength \in Nat /\ p * PlanLength \in Nat
  <2>1. MaxSteps = (p + 1) + q
    BY <1>2, <1>4
  <2>2. /\ (p + 1) * PlanLength = p * PlanLength + PlanLength
        /\ ((p + 1) + q) * PlanLength = (p + 1) * PlanLength + q * PlanLength
        /\ q * PlanLength \in Nat /\ p * PlanLength \in Nat
    BY <1>2
  <2> QED BY <2>1, <2>2
<1>6. s.successes + r.n <= (s.steps + 1) * PlanLength
  <2> DEFINE x == p * PlanLength
             y == (p + 1) * PlanLength
  <2>1. s.successes <= x /\ y = x + PlanLength /\ x \in Nat
    BY <1>4, <1>5
  <2> HIDE DEF x, y
  <2>2. s.successes + r.n <= y
    BY <1>2, <2>1
  <2> QED BY <1>4, <2>2 DEF y
<1>7. s.successes + r.n \in 0..(MaxSteps * PlanLength)
  <2> DEFINE y == (s.steps + 1) * PlanLength
             z == MaxSteps * PlanLength
             w == q * PlanLength
  <2>1. s.successes + r.n <= y /\ z = y + w /\ w \in Nat /\ y \in Nat
    BY <1>2, <1>4, <1>5, <1>6
  <2> HIDE DEF y, z, w
  <2>2. s.successes + r.n \in 0..z
    BY <1>2, <2>1
  <2> QED BY <2>2 DEF z
<1>8. t \in States
  BY <1>3, <1>7 DEF States
<1> QED
  BY <1>1, <1>6, <1>8

(* A report of the current attempt frees its slot.                          *)
LEMMA ReportFrees ==
    ASSUME Always, NEW i \in Running, Report(i)
    PROVE  /\ attempts' \in [Slots -> Attempt \cup {NoAttempt}]
           /\ Running' = Running \ {i} /\ current' = 0 /\ tries' \in 0..MaxAttempts
           /\ \A o \in Running' : attempts'[o] = attempts[o] /\ o # 0
           /\ attempts[i].task = task /\ attempts[i].state = state
           /\ task \in {"start", "step", "finish"}
           /\ UNCHANGED <<log, effects, overlapped>>
<1>1. /\ attempts' = [attempts EXCEPT ![i] = NoAttempt] /\ current' = 0 /\ tries' = 0 /\ i = current
      /\ UNCHANGED <<log, effects, overlapped>> /\ i \in Slots
  BY AttemptFields DEF Report, Always
<1>2. /\ attempts' \in [Slots -> Attempt \cup {NoAttempt}] /\ attempts'[i] = NoAttempt
      /\ \A o \in Slots \ {i} : attempts'[o] = attempts[o]
  BY <1>1 DEF Always, Typed
<1>3. Running' = Running \ {i}
  BY <1>1, <1>2 DEF Running
<1>4. attempts[i].task = task /\ attempts[i].state = state
  BY <1>1 DEF Always, AttemptOK
<1>5. task \in {"start", "step", "finish"}
  BY <1>4, AttemptFields DEF Always
<1>6. \A o \in Running' : attempts'[o] = attempts[o] /\ o # 0
  BY <1>2, <1>3 DEF Running, Slots
<1> QED
  BY <1>1, <1>2, <1>3, <1>4, <1>5, <1>6, DelegationAssumption

(* The report of a start or of a finish moves the workflow on and counts    *)
(* nothing.                                                                 *)
LEMMA ReportOther ==
    ASSUME Always, NEW i \in Running, Report(i), task # "step"
    PROVE  Always' /\ UNCHANGED <<state, results>> /\ task' = (IF task = "start" THEN "step" ELSE "done")
<1>1. /\ attempts' \in [Slots -> Attempt \cup {NoAttempt}]
      /\ Running' = Running \ {i} /\ current' = 0 /\ tries' \in 0..MaxAttempts
      /\ \A o \in Running' : attempts'[o] = attempts[o] /\ o # 0
      /\ task \in {"start", "finish"}
      /\ UNCHANGED <<log, effects, overlapped>>
  BY ReportFrees
<1>2. UNCHANGED <<state, results>> /\ task' = (IF task = "start" THEN "step" ELSE "done")
  BY <1>1 DEF Report
<1>3. Typed'
  <2>1. Replayed' \in Views
    BY <1>1, RowsKept DEF Always, Typed
  <2> QED BY <1>1, <1>2, <2>1 DEF Always, Typed
<1>4. RowsOK' /\ CountedHappened' /\ ResultsOK'
  BY <1>1, <1>2, RowsKept DEF Always, RowsOK, CountedHappened, ResultsOK, AppliedIsRecorded
<1>5. ASSUME NEW o \in Running' PROVE AttemptOK(o)'
  BY <1>1, <1>2, RowsKept DEF Always, AttemptOK
<1> QED
  BY <1>2, <1>3, <1>4, <1>5 DEF Always

(* The report of a step is counted only when a row of that step holds its   *)
(* result.                                                                  *)
LEMMA ReportStep ==
    ASSUME Always, NEW i \in Running, Report(i), task = "step"
    PROVE  /\ Always' /\ task' \in {"step", "finish"} /\ attempts[i].at = "report"
           /\ \/ /\ attempts[i].result = Unrecorded /\ state' = state /\ task' = "finish"
              \/ /\ attempts[i].result \in Recorded
                 /\ \E j \in RowsOfStep(state.next) : log[j].result = attempts[i].result
                 /\ state'.next = state.next + 1 /\ state'.steps = state.steps + 1
                 /\ state'.successes = state.successes + attempts[i].result.n
<1> DEFINE r == attempts[i].result
<1>1. /\ attempts' \in [Slots -> Attempt \cup {NoAttempt}]
      /\ Running' = Running \ {i} /\ current' = 0 /\ tries' \in 0..MaxAttempts
      /\ \A o \in Running' : attempts'[o] = attempts[o] /\ o # 0
      /\ attempts[i].task = "step" /\ attempts[i].state = state
      /\ UNCHANGED <<log, effects, overlapped>>
  BY ReportFrees
<1>2. /\ attempts[i].at = "report" /\ state' = AfterStep(state, r) /\ results' = Append(results, r)
      /\ task' = (IF r.kind \in {"stop", "unrecorded"} \/ state'.next > MaxSteps THEN "finish" ELSE "step")
  BY DEF Report
<1>3. AttemptOK(i) /\ r \in Results
  BY AttemptFields DEF Always
<1>4. \/ r = Unrecorded
      \/ \E j \in RowsOfStep(state.next) : log[j].result = r
  BY <1>1, <1>2, <1>3 DEF AttemptOK
<1>5. (\E j \in RowsOfStep(state.next) : log[j].result = r) => r \in Recorded
  <2>1. ASSUME NEW j \in RowsOfStep(state.next) PROVE log[j].result \in Recorded
    <3>1. log[j] \in Rows /\ log[j].kind = "step"
      BY DEF RowsOfStep, RowsOf, Always, Typed
    <3> QED BY <3>1, RowFields
  <2> QED BY <2>1
<1>6. state.successes + r.n <= effects
  BY <1>1, <1>2, <1>3 DEF AttemptOK
<1>7. /\ state \in States /\ state.steps = state.next - 1 /\ state.next <= MaxSteps
      /\ state.successes <= state.steps * PlanLength /\ state.next \in Nat
  BY StateFields DEF Always, Typed
<1>8. results \in Seq(Results) /\ Len(results) = state.next - 1 /\ AppliedIsRecorded
  BY DEF Always, ResultsOK
<1> DEFINE R == Results
<1>9. /\ results' \in Seq(Results) /\ Len(results') = state.next /\ results'[state.next] = r
      /\ DOMAIN results' = DOMAIN results \cup {state.next}
      /\ \A k \in DOMAIN results : results'[k] = results[k]
  <2> HIDE DEF R, r
  <2>1. r \in R /\ results \in Seq(R)
    BY <1>3, <1>8 DEF R, r
  <2>2. /\ results' \in Seq(R) /\ Len(results') = Len(results) + 1 /\ results'[Len(results) + 1] = r
        /\ Len(results) \in Nat /\ DOMAIN results = 1..Len(results)
        /\ DOMAIN results' = 1..(Len(results) + 1)
        /\ \A k \in 1..Len(results) : results'[k] = results[k]
    BY <1>2, <2>1
  <2>3. Len(results) + 1 = state.next
    BY <1>7, <1>8, <2>2
  <2> QED BY <2>2, <2>3 DEF R
<1>10. AppliedIsRecorded'
  <2> SUFFICES ASSUME NEW k \in DOMAIN results'
               PROVE  \/ results'[k] = Unrecorded
                      \/ \E j \in RowsOfStep(k) : log[j].result = results'[k]
    BY <1>1, RowsKept DEF AppliedIsRecorded
  <2>1. CASE k = state.next
    BY <1>4, <1>9, <2>1
  <2>2. CASE k # state.next
    BY <1>8, <1>9, <2>2 DEF AppliedIsRecorded
  <2> QED BY <2>1, <2>2
<1>11. CASE r = Unrecorded
  <2>1. state' = state /\ task' = "finish"
    BY <1>2, <1>11, UnrecordedFields DEF AfterStep
  <2>2. Typed'
    <3>1. Replayed' \in Views
      BY <1>1, RowsKept DEF Always, Typed
    <3> QED BY <1>1, <2>1, <3>1 DEF Always, Typed
  <2>3. RowsOK' /\ CountedHappened' /\ ResultsOK'
    BY <1>1, <1>9, <1>10, <2>1, RowsKept DEF Always, RowsOK, CountedHappened, ResultsOK
  <2>4. ASSUME NEW o \in Running' PROVE AttemptOK(o)'
    BY <1>1, <2>1, RowsKept DEF Always, AttemptOK
  <2> QED BY <1>2, <1>11, <2>1, <2>2, <2>3, <2>4 DEF Always
<1>12. CASE \E j \in RowsOfStep(state.next) : log[j].result = r
  <2>1. r \in Recorded
    BY <1>5, <1>12
  <2>2. /\ state' \in States /\ state'.next = state.next + 1 /\ state'.steps = state.steps + 1
        /\ state'.successes = state.successes + r.n
        /\ state'.successes <= state'.steps * PlanLength
    BY <1>2, <1>7, <2>1, CountTyped
  <2>3. task' \in {"step", "finish"} /\ (task' = "step" => state'.next <= MaxSteps)
    BY <1>2, <2>2, <1>7, DelegationAssumption
  <2>4. Typed'
    <3>1. Replayed' \in Views
      BY <1>1, RowsKept DEF Always, Typed
    <3>2. state'.steps = state'.next - 1
      BY <1>7, <2>2
    <3>3. /\ log' \in Seq(Rows) /\ effects' \in Nat /\ overlapped' \in BOOLEAN
      BY <1>1 DEF Always, Typed
    <3> QED BY <1>1, <2>2, <2>3, <3>1, <3>2, <3>3 DEF Typed
  <2>5. RowsOK'
    <3>1. ASSUME NEW j \in RowsOf("step")
          PROVE  log[j].step \in Nat /\ log[j].step <= state.next
      <4>1. log[j] \in Rows /\ log[j].kind = "step"
        BY DEF RowsOf, Always, Typed
      <4> QED BY <4>1, RowFields DEF Always, RowsOK
    <3> QED BY <1>1, <1>7, <2>2, <3>1, RowsKept DEF RowsOK
  <2>6. CountedHappened'
    BY <1>1, <1>6, <2>2 DEF CountedHappened
  <2>7. ResultsOK'
    BY <1>7, <1>9, <1>10, <2>2 DEF ResultsOK
  <2>8. ASSUME NEW o \in Running' PROVE AttemptOK(o)'
    <3>1. AttemptOK(o) /\ attempts'[o] = attempts[o] /\ o # 0 /\ attempts[o].state.next \in Nat
      BY <1>1, AttemptFields, StateFields DEF Always
    <3>2. attempts[o].state.next <= state'.next /\ attempts[o].state.next # state'.next
      BY <1>7, <2>2, <3>1 DEF AttemptOK
    <3> QED BY <1>1, <3>1, <3>2, RowsKept DEF AttemptOK
  <2> QED BY <1>2, <1>12, <2>1, <2>2, <2>3, <2>4, <2>5, <2>6, <2>7, <2>8 DEF Always
<1> QED
  BY <1>4, <1>11, <1>12

-----------------------------------------------------------------------------
(* The statements of an attempt.                                            *)
Moves(i, a) ==
    /\ Always' /\ Running' = Running /\ attempts'[i] = a
    /\ \A o \in Running \ {i} : attempts'[o] = attempts[o]
    /\ a.task = attempts[i].task /\ a.state = attempts[i].state
    /\ UNCHANGED <<log, state, task, overlapped>>

(* The first look of a start changes nothing but the attempt.               *)
LEMMA LookStartMoves ==
    ASSUME Always, NEW i \in Running, LookStart(i)
    PROVE  \E a : Moves(i, a) /\ a.at = "look"
<1> DEFINE a == [attempts[i] EXCEPT !.at = "look"]
<1>1. /\ a \in Attempt /\ a.task = attempts[i].task /\ a.state = attempts[i].state /\ a.at = "look"
  BY AttemptFields DEF Always, Attempt
<1>2. Becomes(i, a) /\ UNCHANGED <<log, effects>>
  BY DEF LookStart, GoesTo
<1> HIDE DEF a
<1>3. /\ Always' /\ Running' = Running /\ attempts'[i] = a
      /\ \A o \in Running \ {i} : attempts'[o] = attempts[o]
  BY <1>1, <1>2, BecomesAlways DEF Always, Typed
<1> QED
  BY <1>1, <1>2, <1>3 DEF Moves, Becomes

(* A look for the row of a start or a finish changes nothing but the        *)
(* attempt.                                                                 *)
LEMMA LookForRowMoves ==
    ASSUME Always, NEW i \in Running, LookForRow(i)
    PROVE  \E a : Moves(i, a) /\ Fits(a)
<1> DEFINE kind == IF attempts[i].task = "start" THEN "started" ELSE "finished"
           at == IF RowsOf(kind) = {} THEN "insert" ELSE "report"
           a == [attempts[i] EXCEPT !.at = at]
<1>1. attempts[i].task \in {"start", "finish"}
  BY AttemptFields DEF LookForRow, Always
<1>2. Becomes(i, a) /\ UNCHANGED <<log, effects>>
  BY DEF LookForRow, GoesTo
<1>3. at \in {"insert", "report"} /\ (at = "insert" <=> RowsOf(kind) = {})
  OBVIOUS
<1> HIDE DEF at
<1>4. /\ a \in Attempt /\ a.task = attempts[i].task /\ a.state = attempts[i].state /\ a.at = at
  BY <1>3, AttemptFields DEF Always, Attempt
<1> HIDE DEF a
<1>5. /\ Always' /\ Running' = Running /\ attempts'[i] = a
      /\ \A o \in Running \ {i} : attempts'[o] = attempts[o]
  BY <1>1, <1>2, <1>3, <1>4, BecomesAlways DEF Always, Typed
<1>6. Fits(a)
  BY <1>1, <1>3, <1>4 DEF Fits
<1> QED
  BY <1>2, <1>3, <1>4, <1>5, <1>6 DEF Moves, Becomes

(* A look for the row of a step changes nothing but the attempt.            *)
LEMMA LookForStepMoves ==
    ASSUME Always, NEW i \in Running, LookForStep(i)
    PROVE  \E a : Moves(i, a) /\ (attempts[i].state = state => Fits(a))
<1> DEFINE rows == RowsOfStep(attempts[i].state.next)
<1>1. attempts[i].task = "step"
  BY DEF LookForStep
<1>2. UNCHANGED <<log, effects>> /\ effects \in Nat
  BY DEF LookForStep, Always, Typed
<1>3. CASE rows = {}
  <2> DEFINE a == [attempts[i] EXCEPT !.at = "act"]
  <2>1. Becomes(i, a)
    BY <1>3 DEF LookForStep, GoesTo
  <2>2. a \in Attempt /\ a.task = attempts[i].task /\ a.state = attempts[i].state /\ a.at = "act"
    BY AttemptFields DEF Always, Attempt
  <2> HIDE DEF a
  <2>3. /\ Always' /\ Running' = Running /\ attempts'[i] = a
        /\ \A o \in Running \ {i} : attempts'[o] = attempts[o]
    BY <1>1, <1>2, <2>1, <2>2, BecomesAlways
  <2>4. attempts[i].state = state => Fits(a)
    BY <1>3, <2>2 DEF Fits
  <2> QED BY <1>2, <2>1, <2>2, <2>3, <2>4 DEF Moves, Becomes
<1>4. CASE rows # {}
  <2> DEFINE r == log[Min(rows)].result
             a == [attempts[i] EXCEPT !.at = "report", !.result = r]
  <2>1. Becomes(i, a)
    BY <1>4 DEF LookForStep
  <2>2. Min(rows) \in rows
    <3>1. rows \in SUBSET Nat
      <4> DEFINE R == Rows
      <4> HIDE DEF R
      <4>1. log \in Seq(R)
        BY DEF Always, Typed, R
      <4>2. DOMAIN log \subseteq Nat
        BY <4>1
      <4> QED BY <4>2 DEF RowsOfStep, RowsOf
    <3>2. \E m \in rows : \A y \in rows : m <= y
      BY <1>4, <3>1, LeastNatural
    <3> QED BY <3>2 DEF Min
  <2>3. r \in Recorded
    <3>1. log[Min(rows)] \in Rows /\ log[Min(rows)].kind = "step"
      BY <2>2 DEF RowsOfStep, RowsOf, Always, Typed
    <3> QED BY <3>1, RowFields
  <2>4. \E j \in rows : log[j].result = r
    BY <2>2
  <2>5. state.successes + r.n <= effects \/ attempts[i].state.next # state.next
    BY <2>2 DEF Always, RowsOK, RowsOfStep
  <2> HIDE DEF r
  <2>6. r \in Results /\ r # Unrecorded
    BY <2>3, RecordedFields
  <2>7. /\ a \in Attempt /\ a.task = attempts[i].task /\ a.state = attempts[i].state
        /\ a.at = "report" /\ a.result = r
    BY <2>6, AttemptFields DEF Always, Attempt
  <2> HIDE DEF a
  <2>8. /\ Always' /\ Running' = Running /\ attempts'[i] = a
        /\ \A o \in Running \ {i} : attempts'[o] = attempts[o]
    <3>1. /\ a.at \notin {"lookStart", "act", "insert"}
          /\ \E j \in RowsOfStep(a.state.next) : log[j].result = a.result
          /\ a.state.next = state.next => state.successes + a.result.n <= effects
      BY <2>4, <2>5, <2>7
    <3>2. effects' \in Nat /\ effects' >= effects /\ effects' = effects
      BY <1>2
    <3> QED BY <1>1, <1>2, <2>1, <2>7, <3>1, <3>2, BecomesAlways
  <2>9. Fits(a)
    BY <1>1, <2>6, <2>7 DEF Fits
  <2> QED BY <1>2, <2>1, <2>7, <2>8, <2>9 DEF Moves, Becomes
<1> QED
  BY <1>3, <1>4

(* Acting, answered or not, changes the attempt and the effects only.       *)
LEMMA ActMoves ==
    ASSUME Always, NEW i \in Running, Act(i) \/ ActUnanswered(i)
    PROVE  \E a : Moves(i, a) /\ a.task = "step"
                  /\ (attempts[i].state = state /\ Fits(attempts[i]) => Fits(a))
<1>1. attempts[i].at = "act" /\ UNCHANGED log
  BY DEF Act, ActUnanswered
<1>2. attempts[i].task = "step" /\ effects \in Nat /\ state.successes \in Nat /\ state.successes <= effects
  BY <1>1, StateFields DEF Always, AttemptOK, Typed, CountedHappened
<1>3. PICK r \in Recorded \cup {Unrecorded}, at \in {"insert", "report"} :
         /\ Decides(i, r, at) /\ (at = "insert" => r \in Recorded) /\ (at = "report" => r = Unrecorded)
         /\ effects' \in Nat /\ effects' >= effects /\ effects' >= effects + r.n
  <2>1. ASSUME NEW r \in Executions, Decides(i, r, "insert"), effects' = effects + r.n
        PROVE  /\ r \in Recorded /\ effects' \in Nat /\ effects' >= effects /\ effects' >= effects + r.n
    <3>1. r \in Recorded
      BY DEF Recorded
    <3>2. r.n \in Nat
      BY <3>1, RecordedFields
    <3> QED BY <1>2, <2>1, <3>1, <3>2
  <2>2. ASSUME NEW r \in Others, NEW n \in Nat, effects' = effects + n
        PROVE  /\ r \in Recorded /\ effects' \in Nat /\ effects' >= effects /\ effects' >= effects + r.n
    <3>1. r.n = 0
      BY DEF Others, Result
    <3> QED BY <1>2, <2>2, <3>1 DEF Recorded
  <2>3. ASSUME effects' = effects
        PROVE  effects' \in Nat /\ effects' >= effects /\ effects' >= effects + Unrecorded.n
    BY <1>2, <2>3, UnrecordedFields
  <2>4. Result("other", 0) \in Others
    BY DEF Others
  <2>5. CASE Act(i)
    <3>1. CASE \E r \in Executions : Decides(i, r, "insert") /\ effects' = effects + r.n
      BY <2>1, <3>1
    <3>2. CASE \E r \in Others, n \in 0..(PlanLength - 1) :
                 Decides(i, r, "insert") /\ effects' = effects + n
      <4>1. PICK r \in Others, n \in 0..(PlanLength - 1) :
                 Decides(i, r, "insert") /\ effects' = effects + n
        BY <3>2
      <4>2. n \in Nat
        BY DelegationAssumption
      <4> QED BY <2>2, <4>1, <4>2
    <3>3. CASE Decides(i, Unrecorded, "report") /\ UNCHANGED effects
      BY <2>3, <3>3
    <3> QED BY <2>5, <3>1, <3>2, <3>3 DEF Act
  <2>6. CASE ActUnanswered(i)
    <3>1. PICK n \in 1..PlanLength : effects' = effects + n
      BY <2>6 DEF ActUnanswered
    <3>2. n \in Nat
      BY DelegationAssumption
    <3> QED BY <2>2, <2>4, <2>6, <3>1, <3>2 DEF ActUnanswered
  <2> QED BY <2>5, <2>6
<1> DEFINE a == [attempts[i] EXCEPT !.at = at, !.result = r]
<1>4. Becomes(i, a)
  BY <1>3 DEF Decides
<1>5. r \in Results /\ r.n \in Nat
  BY RecordedFields, UnrecordedFields
<1>6. /\ a \in Attempt /\ a.task = attempts[i].task /\ a.state = attempts[i].state
      /\ a.at = at /\ a.result = r
  BY <1>5, AttemptFields DEF Always, Attempt
<1> HIDE DEF a
<1>7. state.successes + r.n <= effects'
  BY <1>2, <1>3, <1>5
<1>8. /\ Always' /\ Running' = Running /\ attempts'[i] = a
      /\ \A o \in Running \ {i} : attempts'[o] = attempts[o]
  <2>1. /\ a.at \notin {"lookStart", "act"}
        /\ a.at = "insert" => a.result \in Recorded
        /\ a.at = "report" => a.result = Unrecorded
        /\ state.successes + a.result.n <= effects'
    BY <1>3, <1>6, <1>7
  <2> QED BY <1>1, <1>3, <1>4, <1>6, <2>1, BecomesAlways
<1>9. Fits(attempts[i]) => Fits(a)
  BY <1>1, <1>2, <1>6 DEF Fits
<1> QED
  BY <1>1, <1>2, <1>4, <1>6, <1>8, <1>9 DEF Moves, Becomes

-----------------------------------------------------------------------------
(* What the web sees, without overlap.                                       *)
LEMMA PhaseKept ==
    ASSUME NEW t, Phase(t), UNCHANGED <<log, state>>, LoneAttempt(t)'
    PROVE  Phase(t)'
  BY RowsKept DEF Phase, InStart, InStep, InFinish

(* Freeing a slot keeps the phase the workflow is in.                       *)
LEMMA FreePhase ==
    ASSUME NEW t, Phase(t), UNCHANGED <<log, state>>,
           \A i \in Running' : i \in Running /\ attempts'[i] = attempts[i]
    PROVE  Phase(t)'
<1>1. \A a : Fits(a) => Fits(a)'
  BY RowsKept DEF Fits
<1>2. LoneAttempt(t)'
  BY <1>1, RowsKept DEF Phase, LoneAttempt, Fits
<1> QED
  BY <1>2, PhaseKept

(* Moving an attempt to a place that fits keeps the phase the workflow is   *)
(* in.                                                                      *)
LEMMA MovePhase ==
    ASSUME NEW t, Phase(t), NEW i \in Running, NEW a, Moves(i, a),
           attempts[i].state = state /\ Fits(attempts[i]) => Fits(a)
    PROVE  Phase(t)'
<1>1. LoneAttempt(t)
  BY DEF Phase
<1>2. Fits(a)
  BY <1>1 DEF LoneAttempt
<1>3. /\ Running' = Running /\ attempts'[i] = a /\ UNCHANGED <<log, state>>
      /\ a.task = t /\ a.state = state
  BY <1>1 DEF Moves, LoneAttempt
<1>4. \A o \in Running : o = i
  BY <1>1 DEF LoneAttempt
<1>5. LoneAttempt(t)'
  BY <1>2, <1>3, <1>4, RowsKept DEF LoneAttempt, Fits
<1> QED
  BY <1>3, <1>5, PhaseKept

(* The new row of an activity folds.                                         *)
LEMMA InsertPhase ==
    ASSUME Always, NEW t, Phase(t), NEW i \in Running, Insert(i), SingleActions'
    PROVE  Phase(t)'
<1> DEFINE e == RowFor(attempts[i])
           V == Replayed
           n == Len(log) + 1
<1>1. /\ attempts[i].at = "insert" /\ log' = Append(log, e) /\ UNCHANGED <<state, task, overlapped>>
  BY DEF Insert, GoesTo, Becomes
<1>2. /\ attempts[i].task = t /\ attempts[i].state = state /\ Fits(attempts[i])
      /\ \A o \in Running : o = i
  BY DEF Phase, LoneAttempt
<1>3. /\ Running' = Running /\ attempts'[i] = [attempts[i] EXCEPT !.at = "report"] /\ Always'
  BY InsertAlways
<1>4. /\ e \in Rows
      /\ t = "start" => e.kind = "started"
      /\ t = "step" => e.kind = "step" /\ e.step = state.next /\ e.result = attempts[i].result
      /\ t = "finish" => e.kind = "finished" /\ e.steps = state.steps /\ e.successes = state.successes
  BY <1>1, <1>2, RowForTyped
<1>5. t \in {"start", "step", "finish"} /\ attempts[i] \in Attempt
  BY <1>2, AttemptFields DEF Always
<1>6. attempts'[i].at = "report" /\ attempts'[i].task = t /\ attempts'[i].state = state
      /\ attempts'[i].result = attempts[i].result
  BY <1>2, <1>3, <1>5 DEF Attempt
<1> HIDE DEF e
<1>7. /\ V' = ApplyRow(V, e) /\ V \in Views
      /\ Len(log) \in Nat /\ DOMAIN log = 1..Len(log) /\ DOMAIN log' = 1..n
      /\ log'[n] = e /\ \A j \in 1..Len(log) : log'[j] = log[j]
  BY <1>1, <1>4, RowAppended DEF Always, Typed
<1>8. /\ \A kind : RowsOf(kind)' = RowsOf(kind) \cup (IF e.kind = kind THEN {n} ELSE {})
      /\ \A k : RowsOfStep(k)' = RowsOfStep(k) \cup (IF e.kind = "step" /\ e.step = k THEN {n} ELSE {})
      /\ n \notin DOMAIN log
  BY <1>1, <1>4, RowSetsAppended DEF Always
<1>9. V.ok /\ (t = "start" => InStart) /\ (t = "step" => InStep) /\ (t = "finish" => InFinish)
  BY DEF Phase
<1>10. ASSUME Fits(attempts[i])' PROVE LoneAttempt(t)'
  BY <1>1, <1>2, <1>3, <1>6, <1>10 DEF LoneAttempt
<1>11. CASE t = "start"
  <2>1. RowsOf("started") = {}
    BY <1>1, <1>2, <1>11 DEF Fits
  <2>2. V.status = "none" /\ e.kind = "started"
    BY <1>4, <1>9, <1>11, <2>1 DEF InStart
  <2>3. V' = [V EXCEPT !.status = "running"]
    BY <1>7, <1>9, <2>2 DEF ApplyRow, ApplyStarted
  <2>4. V'.ok /\ V'.status = "running" /\ V'.steps = V.steps /\ V'.successes = V.successes
    BY <1>7, <1>9, <2>3 DEF Views
  <2>5. \A j \in DOMAIN log' : log'[j].kind = "started"
    BY <1>7, <1>9, <1>11, <2>2 DEF InStart
  <2>6. RowsOf("started")' # {}
    BY <1>8, <2>2
  <2>7. InStart'
    BY <1>1, <1>9, <1>11, <2>4, <2>5, <2>6 DEF InStart
  <2>8. Fits(attempts[i])'
    BY <1>6, <1>11, <2>6 DEF Fits
  <2> QED BY <1>10, <1>11, <2>4, <2>7, <2>8 DEF Phase
<1>12. CASE t = "step"
  <2>1. RowsOfStep(state.next) = {}
    BY <1>1, <1>2, <1>12 DEF Fits
  <2>2. e.kind = "step" /\ e.step = state.next /\ e.result \in Recorded /\ e.result = attempts[i].result
    BY <1>4, <1>12, RowFields
  <2>3. V.status = "running" /\ V.steps = state.steps /\ V.successes = state.successes
        /\ RowsOf("started") # {} /\ RowsOf("finished") = {}
    BY <1>9, <1>12, <2>1 DEF InStep
  <2>4. state.steps = state.next - 1 /\ state.next \in Nat /\ state.successes \in Nat
    BY StateFields DEF Always, Typed
  <2>5. e.step = V.steps + 1
    BY <2>2, <2>3, <2>4
  <2>6. e.result.n <= 1
    <3>1. n \in RowsOf("step")'
      BY <1>8, <2>2
    <3> QED BY <1>7, <3>1 DEF SingleActions
  <2>7. (IF e.result.kind = "executed" THEN V.successes + 1 ELSE V.successes) = state.successes + e.result.n
    <3>1. e.result.n \in Nat /\ (e.result.kind = "executed" => e.result.n >= 1)
          /\ (e.result.kind # "executed" => e.result.n = 0)
      BY <2>2, RecordedFields
    <3>2. CASE e.result.kind = "executed"
      <4>1. e.result.n = 1
        BY <2>6, <3>1, <3>2
      <4> QED BY <2>3, <3>2, <4>1
    <3>3. CASE e.result.kind # "executed"
      BY <2>3, <2>4, <3>1, <3>3
    <3> QED BY <3>2, <3>3
  <2>8. V' = [V EXCEPT !.steps = e.step,
                       !.successes = IF e.result.kind = "executed" THEN V.successes + 1 ELSE V.successes]
    BY <1>7, <1>9, <2>2, <2>3, <2>5 DEF ApplyRow, ApplyStep
  <2>9. /\ V'.ok /\ V'.status = "running" /\ V'.steps = state.next
        /\ V'.successes = state.successes + e.result.n
    <3>1. /\ V'.ok /\ V'.status = "running" /\ V'.steps = e.step
          /\ V'.successes = (IF e.result.kind = "executed" THEN V.successes + 1 ELSE V.successes)
      BY <1>7, <1>9, <2>3, <2>8 DEF Views
    <3> QED BY <2>2, <2>7, <3>1
  <2>10. RowsOfStep(state.next)' = {n}
    <3>1. RowsOfStep(state.next)' = {j \in RowsOf("step")' : log'[j].step = state.next}
      BY <1>1 DEF RowsOfStep
    <3>2. PICK k : k = state.next
      OBVIOUS
    <3>3. RowsOfStep(k)' = {n}
      BY <1>8, <2>1, <2>2, <3>2
    <3> QED BY <3>1, <3>2, <3>3 DEF RowsOfStep
  <2>11. RowsOf("started")' # {} /\ RowsOf("finished")' = {}
    BY <1>8, <2>2, <2>3
  <2>12. InStep'
    BY <1>1, <1>7, <2>9, <2>10, <2>11 DEF InStep
  <2>13. Fits(attempts[i])'
    <3>1. attempts'[i].result # Unrecorded
      BY <1>6, <2>2, RecordedFields
    <3> QED BY <1>6, <1>12, <3>1 DEF Fits
  <2> QED BY <1>10, <1>12, <2>9, <2>12, <2>13 DEF Phase
<1>13. CASE t = "finish"
  <2>1. RowsOf("finished") = {}
    BY <1>1, <1>2, <1>13 DEF Fits
  <2>2. V.status = "running" /\ V.steps = state.steps /\ V.successes = state.successes
    BY <1>9, <1>13, <2>1 DEF InFinish
  <2>3. V' = [V EXCEPT !.status = "terminal"]
    BY <1>4, <1>7, <1>9, <1>13, <2>2 DEF ApplyRow, ApplyFinished
  <2>4. V'.ok /\ V'.status = "terminal" /\ V'.steps = V.steps /\ V'.successes = V.successes
    BY <1>7, <1>9, <2>3 DEF Views
  <2>5. RowsOf("finished")' # {}
    BY <1>4, <1>8, <1>13
  <2>6. InFinish'
    BY <1>1, <2>2, <2>4, <2>5 DEF InFinish
  <2>7. Fits(attempts[i])'
    BY <1>6, <1>13, <2>5 DEF Fits
  <2> QED BY <1>10, <1>13, <2>4, <2>6, <2>7 DEF Phase
<1> QED
  BY <1>5, <1>11, <1>12, <1>13

(* A report ends the activity, and the next one finds the log as it needs it. *)
LEMMA ReportPhase ==
    ASSUME Always, NEW t, Phase(t), task = t, NEW i \in Running, Report(i)
    PROVE  \E u \in {"start", "step", "finish", "done"} : task' = u /\ Phase(u)'
<1> DEFINE V == Replayed
<1>1. /\ Running' = Running \ {i} /\ attempts[i].task = t /\ attempts[i].state = state
      /\ t \in {"start", "step", "finish"} /\ UNCHANGED log
  BY ReportFrees
<1>2. /\ Fits(attempts[i]) /\ \A o \in Running : o = i
  BY DEF Phase, LoneAttempt
<1>3. Running' = {}
  BY <1>1, <1>2
<1>4. \A u : LoneAttempt(u)'
  BY <1>3 DEF LoneAttempt
<1>5. attempts[i].at = "report"
  BY DEF Report
<1>6. /\ V.ok /\ V' = V /\ \A kind : RowsOf(kind)' = RowsOf(kind)
      /\ \A k : RowsOfStep(k)' = RowsOfStep(k)
  BY <1>1, RowsKept DEF Phase
<1>7. CASE t = "start"
  <2>1. task' = "step" /\ state' = state
    BY <1>7, ReportOther
  <2>2. InStart /\ RowsOf("started") # {}
    BY <1>1, <1>2, <1>5, <1>7 DEF Phase, Fits
  <2>3. \A k : RowsOfStep(k) = {}
    BY <2>2 DEF InStart, RowsOfStep, RowsOf
  <2>4. RowsOf("finished") = {}
    BY <2>2 DEF InStart, RowsOf
  <2>5. InStep'
    BY <1>6, <2>1, <2>2, <2>3, <2>4 DEF InStart, InStep
  <2> QED BY <1>4, <1>6, <2>1, <2>5 DEF Phase
<1>8. CASE t = "finish"
  <2>1. task' = "done" /\ state' = state
    BY <1>8, ReportOther
  <2>2. InFinish /\ RowsOf("finished") # {}
    BY <1>1, <1>2, <1>5, <1>8 DEF Phase, Fits
  <2>3. InFinish' /\ RowsOf("finished")' # {}
    BY <1>6, <2>1, <2>2 DEF InFinish
  <2> QED BY <1>4, <1>6, <2>1, <2>3 DEF Phase
<1>9. CASE t = "step"
  <2>1. InStep
    BY <1>9 DEF Phase
  <2>2. state.steps = state.next - 1 /\ state.next \in Nat
    BY StateFields DEF Always, Typed
  <2>3. CASE attempts[i].result = Unrecorded /\ state' = state /\ task' = "finish"
    <3>1. RowsOfStep(state.next) = {}
      BY <1>1, <1>2, <1>5, <1>9, <2>3 DEF Fits
    <3>2. InFinish'
      BY <1>6, <2>1, <2>3, <3>1 DEF InStep, InFinish
    <3> QED BY <1>4, <1>6, <2>3, <3>2 DEF Phase
  <2>4. CASE /\ \E j \in RowsOfStep(state.next) : log[j].result = attempts[i].result
             /\ state'.next = state.next + 1 /\ state'.steps = state.steps + 1
             /\ state'.successes = state.successes + attempts[i].result.n
    <3>1. V.steps = state'.steps /\ V.successes = state'.successes /\ V.status = "running"
          /\ RowsOf("started") # {} /\ RowsOf("finished") = {}
      BY <2>1, <2>2, <2>4 DEF InStep
    <3>2. RowsOfStep(state'.next) = {}
      <4>1. \A j \in RowsOf("step") : log[j].step <= state.next /\ log[j].step \in Nat
        <5>1. ASSUME NEW j \in RowsOf("step") PROVE log[j].step \in Nat
          <6>1. log[j] \in Rows /\ log[j].kind = "step"
            BY DEF RowsOf, Always, Typed
          <6> QED BY <6>1, RowFields
        <5> QED BY <5>1 DEF Always, RowsOK
      <4>2. \A j \in RowsOf("step") : log[j].step # state'.next
        BY <2>2, <2>4, <4>1
      <4> QED BY <4>2 DEF RowsOfStep
    <3>3. InFinish'
      BY <1>6, <3>1 DEF InFinish
    <3>4. InStep'
      <4>1. PICK k : k = state'.next
        OBVIOUS
      <4>2. RowsOfStep(k)' = {}
        BY <1>6, <3>2, <4>1
      <4>3. RowsOfStep(state.next)' = {}
        BY <4>1, <4>2 DEF RowsOfStep
      <4> QED BY <1>6, <3>1, <4>3 DEF InStep
    <3>5. task' \in {"step", "finish"}
      BY <1>9, ReportStep
    <3> QED BY <1>4, <1>6, <3>3, <3>4, <3>5 DEF Phase
  <2> QED BY <1>9, <2>3, <2>4, ReportStep
<1> QED
  BY <1>1, <1>7, <1>8, <1>9

(* A new attempt fits the phase, unless an older one still runs.            *)
LEMMA SchedulePhase ==
    ASSUME Always, Schedule, ~overlapped', NEW t, task = t, Phase(t)
    PROVE  Phase(t)'
<1>1. Running = {} /\ UNCHANGED <<log, task, state>>
  BY DEF Schedule
<1>2. /\ Running' = {current'} /\ attempts'[current'] = NewAttempt
  BY <1>1, ScheduleAlways
<1>3. NewAttempt.task = task /\ NewAttempt.state = state /\ NewAttempt.at \in {"lookStart", "look"}
  BY DEF NewAttempt
<1>4. LoneAttempt(t)'
  BY <1>1, <1>2, <1>3 DEF LoneAttempt, Fits
<1> QED
  BY <1>1, <1>4, PhaseKept

-----------------------------------------------------------------------------
(* The invariant.                                                           *)
LEMMA InitInv == Init => IInv
<1> SUFFICES ASSUME Init PROVE IInv
  OBVIOUS
<1>1. Running = {} /\ log = <<>> /\ results = <<>> /\ Len(results) = 0
  BY DEF Init, Running
<1>2. Replayed = NoTask
  BY <1>1, ReplayedEmpty
<1>3. /\ \A kind : RowsOf(kind) = {} /\ \A k : RowsOfStep(k) = {}
  BY <1>1 DEF RowsOf, RowsOfStep
<1>4. state \in States /\ state.next = 1 /\ state.steps = 0 /\ state.successes = 0
  <2>1. 0 \in 0..(MaxSteps * PlanLength) /\ 0 \in 0..MaxSteps /\ 1 \in 1..(MaxSteps + 1)
    <3>1. PICK m \in Nat, p \in Nat : m = MaxSteps /\ p = PlanLength
      BY DelegationAssumption
    <3>2. m * p \in Nat
      BY <3>1
    <3> QED BY <3>1, <3>2
  <2> QED BY <2>1 DEF Init, States
<1>5. Typed
  <2>1. NoTask \in Views
    BY DEF NoTask, Views
  <2>2. log \in Seq(Rows)
    BY <1>1
  <2>3. state.steps = state.next - 1 /\ state.successes <= state.steps * PlanLength /\ state.next <= MaxSteps
    BY <1>4, DelegationAssumption
  <2>4. /\ attempts \in [Slots -> Attempt \cup {NoAttempt}] /\ current = 0 /\ tries = 0
        /\ effects = 0 /\ overlapped = FALSE /\ task = "start"
    BY DEF Init
  <2>5. tries \in 0..MaxAttempts
    BY <2>4, DelegationAssumption
  <2>6. Replayed \in Views
    BY <1>2, <2>1
  <2> QED BY <1>4, <2>2, <2>3, <2>4, <2>5, <2>6 DEF Typed
<1>6. Always
  <2>1. results \in Seq(Results) /\ Len(results) = state.next - 1 /\ AppliedIsRecorded
    BY <1>1, <1>4 DEF AppliedIsRecorded
  <2> QED BY <1>1, <1>3, <1>4, <1>5, <2>1 DEF Always, RowsOK, ResultsOK, CountedHappened, Init
<1>7. Phase("start") /\ task = "start"
  <2>1. InStart
    BY <1>1, <1>2, <1>3, <1>4 DEF InStart, NoTask
  <2>2. LoneAttempt("start") /\ Replayed.ok
    BY <1>1, <1>2 DEF LoneAttempt, NoTask
  <2> QED BY <2>1, <2>2 DEF Phase, Init
<1> QED
  BY <1>6, <1>7 DEF IInv, InPhase

(* If no attempt has overlapped after a step, none had before it.           *)
LEMMA SingleBefore ==
    ASSUME Always, SingleActions', UNCHANGED log \/ \E i \in Running : Insert(i)
    PROVE  SingleActions
<1>1. CASE UNCHANGED log
  BY <1>1 DEF SingleActions, RowsOf
<1>2. CASE \E i \in Running : Insert(i)
  <2>1. PICK i \in Running : Insert(i)
    BY <1>2
  <2>2. log' = Append(log, RowFor(attempts[i])) /\ RowFor(attempts[i]) \in Rows
    BY <2>1, RowForTyped DEF Insert
  <2>3. \A j \in DOMAIN log : j \in DOMAIN log' /\ log'[j] = log[j]
    BY <2>2, RowAppended DEF Always
  <2> QED BY <2>3 DEF SingleActions, RowsOf
<1> QED
  BY <1>1, <1>2

(* Slots only become free: in every phase, and whatever the activity becomes. *)
LEMMA FreeInv ==
    ASSUME IInv, UNCHANGED <<log, state, effects, results, overlapped>>,
           attempts' \in [Slots -> Attempt \cup {NoAttempt}],
           \A i \in Running' : i \in Running /\ attempts'[i] = attempts[i],
           current' \in Running' \cup {0}, current' \in {0, current},
           tries' \in 0..MaxAttempts,
           task' = task \/ (task' = "failed" /\ current' = 0)
    PROVE  IInv'
<1>1. Always'
  BY FreeAlways DEF IInv
<1>2. ASSUME ~overlapped', SingleActions' PROVE InPhase'
  <2>1. InPhase
    BY <1>2, SingleBefore DEF IInv
  <2>2. PICK t \in {"start", "step", "finish", "done"} : task \in {t, "failed"} /\ Phase(t)
    BY <2>1 DEF InPhase
  <2>3. Phase(t)'
    BY <2>2, FreePhase
  <2>4. task' \in {t, "failed"}
    BY <2>2
  <2> QED BY <2>3, <2>4 DEF InPhase
<1> QED
  BY <1>1, <1>2 DEF IInv

(* A slot set free leaves the other attempts as they were.                  *)
LEMMA FreedSlot ==
    ASSUME Always, NEW i \in Slots, attempts' = [attempts EXCEPT ![i] = NoAttempt]
    PROVE  /\ attempts' \in [Slots -> Attempt \cup {NoAttempt}] /\ Running' = Running \ {i}
           /\ \A o \in Running' : o \in Running /\ attempts'[o] = attempts[o]
<1>1. /\ attempts' \in [Slots -> Attempt \cup {NoAttempt}] /\ attempts'[i] = NoAttempt
      /\ \A o \in Slots \ {i} : attempts'[o] = attempts[o]
  BY DEF Always, Typed
<1>2. Running' = Running \ {i}
  BY <1>1 DEF Running
<1> QED
  BY <1>1, <1>2 DEF Running

(* A step that only moves an attempt to a place that fits keeps the         *)
(* invariant.                                                               *)
LEMMA MoveInv ==
    ASSUME IInv, NEW i \in Running, NEW a, Moves(i, a),
           attempts[i].state = state /\ Fits(attempts[i]) => Fits(a)
    PROVE  IInv'
<1>1. Always' /\ UNCHANGED <<log, state, task, overlapped>>
  BY DEF Moves
<1>2. ASSUME ~overlapped', SingleActions' PROVE InPhase'
  <2>1. InPhase
    BY <1>1, <1>2, SingleBefore DEF IInv
  <2>2. PICK t \in {"start", "step", "finish", "done"} : task \in {t, "failed"} /\ Phase(t)
    BY <2>1 DEF InPhase
  <2>3. Phase(t)'
    BY <2>2, MovePhase
  <2> QED BY <1>1, <2>2, <2>3 DEF InPhase
<1> QED
  BY <1>1, <1>2 DEF IInv

LEMMA NextInv == IInv /\ [Next]_vars => IInv'
<1> SUFFICES ASSUME IInv, [Next]_vars PROVE IInv'
  OBVIOUS
<1>1. Always /\ Typed
  BY DEF IInv, Always
<1>2. CASE Schedule
  <2>1. Always'
    BY <1>1, <1>2, ScheduleAlways
  <2>2. ASSUME ~overlapped', SingleActions' PROVE InPhase'
    <3>1. ~overlapped /\ SingleActions
      BY <1>1, <1>2, <2>2, SingleBefore DEF Schedule
    <3>2. PICK t \in {"start", "step", "finish", "done"} : task \in {t, "failed"} /\ Phase(t)
      BY <3>1 DEF IInv, InPhase
    <3>3. task = t /\ task' = task
      BY <1>2, <3>2 DEF Schedule, Open
    <3>4. Phase(t)'
      BY <1>1, <1>2, <2>2, <3>2, <3>3, SchedulePhase
    <3> QED BY <3>3, <3>4 DEF InPhase
  <2> QED BY <2>1, <2>2 DEF IInv
<1>3. CASE TimeOut
  <2>1. /\ UNCHANGED <<log, task, state, attempts, tries, effects, results, overlapped>> /\ current' = 0
    BY <1>3 DEF TimeOut
  <2>2. Running' = Running
    BY <2>1 DEF Running
  <2> QED BY <1>1, <2>1, <2>2, FreeInv DEF Typed
<1>4. CASE RetriesExhausted
  <2>1. /\ UNCHANGED <<log, state, attempts, current, tries, effects, results, overlapped>> /\ current = 0
        /\ task' = "failed"
    BY <1>4 DEF RetriesExhausted
  <2>2. Running' = Running
    BY <2>1 DEF Running
  <2> QED BY <1>1, <2>1, <2>2, FreeInv DEF Typed
<1>5. CASE UNCHANGED vars
  <2>1. UNCHANGED <<log, task, state, attempts, current, tries, effects, results, overlapped>>
    BY <1>5 DEF vars
  <2>2. Running' = Running
    BY <2>1 DEF Running
  <2> QED BY <1>1, <2>1, <2>2, FreeInv DEF Typed
<1>6. ASSUME NEW i \in Slots, Die(i) PROVE IInv'
  <2>1. /\ i \in Running /\ attempts' = [attempts EXCEPT ![i] = NoAttempt]
        /\ current' = (IF current = i THEN 0 ELSE current)
        /\ UNCHANGED <<log, task, state, tries, effects, results, overlapped>>
    BY <1>6 DEF Die
  <2>2. /\ attempts' \in [Slots -> Attempt \cup {NoAttempt}] /\ Running' = Running \ {i}
        /\ \A o \in Running' : o \in Running /\ attempts'[o] = attempts[o]
    BY <1>1, <2>1, FreedSlot
  <2>3. current' \in Running' \cup {0} /\ current' \in {0, current}
    BY <1>1, <2>1, <2>2 DEF Typed
  <2> QED BY <1>1, <2>1, <2>2, <2>3, FreeInv DEF Typed
<1>7. ASSUME NEW i \in Slots, ReportRefused(i) PROVE IInv'
  <2>1. /\ i # current /\ attempts' = [attempts EXCEPT ![i] = NoAttempt]
        /\ UNCHANGED <<log, task, state, current, tries, effects, results, overlapped>>
    BY <1>7 DEF ReportRefused
  <2>2. /\ attempts' \in [Slots -> Attempt \cup {NoAttempt}] /\ Running' = Running \ {i}
        /\ \A o \in Running' : o \in Running /\ attempts'[o] = attempts[o]
    BY <1>1, <2>1, FreedSlot
  <2>3. current' \in Running' \cup {0} /\ current' \in {0, current}
    BY <1>1, <2>1, <2>2 DEF Typed
  <2> QED BY <1>1, <2>1, <2>2, <2>3, FreeInv DEF Typed
<1>8. ASSUME NEW i \in Slots, Statement(i) PROVE IInv'
  <2>1. i \in Running
    BY <1>8, AtRuns DEF Statement, LookStart, LookForRow, LookForStep, Act, ActUnanswered, Insert
  <2>2. CASE LookStart(i)
    <3>1. PICK a : Moves(i, a) /\ a.at = "look"
      BY <1>1, <2>1, <2>2, LookStartMoves
    <3>2. Fits(a)
      BY <3>1 DEF Fits
    <3> QED BY <2>1, <3>1, <3>2, MoveInv
  <2>3. CASE LookForRow(i)
    BY <1>1, <2>1, <2>3, LookForRowMoves, MoveInv
  <2>4. CASE LookForStep(i)
    BY <1>1, <2>1, <2>4, LookForStepMoves, MoveInv
  <2>5. CASE Act(i) \/ ActUnanswered(i)
    BY <1>1, <2>1, <2>5, ActMoves, MoveInv
  <2>6. CASE Insert(i)
    <3>1. Always' /\ UNCHANGED <<state, task, overlapped>>
      BY <1>1, <2>1, <2>6, InsertAlways DEF Insert, GoesTo, Becomes
    <3>2. ASSUME ~overlapped', SingleActions' PROVE InPhase'
      <4>1. ~overlapped /\ SingleActions
        BY <1>1, <2>1, <2>6, <3>1, <3>2, SingleBefore
      <4>2. PICK t \in {"start", "step", "finish", "done"} : task \in {t, "failed"} /\ Phase(t)
        BY <4>1 DEF IInv, InPhase
      <4>3. Phase(t)'
        BY <1>1, <2>1, <2>6, <3>2, <4>2, InsertPhase
      <4> QED BY <3>1, <4>2, <4>3 DEF InPhase
    <3> QED BY <3>1, <3>2 DEF IInv
  <2> QED BY <1>8, <2>2, <2>3, <2>4, <2>5, <2>6 DEF Statement
<1>9. ASSUME NEW i \in Slots, Report(i) PROVE IInv'
  <2>1. i \in Running
    BY <1>9, AtRuns DEF Report
  <2>2. Always'
    BY <1>1, <1>9, <2>1, ReportOther, ReportStep
  <2>3. ASSUME ~overlapped', SingleActions' PROVE InPhase'
    <3>1. UNCHANGED <<log, overlapped>> /\ task \in {"start", "step", "finish"}
      BY <1>1, <1>9, <2>1, ReportFrees
    <3>2. PICK t \in {"start", "step", "finish", "done"} : task \in {t, "failed"} /\ Phase(t)
      BY <1>1, <2>3, <3>1, SingleBefore DEF IInv, InPhase
    <3>3. task = t
      BY <3>1, <3>2
    <3> QED BY <1>1, <1>9, <2>1, <3>2, <3>3, ReportPhase DEF InPhase
  <2> QED BY <2>2, <2>3 DEF IInv
<1> QED
  BY <1>2, <1>3, <1>4, <1>5, <1>6, <1>7, <1>8, <1>9 DEF Next, Over, Progress

(* The inductive invariant holds of every behaviour.                         *)
THEOREM Invariance == Spec => []IInv
<1>1. Init => IInv
  BY InitInv
<1>2. IInv /\ [Next]_vars => IInv'
  BY NextInv
<1> QED
  BY <1>1, <1>2, PTL DEF Spec

(* Types of the workflow, its attempts and its counters.                     *)
THEOREM TypeCorrect == Spec => []TypeOK
<1>1. IInv => TypeOK
  <2> SUFFICES ASSUME IInv PROVE TypeOK
    OBVIOUS
  <2>1. Typed
    BY DEF IInv, Always
  <2>2. \A i \in Running : /\ attempts[i].at \in {"lookStart", "look", "act", "insert", "report"}
                           /\ attempts[i].task \in {"start", "step", "finish"}
    BY <2>1, AttemptFields
  <2> QED BY <2>1, <2>2 DEF TypeOK, Typed, States
<1> QED
  BY <1>1, Invariance, PTL

(* What the workflow applied for a step is what some row of the step says,   *)
(* whatever was retried, killed or late (findRecordedStep).                  *)
THEOREM ResultsAreRecorded == Spec => []AppliedIsRecorded
<1>1. IInv => AppliedIsRecorded
  BY DEF IInv, Always, ResultsOK
<1> QED
  BY <1>1, Invariance, PTL

(* A success that is counted happened (applyStepToState).                    *)
THEOREM SuccessesHappened == Spec => []CountedHappened
<1>1. IInv => CountedHappened
  BY DEF IInv, Always
<1> QED
  BY <1>1, Invariance, PTL

(* Without overlapping attempts and with plans of one action the rows of the *)
(* task always fold (I5; applyDelegationTerminal checks the counters).       *)
THEOREM RowsFold == Spec => []FoldsUnlessOverlapped
<1>1. IInv => FoldsUnlessOverlapped
  BY DEF IInv, InPhase, Phase, FoldsUnlessOverlapped
<1> QED
  BY <1>1, Invariance, PTL

(* Under the same conditions the web's view follows the workflow.            *)
THEOREM ViewFollows == Spec => []ViewFollowsWorkflow
<1>1. ASSUME IInv, ~overlapped, SingleActions
      PROVE  /\ task \in {"step", "finish", "done"} => Replayed.status # "none"
             /\ task = "done" => /\ Replayed.status = "terminal"
                                 /\ Replayed.steps = state.steps
                                 /\ Replayed.successes = state.successes
             /\ Replayed.steps \in {state.steps, state.steps + 1}
  <2>1. PICK t \in {"start", "step", "finish", "done"} : task \in {t, "failed"} /\ Phase(t)
    BY <1>1 DEF IInv, InPhase
  <2>2. state.steps = state.next - 1 /\ state.next \in Nat
    BY <1>1, StateFields DEF IInv, Always, Typed
  <2>3. CASE t = "start"
    BY <2>1, <2>3 DEF Phase, InStart
  <2>4. CASE t = "step"
    <3>1. InStep
      BY <2>1, <2>4 DEF Phase
    <3>2. Replayed.steps \in {state.steps, state.steps + 1}
      BY <2>2, <3>1 DEF InStep
    <3> QED BY <2>1, <2>4, <3>1, <3>2 DEF InStep
  <2>5. CASE t \in {"finish", "done"}
    BY <2>1, <2>5 DEF Phase, InFinish
  <2> QED BY <2>3, <2>4, <2>5
<1>2. IInv => ViewFollowsWorkflow
  BY <1>1 DEF ViewFollowsWorkflow
<1> QED
  BY <1>2, Invariance, PTL
=============================================================================
