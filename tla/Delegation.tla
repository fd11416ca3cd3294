----------------------------- MODULE Delegation -----------------------------
(***************************************************************************)
(* One delegated task: the Temporal workflow that drives the agent loop,   *)
(* the activity attempts that decide, act on the web's contract and write  *)
(* the task's events, and the fold the web reads them with.                *)
(*                                                                         *)
(* Temporal runs an activity until an attempt reports; it gives up on an   *)
(* attempt after its timeout and schedules the next.  What it gave up on   *)
(* may be dead, or slow and still running: its report is refused, what it  *)
(* writes to the log is not.  Each look and each insert is one statement.  *)
(* Rows are kept in commit order; CoreEventLog models the rest.            *)
(***************************************************************************)
EXTENDS Integers, Sequences, FiniteSets, FiniteSetsExt

CONSTANTS
    MaxSteps,     \* steps before the workflow stops by itself
    MaxAttempts,  \* retry.maximumAttempts
    MaxRunning,   \* bound: attempts of the task running at once
    PlanLength    \* bound: actions in one exec-plan

ASSUME DelegationAssumption ==
    /\ MaxSteps \in Nat \ {0} /\ MaxAttempts \in Nat \ {0}
    /\ MaxRunning \in Nat \ {0} /\ PlanLength \in Nat \ {0}

VARIABLES
    log,         \* the task's events, in commit order
    task,        \* the activity the workflow awaits: start, step, finish, or done, failed
    state,       \* DelegationLoopState: steps in the trail, successes
    attempts,    \* slot -> the attempt running there, or NoAttempt
    current,     \* slot of the attempt Temporal waits for, or 0
    tries,       \* attempts of this activity scheduled so far
    effects,     \* business actions the web executed for this task
    results,     \* history: the results the workflow applied
    overlapped   \* history: an attempt was scheduled beside a running one

vars == <<log, task, state, attempts, current, tries, effects, results, overlapped>>

-----------------------------------------------------------------------------
(* Results of one step, as the event records them.  "executed" is an exec   *)
(* (n = 1) or a completed exec-plan of n actions; "other" a navigation or a *)
(* rejection; "stop" ends the loop (done, fail, answer, clarify, suspended);*)
(* "unrecorded" ends it without an event: the current entity is gone.       *)
Result(kind, n) == [kind |-> kind, n |-> n]
Executions == {Result("executed", n) : n \in 1..PlanLength}
Others == {Result("other", 0), Result("stop", 0)}
Unrecorded == Result("unrecorded", 0)
NoResult == Result("none", 0)

StartedRow == [kind |-> "started"]
StepRow(k, r) == [kind |-> "step", step |-> k, result |-> r]
FinishedRow(s) == [kind |-> "finished", steps |-> s.steps, successes |-> s.successes]

RowsOf(kind) == {i \in DOMAIN log : log[i].kind = kind}
RowsOfStep(k) == {i \in RowsOf("step") : log[i].step = k}

-----------------------------------------------------------------------------
(* The web's fold of the task's rows; a throw is `ok = FALSE', for good.    *)
NoTask == [ok |-> TRUE, status |-> "none", steps |-> 0, successes |-> 0]

Throw(s) == [s EXCEPT !.ok = FALSE]

ApplyStarted(s) ==
    IF s.status # "none" THEN Throw(s) ELSE [s EXCEPT !.status = "running"]

(* An executed step counts one success, however many actions its plan had.  *)
ApplyStep(s, e) ==
    IF s.status = "none" \/ e.step # s.steps + 1 THEN Throw(s)
    ELSE [s EXCEPT !.steps = e.step,
                   !.successes = IF e.result.kind = "executed" THEN @ + 1 ELSE @]

ApplyFinished(s, e) ==
    IF s.status # "running" \/ e.steps # s.steps \/ e.successes # s.successes THEN Throw(s)
    ELSE [s EXCEPT !.status = "terminal"]

ApplyRow(s, e) ==
    IF ~s.ok THEN s
    ELSE CASE e.kind = "started"  -> ApplyStarted(s)
           [] e.kind = "step"     -> ApplyStep(s, e)
           [] e.kind = "finished" -> ApplyFinished(s, e)

View(rows) ==
    LET after[n \in 0..Len(rows)] ==
          IF n = 0 THEN NoTask ELSE ApplyRow(after[n - 1], rows[n])
    IN  after

Replayed == View(log)[Len(log)]

-----------------------------------------------------------------------------
(* Attempts.  `at' is the next statement, `state' the workflow's when the   *)
(* attempt was scheduled.                                                   *)
Slots == 1..MaxRunning
NoAttempt == [at |-> "none"]
Running == {i \in Slots : attempts[i] # NoAttempt}

NewAttempt ==
    [at |-> IF task = "step" /\ state.next = 1 THEN "lookStart" ELSE "look",
     task |-> task, state |-> state, result |-> NoResult]

TypeOK ==
    /\ task \in {"start", "step", "finish", "done", "failed"}
    /\ state \in [next : 1..(MaxSteps + 1), steps : 0..MaxSteps,
                  successes : 0..(MaxSteps * PlanLength)]
    /\ DOMAIN attempts = Slots
    /\ current \in Running \cup {0}
    /\ \A i \in Running :
          /\ attempts[i].at \in {"lookStart", "look", "act", "insert", "report"}
          /\ attempts[i].task \in {"start", "step", "finish"}
    /\ tries \in 0..MaxAttempts
    /\ effects \in Nat
    /\ overlapped \in BOOLEAN

Init ==
    /\ log = <<>>
    /\ task = "start"
    /\ state = [next |-> 1, steps |-> 0, successes |-> 0]
    /\ attempts = [i \in Slots |-> NoAttempt] /\ current = 0 /\ tries = 0
    /\ effects = 0 /\ results = <<>> /\ overlapped = FALSE

-----------------------------------------------------------------------------
(* Temporal: scheduling, giving up, exhausting the retries.                 *)

Open == task \in {"start", "step", "finish"}

Schedule ==
    /\ Open
    /\ current = 0
    /\ tries < MaxAttempts
    /\ Running # Slots
    /\ current' = Min(Slots \ Running)
    /\ attempts' = [attempts EXCEPT ![current'] = NewAttempt]
    /\ tries' = tries + 1
    /\ overlapped' = (overlapped \/ Running # {})
    /\ UNCHANGED <<log, task, state, effects, results>>

(* startToCloseTimeout passes; the attempt goes on, or is already dead.     *)
TimeOut ==
    /\ current # 0
    /\ current' = 0
    /\ UNCHANGED <<log, task, state, attempts, tries, effects, results, overlapped>>

(* Mutation: the slot of a dead attempt is still the one waited for. *)
DieUnnoticed(i) ==
    /\ i \in Running
    /\ attempts' = [attempts EXCEPT ![i] = NoAttempt]
    /\ UNCHANGED <<log, task, state, current, tries, effects, results, overlapped>>

(* The worker is killed, or a statement threw: Temporal learns of it.       *)
Die(i) ==
    /\ i \in Running
    /\ attempts' = [attempts EXCEPT ![i] = NoAttempt]
    /\ current' = IF current = i THEN 0 ELSE current
    /\ UNCHANGED <<log, task, state, tries, effects, results, overlapped>>

RetriesExhausted ==
    /\ Open
    /\ current = 0
    /\ tries = MaxAttempts
    /\ task' = "failed"
    /\ UNCHANGED <<log, state, attempts, current, tries, effects, results, overlapped>>

-----------------------------------------------------------------------------
(* The statements of an attempt.                                            *)

Becomes(i, a) ==
    /\ attempts' = [attempts EXCEPT ![i] = a]
    /\ UNCHANGED <<task, state, current, tries, results, overlapped>>

GoesTo(i, at) == Becomes(i, [attempts[i] EXCEPT !.at = at])

(* Step 1 makes sure of the first event once more.  It is there: startDelegation *)
(* has reported before (ViewFollowsWorkflow), so the insert is never reached.    *)
LookStart(i) ==
    /\ attempts[i].at = "lookStart"
    /\ RowsOf("started") # {}
    /\ GoesTo(i, "look")
    /\ UNCHANGED <<log, effects>>

(* appendOnce: a first or last event already there is not written again.    *)
LookForRow(i) ==
    /\ attempts[i].at = "look" /\ attempts[i].task # "step"
    /\ LET kind == IF attempts[i].task = "start" THEN "started" ELSE "finished" IN
       GoesTo(i, IF RowsOf(kind) = {} THEN "insert" ELSE "report")
    /\ UNCHANGED <<log, effects>>

(* Mutation: a retry does not look for what the attempt before it wrote. *)
LookForNoStep(i) ==
    /\ attempts[i].at = "look" /\ attempts[i].task = "step"
    /\ GoesTo(i, "act")
    /\ UNCHANGED <<log, effects>>

(* Mutation: any recorded step of the task answers for the one asked for. *)
LookForAnyStep(i) ==
    /\ attempts[i].at = "look" /\ attempts[i].task = "step"
    /\ LET rows == RowsOf("step") IN
       IF rows = {} THEN GoesTo(i, "act")
       ELSE Becomes(i, [attempts[i] EXCEPT !.at = "report", !.result = log[Min(rows)].result])
    /\ UNCHANGED <<log, effects>>

(* findRecordedStep: the recorded result is reported, nothing runs again.   *)
LookForStep(i) ==
    /\ attempts[i].at = "look" /\ attempts[i].task = "step"
    /\ LET rows == RowsOfStep(attempts[i].state.next) IN
       IF rows = {} THEN GoesTo(i, "act")
       ELSE Becomes(i, [attempts[i] EXCEPT !.at = "report", !.result = log[Min(rows)].result])
    /\ UNCHANGED <<log, effects>>

(* Decide, and act on the contract.  A plan that stops halfway is rejected  *)
(* or suspended, and the actions before stay executed.                      *)
Decides(i, r, at) == Becomes(i, [attempts[i] EXCEPT !.at = at, !.result = r])

Act(i) ==
    /\ attempts[i].at = "act"
    /\ \/ \E r \in Executions : Decides(i, r, "insert") /\ effects' = effects + r.n
       \/ \E r \in Others, n \in 0..(PlanLength - 1) :
             Decides(i, r, "insert") /\ effects' = effects + n
       \/ Decides(i, Unrecorded, "report") /\ UNCHANGED effects
    /\ UNCHANGED log

(* The web executed it all but its answer was lost: recorded as rejected.   *)
ActUnanswered(i) ==
    /\ attempts[i].at = "act"
    /\ Decides(i, Result("other", 0), "insert")
    /\ \E n \in 1..PlanLength : effects' = effects + n
    /\ UNCHANGED log

RowFor(a) ==
    CASE a.task = "start"  -> StartedRow
      [] a.task = "step"   -> StepRow(a.state.next, a.result)
      [] a.task = "finish" -> FinishedRow(a.state)

Insert(i) ==
    /\ attempts[i].at = "insert"
    /\ log' = Append(log, RowFor(attempts[i]))
    /\ GoesTo(i, "report")
    /\ UNCHANGED effects

Statement(i) ==
    \/ LookStart(i) \/ LookForRow(i) \/ LookForStep(i)
    \/ Act(i) \/ ActUnanswered(i) \/ Insert(i)

-----------------------------------------------------------------------------
(* The workflow: what a report does to it.                                  *)

(* Mutation: the step that was not recorded counts all the same. *)
AfterAnyStep(s, r) ==
    [next |-> s.next + 1, steps |-> s.steps + 1, successes |-> s.successes + r.n]

(* Mutation: a navigation or a rejection counts as a success. *)
AfterEveryStepSucceeds(s, r) ==
    IF r.kind = "unrecorded" THEN s
    ELSE [next |-> s.next + 1, steps |-> s.steps + 1, successes |-> s.successes + 1]

(* applyStepToState: a plan of n actions counts n successes.                *)
AfterStep(s, r) ==
    IF r.kind = "unrecorded" THEN s
    ELSE [next |-> s.next + 1, steps |-> s.steps + 1, successes |-> s.successes + r.n]

(* The attempt waited for reports; the workflow goes on to its next activity.*)
Report(i) ==
    /\ i = current
    /\ attempts[i].at = "report"
    /\ LET r == attempts[i].result IN
       /\ state' = IF task = "step" THEN AfterStep(state, r) ELSE state
       /\ results' = IF task = "step" THEN Append(results, r) ELSE results
       /\ task' = CASE task = "start"  -> "step"
                    [] task = "finish" -> "done"
                    [] task = "step"   -> IF \/ r.kind \in {"stop", "unrecorded"}
                                             \/ state'.next > MaxSteps
                                          THEN "finish" ELSE "step"
    /\ attempts' = [attempts EXCEPT ![i] = NoAttempt]
    /\ current' = 0
    /\ tries' = 0
    /\ UNCHANGED <<log, effects, overlapped>>

(* Temporal refuses the report of an attempt it gave up on.                 *)
ReportRefused(i) ==
    /\ i # current
    /\ attempts[i].at = "report"
    /\ attempts' = [attempts EXCEPT ![i] = NoAttempt]
    /\ UNCHANGED <<log, task, state, current, tries, effects, results, overlapped>>

Progress(i) == Statement(i) \/ Report(i) \/ ReportRefused(i)

(* The task is over, in the log's eyes or in Temporal's.                    *)
Over == ~Open /\ Running = {} /\ UNCHANGED vars

Next ==
    \/ Schedule \/ TimeOut \/ RetriesExhausted \/ Over
    \/ \E i \in Slots : Die(i) \/ Progress(i)

Spec == Init /\ [][Next]_vars

-----------------------------------------------------------------------------
SingleActions == \A k \in RowsOf("step") : log[k].result.n <= 1

(***************************************************************************)
(* The task's rows fold, whatever is killed when, as long as no attempt    *)
(* runs beside another and no plan has several actions (I5, GOAL.md:167;   *)
(* the counters are cross-checked by applyDelegationTerminal).             *)
(***************************************************************************)
FoldsUnlessOverlapped == ~overlapped /\ SingleActions => Replayed.ok

(***************************************************************************)
(* The same with plans of several actions: the counters the workflow hands *)
(* over always agree with the folded steps (workflows.ts:446-447).         *)
(***************************************************************************)
FoldsWithPlans == ~overlapped => Replayed.ok

(***************************************************************************)
(* Whatever is retried, killed or late: what the workflow applied for step *)
(* k is what some row of step k says, so its memory never runs ahead of    *)
(* the log (findRecordedStep returns the recorded result).                 *)
(***************************************************************************)
AppliedIsRecorded ==
    \A k \in DOMAIN results :
        \/ results[k] = Unrecorded
        \/ \E j \in RowsOfStep(k) : log[j].result = results[k]

(***************************************************************************)
(* A success that is counted happened: the web executed at least as many   *)
(* actions as the workflow counts, however many attempts there were.       *)
(***************************************************************************)
CountedHappened == state.successes <= effects

(***************************************************************************)
(* Without overlap the web's view follows the workflow: a task that runs   *)
(* its steps is known, a task it closed is terminal, with its counts, and  *)
(* before that the log is at most the running step ahead.                  *)
(***************************************************************************)
ViewFollowsWorkflow ==
    ~overlapped /\ SingleActions =>
        /\ task \in {"step", "finish", "done"} => Replayed.status # "none"
        /\ task = "done" => /\ Replayed.status = "terminal"
                            /\ Replayed.steps = state.steps
                            /\ Replayed.successes = state.successes
        /\ Replayed.steps \in {state.steps, state.steps + 1}
=============================================================================
