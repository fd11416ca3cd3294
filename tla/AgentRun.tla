------------------------------ MODULE AgentRun ------------------------------
(***************************************************************************)
(* Agent runs: an action of a source entity spawns a run.  The web process *)
(* creates it in the run log and starts a workflow; the activities of the  *)
(* worker prepare, execute and finalize it by commands to the same log; a  *)
(* human may cancel it; and the last activity calls the source back.       *)
(*                                                                         *)
(* A command names the revision it was decided at.  An activity that timed *)
(* out is retried while the old attempt may go on.  The callback looks at  *)
(* the source in one turn of the queue and acts on it in a later one.      *)
(***************************************************************************)
EXTENDS Integers, Sequences, FiniteSets

CONSTANTS
    MaxRuns,      \* bound: spawns of the source
    MaxExecute,   \* retry.maximumAttempts of the execute activity
    MaxFinalize,  \* retry.maximumAttempts of the finalize activity
    MaxFaults     \* bound: crashes, timeouts, failed starts

ASSUME AgentRunAssumption ==
    /\ MaxRuns \in Nat /\ MaxExecute \in Nat \ {0} /\ MaxFinalize \in Nat \ {0}
    /\ MaxFaults \in Nat

VARIABLES
    source,      \* the entity: its node, and the run of its last callback (0: cleared)
    spawned,     \* spawn-requested rows in the core log; run r is the r-th
    log,         \* run -> its events in the run log: kind, command, revision
    op,          \* the operation at the head of the web's queue: what it does next, and for whom
    up,          \* the web process runs
    handlers,    \* callbacks the web has accepted and not yet answered
    cancelling,  \* cancel commands decided and not yet appended
    wf,          \* run -> its workflow: phase, attempt, outcome
    attempts,    \* activities under way, the timed-out ones included
    faults

vars == <<source, spawned, log, op, up, handlers, cancelling, wf, attempts, faults>>

Runs == 1..MaxRuns
Terminal == {"succeeded", "failed", "cancelled"}
Cancellable == {"queued", "preparing", "running"}

Fault == faults < MaxFaults /\ faults' = faults + 1

-----------------------------------------------------------------------------
(* The run log.  An event folds at the revision after the folded ones and    *)
(* from a status that allows its kind.                                       *)
StatusAfter == [created |-> "queued", prepared |-> "preparing", started |-> "running",
                cursor |-> "running", restarted |-> "running", succeeded |-> "succeeded",
                failed |-> "failed", cancelled |-> "cancelled"]

AllowedIn(kind) ==
    CASE kind = "created" -> {"none"}
      [] kind = "prepared" -> {"queued"}
      [] kind = "started" -> {"preparing"}
      [] kind \in {"cursor", "restarted", "succeeded"} -> {"running"}
      [] kind \in {"failed", "cancelled"} -> Cancellable

NoRun == [status |-> "none", revision |-> 0]
Broken == [status |-> "broken", revision |-> 0]

FoldOne(run, event) ==
    IF event.revision = run.revision + 1 /\ run.status \in AllowedIn(event.kind)
    THEN [status |-> StatusAfter[event.kind], revision |-> event.revision]
    ELSE Broken

Prefixes(events) ==
    LET upTo[i \in 0..Len(events)] ==
            IF i = 0 THEN NoRun ELSE FoldOne(upTo[i - 1], events[i])
    IN  upTo

Fold(events) == Prefixes(events)[Len(events)]

Run(r) == Fold(log[r])
Status(r) == Run(r).status
Ended(r) == Status(r) \in Terminal

(* A command as it was decided: the event it asks for, a name that is the    *)
(* same in every retry, and the revision it was decided at.                  *)
Command(r, kind, name) == [run |-> r, kind |-> kind, name |-> name, expected |-> Run(r).revision]
EventOf(c) == [kind |-> c.kind, name |-> c.name, revision |-> c.expected + 1]

Known(c) == \E i \in DOMAIN log[c.run] : log[c.run][i].name = c.name

(* Mutation: the state is loaded before the lock is taken.                   *)
AppliesUnlocked(c) == ~Known(c)

(* The locks are held from the load of the log to the commit of the event.   *)
Applies(c) == ~Known(c) /\ c.expected = Run(c.run).revision /\ Status(c.run) \in AllowedIn(c.kind)

Holds(c) == Known(c) \/ Applies(c)
Write(c) == log' = IF Applies(c) THEN [log EXCEPT ![c.run] = Append(@, EventOf(c))] ELSE log

-----------------------------------------------------------------------------
Idle == up /\ op.at = "idle"
NoOp == [at |-> "idle", run |-> 0]

NoWorkflow == [phase |-> "none", attempt |-> 0, outcome |-> "none"]
In(phase, n, o) == [phase |-> phase, attempt |-> n, outcome |-> o]

(* The first step of an activity; its later ones change "at" and "command".  *)
NoCommand == [run |-> 0, kind |-> "none", name |-> <<"none", 0>>, expected |-> 0]
Attempt(r, w) == [run |-> r, wf |-> w, at |-> "begin", command |-> NoCommand]

(* The workflow goes to a phase: it schedules an attempt of its activity.    *)
Schedule(r, w, others) ==
    /\ wf' = [wf EXCEPT ![r] = w]
    /\ attempts' = others \union IF w.phase = "closed" THEN {} ELSE {Attempt(r, w)}

Current(a) == wf[a.run] = a.wf
Others(a) == attempts \ {a}

(* An activity returns or throws; nobody listens to one that timed out.      *)
Return(a, w) ==
    IF Current(a) THEN Schedule(a.run, w, Others(a))
    ELSE attempts' = Others(a) /\ UNCHANGED wf

AfterFailure(w) ==
    CASE w.phase = "prepare" -> In("finalize", 1, "failed")
      [] w.phase = "execute" -> IF w.attempt < MaxExecute THEN In("execute", w.attempt + 1, "none")
                                ELSE In("finalize", 1, "failed")
      [] w.phase = "finalize" -> IF w.attempt < MaxFinalize
                                 THEN In("finalize", w.attempt + 1, w.outcome)
                                 ELSE In("closed", 0, w.outcome)

Throw(a) == Return(a, AfterFailure(a.wf))
Continue(a, at, c) ==
    /\ attempts' = Others(a) \union {[a EXCEPT !.at = at, !.command = c]}
    /\ UNCHANGED wf
-----------------------------------------------------------------------------
Init ==
    /\ source = [node |-> "ready", run |-> 0]
    /\ spawned = 0
    /\ log = [r \in Runs |-> <<>>]
    /\ op = NoOp
    /\ up = TRUE
    /\ handlers = {}
    /\ cancelling = {}
    /\ wf = [r \in Runs |-> NoWorkflow]
    /\ attempts = {}
    /\ faults = 0

(* The source: a spawning action, and the one that clears it for another.    *)
Request ==
    /\ Idle /\ source.node = "ready" /\ spawned < MaxRuns
    /\ source' = [source EXCEPT !.node = "waiting"]
    /\ spawned' = spawned + 1
    /\ op' = [at |-> "create", run |-> spawned']
    /\ UNCHANGED <<log, up, handlers, cancelling, wf, attempts, faults>>

Again ==
    /\ Idle /\ source.node \in {"done", "failed"}
    /\ source' = [node |-> "ready", run |-> 0]
    /\ UNCHANGED <<spawned, log, op, up, handlers, cancelling, wf, attempts, faults>>

(* Mutation: the creation is not waited for, and gets lost.                  *)
CreateRunUnwritten ==
    /\ up /\ op.at = "create"
    /\ op' = [op EXCEPT !.at = "start"]
    /\ UNCHANGED <<source, spawned, log, up, handlers, cancelling, wf, attempts,
                   faults>>

(* Still in the queue: the run is created, then its workflow is started.     *)
CreateRun ==
    /\ up /\ op.at = "create"
    /\ Write(Command(op.run, "created", <<"create", 0>>))
    /\ op' = [op EXCEPT !.at = "start"]
    /\ UNCHANGED <<source, spawned, up, handlers, cancelling, wf, attempts, faults>>

StartRun ==
    /\ up /\ op.at = "start"
    /\ Schedule(op.run, In("prepare", 1, "none"), attempts)
    /\ op' = NoOp
    /\ UNCHANGED <<source, spawned, log, up, handlers, cancelling, faults>>

(* The start fails for the web; it may have taken effect all the same.       *)
StartFails ==
    /\ up /\ op.at = "start" /\ Fault
    /\ \/ Schedule(op.run, In("prepare", 1, "none"), attempts)
       \/ UNCHANGED <<wf, attempts>>
    /\ op' = [op EXCEPT !.at = "fail"]
    /\ UNCHANGED <<source, spawned, log, up, handlers, cancelling>>

(* The run is failed at the revision of its creation, or the error is thrown. *)
FailureOf(r) == [run |-> r, kind |-> "failed", name |-> <<"dispatch-failed", 0>>, expected |-> 1]

FailRun ==
    /\ up /\ op.at = "fail"
    /\ Write(FailureOf(op.run))
    /\ op' = IF Holds(FailureOf(op.run)) THEN [op EXCEPT !.at = "call"] ELSE NoOp
    /\ UNCHANGED <<source, spawned, up, handlers, cancelling, wf, attempts, faults>>

Accept(r, node) == source' = [node |-> node, run |-> r]

CallBackFailed ==
    /\ up /\ op.at = "call"
    /\ Accept(op.run, "failed")
    /\ op' = NoOp
    /\ UNCHANGED <<spawned, log, up, handlers, cancelling, wf, attempts, faults>>

-----------------------------------------------------------------------------
(* The activities of the worker.  Each reads the run, decides on a command,  *)
(* and appends it; where the append is refused it throws, except inside the  *)
(* runtime, where the refusal is a failed execution.                         *)
Ask(a, kind, name, then) == Continue(a, then, Command(a.run, kind, name))

Prepare(a) ==
    /\ a.wf.phase = "prepare" /\ a.at = "begin"
    /\ IF Status(a.run) = "queued"
       THEN Ask(a, "prepared", <<"prepare", 0>>, "append")
       ELSE Throw(a)

(* A second attempt records that it restarts a running run.                  *)
Restart(a) ==
    /\ a.wf.phase = "execute" /\ a.at = "begin"
    /\ IF a.wf.attempt = 1
       THEN Continue(a, "runtime", NoCommand)
       ELSE Ask(a, "restarted", <<"restart", a.wf.attempt>>, "append")

Observed(r) == Cardinality({i \in DOMAIN log[r] : log[r][i].kind = "cursor"})

(* The runtime reports that it runs, then a progress; then it ends.          *)
Report(a) ==
    /\ a.wf.phase = "execute"
    /\ \/ /\ a.at = "runtime"
          /\ IF Status(a.run) = "preparing"
             THEN Ask(a, "started", <<"start", 0>>, "append start")
             ELSE Continue(a, "started", NoCommand)
       \/ /\ a.at = "started"
          /\ IF Status(a.run) = "running"
             THEN Ask(a, "cursor", <<"cursor", Observed(a.run) + 1>>, "append cursor")
             ELSE Continue(a, "reported", NoCommand)

(* The runtime fails, or what it completed passes the verification or not.   *)
Complete(a) ==
    /\ a.wf.phase = "execute" /\ a.at = "reported"
    /\ \E outcome \in {"succeeded", "failed"} : Return(a, In("finalize", 1, outcome))

(* Mutation: nothing is left to do for a run that ended otherwise.           *)
FinalizeUnlessEnded(a) ==
    /\ a.wf.phase = "finalize" /\ a.at = "begin"
    /\ IF Ended(a.run)
       THEN Return(a, In("closed", 0, a.wf.outcome))
       ELSE Ask(a, a.wf.outcome, <<"finalize", 0>>, "append")

(* A run that ended otherwise, by a cancel, keeps its end.                   *)
Finalize(a) ==
    /\ a.wf.phase = "finalize" /\ a.at = "begin"
    /\ IF Ended(a.run)
       THEN Continue(a, "post", NoCommand)
       ELSE Ask(a, a.wf.outcome, <<"finalize", 0>>, "append")

Decide(a) ==
    /\ Prepare(a) \/ Restart(a) \/ Report(a) \/ Complete(a) \/ Finalize(a)
    /\ UNCHANGED <<source, spawned, log, op, up, handlers, cancelling, faults>>

Appended(a) ==
    CASE a.wf.phase = "prepare" -> Return(a, In("execute", 1, "none"))
      [] a.wf.phase = "execute" /\ a.at = "append" -> Continue(a, "runtime", NoCommand)
      [] a.at = "append start" -> Continue(a, "started", NoCommand)
      [] a.at = "append cursor" -> Continue(a, "reported", NoCommand)
      [] a.wf.phase = "finalize" -> Continue(a, "post", NoCommand)

Refused(a) ==
    IF a.at \in {"append start", "append cursor"}
    THEN Return(a, In("finalize", 1, "failed"))
    ELSE Throw(a)

AppendCommand(a) ==
    /\ a.at \in {"append", "append start", "append cursor"}
    /\ Write(a.command)
    /\ IF Holds(a.command) THEN Appended(a) ELSE Refused(a)
    /\ UNCHANGED <<source, spawned, op, up, handlers, cancelling, faults>>

(* The attempt exceeds its time: the worker is gone, or it still works on.   *)
Timeout(a) ==
    /\ Current(a) /\ Fault
    /\ \E others \in {attempts, Others(a)} : Schedule(a.run, AfterFailure(a.wf), others)
    /\ UNCHANGED <<source, spawned, log, op, up, handlers, cancelling>>

-----------------------------------------------------------------------------
(* The callback.  The web finds a source that carries the run already, or    *)
(* acts on it in another turn of the queue.                                  *)
Handler(a) == [run |-> a.run, attempt |-> a.wf.attempt, outcome |-> a.wf.outcome, at |-> "look"]

Post(a) ==
    /\ a.wf.phase = "finalize" /\ a.at = "post"
    /\ IF up
       THEN handlers' = handlers \union {Handler(a)} /\ Continue(a, "posted", NoCommand)
       ELSE Throw(a) /\ UNCHANGED handlers
    /\ UNCHANGED <<source, spawned, log, op, up, cancelling, faults>>

Poster(h, a) ==
    a.run = h.run /\ a.wf.phase = "finalize" /\ a.wf.attempt = h.attempt /\ a.at = "posted"

Answer(h, ok) ==
    /\ handlers' = handlers \ {h}
    /\ IF \E a \in attempts : Poster(h, a)
       THEN LET a == CHOOSE b \in attempts : Poster(h, b)
            IN  IF ok THEN Return(a, In("closed", 0, a.wf.outcome)) ELSE Throw(a)
       ELSE UNCHANGED <<wf, attempts>>

Carries(h) == source.run = h.run

Look(h) ==
    /\ Idle /\ h.at = "look"
    /\ CASE Carries(h) -> Answer(h, TRUE)
         [] ~Carries(h) /\ ~Ended(h.run) -> Answer(h, FALSE)
         [] OTHER -> /\ handlers' = (handlers \ {h}) \union {[h EXCEPT !.at = "act"]}
                     /\ UNCHANGED <<wf, attempts>>
    /\ UNCHANGED <<source, spawned, log, op, up, cancelling, faults>>

(* Mutation: the posted outcome decides, not the run.                        *)
DirectionPosted(h) == IF h.outcome = "succeeded" THEN "done" ELSE "failed"

Direction(h) == IF Status(h.run) = "succeeded" THEN "done" ELSE "failed"

Act(h) ==
    /\ Idle /\ h.at = "act"
    /\ IF source.node = "waiting"
       THEN Accept(h.run, Direction(h)) /\ Answer(h, TRUE)
       ELSE Answer(h, FALSE) /\ UNCHANGED source
    /\ UNCHANGED <<spawned, log, op, up, cancelling, faults>>

-----------------------------------------------------------------------------
(* A human cancels: the run is read, then the command is appended.  The      *)
(* workflow is not told.                                                     *)
Cancel(r) ==
    /\ up /\ Status(r) \in Cancellable
    /\ \A c \in cancelling : c.run # r
    /\ cancelling' = cancelling \union {Command(r, "cancelled", <<"cancel", Run(r).revision + 1>>)}
    /\ UNCHANGED <<source, spawned, log, op, up, handlers, wf, attempts, faults>>

AppendCancel(c) ==
    /\ Write(c)
    /\ cancelling' = cancelling \ {c}
    /\ UNCHANGED <<source, spawned, op, up, handlers, wf, attempts, faults>>

Crash ==
    /\ up /\ Fault
    /\ up' = FALSE
    /\ op' = NoOp
    /\ handlers' = {} /\ cancelling' = {}
    /\ UNCHANGED <<source, spawned, log, wf, attempts>>

Boot ==
    /\ ~up
    /\ up' = TRUE
    /\ UNCHANGED <<source, spawned, log, op, handlers, cancelling, wf, attempts, faults>>

(* The connection of a call that was under way breaks.                       *)
Disconnect(a) ==
    /\ a.at = "posted"
    /\ \A h \in handlers : ~Poster(h, a)
    /\ Throw(a)
    /\ UNCHANGED <<source, spawned, log, op, up, handlers, cancelling, faults>>

Web ==
    \/ CreateRun \/ StartRun \/ StartFails \/ FailRun \/ CallBackFailed
    \/ \E h \in handlers : Look(h) \/ Act(h)
    \/ \E c \in cancelling : AppendCancel(c)
    \/ Crash \/ Boot

Humans == Request \/ Again \/ \E r \in Runs : Cancel(r)

Worker ==
    \E a \in attempts : Decide(a) \/ AppendCommand(a) \/ Timeout(a) \/ Post(a) \/ Disconnect(a)

Next == Humans \/ Web \/ Worker

(* The supervisor restarts the web, the queue moves on, and the workflow     *)
(* engine drives the current attempt of every run.                           *)
Progress(r) ==
    \E a \in attempts :
        /\ a.run = r /\ Current(a)
        /\ Decide(a) \/ AppendCommand(a) \/ Post(a) \/ Disconnect(a)

Fairness ==
    /\ WF_vars(Boot)
    /\ WF_vars(CreateRun \/ StartRun \/ FailRun \/ CallBackFailed)
    /\ WF_vars(\E h \in handlers : Look(h) \/ Act(h))
    /\ \A r \in Runs : WF_vars(Progress(r))

Spec == Init /\ [][Next]_vars /\ Fairness

-----------------------------------------------------------------------------
(* Types; the workflow of a run follows its creation.                        *)
Phases == {"none", "prepare", "execute", "finalize", "closed"}

TypeOK ==
    /\ source \in [node : {"ready", "waiting", "done", "failed"}, run : 0..MaxRuns]
    /\ spawned \in 0..MaxRuns
    /\ op \in [at : {"idle", "create", "start", "fail", "call"}, run : 0..MaxRuns]
    /\ up \in BOOLEAN /\ faults \in 0..MaxFaults
    /\ \A r \in Runs :
          /\ wf[r].phase \in Phases /\ wf[r].outcome \in Terminal \union {"none"}
          /\ wf[r].phase # "none" => log[r] # <<>>
          /\ log[r] # <<>> => r <= spawned
    /\ \A a \in attempts : wf[a.run].phase # "none"

(* The log of every run folds: whoever writes, however late, revisions are   *)
(* consecutive, statuses follow each other, and an end is final.             *)
LogFolds == \A r \in Runs : Status(r) # "broken"

(* A callback tells the source what the run became, not what the workflow    *)
(* thought: a run that was cancelled or failed is never called done.         *)
SourceAgreesWithRun ==
    /\ source.node = "done" => Status(source.run) = "succeeded"
    /\ source.node = "failed" => Status(source.run) \in {"failed", "cancelled"}

(* As long as the web stays up, a source whose run has been started leaves   *)
(* the waiting node: the run ends, cancelled or not, and calls back, in      *)
(* spite of a timeout and of attempts that overlap.                          *)
Unanswered == source.node = "waiting" /\ wf[spawned].phase # "none"

AnsweredUnlessDown == []up => (Unanswered ~> ~Unanswered)
=============================================================================
