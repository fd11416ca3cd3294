--------------------------- MODULE AgentRunProofs ---------------------------
(***************************************************************************)
(* Proofs about AgentRun, for every number of runs, attempts and faults:   *)
(* the log of every run folds although every command was decided on a      *)
(* state that may be gone, an end is final, and the source is told what    *)
(* the run became.                                                         *)
(***************************************************************************)
EXTENDS AgentRun, NaturalsLemmas, SequenceTheorems, FiniteSetTheorems

Kinds == {"created", "prepared", "started", "cursor", "restarted",
          "succeeded", "failed", "cancelled"}
Statuses == {"queued", "preparing", "running"} \cup Terminal
Outcomes == {"succeeded", "failed"}
Points == {"begin", "append", "runtime", "started", "reported",
           "append start", "append cursor", "post", "posted"}
AppendPoints == {"append", "append start", "append cursor"}

Names == {"create", "dispatch-failed", "prepare", "restart", "start", "cursor",
          "finalize", "cancel"} \X Nat
Event == [kind : Kinds, name : Names, revision : Nat]
Decision == [run : Runs, kind : Kinds, name : Names, expected : Nat]

Active == [phase : {"prepare", "execute"}, attempt : Nat, outcome : {"none"}]
          \cup [phase : {"finalize"}, attempt : Nat, outcome : Outcomes]
Closed == [phase : {"closed"}, attempt : {0}, outcome : Outcomes]

(* Every log folds, and a run whose dispatch was recorded as failed is.      *)
DispatchFailed == <<"dispatch-failed", 0>>

RunOK(r) ==
    /\ Run(r) \in [status : Statuses \cup {"none"}, revision : Nat]
    /\ log[r] # <<>> => r <= spawned
    /\ (\E i \in DOMAIN log[r] : log[r][i].name = DispatchFailed) => Status(r) = "failed"

LogInv ==
    /\ spawned \in 0..MaxRuns
    /\ log \in [Runs -> Seq(Event)]
    /\ \A r \in Runs : RunOK(r)

SourceInv ==
    /\ source \in [node : {"ready", "waiting", "done", "failed"}, run : 0..MaxRuns]
    /\ source.node = "done" => source.run \in Runs /\ Status(source.run) = "succeeded"
    /\ source.node = "failed" => source.run \in Runs /\ Status(source.run) \in {"failed", "cancelled"}

(* The run at the head of the queue is the last one spawned until it is      *)
(* created; nobody else writes its log before.                              *)
OpInv ==
    /\ op \in [at : {"idle", "create", "start", "fail", "call"}, run : 0..MaxRuns]
    /\ up \in BOOLEAN /\ faults \in 0..MaxFaults
    /\ op.at = "create" => op.run \in Runs /\ op.run = spawned /\ log[op.run] = <<>>
    /\ op.at \in {"start", "fail", "call"} => op.run \in Runs /\ log[op.run] # <<>>
    /\ op.at = "call" => Status(op.run) = "failed"

HandlerOK(h) ==
    /\ h \in [run : Runs, attempt : Nat, outcome : Outcomes, at : {"look", "act"}]
    /\ h.at = "act" => Ended(h.run)

HandlersInv == \A h \in handlers : HandlerOK(h)

(* A command under way is one of a run that exists.                          *)
CommandOK(c, r) ==
    /\ c \in Decision
    /\ c.run = r /\ log[r] # <<>>
    /\ c.name # DispatchFailed

CancelInv == \A c \in cancelling : CommandOK(c, c.run)

AttemptOK(a) ==
    /\ a \in [run : Runs, wf : Active, at : Points, command : Decision \cup {NoCommand}]
    /\ wf[a.run].phase # "none" /\ log[a.run] # <<>>
    /\ CASE a.wf.phase = "prepare"  -> a.at \in {"begin", "append"}
         [] a.wf.phase = "execute"  -> a.at \notin {"post", "posted"}
         [] a.wf.phase = "finalize" -> a.at \in {"begin", "append", "post", "posted"}
    /\ a.at \in AppendPoints => CommandOK(a.command, a.run)

WorkerInv ==
    /\ wf \in [Runs -> Active \cup Closed \cup {NoWorkflow}]
    /\ \A r \in Runs : wf[r].phase # "none" => log[r] # <<>>
    /\ \A a \in attempts : AttemptOK(a)

IInv == LogInv /\ SourceInv /\ OpInv /\ HandlersInv /\ CancelInv /\ WorkerInv

-----------------------------------------------------------------------------
(* The fold of the log: Prefixes is the function its recursion describes,    *)
(* and one more event is one more FoldOne.                                  *)
IsPrefixes(f, events, n) ==
    /\ DOMAIN f = 0..n
    /\ f[0] = NoRun
    /\ \A i \in 1..n : f[i] = FoldOne(f[i - 1], events[i])

(* Some function folds the first n events of a log, event by event.         *)
LEMMA PrefixesExist ==
    ASSUME NEW events, NEW n \in Nat
    PROVE  \E f : IsPrefixes(f, events, n)
<1> DEFINE Missing == {m \in Nat : ~\E f : IsPrefixes(f, events, m)}
<1>1. SUFFICES ASSUME Missing # {} PROVE FALSE
  OBVIOUS
<1>2. PICK m \in Missing : \A k \in Missing : m <= k
  BY <1>1, LeastNatural
<1>3. CASE m = 0
  <2>1. IsPrefixes([i \in 0..0 |-> NoRun], events, 0)
    BY DEF IsPrefixes
  <2> QED BY <1>2, <1>3, <2>1
<1>4. CASE m # 0
  <2>1. m - 1 \in Nat /\ m \in Nat /\ m - 1 \notin Missing
    BY <1>2, <1>4
  <2>2. PICK f : IsPrefixes(f, events, m - 1)
    BY <2>1
  <2> DEFINE last == FoldOne(f[m - 1], events[m])
             g == [i \in 0..m |-> IF i = m THEN last ELSE f[i]]
  <2> HIDE DEF last
  <2>3. DOMAIN g = 0..m /\ g[0] = NoRun /\ g[m] = last
    BY <1>4, <2>1, <2>2 DEF IsPrefixes
  <2>4. \A i \in 0..(m - 1) : g[i] = f[i]
    BY <2>1
  <2>5. ASSUME NEW i \in 1..m PROVE g[i] = FoldOne(g[i - 1], events[i])
    <3>1. CASE i = m
      <4>1. g[i - 1] = f[m - 1]
        BY <2>1, <2>4, <3>1
      <4> QED BY <2>3, <3>1, <4>1 DEF last
    <3>2. CASE i # m
      <4>1. i \in 1..(m - 1) /\ i \in 0..(m - 1) /\ i - 1 \in 0..(m - 1)
        BY <2>1, <3>2
      <4> QED BY <2>2, <2>4, <4>1 DEF IsPrefixes
    <3> QED BY <3>1, <3>2
  <2> HIDE DEF g
  <2>6. IsPrefixes(g, events, m)
    BY <2>3, <2>5 DEF IsPrefixes
  <2> QED BY <1>2, <2>6
<1> QED
  BY <1>3, <1>4

(* The recursive function of the model is such a fold.                      *)
LEMMA PrefixesArePrefixes ==
    ASSUME NEW events, Len(events) \in Nat
    PROVE  IsPrefixes(Prefixes(events), events, Len(events))
<1> DEFINE Body(f) == [i \in 0..Len(events) |->
                         IF i = 0 THEN NoRun ELSE FoldOne(f[i - 1], events[i])]
<1>1. PICK f : IsPrefixes(f, events, Len(events))
  BY PrefixesExist
<1>2. f = Body(f)
  <2>1. f = [i \in 0..Len(events) |-> f[i]]
    BY <1>1 DEF IsPrefixes
  <2> QED BY <1>1, <2>1 DEF IsPrefixes
<1>3. Prefixes(events) = CHOOSE g : g = Body(g)
  BY DEF Prefixes
<1>4. Prefixes(events) = Body(Prefixes(events))
  BY <1>2, <1>3, Zenon
<1> HIDE DEF Body
<1>5. DOMAIN Body(Prefixes(events)) = 0..Len(events)
  BY DEF Body
<1>6. \A i \in 0..Len(events) :
        Body(Prefixes(events))[i] = IF i = 0 THEN NoRun
                                    ELSE FoldOne(Prefixes(events)[i - 1], events[i])
  BY DEF Body
<1> QED
  BY <1>4, <1>5, <1>6 DEF IsPrefixes

(* Two folds agree on the events their logs share.                          *)
LEMMA PrefixesAgree ==
    ASSUME NEW events, NEW longer, NEW n \in Nat, NEW m \in Nat, n <= m, NEW f, NEW g,
           IsPrefixes(f, events, n), IsPrefixes(g, longer, m),
           \A i \in 1..n : longer[i] = events[i]
    PROVE  f[n] = g[n]
<1> DEFINE Differ == {i \in 0..n : f[i] # g[i]}
<1>1. SUFFICES ASSUME Differ # {} PROVE FALSE
  OBVIOUS
<1>2. PICK k \in Differ : \A i \in Differ : k <= i
  <2>1. Differ \in SUBSET Nat
    OBVIOUS
  <2> QED BY <1>1, <2>1, LeastNatural
<1>3. k # 0
  BY <1>2 DEF IsPrefixes
<1>4. k \in 1..n /\ k - 1 \in 0..n /\ k - 1 \notin Differ
  BY <1>2, <1>3
<1>5. f[k - 1] = g[k - 1]
  BY <1>4
<1>6. f[k] = FoldOne(f[k - 1], events[k]) /\ g[k] = FoldOne(g[k - 1], longer[k])
  BY <1>4 DEF IsPrefixes
<1> QED
  BY <1>2, <1>4, <1>5, <1>6

(* An empty log folds to no run.                                            *)
LEMMA FoldEmpty == Fold(<<>>) = NoRun
<1>1. Len(<<>>) = 0
  OBVIOUS
<1> QED
  BY <1>1, PrefixesArePrefixes DEF IsPrefixes, Fold

(* An event appended to a log is applied to what the log folded to.         *)
LEMMA FoldAppended ==
    ASSUME NEW S, NEW events \in Seq(S), NEW e \in S
    PROVE  Fold(Append(events, e)) = FoldOne(Fold(events), e)
<1> DEFINE longer == Append(events, e)
           n == Len(events)
<1>1. /\ n \in Nat /\ Len(longer) = n + 1
      /\ longer[n + 1] = e /\ \A i \in 1..n : longer[i] = events[i]
  OBVIOUS
<1> HIDE DEF longer, n
<1>2. PICK m \in Nat : m = n + 1
  BY <1>1
<1>3. IsPrefixes(Prefixes(events), events, n) /\ IsPrefixes(Prefixes(longer), longer, m)
  BY <1>1, <1>2, PrefixesArePrefixes DEF n
<1>4. Prefixes(longer)[n] = Prefixes(events)[n]
  BY <1>1, <1>2, <1>3, PrefixesAgree
<1>5. m \in 1..m /\ m - 1 = n
  BY <1>1, <1>2
<1>6. Prefixes(longer)[m] = FoldOne(Prefixes(longer)[n], longer[m])
  BY <1>3, <1>5 DEF IsPrefixes
<1> QED
  BY <1>1, <1>2, <1>4, <1>6 DEF Fold, longer, n

-----------------------------------------------------------------------------
(* Folding: an event from a status that allows it never breaks the run.      *)
LEMMA AllowedFold ==
    ASSUME NEW run \in [status : Statuses \cup {"none"}, revision : Nat],
           NEW e \in Event, e.revision = run.revision + 1, run.status \in AllowedIn(e.kind)
    PROVE  /\ FoldOne(run, e) \in [status : Statuses, revision : Nat]
           /\ FoldOne(run, e).status = StatusAfter[e.kind]
           /\ run.status \notin Terminal
<1>1. e.kind \in Kinds /\ run.revision \in Nat
  BY DEF Event
<1>2. StatusAfter[e.kind] \in Statuses
  BY <1>1 DEF StatusAfter, Statuses, Terminal, Kinds
<1>3. run.status \notin Terminal
  BY <1>1 DEF AllowedIn, Kinds, Terminal, Cancellable
<1>4. FoldOne(run, e) = [status |-> StatusAfter[e.kind], revision |-> e.revision]
  BY DEF FoldOne
<1> QED
  BY <1>1, <1>2, <1>3, <1>4

(* What a write leaves of the other parts: ends are final, a run that exists *)
(* goes on existing, and no run appears.                                    *)
Grows ==
    \A r \in Runs :
        /\ Ended(r) => Status(r)' = Status(r)
        /\ log[r] # <<>> => log'[r] # <<>>

NoNewRun == \A r \in Runs : log[r] = <<>> => log'[r] = <<>>

(* A step that writes nothing keeps every end and starts no log.            *)
LEMMA UnchangedGrows ==
    ASSUME log' = log
    PROVE  Grows /\ NoNewRun
BY DEF Grows, NoNewRun, Status, Run

(* Writing a decision keeps every log one that folds, and touches the log of*)
(* its own run only.                                                        *)
LEMMA WriteKeeps ==
    ASSUME LogInv, NEW c \in Decision, c.run <= spawned, spawned' = spawned,
           c.name = DispatchFailed => c.kind = "failed",
           Write(c)
    PROVE  /\ LogInv' /\ Grows
           /\ \A r \in Runs \ {c.run} : log'[r] = log[r]
           /\ Applies(c) => log'[c.run] # <<>> /\ Status(c.run)' = StatusAfter[c.kind]
           /\ ~Applies(c) => log' = log
<1>1. CASE ~Applies(c)
  <2>1. log' = log
    BY <1>1 DEF Write
  <2>2. LogInv'
    BY <2>1 DEF LogInv, RunOK, Run, Status
  <2> QED BY <1>1, <2>1, <2>2, UnchangedGrows
<1>2. CASE Applies(c)
  <2> DEFINE e == EventOf(c)
             r == c.run
  <2>1. /\ r \in Runs /\ log \in [Runs -> Seq(Event)] /\ log[r] \in Seq(Event)
        /\ spawned \in 0..MaxRuns
    BY DEF LogInv, Decision
  <2>2. e \in Event /\ e.name = c.name /\ e.kind = c.kind /\ e.revision = c.expected + 1
    BY DEF EventOf, Event, Decision
  <2>3. RunOK(r)
    BY <2>1 DEF LogInv
  <2> HIDE DEF e, r
  <2>4. log' = [log EXCEPT ![r] = Append(@, e)]
    BY <1>2 DEF Write, e, r
  <2>5. log'[r] = Append(log[r], e) /\ \A q \in Runs \ {r} : log'[q] = log[q]
    BY <2>1, <2>4
  <2>6. PICK longer \in Seq(Event) : longer = Append(log[r], e)
    <3>1. Append(log[r], e) \in Seq(Event)
      BY <2>1, <2>2
    <3> QED BY <3>1, Zenon
  <2>7. /\ longer # <<>> /\ DOMAIN longer = 1..(Len(log[r]) + 1)
        /\ DOMAIN log[r] = 1..Len(log[r]) /\ Len(log[r]) \in Nat
        /\ longer[Len(log[r]) + 1] = e
        /\ \A i \in DOMAIN log[r] : longer[i] = log[r][i]
    BY <2>1, <2>2, <2>6
  <2>8. log'[r] = longer
    BY <2>5, <2>6
  <2>9. log' \in [Runs -> Seq(Event)]
    BY <2>1, <2>4, <2>6
  <2>10. Fold(longer) = FoldOne(Run(r), e)
    BY <2>1, <2>2, <2>6, FoldAppended DEF Run
  <2>11. /\ Run(r) \in [status : Statuses \cup {"none"}, revision : Nat]
         /\ e.revision = Run(r).revision + 1 /\ Run(r).status \in AllowedIn(e.kind)
    BY <1>2, <2>2, <2>3 DEF RunOK, Applies, Status, e, r
  <2>12. /\ Fold(longer) \in [status : Statuses, revision : Nat]
         /\ Fold(longer).status = StatusAfter[e.kind]
         /\ ~Ended(r)
    BY <2>2, <2>10, <2>11, AllowedFold DEF Ended, Status
  <2>13. Run(r)' = Fold(longer) /\ Status(r)' = StatusAfter[e.kind]
    BY <2>8, <2>12 DEF Run, Status
  <2>14. RunOK(r)'
    <3>1. Run(r)' \in [status : Statuses \cup {"none"}, revision : Nat]
      BY <2>12, <2>13
    <3>2. r <= spawned'
      BY DEF r
    <3>3. ASSUME NEW i \in DOMAIN longer, longer[i].name = DispatchFailed
          PROVE  Status(r)' = "failed"
      <4>1. CASE i \in DOMAIN log[r]
        BY <2>3, <2>7, <2>12, <3>3, <4>1 DEF RunOK, Ended, Terminal
      <4>2. CASE i = Len(log[r]) + 1
        <5>1. e.kind = "failed"
          BY <2>2, <2>7, <3>3, <4>2
        <5> QED BY <2>13, <5>1 DEF StatusAfter
      <4> QED BY <2>7, <4>1, <4>2
    <3> QED BY <2>8, <3>1, <3>2, <3>3 DEF RunOK
  <2>15. ASSUME NEW q \in Runs, q # r
         PROVE  RunOK(q)' /\ Run(q)' = Run(q) /\ log'[q] = log[q]
    <3>1. log'[q] = log[q]
      BY <2>5, <2>15
    <3>2. RunOK(q)
      BY DEF LogInv
    <3> QED BY <3>1, <3>2 DEF RunOK, Run, Status
  <2>16. LogInv'
    BY <2>1, <2>9, <2>14, <2>15 DEF LogInv
  <2>17. Grows
    BY <2>7, <2>8, <2>12, <2>15 DEF Grows, Status
  <2> QED
    BY <1>2, <2>2, <2>5, <2>7, <2>8, <2>13, <2>16, <2>17 DEF r
<1> QED
  BY <1>1, <1>2

(* The parts that only read the log keep under such a step.                  *)
LEMMA SourceKept ==
    ASSUME SourceInv, Grows, UNCHANGED source
    PROVE  SourceInv'
<1>1. CASE source.node = "done"
  BY <1>1 DEF SourceInv, Grows, Ended, Terminal
<1>2. CASE source.node = "failed"
  BY <1>2 DEF SourceInv, Grows, Ended, Terminal
<1>3. CASE source.node \notin {"done", "failed"}
  BY <1>3 DEF SourceInv
<1> QED
  BY <1>1, <1>2, <1>3

(* A step that leaves the queue's operation alone keeps what holds of it.   *)
LEMMA OpKept ==
    ASSUME OpInv, Grows, NoNewRun, UNCHANGED <<op, spawned>>,
           up' \in BOOLEAN, faults' \in 0..MaxFaults
    PROVE  OpInv'
<1>1. op.at = "call" => op.run \in Runs /\ Status(op.run)' = "failed"
  BY DEF OpInv, Grows, Ended, Terminal
<1>2. op.at = "create" => op.run \in Runs /\ log'[op.run] = <<>>
  BY DEF OpInv, NoNewRun
<1>3. op.at \in {"start", "fail", "call"} => op.run \in Runs /\ log'[op.run] # <<>>
  BY DEF OpInv, Grows
<1> QED
  BY <1>1, <1>2, <1>3 DEF OpInv

(* What a handler read of a run stays true as logs grow.                    *)
LEMMA HandlersKept ==
    ASSUME HandlersInv, Grows, NEW h \in handlers
    PROVE  HandlerOK(h)'
<1>1. HandlerOK(h) /\ h.run \in Runs
  BY DEF HandlersInv, HandlerOK
<1> QED
  BY <1>1 DEF HandlerOK, Grows, Ended

(* A command decided on stays one of its run as logs grow.                  *)
LEMMA CommandKept ==
    ASSUME NEW c, NEW r \in Runs, CommandOK(c, r), Grows
    PROVE  CommandOK(c, r)'
BY DEF CommandOK, Grows

(* Cancellations under way stay in agreement with the logs as these grow.   *)
LEMMA CancelKept ==
    ASSUME CancelInv, Grows, cancelling' \subseteq cancelling
    PROVE  CancelInv'
<1>1. \A c \in cancelling : CommandOK(c, c.run) /\ c.run \in Runs
  BY DEF CancelInv, CommandOK, Decision
<1> QED
  BY <1>1, CommandKept DEF CancelInv

-----------------------------------------------------------------------------
(* What an attempt may do: stay, return, throw or go on.                     *)
AtFits(phase, at) ==
    CASE phase = "prepare"  -> at \in {"begin", "append"}
      [] phase = "execute"  -> at \notin {"post", "posted"}
      [] phase = "finalize" -> at \in {"begin", "append", "post", "posted"}

(* The fields of a workflow, in the form the steps use.                     *)
LEMMA WorkflowFields ==
    /\ \A w \in Active : /\ w.phase \in {"prepare", "execute", "finalize"}
                         /\ w.attempt \in Nat
                         /\ w.outcome \in {"none"} \cup Outcomes
                         /\ w.phase = "finalize" => w.outcome \in Outcomes
                         /\ w.phase # "finalize" => w.outcome = "none"
    /\ \A w \in Closed : w.phase = "closed" /\ w.outcome \in Outcomes
BY DEF Active, Closed

(* The workflow values the worker moves to are workflows.                   *)
LEMMA Scheduled ==
    ASSUME NEW n \in Nat
    PROVE  /\ \A p \in {"prepare", "execute"} : In(p, n, "none") \in Active
           /\ \A o \in Outcomes : In("finalize", n, o) \in Active /\ In("closed", 0, o) \in Closed
BY DEF In, Active, Closed

(* The fields of an attempt, in the form the steps use.                     *)
LEMMA AttemptFields ==
    ASSUME NEW a, AttemptOK(a)
    PROVE  /\ a.run \in Runs /\ a.wf \in Active /\ a.at \in Points
           /\ a.wf.phase \in {"prepare", "execute", "finalize"}
           /\ AtFits(a.wf.phase, a.at)
           /\ log[a.run] # <<>>
BY WorkflowFields DEF AttemptOK, AtFits

(* An attempt no step touched stays in agreement as logs grow.              *)
LEMMA AttemptKept ==
    ASSUME WorkerInv, Grows, NEW a \in attempts, wf'[a.run].phase # "none"
    PROVE  AttemptOK(a)'
<1>1. AttemptOK(a) /\ a.run \in Runs
  BY DEF WorkerInv, AttemptOK
<1>2. log'[a.run] # <<>>
  BY <1>1 DEF AttemptOK, Grows
<1>3. a.at \in AppendPoints => CommandOK(a.command, a.run)'
  BY <1>1, CommandKept DEF AttemptOK
<1> QED
  BY <1>1, <1>2, <1>3 DEF AttemptOK

(* Dropping attempts keeps what holds of the worker.                        *)
LEMMA WorkerKept ==
    ASSUME WorkerInv, Grows, UNCHANGED wf, attempts' \subseteq attempts
    PROVE  WorkerInv'
<1>1. \A r \in Runs : wf'[r].phase # "none" => log'[r] # <<>>
  BY DEF WorkerInv, Grows
<1>2. \A a \in attempts : wf'[a.run].phase # "none"
  BY DEF WorkerInv, AttemptOK
<1>3. \A a \in attempts : AttemptOK(a)'
  BY <1>2, AttemptKept
<1> QED
  BY <1>1, <1>3 DEF WorkerInv

(* A new attempt agrees with the phase it was scheduled for.                *)
LEMMA FirstAttemptOK ==
    ASSUME NEW r \in Runs, NEW w \in Active, wf'[r].phase # "none", log'[r] # <<>>
    PROVE  AttemptOK(Attempt(r, w))'
<1> DEFINE a == Attempt(r, w)
<1>1. /\ a \in [run : Runs, wf : Active, at : Points, command : Decision \cup {NoCommand}]
      /\ a.run = r /\ a.wf = w /\ a.at = "begin"
  BY DEF Attempt, Points
<1>2. w.phase \in {"prepare", "execute", "finalize"}
  BY WorkflowFields
<1>3. "begin" \notin AppendPoints
  BY DEF AppendPoints
<1> HIDE DEF a
<1> QED
  <2>1. AttemptOK(a)'
    BY <1>1, <1>2, <1>3 DEF AttemptOK
  <2> QED BY <2>1 DEF a

(* Scheduling the next phase keeps what holds of the worker.                *)
LEMMA ScheduleKeeps ==
    ASSUME WorkerInv, Grows, NEW r \in Runs, log'[r] # <<>>,
           NEW w \in Active \cup Closed, NEW others \in SUBSET attempts,
           Schedule(r, w, others)
    PROVE  WorkerInv'
<1>1. w.phase # "none"
  BY WorkflowFields
<1>2. /\ wf' = [wf EXCEPT ![r] = w]
      /\ attempts' = others \cup IF w.phase = "closed" THEN {} ELSE {Attempt(r, w)}
  BY DEF Schedule
<1>3. wf \in [Runs -> Active \cup Closed \cup {NoWorkflow}]
  BY DEF WorkerInv
<1>4. wf' \in [Runs -> Active \cup Closed \cup {NoWorkflow}]
  BY <1>2, <1>3
<1>5. wf'[r] = w /\ \A q \in Runs \ {r} : wf'[q] = wf[q]
  BY <1>2, <1>3
<1>6. \A q \in Runs : wf'[q].phase # "none" => log'[q] # <<>>
  BY <1>5 DEF WorkerInv, Grows
<1>7. ASSUME NEW a \in attempts PROVE AttemptOK(a)'
  <2>1. AttemptOK(a) /\ a.run \in Runs
    BY DEF WorkerInv, AttemptOK
  <2>2. wf'[a.run].phase # "none"
    BY <1>1, <1>5, <2>1 DEF AttemptOK
  <2> QED BY <2>2, AttemptKept
<1>8. ASSUME w.phase # "closed" PROVE AttemptOK(Attempt(r, w))'
  <2>1. w \in Active
    BY <1>8, WorkflowFields
  <2> QED BY <1>1, <1>5, <2>1, FirstAttemptOK
<1>9. \A a \in attempts' : AttemptOK(a)'
  BY <1>2, <1>7, <1>8
<1> QED
  BY <1>4, <1>6, <1>9 DEF WorkerInv

(* So does an attempt that returns.                                         *)
LEMMA ReturnKeeps ==
    ASSUME WorkerInv, Grows, NEW a \in attempts, NEW w \in Active \cup Closed, Return(a, w)
    PROVE  WorkerInv'
<1>1. a.run \in Runs /\ log'[a.run] # <<>>
  BY DEF WorkerInv, AttemptOK, Grows
<1>2. CASE Current(a)
  <2>1. PICK others \in SUBSET attempts : others = Others(a)
    BY DEF Others
  <2>2. Schedule(a.run, w, others)
    BY <1>2, <2>1 DEF Return
  <2> QED BY <1>1, <2>1, <2>2, ScheduleKeeps
<1>3. CASE ~Current(a)
  BY <1>3, WorkerKept DEF Return, Others
<1> QED
  BY <1>2, <1>3

(* A phase that failed is tried again, or its workflow is moved on or       *)
(* closed.                                                                  *)
LEMMA AfterFailureTyped ==
    ASSUME NEW w \in Active
    PROVE  AfterFailure(w) \in Active \cup Closed
<1>1. /\ w.phase \in {"prepare", "execute", "finalize"} /\ w.attempt \in Nat
      /\ w.phase = "finalize" => w.outcome \in Outcomes
  BY WorkflowFields
<1>2. PICK n \in Nat : n = w.attempt + 1
  BY <1>1
<1>3. CASE w.phase = "prepare"
  BY <1>3, Scheduled DEF AfterFailure, Outcomes
<1>4. CASE w.phase = "execute"
  <2>1. In("execute", n, "none") \in Active /\ In("finalize", 1, "failed") \in Active
    BY Scheduled DEF Outcomes
  <2> QED BY <1>2, <1>4, <2>1 DEF AfterFailure
<1>5. CASE w.phase = "finalize"
  <2>1. In("finalize", n, w.outcome) \in Active /\ In("closed", 0, w.outcome) \in Closed
    BY <1>1, <1>5, Scheduled
  <2> QED BY <1>2, <1>5, <2>1 DEF AfterFailure
<1> QED
  BY <1>1, <1>3, <1>4, <1>5

(* So does an attempt that throws.                                          *)
LEMMA ThrowKeeps ==
    ASSUME WorkerInv, Grows, NEW a \in attempts, Throw(a)
    PROVE  WorkerInv'
<1>1. a.wf \in Active
  BY DEF WorkerInv, AttemptOK
<1>2. PICK w \in Active \cup Closed : w = AfterFailure(a.wf)
  BY <1>1, AfterFailureTyped
<1> QED
  BY <1>2, ReturnKeeps DEF Throw

(* So does an attempt that goes on to a point of its own phase.             *)
LEMMA ContinueKeeps ==
    ASSUME WorkerInv, Grows, NEW a \in attempts, NEW at \in Points,
           NEW c \in Decision \cup {NoCommand}, AtFits(a.wf.phase, at),
           at \in AppendPoints => CommandOK(c, a.run)',
           Continue(a, at, c)
    PROVE  WorkerInv'
<1> DEFINE b == [a EXCEPT !.at = at, !.command = c]
<1>1. AttemptOK(a) /\ a.run \in Runs
  BY DEF WorkerInv, AttemptOK
<1>2. /\ b \in [run : Runs, wf : Active, at : Points, command : Decision \cup {NoCommand}]
      /\ b.run = a.run /\ b.wf = a.wf /\ b.at = at /\ b.command = c
  BY <1>1 DEF AttemptOK
<1> HIDE DEF b
<1>3. attempts' = Others(a) \cup {b} /\ wf' = wf
  BY DEF Continue, b
<1>4. \A q \in Runs : wf'[q].phase # "none" => log'[q] # <<>>
  BY <1>3 DEF WorkerInv, Grows
<1>5. \A d \in attempts : wf'[d.run].phase # "none"
  BY <1>3 DEF WorkerInv, AttemptOK
<1>6. \A d \in attempts : AttemptOK(d)'
  BY <1>5, AttemptKept
<1>7. AttemptOK(b)'
  <2>1. wf'[b.run].phase # "none" /\ log'[b.run] # <<>>
    BY <1>1, <1>2, <1>4, <1>5
  <2> QED BY <1>2, <2>1 DEF AttemptOK, AtFits
<1> QED
  BY <1>3, <1>4, <1>6, <1>7 DEF WorkerInv, Others

(* A command of the model is one the log can decide on.                     *)
LEMMA CommandTyped ==
    ASSUME LogInv, NEW r \in Runs, NEW kind \in Kinds, NEW name \in Names
    PROVE  /\ Command(r, kind, name) \in Decision
           /\ Command(r, kind, name).run = r /\ Command(r, kind, name).name = name
           /\ Command(r, kind, name).kind = kind
<1>1. Run(r).revision \in Nat
  BY DEF LogInv, RunOK
<1> QED
  BY <1>1 DEF Command, Decision

(* Asking for a command of the attempt's own run keeps what holds of the    *)
(* worker.                                                                  *)
LEMMA AskKeeps ==
    ASSUME LogInv, WorkerInv, UNCHANGED log, NEW a \in attempts, NEW kind \in Kinds,
           NEW name \in Names, name # DispatchFailed, NEW then \in Points,
           AtFits(a.wf.phase, then), Ask(a, kind, name, then)
    PROVE  WorkerInv'
<1>1. a.run \in Runs /\ log[a.run] # <<>>
  BY DEF WorkerInv, AttemptOK
<1>2. PICK c \in Decision : /\ c = Command(a.run, kind, name) /\ c.run = a.run /\ c.name = name
  BY <1>1, CommandTyped
<1>3. CommandOK(c, a.run)'
  BY <1>1, <1>2 DEF CommandOK
<1>4. Grows
  BY UnchangedGrows
<1>5. Continue(a, then, c)
  BY <1>2 DEF Ask
<1> QED
  BY <1>3, <1>4, <1>5, ContinueKeeps

(* The handler of a callback answers: it is gone, and the attempt that waits *)
(* for it, if there still is one, returns or throws.                        *)
LEMMA AnswerKeeps ==
    ASSUME WorkerInv, Grows, NEW h, NEW ok, Answer(h, ok)
    PROVE  WorkerInv' /\ handlers' = handlers \ {h}
<1>1. handlers' = handlers \ {h}
  BY DEF Answer
<1>2. CASE ~\E a \in attempts : Poster(h, a)
  BY <1>1, <1>2, WorkerKept DEF Answer
<1>3. CASE \E a \in attempts : Poster(h, a)
  <2>1. PICK a : a \in attempts /\ Poster(h, a) /\ a = CHOOSE b \in attempts : Poster(h, b)
    BY <1>3
  <2>2. IF ok THEN Return(a, In("closed", 0, a.wf.outcome)) ELSE Throw(a)
    BY <1>3, <2>1 DEF Answer
  <2>3. a.wf.outcome \in Outcomes
    BY <2>1, WorkflowFields DEF WorkerInv, AttemptOK, Poster
  <2>4. PICK w \in Active \cup Closed : w = In("closed", 0, a.wf.outcome)
    BY <2>3, Scheduled
  <2>5. WorkerInv'
    BY <2>1, <2>2, <2>4, ReturnKeeps, ThrowKeeps
  <2> QED BY <1>1, <2>5
<1> QED
  BY <1>2, <1>3

-----------------------------------------------------------------------------
(* Each action keeps the invariant: the initial state, then the source and   *)
(* the queue of the web.                                                    *)
LEMMA InitInv == Init => IInv
<1> SUFFICES ASSUME Init PROVE IInv
  OBVIOUS
<1> USE AgentRunAssumption
<1>1. LogInv
  <2>1. log = [r \in Runs |-> <<>>] /\ <<>> \in Seq(Event)
    BY DEF Init
  <2>2. log \in [Runs -> Seq(Event)]
    BY <2>1
  <2>3. ASSUME NEW r \in Runs PROVE RunOK(r)
    <3>1. log[r] = <<>> /\ DOMAIN log[r] = {} /\ Run(r) = NoRun
      BY <2>1, FoldEmpty DEF Run
    <3>2. NoRun \in [status : Statuses \cup {"none"}, revision : Nat]
      BY DEF NoRun
    <3> QED BY <3>1, <3>2 DEF RunOK
  <2> QED BY <2>2, <2>3 DEF LogInv, Init
<1>2. SourceInv /\ OpInv
  BY DEF SourceInv, OpInv, Init, NoOp
<1>3. HandlersInv /\ CancelInv
  BY DEF HandlersInv, CancelInv, Init
<1>4. WorkerInv
  BY DEF WorkerInv, Init, NoWorkflow
<1> QED
  BY <1>1, <1>2, <1>3, <1>4 DEF IInv

(* A fault stays within the bound on faults.                                *)
LEMMA FaultTyped ==
    ASSUME OpInv, Fault
    PROVE  faults' \in 0..MaxFaults
BY AgentRunAssumption DEF OpInv, Fault

(* A step that writes no event and spawns no run changes only its own parts. *)
LEMMA NoWrite ==
    ASSUME LogInv, UNCHANGED <<log, spawned>>
    PROVE  LogInv' /\ Grows /\ NoNewRun
<1>1. LogInv'
  BY DEF LogInv, RunOK, Run, Status
<1> QED
  BY <1>1, UnchangedGrows

(* Dropping handlers keeps what holds of the rest.                          *)
LEMMA HandlersSame ==
    ASSUME HandlersInv, Grows, handlers' \subseteq handlers
    PROVE  HandlersInv'
BY HandlersKept DEF HandlersInv

LEMMA RequestStep ==
    ASSUME IInv, Request
    PROVE  IInv' /\ Grows
<1> USE AgentRunAssumption
<1>1. log' = log /\ spawned \in 0..MaxRuns /\ spawned' = spawned + 1 /\ spawned' \in Runs
  BY DEF Request, IInv, LogInv, Runs
<1>2. Grows
  BY <1>1, UnchangedGrows
<1>3. LogInv'
  <2>1. \A r \in Runs : r \in Nat /\ RunOK(r)
    BY DEF IInv, LogInv, Runs
  <2>2. ASSUME NEW r \in Runs PROVE RunOK(r)'
    <3>1. Run(r)' = Run(r) /\ Status(r)' = Status(r) /\ log'[r] = log[r]
      BY <1>1 DEF Run, Status
    <3>2. log[r] # <<>> => r <= spawned'
      BY <1>1, <2>1 DEF RunOK
    <3> QED BY <2>1, <3>1, <3>2 DEF RunOK
  <2> QED BY <1>1, <2>2 DEF IInv, LogInv, Runs
<1>4. SourceInv'
  BY DEF Request, IInv, SourceInv
<1>5. OpInv'
  <2>1. log[spawned + 1] = <<>>
    BY <1>1 DEF IInv, LogInv, RunOK, Runs
  <2>2. op' = [at |-> "create", run |-> spawned']
    BY DEF Request
  <2> QED BY <1>1, <2>1, <2>2 DEF Request, IInv, OpInv, Runs
<1>6. HandlersInv' /\ CancelInv' /\ WorkerInv'
  BY <1>2, HandlersSame, CancelKept, WorkerKept DEF Request, IInv
<1> QED
  BY <1>2, <1>3, <1>4, <1>5, <1>6 DEF IInv

LEMMA AgainStep ==
    ASSUME IInv, Again
    PROVE  IInv' /\ Grows
<1> USE AgentRunAssumption
<1>1. LogInv' /\ Grows /\ NoNewRun
  BY NoWrite DEF Again, IInv
<1>2. SourceInv'
  BY DEF Again, IInv, SourceInv
<1>3. OpInv'
  BY <1>1, OpKept DEF Again, IInv, OpInv
<1>4. HandlersInv' /\ CancelInv' /\ WorkerInv'
  BY <1>1, HandlersSame, CancelKept, WorkerKept DEF Again, IInv
<1> QED
  BY <1>1, <1>2, <1>3, <1>4 DEF IInv

(* The names the program gives its commands are names of the model.         *)
LEMMA CreateName ==
    /\ <<"create", 0>> \in Names /\ <<"prepare", 0>> \in Names /\ <<"start", 0>> \in Names
    /\ <<"finalize", 0>> \in Names /\ DispatchFailed \in Names
    /\ \A n \in Nat : /\ <<"restart", n>> \in Names /\ <<"cursor", n>> \in Names
                      /\ <<"cancel", n>> \in Names
BY DEF Names, DispatchFailed

(* None of them is the name of a dispatch that failed.                      *)
LEMMA OtherName ==
    /\ DispatchFailed \notin {<<"create", 0>>, <<"prepare", 0>>, <<"start", 0>>, <<"finalize", 0>>}
    /\ \A n \in Nat : DispatchFailed \notin {<<"restart", n>>, <<"cursor", n>>, <<"cancel", n>>}
BY DEF DispatchFailed

LEMMA CreateRunStep ==
    ASSUME IInv, CreateRun
    PROVE  IInv' /\ Grows
<1> USE AgentRunAssumption
<1>1. op.run \in Runs /\ op.run = spawned /\ log[op.run] = <<>>
  BY DEF CreateRun, IInv, OpInv
<1>2. PICK c \in Decision : /\ c = Command(op.run, "created", <<"create", 0>>)
                            /\ c.run = op.run /\ c.kind = "created" /\ c.name = <<"create", 0>>
  BY <1>1, CreateName, CommandTyped DEF IInv, Kinds
<1>3. Write(c) /\ spawned' = spawned /\ c.run <= spawned /\ c.name # DispatchFailed
  <2>1. c.name # DispatchFailed
    BY <1>2, OtherName, Zenon
  <2>2. Write(c) /\ spawned' = spawned
    BY <1>2 DEF CreateRun
  <2>3. c.run <= spawned
    BY <1>1, <1>2 DEF IInv, LogInv
  <2> QED BY <2>1, <2>2, <2>3
<1>4. Applies(c)
  <2>1. Run(c.run) = NoRun /\ DOMAIN log[c.run] = {}
    BY <1>1, <1>2, FoldEmpty DEF Run
  <2>2. c.expected = Run(c.run).revision
    BY <1>2 DEF Command
  <2> QED BY <1>2, <2>1, <2>2 DEF Applies, Known, Status, NoRun, AllowedIn
<1>5. LogInv' /\ Grows /\ log'[op.run] # <<>>
  BY <1>2, <1>3, <1>4, WriteKeeps DEF IInv
<1>6. OpInv'
  <2>1. op' = [op EXCEPT !.at = "start"]
    BY DEF CreateRun
  <2> QED BY <1>1, <1>5, <2>1 DEF CreateRun, IInv, OpInv
<1>7. SourceInv' /\ HandlersInv' /\ CancelInv' /\ WorkerInv'
  BY <1>5, SourceKept, HandlersSame, CancelKept, WorkerKept DEF CreateRun, IInv
<1> QED
  BY <1>5, <1>6, <1>7 DEF IInv

(* The workflow of the run at the head of the queue starts.                  *)
LEMMA StartKeeps ==
    ASSUME WorkerInv, Grows, UNCHANGED log, NEW r \in Runs, log[r] # <<>>,
           Schedule(r, In("prepare", 1, "none"), attempts)
    PROVE  WorkerInv'
<1>1. PICK w \in Active \cup Closed : w = In("prepare", 1, "none")
  BY Scheduled
<1> QED
  BY <1>1, ScheduleKeeps

LEMMA StartRunStep ==
    ASSUME IInv, StartRun
    PROVE  IInv' /\ Grows
<1> USE AgentRunAssumption
<1>1. LogInv' /\ Grows /\ NoNewRun
  BY NoWrite DEF StartRun, IInv
<1>2. op.run \in Runs /\ log[op.run] # <<>> /\ log' = log
  BY DEF StartRun, IInv, OpInv
<1>3. WorkerInv'
  BY <1>1, <1>2, StartKeeps DEF StartRun, IInv
<1>4. OpInv'
  BY DEF StartRun, IInv, OpInv, NoOp
<1>5. SourceInv' /\ HandlersInv' /\ CancelInv'
  BY <1>1, SourceKept, HandlersSame, CancelKept DEF StartRun, IInv
<1> QED
  BY <1>1, <1>3, <1>4, <1>5 DEF IInv

LEMMA StartFailsStep ==
    ASSUME IInv, StartFails
    PROVE  IInv' /\ Grows
<1>1. LogInv' /\ Grows /\ NoNewRun
  BY NoWrite DEF StartFails, IInv
<1>2. op.run \in Runs /\ log[op.run] # <<>> /\ log' = log
  BY DEF StartFails, IInv, OpInv
<1>3. WorkerInv'
  BY <1>1, <1>2, StartKeeps, WorkerKept DEF StartFails, IInv
<1>4. OpInv'
  <2>1. op' = [op EXCEPT !.at = "fail"] /\ faults' \in 0..MaxFaults
    BY FaultTyped DEF StartFails, IInv
  <2> QED BY <1>2, <2>1 DEF StartFails, IInv, OpInv
<1>5. SourceInv' /\ HandlersInv' /\ CancelInv'
  BY <1>1, SourceKept, HandlersSame, CancelKept DEF StartFails, IInv
<1> QED
  BY <1>1, <1>3, <1>4, <1>5 DEF IInv

(* A start that failed is recorded, or the run has ended otherwise before:   *)
(* only a record of the failure leads to the callback.                      *)
LEMMA FailRunStep ==
    ASSUME IInv, FailRun
    PROVE  IInv' /\ Grows
<1> USE AgentRunAssumption
<1>1. PICK r \in Runs : r = op.run /\ log[r] # <<>> /\ r <= spawned
  BY DEF FailRun, IInv, OpInv, LogInv, RunOK
<1>2. PICK c \in Decision : c = FailureOf(r) /\ c.run = r
                            /\ c.kind = "failed" /\ c.name = DispatchFailed
  <2>1. FailureOf(r) \in Decision
    BY CreateName DEF FailureOf, Decision, Kinds, DispatchFailed
  <2> QED BY <2>1 DEF FailureOf, DispatchFailed
<1>3. Write(c) /\ spawned' = spawned
  BY <1>1, <1>2 DEF FailRun
<1>4. /\ LogInv' /\ Grows
      /\ Applies(c) => Status(r)' = StatusAfter["failed"]
      /\ ~Applies(c) => log' = log
  BY <1>1, <1>2, <1>3, WriteKeeps DEF IInv
<1>5. Holds(c) => Status(r)' = "failed"
  <2>1. CASE Applies(c)
    BY <1>4, <2>1 DEF StatusAfter
  <2>2. CASE ~Applies(c) /\ Known(c)
    <3>1. Status(r) = "failed"
      BY <1>1, <1>2, <2>2 DEF Known, IInv, LogInv, RunOK
    <3> QED BY <1>1, <1>4, <3>1 DEF Grows, Ended, Terminal
  <2> QED BY <2>1, <2>2 DEF Holds
<1>6. OpInv'
  <2>1. op' = IF Holds(c) THEN [op EXCEPT !.at = "call"] ELSE NoOp
    BY <1>1, <1>2 DEF FailRun
  <2>2. log'[r] # <<>>
    BY <1>1, <1>4 DEF Grows
  <2>3. CASE Holds(c)
    <3>1. op' = [op EXCEPT !.at = "call"] /\ op'.at = "call" /\ op'.run = r
      BY <1>1, <2>1, <2>3 DEF IInv, OpInv
    <3> QED BY <1>1, <1>5, <2>2, <2>3, <3>1 DEF FailRun, IInv, OpInv
  <2>4. CASE ~Holds(c)
    BY <2>1, <2>4 DEF FailRun, IInv, OpInv, NoOp
  <2> QED BY <2>3, <2>4
<1>7. SourceInv' /\ HandlersInv' /\ CancelInv' /\ WorkerInv'
  BY <1>4, SourceKept, HandlersSame, CancelKept, WorkerKept DEF FailRun, IInv
<1> QED
  BY <1>4, <1>6, <1>7 DEF IInv

LEMMA CallBackFailedStep ==
    ASSUME IInv, CallBackFailed
    PROVE  IInv' /\ Grows
<1> USE AgentRunAssumption
<1>1. LogInv' /\ Grows /\ NoNewRun
  BY NoWrite DEF CallBackFailed, IInv
<1>2. PICK r \in Runs : r = op.run /\ Status(r)' = "failed"
  <2>1. op.run \in Runs /\ Status(op.run) = "failed"
    BY DEF CallBackFailed, IInv, OpInv
  <2> QED BY <1>1, <2>1 DEF Grows, Ended, Terminal
<1>3. SourceInv'
  <2>1. source' = [node |-> "failed", run |-> r]
    BY <1>2 DEF CallBackFailed, Accept
  <2> QED BY <1>2, <2>1 DEF SourceInv, Runs
<1>4. OpInv'
  BY DEF CallBackFailed, IInv, OpInv, NoOp
<1>5. HandlersInv' /\ CancelInv' /\ WorkerInv'
  BY <1>1, HandlersSame, CancelKept, WorkerKept DEF CallBackFailed, IInv
<1> QED
  BY <1>1, <1>3, <1>4, <1>5 DEF IInv

-----------------------------------------------------------------------------
(* The activities, the callbacks and the human.                              *)
LEMMA CountTyped ==
    ASSUME LogInv, NEW r \in Runs
    PROVE  Observed(r) \in Nat
<1> DEFINE S == {i \in DOMAIN log[r] : log[r][i].kind = "cursor"}
<1>1. Len(log[r]) \in Nat /\ DOMAIN log[r] = 1..Len(log[r])
  BY DEF LogInv
<1>2. IsFiniteSet(1..Len(log[r])) /\ S \subseteq 1..Len(log[r])
  BY <1>1, FS_Interval
<1>3. IsFiniteSet(S)
  BY <1>2, FS_Subset
<1> QED
  BY <1>3, FS_CardinalityType DEF Observed

LEMMA DecideStep ==
    ASSUME IInv, NEW a \in attempts, Decide(a)
    PROVE  IInv' /\ Grows
<1> USE AgentRunAssumption
<1>1. LogInv' /\ Grows /\ NoNewRun /\ log' = log
  BY NoWrite DEF Decide, IInv
<1>2. /\ a.run \in Runs /\ a.wf \in Active
      /\ a.wf.phase = "finalize" => a.wf.outcome \in Outcomes
      /\ a.wf.attempt \in Nat
  BY WorkflowFields DEF IInv, WorkerInv, AttemptOK
<1>3. \A w \in Active \cup Closed : Return(a, w) => WorkerInv'
  BY <1>1, ReturnKeeps DEF IInv
<1>4. \A at \in Points \ AppendPoints :
         AtFits(a.wf.phase, at) /\ Continue(a, at, NoCommand) => WorkerInv'
  BY <1>1, ContinueKeeps DEF IInv
<1>5. \A kind \in Kinds, name \in Names, then \in Points :
         name # DispatchFailed /\ AtFits(a.wf.phase, then) /\ Ask(a, kind, name, then) => WorkerInv'
  BY <1>1, AskKeeps DEF IInv
<1>6. ASSUME Prepare(a) PROVE WorkerInv'
  <2>1. a.wf.phase = "prepare" /\ (Ask(a, "prepared", <<"prepare", 0>>, "append") \/ Throw(a))
    BY <1>6 DEF Prepare
  <2>2. CASE Throw(a)
    BY <1>1, <2>2, ThrowKeeps DEF IInv
  <2>3. CASE Ask(a, "prepared", <<"prepare", 0>>, "append")
    <3>1. PICK name \in Names : name = <<"prepare", 0>> /\ name # DispatchFailed
      BY CreateName, OtherName, Zenon
    <3>2. "prepared" \in Kinds /\ "append" \in Points /\ AtFits(a.wf.phase, "append")
      BY <2>1 DEF Kinds, Points, AtFits
    <3> QED BY <1>5, <2>3, <3>1, <3>2
  <2> QED BY <2>1, <2>2, <2>3
<1>7. ASSUME Restart(a) PROVE WorkerInv'
  <2>1. PICK name \in Names : name = <<"restart", a.wf.attempt>> /\ name # DispatchFailed
    BY <1>2, CreateName, OtherName, Zenon
  <2>2. /\ a.wf.phase = "execute"
        /\ Continue(a, "runtime", NoCommand) \/ Ask(a, "restarted", name, "append")
    BY <1>7, <2>1 DEF Restart
  <2>3. /\ "restarted" \in Kinds /\ "append" \in Points /\ AtFits(a.wf.phase, "append")
        /\ "runtime" \in Points \ AppendPoints /\ AtFits(a.wf.phase, "runtime")
    BY <2>2 DEF Kinds, Points, AppendPoints, AtFits
  <2> QED BY <1>4, <1>5, <2>1, <2>2, <2>3
<1>8. ASSUME Report(a) PROVE WorkerInv'
  <2>1. PICK m \in Nat : m = Observed(a.run) + 1
    BY <1>2, CountTyped DEF IInv
  <2>2. PICK cursor \in Names : cursor = <<"cursor", m>> /\ cursor # DispatchFailed
    BY CreateName, OtherName, Zenon
  <2>3. PICK start \in Names : start = <<"start", 0>> /\ start # DispatchFailed
    BY CreateName, OtherName, Zenon
  <2>4. /\ a.wf.phase = "execute"
        /\ \/ Ask(a, "started", start, "append start")
           \/ Continue(a, "started", NoCommand)
           \/ Ask(a, "cursor", cursor, "append cursor")
           \/ Continue(a, "reported", NoCommand)
    BY <1>8, <2>1, <2>2, <2>3 DEF Report
  <2>5. /\ {"started", "cursor"} \subseteq Kinds
        /\ {"append start", "append cursor"} \subseteq Points
        /\ {"started", "reported"} \subseteq Points \ AppendPoints
        /\ \A at \in {"append start", "append cursor", "started", "reported"} :
              AtFits(a.wf.phase, at)
    BY <2>4 DEF Kinds, Points, AppendPoints, AtFits
  <2> QED BY <1>4, <1>5, <2>2, <2>3, <2>4, <2>5
<1>9. ASSUME Complete(a) PROVE WorkerInv'
  <2>1. \A o \in Outcomes : In("finalize", 1, o) \in Active \cup Closed
    BY Scheduled
  <2> QED BY <1>3, <1>9, <2>1 DEF Complete, Outcomes
<1>10. ASSUME Finalize(a) PROVE WorkerInv'
  <2>1. PICK name \in Names : name = <<"finalize", 0>> /\ name # DispatchFailed
    BY CreateName, OtherName, Zenon
  <2>2. /\ a.wf.phase = "finalize"
        /\ Continue(a, "post", NoCommand) \/ Ask(a, a.wf.outcome, name, "append")
    BY <1>10, <2>1 DEF Finalize
  <2>3. /\ a.wf.outcome \in Kinds /\ "append" \in Points /\ AtFits(a.wf.phase, "append")
        /\ "post" \in Points \ AppendPoints /\ AtFits(a.wf.phase, "post")
    BY <1>2, <2>2 DEF Kinds, Outcomes, Points, AppendPoints, AtFits
  <2> QED BY <1>4, <1>5, <2>1, <2>2, <2>3
<1>11. WorkerInv'
  BY <1>6, <1>7, <1>8, <1>9, <1>10 DEF Decide
<1>12. OpInv'
  BY <1>1, OpKept DEF Decide, IInv, OpInv
<1>13. SourceInv' /\ HandlersInv' /\ CancelInv'
  BY <1>1, SourceKept, HandlersSame, CancelKept DEF Decide, IInv
<1> QED
  BY <1>1, <1>11, <1>12, <1>13 DEF IInv

(* A command under way is written to a run that exists.                      *)
LEMMA CommandWritten ==
    ASSUME LogInv, NEW c, NEW r \in Runs, CommandOK(c, r), spawned' = spawned, Write(c)
    PROVE  LogInv' /\ Grows /\ NoNewRun
<1>1. c \in Decision /\ c.run = r /\ log[r] # <<>> /\ c.name # DispatchFailed
  BY DEF CommandOK
<1>2. c.run <= spawned
  BY <1>1 DEF LogInv, RunOK
<1>3. LogInv' /\ Grows /\ \A q \in Runs \ {r} : log'[q] = log[q]
  BY <1>1, <1>2, WriteKeeps
<1>4. NoNewRun
  BY <1>1, <1>3 DEF NoNewRun
<1> QED
  BY <1>3, <1>4

LEMMA AppendCommandStep ==
    ASSUME IInv, NEW a \in attempts, AppendCommand(a)
    PROVE  IInv' /\ Grows
<1>1. /\ a.run \in Runs /\ a.wf \in Active /\ AtFits(a.wf.phase, a.at)
      /\ a.wf.phase \in {"prepare", "execute", "finalize"}
      /\ a.at \in AppendPoints /\ CommandOK(a.command, a.run)
  BY AttemptFields DEF AppendCommand, IInv, WorkerInv, AttemptOK, AppendPoints
<1>2. LogInv' /\ Grows /\ NoNewRun
  BY <1>1, CommandWritten DEF AppendCommand, IInv
<1>3. \A at \in Points \ AppendPoints :
         AtFits(a.wf.phase, at) /\ Continue(a, at, NoCommand) => WorkerInv'
  BY <1>2, ContinueKeeps DEF IInv
<1>4. ASSUME Holds(a.command) PROVE WorkerInv'
  <2>1. Appended(a)
    BY <1>4 DEF AppendCommand
  <2>2. CASE a.wf.phase = "prepare"
    <3>1. PICK w \in Active \cup Closed : w = In("execute", 1, "none")
      BY Scheduled
    <3>2. Return(a, w)
      BY <1>1, <2>1, <2>2, <3>1 DEF Appended, AtFits
    <3> QED BY <1>2, <3>2, ReturnKeeps DEF IInv
  <2>3. CASE a.wf.phase = "execute"
    <3>1. \E at \in {"runtime", "started", "reported"} : Continue(a, at, NoCommand)
      BY <1>1, <2>1, <2>3 DEF Appended, AppendPoints
    <3>2. \A at \in {"runtime", "started", "reported"} :
             at \in Points \ AppendPoints /\ AtFits(a.wf.phase, at)
      BY <2>3 DEF Points, AppendPoints, AtFits
    <3> QED BY <1>3, <3>1, <3>2
  <2>4. CASE a.wf.phase = "finalize"
    <3>1. Continue(a, "post", NoCommand)
      BY <1>1, <2>1, <2>4 DEF Appended, AtFits
    <3>2. "post" \in Points \ AppendPoints /\ AtFits(a.wf.phase, "post")
      BY <2>4 DEF Points, AppendPoints, AtFits
    <3> QED BY <1>3, <3>1, <3>2
  <2> QED BY <1>1, <2>2, <2>3, <2>4
<1>5. ASSUME ~Holds(a.command) PROVE WorkerInv'
  <2>1. Throw(a) \/ Return(a, In("finalize", 1, "failed"))
    BY <1>5 DEF AppendCommand, Refused
  <2>2. PICK w \in Active \cup Closed : w = In("finalize", 1, "failed")
    BY Scheduled DEF Outcomes
  <2> QED BY <1>2, <2>1, <2>2, ThrowKeeps, ReturnKeeps DEF IInv
<1>6. OpInv'
  BY <1>2, OpKept DEF AppendCommand, IInv, OpInv
<1>7. SourceInv' /\ HandlersInv' /\ CancelInv'
  BY <1>2, SourceKept, HandlersSame, CancelKept DEF AppendCommand, IInv
<1> QED
  BY <1>2, <1>4, <1>5, <1>6, <1>7 DEF IInv

LEMMA TimeoutStep ==
    ASSUME IInv, NEW a \in attempts, Timeout(a)
    PROVE  IInv' /\ Grows
<1>1. LogInv' /\ Grows /\ NoNewRun /\ log' = log
  BY NoWrite DEF Timeout, IInv
<1>2. a.run \in Runs /\ a.wf \in Active /\ log'[a.run] # <<>>
  BY <1>1 DEF IInv, WorkerInv, AttemptOK
<1>3. PICK w \in Active \cup Closed : w = AfterFailure(a.wf)
  BY <1>2, AfterFailureTyped
<1>4. PICK others \in SUBSET attempts : Schedule(a.run, w, others)
  BY <1>3 DEF Timeout, Others
<1>5. WorkerInv'
  BY <1>1, <1>2, <1>4, ScheduleKeeps DEF IInv
<1>6. OpInv'
  BY <1>1, FaultTyped, OpKept DEF Timeout, IInv, OpInv
<1>7. SourceInv' /\ HandlersInv' /\ CancelInv'
  BY <1>1, SourceKept, HandlersSame, CancelKept DEF Timeout, IInv
<1> QED
  BY <1>1, <1>5, <1>6, <1>7 DEF IInv

LEMMA PostStep ==
    ASSUME IInv, NEW a \in attempts, Post(a)
    PROVE  IInv' /\ Grows
<1>1. LogInv' /\ Grows /\ NoNewRun /\ log' = log
  BY NoWrite DEF Post, IInv
<1>2. /\ a.run \in Runs /\ a.wf.phase = "finalize" /\ a.wf.outcome \in Outcomes
      /\ a.wf.attempt \in Nat
  BY WorkflowFields DEF Post, IInv, WorkerInv, AttemptOK
<1>3. HandlerOK(Handler(a))'
  BY <1>2 DEF HandlerOK, Handler
<1>4. HandlersInv'
  <2>1. handlers' \subseteq handlers \cup {Handler(a)}
    BY DEF Post
  <2>2. \A h \in handlers : HandlerOK(h)'
    BY <1>1, HandlersKept DEF IInv
  <2> QED BY <1>3, <2>1, <2>2 DEF HandlersInv
<1>5. WorkerInv'
  <2>1. "posted" \in Points \ AppendPoints /\ AtFits(a.wf.phase, "posted")
    BY <1>2 DEF Points, AppendPoints, AtFits
  <2>2. Continue(a, "posted", NoCommand) \/ Throw(a)
    BY DEF Post
  <2>3. Continue(a, "posted", NoCommand) => WorkerInv'
    BY <1>1, <2>1, ContinueKeeps DEF IInv
  <2>4. Throw(a) => WorkerInv'
    BY <1>1, ThrowKeeps DEF IInv
  <2> QED BY <2>2, <2>3, <2>4
<1>6. OpInv'
  BY <1>1, OpKept DEF Post, IInv, OpInv
<1>7. SourceInv' /\ CancelInv'
  BY <1>1, SourceKept, CancelKept DEF Post, IInv
<1> QED
  BY <1>1, <1>4, <1>5, <1>6, <1>7 DEF IInv

LEMMA DisconnectStep ==
    ASSUME IInv, NEW a \in attempts, Disconnect(a)
    PROVE  IInv' /\ Grows
<1>1. LogInv' /\ Grows /\ NoNewRun
  BY NoWrite DEF Disconnect, IInv
<1>2. WorkerInv'
  BY <1>1, ThrowKeeps DEF Disconnect, IInv
<1>3. OpInv'
  BY <1>1, OpKept DEF Disconnect, IInv, OpInv
<1>4. SourceInv' /\ HandlersInv' /\ CancelInv'
  BY <1>1, SourceKept, HandlersSame, CancelKept DEF Disconnect, IInv
<1> QED
  BY <1>1, <1>2, <1>3, <1>4 DEF IInv

(* A handler acts only on a run that has ended, and an end is final.         *)
LEMMA LookStep ==
    ASSUME IInv, NEW h \in handlers, Look(h)
    PROVE  IInv' /\ Grows
<1>1. LogInv' /\ Grows /\ NoNewRun /\ log' = log
  BY NoWrite DEF Look, IInv
<1>2. HandlerOK(h)
  BY DEF IInv, HandlersInv
<1>3. \/ Answer(h, TRUE) \/ Answer(h, FALSE)
      \/ /\ Ended(h.run)
         /\ handlers' = (handlers \ {h}) \cup {[h EXCEPT !.at = "act"]}
         /\ UNCHANGED <<wf, attempts>>
  BY DEF Look
<1>4. HandlersInv' /\ WorkerInv'
  <2>1. CASE Answer(h, TRUE) \/ Answer(h, FALSE)
    <3>1. WorkerInv' /\ handlers' \subseteq handlers
      BY <1>1, <2>1, AnswerKeeps DEF IInv
    <3> QED BY <1>1, <3>1, HandlersSame DEF IInv
  <2>2. CASE /\ Ended(h.run)
             /\ handlers' = (handlers \ {h}) \cup {[h EXCEPT !.at = "act"]}
             /\ UNCHANGED <<wf, attempts>>
    <3>1. HandlerOK([h EXCEPT !.at = "act"])'
      <4>1. PICK g : g = [h EXCEPT !.at = "act"]
        OBVIOUS
      <4>2. /\ g \in [run : Runs, attempt : Nat, outcome : Outcomes, at : {"look", "act"}]
            /\ g.run = h.run
        BY <1>2, <4>1 DEF HandlerOK
      <4>3. h.run \in Runs /\ Status(h.run)' = Status(h.run)
        BY <1>1, <1>2 DEF HandlerOK, Status, Run
      <4>4. HandlerOK(g)'
        BY <2>2, <4>2, <4>3 DEF HandlerOK, Ended
      <4> QED BY <4>1, <4>4
    <3>2. \A d \in handlers : HandlerOK(d)'
      BY <1>1, HandlersKept DEF IInv
    <3>3. HandlersInv'
      BY <2>2, <3>1, <3>2 DEF HandlersInv
    <3>4. WorkerInv'
      BY <1>1, <2>2, WorkerKept DEF IInv
    <3> QED BY <3>3, <3>4
  <2> QED BY <1>3, <2>1, <2>2
<1>5. OpInv'
  BY <1>1, OpKept DEF Look, IInv, OpInv
<1>6. SourceInv' /\ CancelInv'
  BY <1>1, SourceKept, CancelKept DEF Look, IInv
<1> QED
  BY <1>1, <1>4, <1>5, <1>6 DEF IInv

LEMMA ActStep ==
    ASSUME IInv, NEW h \in handlers, Act(h)
    PROVE  IInv' /\ Grows
<1> USE AgentRunAssumption
<1>1. LogInv' /\ Grows /\ NoNewRun /\ log' = log
  BY NoWrite DEF Act, IInv
<1>2. h.run \in Runs /\ Ended(h.run) /\ Status(h.run)' = Status(h.run)
  BY <1>1 DEF Act, IInv, HandlersInv, HandlerOK, Status, Run
<1>3. Answer(h, TRUE) \/ Answer(h, FALSE)
  BY DEF Act
<1>4. HandlersInv' /\ WorkerInv'
  <2>1. WorkerInv' /\ handlers' \subseteq handlers
    BY <1>1, <1>3, AnswerKeeps DEF IInv
  <2> QED BY <1>1, <2>1, HandlersSame DEF IInv
<1>5. SourceInv'
  <2>1. CASE source.node = "waiting"
    <3>1. source' = [node |-> Direction(h), run |-> h.run]
      BY <2>1 DEF Act, Accept
    <3>2. CASE Status(h.run) = "succeeded"
      <4>1. source' = [node |-> "done", run |-> h.run]
        BY <3>1, <3>2 DEF Direction
      <4> QED BY <1>2, <3>2, <4>1 DEF SourceInv, Runs
    <3>3. CASE Status(h.run) \in {"failed", "cancelled"}
      <4>1. source' = [node |-> "failed", run |-> h.run]
        BY <3>1, <3>3 DEF Direction
      <4> QED BY <1>2, <3>3, <4>1 DEF SourceInv, Runs
    <3> QED BY <1>2, <3>2, <3>3 DEF Ended, Terminal
  <2>2. CASE source.node # "waiting"
    BY <1>1, <2>2, SourceKept DEF Act, IInv
  <2> QED BY <2>1, <2>2
<1>6. OpInv'
  BY <1>1, OpKept DEF Act, IInv, OpInv
<1>7. CancelInv'
  BY <1>1, CancelKept DEF Act, IInv
<1> QED
  BY <1>1, <1>4, <1>5, <1>6, <1>7 DEF IInv

LEMMA CancelStep ==
    ASSUME IInv, NEW r \in Runs, Cancel(r)
    PROVE  IInv' /\ Grows
<1>1. LogInv' /\ Grows /\ NoNewRun /\ log' = log
  BY NoWrite DEF Cancel, IInv
<1>2. log[r] # <<>>
  BY FoldEmpty DEF Cancel, Status, Run, NoRun, Cancellable
<1>3. PICK n \in Nat : n = Run(r).revision + 1
  BY DEF IInv, LogInv, RunOK
<1>4. PICK name \in Names : name = <<"cancel", n>> /\ name # DispatchFailed
  BY CreateName, OtherName, Zenon
<1>5. PICK c \in Decision : c = Command(r, "cancelled", name) /\ c.run = r /\ c.name = name
  BY CommandTyped DEF IInv, Kinds
<1>6. CommandOK(c, c.run)'
  BY <1>1, <1>2, <1>4, <1>5 DEF CommandOK
<1>7. cancelling' = cancelling \cup {c}
  BY <1>3, <1>4, <1>5 DEF Cancel
<1>8. CancelInv'
  <2>1. \A d \in cancelling : CommandOK(d, d.run) /\ d.run \in Runs
    BY DEF IInv, CancelInv, CommandOK, Decision
  <2>2. \A d \in cancelling : CommandOK(d, d.run)'
    BY <1>1, <2>1, CommandKept
  <2> QED BY <1>6, <1>7, <2>2 DEF CancelInv
<1>9. OpInv'
  BY <1>1, OpKept DEF Cancel, IInv, OpInv
<1>10. SourceInv' /\ HandlersInv' /\ WorkerInv'
  BY <1>1, SourceKept, HandlersSame, WorkerKept DEF Cancel, IInv
<1> QED
  BY <1>1, <1>8, <1>9, <1>10 DEF IInv

LEMMA AppendCancelStep ==
    ASSUME IInv, NEW c \in cancelling, AppendCancel(c)
    PROVE  IInv' /\ Grows
<1>1. CommandOK(c, c.run) /\ c.run \in Runs
  BY DEF IInv, CancelInv, CommandOK, Decision
<1>2. LogInv' /\ Grows /\ NoNewRun
  BY <1>1, CommandWritten DEF AppendCancel, IInv
<1>3. CancelInv'
  BY <1>2, CancelKept DEF AppendCancel, IInv
<1>4. OpInv'
  BY <1>2, OpKept DEF AppendCancel, IInv, OpInv
<1>5. SourceInv' /\ HandlersInv' /\ WorkerInv'
  BY <1>2, SourceKept, HandlersSame, WorkerKept DEF AppendCancel, IInv
<1> QED
  BY <1>2, <1>3, <1>4, <1>5 DEF IInv

LEMMA CrashStep ==
    ASSUME IInv, Crash
    PROVE  IInv' /\ Grows
<1> USE AgentRunAssumption
<1>1. LogInv' /\ Grows /\ NoNewRun
  BY NoWrite DEF Crash, IInv
<1>2. OpInv'
  <2>1. faults' \in 0..MaxFaults
    BY FaultTyped DEF Crash, IInv
  <2>2. /\ op' \in [at : {"idle", "create", "start", "fail", "call"}, run : 0..MaxRuns]
        /\ op'.at = "idle"
    <3>1. op' = NoOp
      BY Zenon DEF Crash
    <3> QED BY <3>1 DEF NoOp
  <2>3. up' \in BOOLEAN
    BY Zenon DEF Crash
  <2> QED BY <2>1, <2>2, <2>3 DEF OpInv
<1>3. SourceInv' /\ HandlersInv' /\ CancelInv' /\ WorkerInv'
  BY <1>1, SourceKept, HandlersSame, CancelKept, WorkerKept DEF Crash, IInv
<1> QED
  BY <1>1, <1>2, <1>3 DEF IInv

LEMMA BootStep ==
    ASSUME IInv, Boot
    PROVE  IInv' /\ Grows
<1>1. LogInv' /\ Grows /\ NoNewRun
  BY NoWrite DEF Boot, IInv
<1>2. OpInv'
  BY <1>1, OpKept DEF Boot, IInv, OpInv
<1>3. SourceInv' /\ HandlersInv' /\ CancelInv' /\ WorkerInv'
  BY <1>1, SourceKept, HandlersSame, CancelKept, WorkerKept DEF Boot, IInv
<1> QED
  BY <1>1, <1>2, <1>3 DEF IInv

LEMMA StutterStep ==
    ASSUME IInv, UNCHANGED vars
    PROVE  IInv' /\ Grows
<1>1. LogInv' /\ Grows /\ NoNewRun
  BY NoWrite DEF vars, IInv
<1>2. OpInv'
  BY <1>1, OpKept DEF vars, IInv, OpInv
<1>3. SourceInv' /\ HandlersInv' /\ CancelInv' /\ WorkerInv'
  BY <1>1, SourceKept, HandlersSame, CancelKept, WorkerKept DEF vars, IInv
<1> QED
  BY <1>1, <1>2, <1>3 DEF IInv

LEMMA NextInv == IInv /\ [Next]_vars => IInv' /\ Grows
<1> SUFFICES ASSUME IInv, [Next]_vars PROVE IInv' /\ Grows
  OBVIOUS
<1>1. ASSUME Humans PROVE IInv' /\ Grows
  BY <1>1, RequestStep, AgainStep, CancelStep DEF Humans
<1>2. ASSUME Web PROVE IInv' /\ Grows
  BY <1>2, CreateRunStep, StartRunStep, StartFailsStep, FailRunStep, CallBackFailedStep,
     LookStep, ActStep, AppendCancelStep, CrashStep, BootStep DEF Web
<1>3. ASSUME Worker PROVE IInv' /\ Grows
  BY <1>3, DecideStep, AppendCommandStep, TimeoutStep, PostStep, DisconnectStep DEF Worker
<1> QED
  BY <1>1, <1>2, <1>3, StutterStep DEF Next

-----------------------------------------------------------------------------
(* The inductive invariant holds: every log folds, every command under way   *)
(* is one of a run that exists, and what the queue, the callbacks and the    *)
(* source hold of a run that ended stays true.                              *)
THEOREM Invariance == Spec => []IInv
<1>1. IInv /\ [Next]_vars => IInv'
  BY NextInv
<1> QED
  BY InitInv, <1>1, PTL DEF Spec

(* The type invariant holds for every number of runs and of attempts; no     *)
(* workflow runs without a log, no log is of a run nobody spawned.          *)
THEOREM TypeCorrect == Spec => []TypeOK
<1>1. IInv => TypeOK
  <2> SUFFICES ASSUME IInv PROVE TypeOK
    OBVIOUS
  <2>1. ASSUME NEW r \in Runs
        PROVE  wf[r].phase \in Phases /\ wf[r].outcome \in Terminal \cup {"none"}
    <3>1. wf[r] \in Active \cup Closed \cup {NoWorkflow}
      BY DEF IInv, WorkerInv
    <3> QED BY <3>1, WorkflowFields DEF Phases, Terminal, Outcomes, NoWorkflow
  <2>2. \A r \in Runs : wf[r].phase # "none" => log[r] # <<>>
    BY DEF IInv, WorkerInv
  <2>3. \A r \in Runs : log[r] # <<>> => r <= spawned
    BY DEF IInv, LogInv, RunOK
  <2>4. \A a \in attempts : wf[a.run].phase # "none"
    BY DEF IInv, WorkerInv, AttemptOK
  <2> QED BY <2>1, <2>2, <2>3, <2>4 DEF TypeOK, IInv, LogInv, SourceInv, OpInv
<1> QED
  BY Invariance, <1>1, PTL

(* The log of every run folds, whoever writes, however late: revisions are   *)
(* consecutive and statuses follow each other.                              *)
THEOREM LogsFold == Spec => []LogFolds
<1>1. IInv => LogFolds
  BY DEF IInv, LogInv, RunOK, LogFolds, Status, Statuses, Terminal
<1> QED
  BY Invariance, <1>1, PTL

(* A callback tells the source what the run became: a run that was cancelled *)
(* or failed is never called done, nor one that succeeded called failed.    *)
THEOREM SourceTold == Spec => []SourceAgreesWithRun
<1>1. IInv => SourceAgreesWithRun
  BY DEF IInv, SourceInv, SourceAgreesWithRun
<1> QED
  BY Invariance, <1>1, PTL

(* An end is final, and no log is emptied: no later command, of an attempt   *)
(* that outlived its timeout or of a human, changes what a run became.      *)
EndsStand == [][Grows]_vars

(* Every step keeps the ends: it is a conjunct of what each step lemma shows.*)
THEOREM EndsAreFinal == Spec => EndsStand
<1>1. IInv /\ [Next]_vars => [Grows]_vars
  BY NextInv
<1> QED
  BY Invariance, <1>1, PTL DEF Spec, EndsStand
=============================================================================
